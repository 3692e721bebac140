----------------------------- MODULE StallDetector -----------------------------
(***************************************************************************)
(* decompress/Solvers/StallDetector: compares the greatest depth of the    *)
(* search in each window of updates with the one before and steps k up     *)
(* after windows without progress, down after windows with.  The search    *)
(* runs belief propagation whenever k has gone up.                         *)
(***************************************************************************)
EXTENDS Integers

CONSTANTS
  kCheckpointInterval,   \* updates in a window (2^20 in the code)
  kStallThreshold,       \* windows without progress before k goes up (3)
  kRecoveryThreshold,    \* windows with progress before k goes down (6)
  kMaxK                  \* (4)

kMinK == 0

ASSUME StallAssumption ==
  /\ {kCheckpointInterval, kStallThreshold, kRecoveryThreshold} \subseteq Nat \ {0}
  /\ kMaxK \in Nat \ {0}

Byte == 0..255

DetectorType ==
  [updates : 0..(kCheckpointInterval - 1), windowMax : Nat, prevWindowMax : Nat,
   stalls : Byte, recoveries : Byte, k : kMinK..kMaxK]

NewDetector ==
  [updates |-> 0, windowMax |-> 0, prevWindowMax |-> 0,
   stalls |-> 0, recoveries |-> 0, k |-> 1]

Uint8(n) == n % 256

Larger(a, b) == IF a >= b THEN a ELSE b

\* update, at a checkpoint: whether the window made no progress.
Stalled(d) == d.windowMax <= d.prevWindowMax

afterStall(d) ==
  LET up == Uint8(d.stalls + 1) >= kStallThreshold /\ d.k < kMaxK
  IN  [d EXCEPT !.stalls = IF up THEN 0 ELSE Uint8(@ + 1), !.recoveries = 0,
                !.k = IF up THEN @ + 1 ELSE @]

\* A variant that steps down past the least k.
afterRecoveryUnbounded(d) ==
  LET down == Uint8(d.recoveries + 1) >= kRecoveryThreshold
  IN  [d EXCEPT !.recoveries = IF down THEN 0 ELSE Uint8(@ + 1), !.stalls = 0,
                !.k = IF down THEN @ - 1 ELSE @]

afterRecovery(d) ==
  LET down == Uint8(d.recoveries + 1) >= kRecoveryThreshold /\ d.k > kMinK
  IN  [d EXCEPT !.recoveries = IF down THEN 0 ELSE Uint8(@ + 1), !.stalls = 0,
                !.k = IF down THEN @ - 1 ELSE @]

update(d, depth) ==
  LET seen == [d EXCEPT !.windowMax = Larger(@, depth),
                        !.updates = (@ + 1) % kCheckpointInterval]
      next == IF Stalled(seen) THEN afterStall(seen) ELSE afterRecovery(seen)
  IN  IF seen.updates # 0 THEN seen
      ELSE [next EXCEPT !.prevWindowMax = seen.windowMax, !.windowMax = 0]
===============================================================================
