--------------------------- MODULE PropagationEngine ---------------------------
(***************************************************************************)
(* decompress/Solvers/PropagationEngine: from the residual rho (target     *)
(* minus ones) and the unknown count u of a line, force its unknown cells  *)
(* (rho = 0: all 0; rho = u: all 1) and requeue the lines of every forced  *)
(* cell, until nothing is left to force or a line has rho outside 0..u.    *)
(* One step pops one line or forces one cell.                              *)
(***************************************************************************)
EXTENDS ConstraintStore, SequencesExt

CONSTANTS
  WordBits,   \* lines per word of queued_ (64 in the code)
  DirtyRoom   \* entries dirtyWords_ has room for (kQueuedWords, in the code)

ASSUME QueueAssumption == WordBits \in Nat \ {0} /\ DirtyRoom \in Nat

VARIABLES
  target,      \* stats_[line].target: the cross-sums of the payload, fixed
  work,        \* work_ from front on
  queued,      \* queued_: the lines whose bit is set
  dirtyWords,  \* the first dirtyCount_ entries of dirtyWords_
  forcing,     \* the line whose cells are being forced, and to what value
  forced,      \* forced_: the cells forced by this call, in order
  prop         \* where the call is: "idle", "run", "feasible", "infeasible"

queue  == <<queued, dirtyWords>>
engine == <<work, queue, forcing, forced, prop>>

NotForcing == [line |-> Line("row", 0), value |-> Unassigned]

EngineInit ==
  /\ work = <<>>
  /\ queued = {}
  /\ dirtyWords = <<>>
  /\ forcing = NotForcing
  /\ forced = <<>>
  /\ prop = "idle"

-------------------------------------------------------------------------------
Before(x, y) == x[1] < y[1] \/ (x[1] = y[1] /\ x[2] < y[2])

\* The first of some cells in row-major order.
IsFirst(x, S) == x \in S /\ \A y \in S \ {x} : Before(x, y)
FirstOf(S)    == CHOOSE x \in S : IsFirst(x, S)

Residual(l) == target[l] - ones[l]

Violated(l) == Residual(l) < 0 \/ Residual(l) > unknown[l]
Forces(l)   == unknown[l] > 0 /\ (Residual(l) = 0 \/ Residual(l) = unknown[l])

\* forEachCellOnLine visits every line in row-major order; the order inside an
\* LTP line is its table's, which the model fixes to row-major too.
ToForce == IF forcing.value = Unassigned THEN {} ELSE UnknownOn(forcing.line)

\* ConstraintStore::lineIndex, and the word of queued_ that holds its bit.
lineIndex(l) ==
  l[2] + [row |-> 0, column |-> kS, diagonal |-> 2 * kS, antiDiagonal |-> 4 * kS - 1,
          ltp1 |-> 6 * kS - 2, ltp2 |-> 7 * kS - 2][l[1]]

WordOf(l) == lineIndex(l) \div WordBits

kQueuedWords == (8 * kS - 2 + WordBits - 1) \div WordBits

\* dirtyWords_ is as long as queued_ in the code; the model may give it more room.
ASSUME RoomAssumption == DirtyRoom >= kQueuedWords

\* dirtyWords_[dirtyCount_++] = word.  The entry after the last one is the byte
\* of dirtyCount_ itself: the write makes the word's number the new count.
NoteDirty(dirty, word) ==
  IF Len(dirty) < DirtyRoom THEN Append(dirty, word) ELSE SubSeq(dirty, 1, word)

\* markQueued, for each of some lines in turn.  A word is noted when it was zero,
\* also when it has been noted before and clearQueued has emptied it since.
IsFresh(lines, bits, i) ==
  \A l \in bits \cup {lines[j] : j \in 1..(i - 1)} : WordOf(l) # WordOf(lines[i])

\* dirtyWords_ once the first i lines are marked.
DirtyAfter(lines, bits, dirty) ==
  LET after[i \in 0..Len(lines)] ==
        IF i = 0 THEN dirty
        ELSE IF IsFresh(lines, bits, i) THEN NoteDirty(after[i - 1], WordOf(lines[i]))
        ELSE after[i - 1]
  IN  after

MarkAll(lines, bits, dirty) ==
  /\ queued' = bits \cup Range(lines)
  /\ dirtyWords' = DirtyAfter(lines, bits, dirty)[Len(lines)]

\* A variant that trusts the last call to have emptied the queue.
NoReset == queued

\* What is left of queued_ once resetQueued has zeroed the noted words.
AfterReset == {l \in queued : WordOf(l) \notin Range(dirtyWords)}

\* propagate(lines), called with forced_ already cleared.
Propagate(lines) ==
  /\ work' = lines
  /\ MarkAll(lines, AfterReset, <<>>)
  /\ forcing' = NotForcing
  /\ forced' = <<>>
  /\ prop' = "run"

PopViolated ==
  /\ prop = "run" /\ ToForce = {} /\ work # <<>>
  /\ Violated(Head(work))
  /\ work' = <<>>
  /\ forcing' = NotForcing
  /\ queued' = queued \ {Head(work)}
  /\ prop' = "infeasible"
  /\ UNCHANGED <<store, dirtyWords, forced>>

\* A variant that leaves the line it reads on the queue.
PopLineKeeping ==
  /\ prop = "run" /\ ToForce = {} /\ work # <<>>
  /\ ~Violated(Head(work))
  /\ forcing' = IF ~Forces(Head(work)) THEN NotForcing
                ELSE [line |-> Head(work),
                      value |-> IF Residual(Head(work)) = 0 THEN 0 ELSE 1]
  /\ UNCHANGED <<store, work, queue, forced, prop>>

PopLine ==
  /\ prop = "run" /\ ToForce = {} /\ work # <<>>
  /\ ~Violated(Head(work))
  /\ work' = Tail(work)
  /\ queued' = queued \ {Head(work)}
  /\ forcing' = IF ~Forces(Head(work)) THEN NotForcing
                ELSE [line |-> Head(work),
                      value |-> IF Residual(Head(work)) = 0 THEN 0 ELSE 1]
  /\ UNCHANGED <<store, dirtyWords, forced, prop>>

ForceCell ==
  /\ prop = "run"
  /\ \E x \in Cells :
       LET on == LinesForCell(x)
           unlessQueued(l) == IF l \in queued THEN <<>> ELSE <<l>>
       IN  /\ IsFirst(x, ToForce)
           /\ Assign(x, forcing.value)
           /\ forced' = Append(forced, x)
           /\ work' = work \o unlessQueued(on[1]) \o unlessQueued(on[2]) \o unlessQueued(on[3])
                           \o unlessQueued(on[4]) \o unlessQueued(on[5]) \o unlessQueued(on[6])
           /\ MarkAll(on, queued, dirtyWords)
  /\ UNCHANGED <<forcing, prop>>

Quiesce ==
  /\ prop = "run" /\ ToForce = {} /\ work = <<>>
  /\ forcing' = NotForcing
  /\ prop' = "feasible"
  /\ UNCHANGED <<store, work, queue, forced>>

EngineStep == PopViolated \/ PopLine \/ ForceCell \/ Quiesce

\* tryPropagateCell: look at the six lines of the cell just assigned, and run
\* the queue only when one of them forces something.
TryPropagateCell(x) ==
  LET on == Range(LinesForCell(x))
  IN  IF (\A l \in on : ~Violated(l)) /\ (\E l \in on : Forces(l))
      THEN Propagate(LinesForCell(x))
      ELSE /\ forced' = <<>>
           /\ prop' = IF \E l \in on : Violated(l) THEN "infeasible" ELSE "feasible"
           /\ UNCHANGED <<work, queue, forcing>>

-------------------------------------------------------------------------------
EngineTypeOK ==
  /\ target \in [Lines -> Int]
  /\ work \in Seq(Lines)
  /\ queued \subseteq Lines
  /\ dirtyWords \in Seq(0..(kQueuedWords - 1))
  /\ forcing \in [line : Lines, value : CellState]
  /\ forced \in Seq(Cells)
  /\ prop \in {"idle", "run", "feasible", "infeasible"}

\* Propagation says nothing false: cells forced from a partial assignment that
\* a matrix m with these cross-sums extends agree with m, and such a partial
\* assignment is never called infeasible.
AgreesOn(m, S) == \A x \in S : cells[x] \in {m[x], Unassigned}

SoundFor(m) ==
  AgreesOn(m, Cells \ Range(forced)) => AgreesOn(m, Cells) /\ prop # "infeasible"

\* queued_ and the queue agree while a call runs: no line waits twice, and no
\* line is taken for queued when it is not and so left out of the cascade.
QueuedExact ==
  prop = "run" => queued = Range(work) /\ Cardinality(queued) = Len(work)

\* When propagation reports success from a state where the other lines were
\* settled, every line is: nothing violated, nothing left to force.
Settled == \A l \in Lines : ~Violated(l) /\ ~Forces(l)
===============================================================================
