--------------------------- MODULE AsyncHashPipeline ---------------------------
(***************************************************************************)
(* decompress/Solvers/AsyncHashPipeline: the search thread ("dfs") submits *)
(* candidate matrices to a bounded queue; a background thread              *)
(* ("verifier") hashes their rows and queues the ones that match; the      *)
(* search thread polls, and at the end drains, the verified queue.         *)
(*                                                                         *)
(* Two mutexes and three condition variables.  Each condition variable has *)
(* at most one waiter, so a thread asleep in cv.wait is a thread at its    *)
(* ...Wait label, and notify_one moves it to the label that reacquires the *)
(* mutex.  Evaluating a wait's predicate and going to sleep are two steps: *)
(* that window is where a notification sent without the mutex gets lost.   *)
(* A candidate is the number of its submission.                            *)
(***************************************************************************)
EXTENDS Naturals, Sequences, Functions

CONSTANTS
  maxPending,    \* capacity of pending_ (8 in EnumerationController)
  MaxCandidates  \* bound of the model: candidates one search produces

ASSUME maxPendingAssumption == maxPending \in Nat \ {0}
ASSUME MaxCandidatesAssumption == MaxCandidates \in Nat

VARIABLES
  passing,       \* candidates whose rows all match the lateral hashes (fixed)
  submitted,     \* number of candidates submitted so far
  pending,       \* pending_
  verified,      \* verified_
  done,          \* done_
  verifierDone,  \* verifierDone_
  pendingMtx,    \* holder of pendingMtx_
  verifiedMtx,   \* holder of verifiedMtx_
  dfs,           \* where the search thread is
  ver,           \* where the verifier thread is
  candidate,     \* verifierLoop's local: the candidate it popped
  stop,          \* the consumer wants no more solutions
  delivered,     \* solutions the consumer has received, in order
  drained        \* nextVerified has returned nullopt

queues == <<pending, verified>>
flags  == <<done, verifierDone>>
locks  == <<pendingMtx, verifiedMtx>>
user   == <<passing, submitted, stop, delivered, drained>>
vars   == <<user, queues, flags, locks, dfs, ver, candidate>>

Free == "free"

DfsLabels == {"search", "submitLock", "submitTest", "submitBlock", "submitWait",
              "submitNotify", "poll", "yielded", "shutStore", "shutNotify",
              "nextLock", "nextTest", "nextBlock", "nextWait",
              "dtorStore", "dtorNotify", "join", "joined"}
VerLabels == {"lock", "test", "block", "wait", "notifyRoom", "verify",
              "finish", "notifyDone", "exited"}

Init ==
  /\ passing \in SUBSET (1..MaxCandidates)
  /\ submitted = 0
  /\ pending = <<>> /\ verified = <<>>
  /\ done = FALSE /\ verifierDone = FALSE
  /\ pendingMtx = Free /\ verifiedMtx = Free
  /\ dfs = "search" /\ ver = "lock"
  /\ candidate = 0
  /\ stop = FALSE
  /\ delivered = <<>>
  /\ drained = FALSE

-------------------------------------------------------------------------------
(* notify_one on each condition variable.                                  *)

\* Variants: a notification that is forgotten.
VerifierUnnotified == ver' = ver
DfsUnnotified      == dfs' = dfs

NotifyPendingNotEmpty  == ver' = IF ver = "wait" THEN "lock" ELSE ver
NotifyPendingNotFull   == dfs' = IF dfs = "submitWait" THEN "submitLock" ELSE dfs
NotifyVerifiedNotEmpty == dfs' = IF dfs = "nextWait" THEN "nextLock" ELSE dfs

-------------------------------------------------------------------------------
(* The search thread.                                                      *)

\* The search reached a leaf and calls submit.
Found ==
  /\ dfs = "search"
  /\ submitted < MaxCandidates
  /\ dfs' = "submitLock"
  /\ UNCHANGED <<user, queues, flags, locks, ver, candidate>>

SubmitLock ==
  /\ dfs = "submitLock"
  /\ pendingMtx = Free
  /\ pendingMtx' = "dfs"
  /\ dfs' = "submitTest"
  /\ UNCHANGED <<user, queues, flags, verifiedMtx, ver, candidate>>

\* A variant with one candidate too many in pendingNotFull_'s predicate.
SubmitPushOneMore ==
  /\ dfs = "submitTest"
  /\ Len(pending) <= maxPending
  /\ pending' = Append(pending, submitted + 1)
  /\ submitted' = submitted + 1
  /\ pendingMtx' = Free
  /\ dfs' = "submitNotify"
  /\ UNCHANGED <<passing, stop, delivered, drained, verified, flags, verifiedMtx,
                 ver, candidate>>

\* pendingNotFull_'s predicate holds: push and unlock.
SubmitPush ==
  /\ dfs = "submitTest"
  /\ Len(pending) < maxPending
  /\ pending' = Append(pending, submitted + 1)
  /\ submitted' = submitted + 1
  /\ pendingMtx' = Free
  /\ dfs' = "submitNotify"
  /\ UNCHANGED <<passing, stop, delivered, drained, verified, flags, verifiedMtx,
                 ver, candidate>>

SubmitFull ==
  /\ dfs = "submitTest"
  /\ Len(pending) >= maxPending
  /\ dfs' = "submitBlock"
  /\ UNCHANGED <<user, queues, flags, locks, ver, candidate>>

SubmitBlock ==
  /\ dfs = "submitBlock"
  /\ pendingMtx' = Free
  /\ dfs' = "submitWait"
  /\ UNCHANGED <<user, queues, flags, verifiedMtx, ver, candidate>>

SubmitNotify ==
  /\ dfs = "submitNotify"
  /\ NotifyPendingNotEmpty
  /\ dfs' = "poll"
  /\ UNCHANGED <<user, queues, flags, locks, candidate>>

\* The consumer receives the front of verified_.
Deliver ==
  /\ delivered' = Append(delivered, Head(verified))
  /\ verified' = Tail(verified)
  /\ dfs' = "yielded"
  /\ UNCHANGED <<passing, submitted, stop, drained, pending>>

\* tryNextVerified: one critical section that never blocks inside.
PollSome ==
  /\ dfs = "poll"
  /\ verifiedMtx = Free
  /\ verified # <<>>
  /\ Deliver
  /\ UNCHANGED <<flags, locks, ver, candidate>>

PollNone ==
  /\ dfs = "poll"
  /\ verifiedMtx = Free
  /\ verified = <<>>
  /\ dfs' = "search"
  /\ UNCHANGED <<user, queues, flags, locks, ver, candidate>>

\* The consumer asks for more: back to the loop that delivered the solution.
Resume ==
  /\ dfs = "yielded"
  /\ dfs' = IF done THEN "nextLock" ELSE "poll"
  /\ UNCHANGED <<user, queues, flags, locks, ver, candidate>>

\* The consumer has enough.  A callback that returns false makes dfs() shut
\* the pipeline down and leave; a generator that is dropped goes straight to
\* the destructor.
Stop ==
  /\ dfs = "yielded"
  /\ stop' = TRUE
  /\ \/ dfs' = "dtorStore"
     \/ ~done /\ dfs' = "shutStore"
  /\ UNCHANGED <<passing, submitted, delivered, drained, queues, flags, locks, ver,
                 candidate>>

\* The search space is exhausted.
Exhausted ==
  /\ dfs = "search"
  /\ dfs' = "shutStore"
  /\ UNCHANGED <<user, queues, flags, locks, ver, candidate>>

\* Initial propagation decided everything (or failed): shut down and drop the
\* pipeline without submitting or draining.
Undisputed ==
  /\ dfs = "search"
  /\ submitted = 0
  /\ stop' = TRUE
  /\ dfs' = "shutStore"
  /\ UNCHANGED <<passing, submitted, delivered, drained, queues, flags, locks, ver,
                 candidate>>

\* shutdown(): the flag is stored without holding pendingMtx_.
ShutdownStore ==
  /\ dfs \in {"shutStore", "dtorStore"}
  /\ done' = TRUE
  /\ dfs' = IF dfs = "shutStore" THEN "shutNotify" ELSE "dtorNotify"
  /\ UNCHANGED <<user, queues, verifierDone, locks, ver, candidate>>

ShutdownNotify ==
  /\ dfs \in {"shutNotify", "dtorNotify"}
  /\ NotifyPendingNotEmpty
  /\ dfs' = CASE dfs = "dtorNotify"          -> "join"
              [] dfs = "shutNotify" /\ stop  -> "dtorStore"
              [] dfs = "shutNotify" /\ ~stop -> "nextLock"
  /\ UNCHANGED <<user, queues, flags, locks, candidate>>

NextLock ==
  /\ dfs = "nextLock"
  /\ verifiedMtx = Free
  /\ verifiedMtx' = "dfs"
  /\ dfs' = "nextTest"
  /\ UNCHANGED <<user, queues, flags, pendingMtx, ver, candidate>>

NextSome ==
  /\ dfs = "nextTest"
  /\ verified # <<>>
  /\ Deliver
  /\ verifiedMtx' = Free
  /\ UNCHANGED <<flags, pendingMtx, ver, candidate>>

\* A variant that takes an empty queue for the end.
NextNoneEarly ==
  /\ dfs = "nextTest"
  /\ verified = <<>>
  /\ drained' = TRUE
  /\ verifiedMtx' = Free
  /\ dfs' = "dtorStore"
  /\ UNCHANGED <<passing, submitted, stop, delivered, queues, flags, pendingMtx, ver,
                 candidate>>

\* nextVerified returns nullopt; the controller then destroys the pipeline.
NextNone ==
  /\ dfs = "nextTest"
  /\ verified = <<>>
  /\ verifierDone
  /\ drained' = TRUE
  /\ verifiedMtx' = Free
  /\ dfs' = "dtorStore"
  /\ UNCHANGED <<passing, submitted, stop, delivered, queues, flags, pendingMtx, ver,
                 candidate>>

NextEmpty ==
  /\ dfs = "nextTest"
  /\ verified = <<>>
  /\ ~verifierDone
  /\ dfs' = "nextBlock"
  /\ UNCHANGED <<user, queues, flags, locks, ver, candidate>>

NextBlock ==
  /\ dfs = "nextBlock"
  /\ verifiedMtx' = Free
  /\ dfs' = "nextWait"
  /\ UNCHANGED <<user, queues, flags, pendingMtx, ver, candidate>>

\* ~AsyncHashPipeline, after its own shutdown(): join the verifier thread.
Join ==
  /\ dfs = "join"
  /\ ver = "exited"
  /\ dfs' = "joined"
  /\ UNCHANGED <<user, queues, flags, locks, ver, candidate>>

-------------------------------------------------------------------------------
(* The verifier thread: verifierLoop.                                      *)

VerifierLock ==
  /\ ver = "lock"
  /\ pendingMtx = Free
  /\ pendingMtx' = "verifier"
  /\ ver' = "test"
  /\ UNCHANGED <<user, queues, flags, verifiedMtx, dfs, candidate>>

\* A variant that takes the newest candidate.
VerifierPopNewest ==
  /\ ver = "test"
  /\ pending # <<>>
  /\ candidate' = pending[Len(pending)]
  /\ pending' = SubSeq(pending, 1, Len(pending) - 1)
  /\ pendingMtx' = Free
  /\ ver' = "notifyRoom"
  /\ UNCHANGED <<user, verified, flags, verifiedMtx, dfs>>

VerifierPop ==
  /\ ver = "test"
  /\ pending # <<>>
  /\ candidate' = Head(pending)
  /\ pending' = Tail(pending)
  /\ pendingMtx' = Free
  /\ ver' = "notifyRoom"
  /\ UNCHANGED <<user, verified, flags, verifiedMtx, dfs>>

\* A variant that leaves as soon as done_ is set, whatever is pending.
VerifierBreakEarly ==
  /\ ver = "test"
  /\ done
  /\ pendingMtx' = Free
  /\ ver' = "finish"
  /\ UNCHANGED <<user, queues, flags, verifiedMtx, dfs, candidate>>

VerifierBreak ==
  /\ ver = "test"
  /\ pending = <<>>
  /\ done
  /\ pendingMtx' = Free
  /\ ver' = "finish"
  /\ UNCHANGED <<user, queues, flags, verifiedMtx, dfs, candidate>>

VerifierEmpty ==
  /\ ver = "test"
  /\ pending = <<>>
  /\ ~done
  /\ ver' = "block"
  /\ UNCHANGED <<user, queues, flags, locks, dfs, candidate>>

VerifierBlock ==
  /\ ver = "block"
  /\ pendingMtx' = Free
  /\ ver' = "wait"
  /\ UNCHANGED <<user, queues, flags, verifiedMtx, dfs, candidate>>

VerifierNotifyRoom ==
  /\ ver = "notifyRoom"
  /\ NotifyPendingNotFull
  /\ ver' = "verify"
  /\ UNCHANGED <<user, queues, flags, locks, candidate>>

\* Every row matches: push and notify under verifiedMtx_.
VerifierAccept ==
  /\ ver = "verify"
  /\ candidate \in passing
  /\ verifiedMtx = Free
  /\ verified' = Append(verified, candidate)
  /\ NotifyVerifiedNotEmpty
  /\ ver' = "lock"
  /\ UNCHANGED <<user, pending, flags, locks, candidate>>

VerifierReject ==
  /\ ver = "verify"
  /\ candidate \notin passing
  /\ ver' = "lock"
  /\ UNCHANGED <<user, queues, flags, locks, dfs, candidate>>

VerifierFinish ==
  /\ ver = "finish"
  /\ verifiedMtx = Free
  /\ verifierDone' = TRUE
  /\ ver' = "notifyDone"
  /\ UNCHANGED <<user, queues, done, locks, dfs, candidate>>

VerifierNotifyDone ==
  /\ ver = "notifyDone"
  /\ NotifyVerifiedNotEmpty
  /\ ver' = "exited"
  /\ UNCHANGED <<user, queues, flags, locks, candidate>>

-------------------------------------------------------------------------------
(* A condition variable may wake its waiter for no reason: the standard    *)
(* permits it and never promises it.                                       *)
SpuriousWakeup ==
  /\ \/ ver = "wait" /\ ver' = "lock" /\ UNCHANGED dfs
     \/ dfs = "submitWait" /\ dfs' = "submitLock" /\ UNCHANGED ver
     \/ dfs = "nextWait" /\ dfs' = "nextLock" /\ UNCHANGED ver
  /\ UNCHANGED <<user, queues, flags, locks, candidate>>

DfsNext ==
  \/ Found \/ SubmitLock \/ SubmitPush \/ SubmitFull \/ SubmitBlock \/ SubmitNotify
  \/ PollSome \/ PollNone \/ Resume \/ Stop \/ Exhausted \/ Undisputed
  \/ ShutdownStore \/ ShutdownNotify
  \/ NextLock \/ NextSome \/ NextNone \/ NextEmpty \/ NextBlock \/ Join

VerifierNext ==
  \/ VerifierLock \/ VerifierPop \/ VerifierBreak \/ VerifierEmpty \/ VerifierBlock
  \/ VerifierNotifyRoom \/ VerifierAccept \/ VerifierReject
  \/ VerifierFinish \/ VerifierNotifyDone

Next == DfsNext \/ VerifierNext \/ SpuriousWakeup

Spec == Init /\ [][Next]_vars

(* Both threads are scheduled, and a thread that can run again and again   *)
(* (it contends for a mutex the other one keeps taking) eventually does.   *)
(* Nothing is assumed of spurious wakeups.                                 *)
FairSpec == Spec /\ SF_vars(DfsNext) /\ SF_vars(VerifierNext)

-------------------------------------------------------------------------------
(* Properties.                                                             *)

\* Every variable has its type, and pending_ never holds more than
\* maxPending_ candidates (the backpressure of submit).
TypeOK ==
  /\ passing \in SUBSET (1..MaxCandidates)
  /\ submitted \in 0..MaxCandidates
  /\ pending \in Seq(1..MaxCandidates) /\ Len(pending) <= maxPending
  /\ verified \in Seq(1..MaxCandidates)
  /\ done \in BOOLEAN /\ verifierDone \in BOOLEAN
  /\ pendingMtx \in {Free, "dfs", "verifier"}
  /\ verifiedMtx \in {Free, "dfs"}
  /\ dfs \in DfsLabels /\ ver \in VerLabels
  /\ candidate \in 0..MaxCandidates
  /\ stop \in BOOLEAN /\ drained \in BOOLEAN
  /\ delivered \in Seq(1..MaxCandidates)

\* A candidate is in verifierLoop's hands, between its pop and its verdict.
Holding == ver \in {"notifyRoom", "verify"}

\* How many candidates have a verdict.
Checked == submitted - Len(pending) - (IF Holding THEN 1 ELSE 0)

Increasing(s) == \A i, j \in DOMAIN s : i < j => s[i] < s[j]

\* FIFO, lossless filtering (AsyncHashPipeline.h: "dequeued by the DFS thread
\* in FIFO order (preserving lex order)"): the queues hold exactly the
\* candidates without a verdict, in order; what was delivered followed by what
\* is verified is exactly the candidates that match among those with a
\* verdict, in strictly increasing order.
FifoFilter ==
  /\ Holding => candidate = Checked + 1
  /\ \A i \in DOMAIN pending : pending[i] = submitted - Len(pending) + i
  /\ Increasing(delivered) /\ Increasing(verified)
  /\ \A d \in Range(delivered), v \in Range(verified) : d < v
  /\ Range(delivered) \cup Range(verified) = {c \in passing : c <= Checked}

\* Who holds which mutex, what is known inside a critical section, and the
\* order of the shutdown: no candidate is submitted once done_ is set, the
\* verifier leaves only when nothing is pending, nothing is verified after it.
Protocol ==
  /\ pendingMtx = "dfs" <=> dfs \in {"submitTest", "submitBlock"}
  /\ pendingMtx = "verifier" <=> ver \in {"test", "block"}
  /\ verifiedMtx = "dfs" <=> dfs \in {"nextTest", "nextBlock"}
  /\ dfs = "submitBlock" => Len(pending) = maxPending
  /\ ver = "block" => pending = <<>>
  /\ dfs = "nextBlock" => verified = <<>> /\ ~verifierDone
  /\ dfs \in {"search", "submitLock", "submitTest", "submitBlock", "submitWait",
              "submitNotify", "poll", "shutStore"} => ~done
  /\ ver \in {"finish", "notifyDone", "exited"} => done /\ pending = <<>>
  /\ verifierDone <=> ver \in {"notifyDone", "exited"}
  /\ drained => verifierDone /\ verified = <<>>

\* nextVerified returns nullopt only after every submitted candidate that
\* matches has been handed to the consumer: discoverDI takes the end of the
\* enumeration as "the original is not among the solutions".
NulloptMeansAll == drained => Range(delivered) = {c \in passing : c <= submitted}

NoSleepThroughWork ==
  ver = "wait" /\ pending # <<>> => dfs = "submitNotify"

NoSleepThroughRoom ==
  dfs = "submitWait" /\ Len(pending) < maxPending => ver = "notifyRoom"

NoSleepThroughVerdict ==
  dfs = "nextWait" /\ (verified # <<>> \/ verifierDone) => ver = "notifyDone"

\* Nobody sleeps on a condition that holds, unless the thread that made it
\* hold is still about to notify: the verifier for candidates, submit for
\* room, nextVerified for a solution or the verifier's end.
NoLostWakeups ==
  NoSleepThroughWork /\ NoSleepThroughRoom /\ NoSleepThroughVerdict

Filter == INSTANCE HashFilter WITH
  MaxCandidates <- MaxCandidates,
  passing <- passing,
  submitted <- submitted,
  delivered <- delivered,
  drained <- drained

\* The pipeline implements the thread-free filter.
FilterSpec == Filter!Spec

\* Every candidate submitted gets its verdict.
EveryCandidateChecked ==
  \A c \in 1..MaxCandidates : submitted >= c ~> Checked >= c

\* Once done_ is set while the verifier is not between its predicate and its
\* sleep, the drain ends, the verifier exits and the destructor's join returns.
HeardShutdownEnds == done /\ ver \notin {"block", "wait"} ~> dfs = "joined"

\* AsyncHashPipeline.h, of shutdown: "After shutdown, nextVerified() will drain
\* remaining verified solutions then return nullopt" (unless the consumer
\* stops first).
ShutdownDrains == dfs = "shutNotify" ~> drained \/ stop
===============================================================================
