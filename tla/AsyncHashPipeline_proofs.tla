----------------------- MODULE AsyncHashPipeline_proofs -----------------------
(***************************************************************************)
(* The safety of AsyncHashPipeline for every capacity and every number of  *)
(* candidates: typing, the mutual exclusion and shutdown protocol, the     *)
(* FIFO filtering, the meaning of nextVerified's nullopt, and the absence  *)
(* of lost wakeups other than the shutdown's.                              *)
(***************************************************************************)
EXTENDS AsyncHashPipeline, TLAPS

\* A call of submit is under way only for a candidate within the bound.
Submitting ==
  dfs \in {"submitLock", "submitTest", "submitBlock", "submitWait"} =>
    submitted < MaxCandidates

\* Every step keeps every variable in its type.  The bound on submitted is
\* inductive only together with Submitting.
LEMMA Typing == Spec => [](TypeOK /\ Submitting)
<1>1. ASSUME Init PROVE TypeOK /\ Submitting
  <2>1. pending \in Seq(1..MaxCandidates) /\ Len(pending) <= maxPending
    BY <1>1, maxPendingAssumption DEF Init
  <2>2. verified \in Seq(1..MaxCandidates) /\ delivered \in Seq(1..MaxCandidates)
    BY <1>1 DEF Init
  <2>3. submitted \in 0..MaxCandidates /\ candidate \in 0..MaxCandidates
    BY <1>1, MaxCandidatesAssumption DEF Init
  <2>4. dfs \in DfsLabels /\ ver \in VerLabels
    BY <1>1 DEF Init, DfsLabels, VerLabels
  <2>5. QED
    BY <1>1, <2>1, <2>2, <2>3, <2>4 DEF Init, TypeOK, Submitting
<1>2. ASSUME TypeOK, Submitting, [Next]_vars PROVE (TypeOK /\ Submitting)'
  <2> USE <1>2, maxPendingAssumption, MaxCandidatesAssumption DEF TypeOK, Submitting, DfsLabels, VerLabels,
        vars, user, queues, flags, locks
  <2>1. CASE Found                BY <2>1 DEF Found
  <2>2. CASE SubmitLock           BY <2>2 DEF SubmitLock
  <2>3. CASE SubmitPush           BY <2>3 DEF SubmitPush
  <2>4. CASE SubmitFull           BY <2>4 DEF SubmitFull
  <2>5. CASE SubmitBlock          BY <2>5 DEF SubmitBlock
  <2>6. CASE SubmitNotify         BY <2>6 DEF SubmitNotify, NotifyPendingNotEmpty
  <2>7. CASE PollSome             BY <2>7 DEF PollSome, Deliver
  <2>8. CASE PollNone             BY <2>8 DEF PollNone
  <2>9. CASE Resume               BY <2>9 DEF Resume
  <2>10. CASE Stop                BY <2>10 DEF Stop
  <2>11. CASE Exhausted           BY <2>11 DEF Exhausted
  <2>12. CASE Undisputed          BY <2>12 DEF Undisputed
  <2>13. CASE ShutdownStore       BY <2>13 DEF ShutdownStore
  <2>14. CASE ShutdownNotify      BY <2>14 DEF ShutdownNotify, NotifyPendingNotEmpty
  <2>15. CASE NextLock            BY <2>15 DEF NextLock
  <2>16. CASE NextSome            BY <2>16 DEF NextSome, Deliver
  <2>17. CASE NextNone            BY <2>17 DEF NextNone
  <2>18. CASE NextEmpty           BY <2>18 DEF NextEmpty
  <2>19. CASE NextBlock           BY <2>19 DEF NextBlock
  <2>20. CASE Join                BY <2>20 DEF Join
  <2>21. CASE VerifierLock        BY <2>21 DEF VerifierLock
  <2>22. CASE VerifierPop         BY <2>22 DEF VerifierPop
  <2>23. CASE VerifierBreak       BY <2>23 DEF VerifierBreak
  <2>24. CASE VerifierEmpty       BY <2>24 DEF VerifierEmpty
  <2>25. CASE VerifierBlock       BY <2>25 DEF VerifierBlock
  <2>26. CASE VerifierNotifyRoom  BY <2>26 DEF VerifierNotifyRoom, NotifyPendingNotFull
  <2>27. CASE VerifierAccept      BY <2>27 DEF VerifierAccept, NotifyVerifiedNotEmpty
  <2>28. CASE VerifierReject      BY <2>28 DEF VerifierReject
  <2>29. CASE VerifierFinish      BY <2>29 DEF VerifierFinish
  <2>30. CASE VerifierNotifyDone  BY <2>30 DEF VerifierNotifyDone, NotifyVerifiedNotEmpty
  <2>31. CASE SpuriousWakeup      BY <2>31 DEF SpuriousWakeup
  <2>32. CASE UNCHANGED vars      BY <2>32
  <2>33. QED
    BY <1>2, <2>1, <2>2, <2>3, <2>4, <2>5, <2>6, <2>7, <2>8, <2>9, <2>10, <2>11, <2>12,
       <2>13, <2>14, <2>15, <2>16, <2>17, <2>18, <2>19, <2>20, <2>21, <2>22, <2>23, <2>24,
       <2>25, <2>26, <2>27, <2>28, <2>29, <2>30, <2>31, <2>32
    DEF Next, DfsNext, VerifierNext
<1>3. QED BY <1>1, <1>2, PTL DEF Spec

\* Every variable keeps its type, and pending_ never exceeds its capacity.
THEOREM TypeCorrect == Spec => []TypeOK
BY Typing, PTL

-------------------------------------------------------------------------------
\* The locking and shutdown protocol of the two threads.
THEOREM ProtocolHolds == Spec => []Protocol
<1>1. Init => Protocol
  BY DEF Init, Protocol, Free
<1>2. ASSUME TypeOK, Protocol, [Next]_vars PROVE Protocol'
  <2> USE <1>2, maxPendingAssumption DEF TypeOK, Protocol, DfsLabels, VerLabels, Free,
        vars, user, queues, flags, locks
  <2>1. CASE Found               BY <2>1 DEF Found
  <2>2. CASE SubmitLock          BY <2>2 DEF SubmitLock
  <2>3. CASE SubmitPush          BY <2>3 DEF SubmitPush
  <2>4. CASE SubmitFull          BY <2>4 DEF SubmitFull
  <2>5. CASE SubmitBlock         BY <2>5 DEF SubmitBlock
  <2>6. CASE SubmitNotify        BY <2>6 DEF SubmitNotify, NotifyPendingNotEmpty
  <2>7. CASE PollSome            BY <2>7 DEF PollSome, Deliver
  <2>8. CASE PollNone            BY <2>8 DEF PollNone
  <2>9. CASE Resume              BY <2>9 DEF Resume
  <2>10. CASE Stop                BY <2>10 DEF Stop
  <2>11. CASE Exhausted           BY <2>11 DEF Exhausted
  <2>12. CASE Undisputed          BY <2>12 DEF Undisputed
  <2>13. CASE ShutdownStore       BY <2>13 DEF ShutdownStore
  <2>14. CASE ShutdownNotify      BY <2>14 DEF ShutdownNotify, NotifyPendingNotEmpty
  <2>15. CASE NextLock            BY <2>15 DEF NextLock
  <2>16. CASE NextSome            BY <2>16 DEF NextSome, Deliver
  <2>17. CASE NextNone            BY <2>17 DEF NextNone
  <2>18. CASE NextEmpty           BY <2>18 DEF NextEmpty
  <2>19. CASE NextBlock           BY <2>19 DEF NextBlock
  <2>20. CASE Join                BY <2>20 DEF Join
  <2>21. CASE VerifierLock        BY <2>21 DEF VerifierLock
  <2>22. CASE VerifierPop         BY <2>22 DEF VerifierPop
  <2>23. CASE VerifierBreak       BY <2>23 DEF VerifierBreak
  <2>24. CASE VerifierEmpty       BY <2>24 DEF VerifierEmpty
  <2>25. CASE VerifierBlock       BY <2>25 DEF VerifierBlock
  <2>26. CASE VerifierNotifyRoom  BY <2>26 DEF VerifierNotifyRoom, NotifyPendingNotFull
  <2>27. CASE VerifierAccept      BY <2>27 DEF VerifierAccept, NotifyVerifiedNotEmpty
  <2>28. CASE VerifierReject      BY <2>28 DEF VerifierReject
  <2>29. CASE VerifierFinish      BY <2>29 DEF VerifierFinish
  <2>30. CASE VerifierNotifyDone  BY <2>30 DEF VerifierNotifyDone, NotifyVerifiedNotEmpty
  <2>31. CASE SpuriousWakeup      BY <2>31 DEF SpuriousWakeup
  <2>32. CASE UNCHANGED vars      BY <2>32
  <2>33. QED
    BY <1>2, <2>1, <2>2, <2>3, <2>4, <2>5, <2>6, <2>7, <2>8, <2>9, <2>10, <2>11, <2>12,
       <2>13, <2>14, <2>15, <2>16, <2>17, <2>18, <2>19, <2>20, <2>21, <2>22, <2>23,
       <2>24, <2>25, <2>26, <2>27, <2>28, <2>29, <2>30, <2>31, <2>32
    DEF Next, DfsNext, VerifierNext
<1>3. QED BY <1>1, <1>2, TypeCorrect, PTL DEF Spec

-------------------------------------------------------------------------------
(* No wakeup is lost but the shutdown's.                                   *)


\* A thread asleep on a condition that holds is about to be notified.
THEOREM NoLostWakeup ==
  Spec => []NoLostWakeups
<1>1. Init => NoLostWakeups
  BY DEF Init, NoLostWakeups, NoSleepThroughWork, NoSleepThroughRoom, NoSleepThroughVerdict
<1>2. ASSUME TypeOK, Protocol, NoLostWakeups, [Next]_vars PROVE NoLostWakeups'
  <2> USE <1>2, maxPendingAssumption DEF TypeOK, Protocol, DfsLabels, VerLabels, Free,
        NoLostWakeups, NoSleepThroughWork, NoSleepThroughRoom, NoSleepThroughVerdict,
        vars, user, queues, flags, locks
  <2>1. CASE Found               BY <2>1 DEF Found
  <2>2. CASE SubmitLock          BY <2>2 DEF SubmitLock
  <2>3. CASE SubmitPush          BY <2>3 DEF SubmitPush
  <2>4. CASE SubmitFull          BY <2>4 DEF SubmitFull
  <2>5. CASE SubmitBlock         BY <2>5 DEF SubmitBlock
  <2>6. CASE SubmitNotify        BY <2>6 DEF SubmitNotify, NotifyPendingNotEmpty
  <2>7. CASE PollSome            BY <2>7 DEF PollSome, Deliver
  <2>8. CASE PollNone            BY <2>8 DEF PollNone
  <2>9. CASE Resume              BY <2>9 DEF Resume
  <2>10. CASE Stop                BY <2>10 DEF Stop
  <2>11. CASE Exhausted           BY <2>11 DEF Exhausted
  <2>12. CASE Undisputed          BY <2>12 DEF Undisputed
  <2>13. CASE ShutdownStore       BY <2>13 DEF ShutdownStore
  <2>14. CASE ShutdownNotify      BY <2>14 DEF ShutdownNotify, NotifyPendingNotEmpty
  <2>15. CASE NextLock            BY <2>15 DEF NextLock
  <2>16. CASE NextSome            BY <2>16 DEF NextSome, Deliver
  <2>17. CASE NextNone            BY <2>17 DEF NextNone
  <2>18. CASE NextEmpty           BY <2>18 DEF NextEmpty
  <2>19. CASE NextBlock           BY <2>19 DEF NextBlock
  <2>20. CASE Join                BY <2>20 DEF Join
  <2>21. CASE VerifierLock        BY <2>21 DEF VerifierLock
  <2>22. CASE VerifierPop         BY <2>22 DEF VerifierPop
  <2>23. CASE VerifierBreak       BY <2>23 DEF VerifierBreak
  <2>24. CASE VerifierEmpty       BY <2>24 DEF VerifierEmpty
  <2>25. CASE VerifierBlock       BY <2>25 DEF VerifierBlock
  <2>26. CASE VerifierNotifyRoom  BY <2>26 DEF VerifierNotifyRoom, NotifyPendingNotFull
  <2>27. CASE VerifierAccept      BY <2>27 DEF VerifierAccept, NotifyVerifiedNotEmpty
  <2>28. CASE VerifierReject      BY <2>28 DEF VerifierReject
  <2>29. CASE VerifierFinish      BY <2>29 DEF VerifierFinish
  <2>30. CASE VerifierNotifyDone  BY <2>30 DEF VerifierNotifyDone, NotifyVerifiedNotEmpty
  <2>31. CASE SpuriousWakeup      BY <2>31 DEF SpuriousWakeup
  <2>32. CASE UNCHANGED vars      BY <2>32
  <2>33. QED
    BY <1>2, <2>1, <2>2, <2>3, <2>4, <2>5, <2>6, <2>7, <2>8, <2>9, <2>10, <2>11, <2>12,
       <2>13, <2>14, <2>15, <2>16, <2>17, <2>18, <2>19, <2>20, <2>21, <2>22, <2>23,
       <2>24, <2>25, <2>26, <2>27, <2>28, <2>29, <2>30, <2>31, <2>32
    DEF Next, DfsNext, VerifierNext
<1>3. QED BY <1>1, <1>2, TypeCorrect, ProtocolHolds, PTL DEF Spec, NoLostWakeups

-------------------------------------------------------------------------------
(* First in, first out, nothing lost.                                      *)

\* What appending does to a sequence of numbers.
LEMMA AppendFacts ==
  ASSUME NEW s \in Seq(Nat), NEW x \in Nat, Increasing(s), \A y \in Range(s) : y < x
  PROVE  /\ Range(Append(s, x)) = Range(s) \cup {x}
         /\ Increasing(Append(s, x))
<1>1. DOMAIN Append(s, x) = DOMAIN s \cup {Len(s) + 1} /\ DOMAIN s = 1..Len(s)
  OBVIOUS
<1>2. /\ \A i \in DOMAIN s : Append(s, x)[i] = s[i]
      /\ Append(s, x)[Len(s) + 1] = x
  OBVIOUS
<1>3. Range(Append(s, x)) = Range(s) \cup {x}
  BY <1>1, <1>2 DEF Range
<1>4. Increasing(Append(s, x))
  <2> SUFFICES ASSUME NEW i \in DOMAIN Append(s, x), NEW j \in DOMAIN Append(s, x), i < j
               PROVE  Append(s, x)[i] < Append(s, x)[j]
    BY DEF Increasing
  <2>1. i \in DOMAIN s
    BY <1>1
  <2>2. CASE j \in DOMAIN s
    BY <2>1, <2>2, <1>2 DEF Increasing
  <2>3. CASE j = Len(s) + 1
    BY <2>1, <2>3, <1>2 DEF Range
  <2>4. QED BY <1>1, <2>2, <2>3
<1>5. QED BY <1>3, <1>4

\* What taking the head of an increasing sequence leaves.
LEMMA TailFacts ==
  ASSUME NEW s \in Seq(Nat), s # <<>>, Increasing(s)
  PROVE  /\ Range(s) = {Head(s)} \cup Range(Tail(s))
         /\ Increasing(Tail(s))
         /\ \A y \in Range(Tail(s)) : Head(s) < y
<1>1. /\ DOMAIN s = 1..Len(s) /\ Len(s) \in Nat /\ Len(s) >= 1
      /\ DOMAIN Tail(s) = 1..(Len(s) - 1)
      /\ Head(s) = s[1]
      /\ \A i \in DOMAIN Tail(s) : Tail(s)[i] = s[i + 1]
  OBVIOUS
<1>2. \A i \in DOMAIN Tail(s) : i + 1 \in DOMAIN s /\ 1 < i + 1
  BY <1>1
<1>3. \A i \in DOMAIN s : i = 1 \/ i - 1 \in DOMAIN Tail(s)
  BY <1>1
<1>4. Range(s) = {Head(s)} \cup Range(Tail(s))
  <2>1. ASSUME NEW y \in Range(s) PROVE y \in {Head(s)} \cup Range(Tail(s))
    <3>1. PICK i \in DOMAIN s : s[i] = y
      BY <2>1 DEF Range
    <3>2. CASE i = 1
      BY <3>1, <3>2, <1>1
    <3>3. CASE i - 1 \in DOMAIN Tail(s)
      <4>1. Tail(s)[i - 1] = s[i]
        BY <1>1, <3>3
      <4>2. QED BY <3>1, <3>3, <4>1 DEF Range
    <3>4. QED BY <1>3, <3>2, <3>3
  <2>2. ASSUME NEW y \in Range(Tail(s)) PROVE y \in Range(s)
    BY <1>1, <1>2 DEF Range
  <2>3. Head(s) \in Range(s)
    BY <1>1 DEF Range
  <2>4. QED BY <2>1, <2>2, <2>3
<1>5. Increasing(Tail(s))
  BY <1>1, <1>2 DEF Increasing
<1>6. \A y \in Range(Tail(s)) : Head(s) < y
  BY <1>1, <1>2 DEF Increasing, Range
<1>7. QED BY <1>4, <1>5, <1>6

\* The steps that move a candidate along.  Every other step leaves what
\* FifoFilter reads as it is.
LEMMA DeliverKeepsFifo ==
  ASSUME TypeOK, FifoFilter, verified # <<>>, Deliver, UNCHANGED <<ver, candidate>>
  PROVE  FifoFilter'
<1> USE DEF TypeOK
<1>1. verified \in Seq(Nat) /\ delivered \in Seq(Nat)
  BY MaxCandidatesAssumption
<1>2. /\ Range(verified) = {Head(verified)} \cup Range(verified')
      /\ Increasing(verified')
      /\ \A y \in Range(verified') : Head(verified) < y
  BY <1>1, TailFacts DEF FifoFilter, Deliver
<1>3. Head(verified) \in Nat /\ \A d \in Range(delivered) : d < Head(verified)
  BY <1>1, <1>2 DEF FifoFilter
<1>4. /\ Range(delivered') = Range(delivered) \cup {Head(verified)}
      /\ Increasing(delivered')
  BY <1>1, <1>3, AppendFacts DEF FifoFilter, Deliver
<1>5. \A d \in Range(delivered'), v \in Range(verified') : d < v
  BY <1>2, <1>3, <1>4 DEF FifoFilter
<1>6. Range(delivered') \cup Range(verified') = Range(delivered) \cup Range(verified)
  BY <1>2, <1>4
<1>7. Checked' = Checked /\ Holding' = Holding /\ UNCHANGED <<pending, submitted, passing, candidate>>
  BY DEF Deliver, Checked, Holding
<1>8. QED BY <1>2, <1>4, <1>5, <1>6, <1>7 DEF FifoFilter

\* submit numbers the candidate it appends after every earlier one.
LEMMA PushKeepsFifo ==
  ASSUME TypeOK, FifoFilter, SubmitPush
  PROVE  FifoFilter'
<1> USE DEF TypeOK
<1>1. /\ Len(pending') = Len(pending) + 1
      /\ DOMAIN pending = 1..Len(pending) /\ DOMAIN pending' = 1..(Len(pending) + 1)
      /\ \A i \in DOMAIN pending : pending'[i] = pending[i]
      /\ pending'[Len(pending) + 1] = submitted + 1
      /\ submitted' = submitted + 1
  BY DEF SubmitPush
<1>2. ASSUME NEW i \in DOMAIN pending'
      PROVE  pending'[i] = submitted' - Len(pending') + i
  <2>1. Len(pending) \in Nat /\ submitted \in Nat /\ i \in Nat
    BY <1>1, MaxCandidatesAssumption
  <2>2. CASE i \in DOMAIN pending
    <3>1. pending'[i] = submitted - Len(pending) + i
      BY <1>1, <2>2 DEF FifoFilter
    <3>2. QED BY <1>1, <2>1, <3>1
  <2>3. CASE i = Len(pending) + 1
    BY <1>1, <2>1, <2>3
  <2>4. QED BY <1>1, <2>2, <2>3
<1>3. /\ Checked' = Checked /\ Holding' = Holding
      /\ UNCHANGED <<passing, delivered, verified, candidate>>
  BY <1>1 DEF SubmitPush, Checked, Holding
<1>4. QED BY <1>2, <1>3 DEF FifoFilter

\* verifierLoop takes the oldest candidate.
LEMMA PopKeepsFifo ==
  ASSUME TypeOK, FifoFilter, VerifierPop
  PROVE  FifoFilter'
<1> USE DEF TypeOK
<1>1. /\ Len(pending) \in Nat /\ Len(pending) >= 1
      /\ Len(pending') = Len(pending) - 1
      /\ DOMAIN pending = 1..Len(pending) /\ DOMAIN pending' = 1..(Len(pending) - 1)
      /\ \A i \in DOMAIN pending' : pending'[i] = pending[i + 1]
      /\ candidate' = pending[1]
  BY DEF VerifierPop
<1>2. ASSUME NEW i \in DOMAIN pending'
      PROVE  pending'[i] = submitted - Len(pending') + i
  <2>1. i + 1 \in DOMAIN pending /\ i \in Nat /\ submitted \in Nat
    BY <1>1, MaxCandidatesAssumption
  <2>2. pending[i + 1] = submitted - Len(pending) + (i + 1)
    BY <2>1 DEF FifoFilter
  <2>3. QED BY <1>1, <2>1, <2>2
<1>3. candidate' = submitted - Len(pending) + 1
  BY <1>1 DEF FifoFilter
<1>4. ~Holding /\ Holding' /\ UNCHANGED <<submitted, passing, delivered, verified>>
  BY DEF VerifierPop, Holding, user
<1>5. Checked' = Checked /\ candidate' = Checked' + 1
  BY <1>1, <1>3, <1>4 DEF Checked
<1>6. QED BY <1>2, <1>4, <1>5 DEF FifoFilter

\* A verdict adds the candidate held to verified_ exactly when it matches.
LEMMA VerdictKeepsFifo ==
  ASSUME TypeOK, FifoFilter, VerifierAccept \/ VerifierReject
  PROVE  FifoFilter'
<1> USE MaxCandidatesAssumption DEF TypeOK
<1>1. /\ Holding /\ ~Holding' /\ candidate = Checked + 1
      /\ UNCHANGED <<submitted, passing, delivered, pending, candidate>>
  BY DEF VerifierAccept, VerifierReject, Holding, FifoFilter, user, queues
<1>2. Checked' = Checked + 1 /\ Checked \in Int
  BY <1>1 DEF Checked
<1>3. {c \in passing : c <= Checked'} =
        {c \in passing : c <= Checked} \cup (IF candidate \in passing THEN {candidate} ELSE {})
  <2>1. \A c \in passing : c <= Checked' <=> c <= Checked \/ c = candidate
    <3>1. \A c \in passing : c \in Int
      BY DEF TypeOK
    <3>2. QED BY <1>1, <1>2, <3>1
  <2>2. QED BY <2>1
<1>4. CASE VerifierReject
  <2>1. verified' = verified /\ candidate \notin passing
    BY <1>4 DEF VerifierReject, queues
  <2>2. QED BY <1>1, <1>3, <2>1 DEF FifoFilter
<1>5. CASE VerifierAccept
  <2>1. verified' = Append(verified, candidate) /\ candidate \in passing
    BY <1>5 DEF VerifierAccept
  <2>2. \A y \in Range(delivered) \cup Range(verified) : y < candidate
    <3>1. \A y \in Range(delivered) \cup Range(verified) : y \in passing /\ y <= Checked
      BY DEF FifoFilter
    <3>2. \A c \in passing : c \in Int
      BY DEF TypeOK
    <3>3. \A c \in Int : c <= Checked => c < candidate
      BY <1>1, <1>2
    <3>4. QED BY <3>1, <3>2, <3>3
  <2>3. verified \in Seq(Nat) /\ candidate \in Nat
    OBVIOUS
  <2>4. Range(verified') = Range(verified) \cup {candidate} /\ Increasing(verified')
    BY <2>1, <2>2, <2>3, AppendFacts DEF FifoFilter
  <2>5. \A d \in Range(delivered), v \in Range(verified') : d < v
    BY <2>2, <2>4 DEF FifoFilter
  <2>6. Range(delivered) \cup Range(verified') = {c \in passing : c <= Checked'}
    BY <1>3, <2>1, <2>4 DEF FifoFilter
  <2>7. QED BY <1>1, <2>4, <2>5, <2>6 DEF FifoFilter
<1>6. QED BY <1>4, <1>5

\* The filter is FIFO and loses, repeats and invents nothing.
THEOREM FifoFiltering == Spec => []FifoFilter
<1>1. ASSUME Init PROVE FifoFilter
  <2>1. Range(delivered) = {} /\ Range(verified) = {} /\ DOMAIN pending = {}
    BY <1>1 DEF Init, Range
  <2>2. ~Holding /\ Checked = 0
    <3>1. submitted = 0 /\ Len(pending) = 0 /\ ver = "lock"
      BY <1>1 DEF Init
    <3>2. ~Holding
      BY <3>1 DEF Holding
    <3>3. Checked = submitted - Len(pending) - 0
      BY <3>2, Zenon DEF Checked
    <3>4. QED BY <3>1, <3>2, <3>3
  <2>3. \A c \in passing : ~(c <= 0)
    BY <1>1, MaxCandidatesAssumption DEF Init
  <2>4. Increasing(delivered) /\ Increasing(verified)
    BY <1>1 DEF Init, Increasing
  <2>5. QED BY <2>1, <2>2, <2>3, <2>4 DEF FifoFilter
<1>2. ASSUME TypeOK, FifoFilter, [Next]_vars PROVE FifoFilter'
  <2>1. CASE PollSome \/ NextSome
    BY <1>2, <2>1, DeliverKeepsFifo DEF PollSome, NextSome
  <2>2. CASE SubmitPush
    BY <1>2, <2>2, PushKeepsFifo
  <2>3. CASE VerifierPop
    BY <1>2, <2>3, PopKeepsFifo
  <2>4. CASE VerifierAccept \/ VerifierReject
    BY <1>2, <2>4, VerdictKeepsFifo
  <2>5. CASE /\ UNCHANGED <<passing, submitted, delivered, queues, candidate>>
             /\ Holding' = Holding
    BY <1>2, <2>5 DEF FifoFilter, Checked, queues
  <2>6. ASSUME ~(PollSome \/ NextSome \/ SubmitPush \/ VerifierPop
                   \/ VerifierAccept \/ VerifierReject)
        PROVE  /\ UNCHANGED <<passing, submitted, delivered, queues, candidate>>
               /\ Holding' = Holding
    <3> USE DEF user, queues, flags, locks, vars, Holding
    <3>1. CASE UNCHANGED vars
      BY <3>1
    <3>2. CASE VerifierNext
      BY <2>6, <3>2 DEF VerifierNext, VerifierLock, VerifierBreak, VerifierEmpty, VerifierBlock,
         VerifierNotifyRoom, VerifierFinish, VerifierNotifyDone
    <3>3. CASE SpuriousWakeup
      BY <3>3 DEF SpuriousWakeup
    <3>4. CASE DfsNext
      BY <2>6, <3>4 DEF DfsNext, Found, SubmitLock, SubmitFull, SubmitBlock, SubmitNotify,
         PollNone, Resume, Stop, Exhausted, Undisputed, ShutdownStore, ShutdownNotify,
         NextLock, NextNone, NextEmpty, NextBlock, Join, NotifyPendingNotEmpty
    <3>5. QED BY <1>2, <3>1, <3>2, <3>3, <3>4 DEF Next
  <2>7. QED BY <2>1, <2>2, <2>3, <2>4, <2>5, <2>6
<1>3. QED BY <1>1, <1>2, TypeCorrect, PTL DEF Spec

-------------------------------------------------------------------------------
(* What the consumer may conclude, and the refinement.                     *)

\* Once the verifier has left and its queue is empty, everything that matches
\* has been delivered.
LEMMA DrainedFacts ==
  ASSUME TypeOK, Protocol, FifoFilter, verifierDone, verified = <<>>
  PROVE  Range(delivered) = {c \in passing : c <= submitted}
<1>1. ~Holding /\ pending = <<>>
  BY DEF Protocol, Holding
<1>2. Checked = submitted - Len(pending) - 0
  BY <1>1, Zenon DEF Checked
<1>3. Checked = submitted
  BY <1>1, <1>2, MaxCandidatesAssumption DEF TypeOK
<1>4. Range(verified) = {}
  BY DEF Range
<1>5. QED BY <1>3, <1>4 DEF FifoFilter

\* nextVerified's nullopt means that nothing is missing.
THEOREM NulloptComplete == Spec => []NulloptMeansAll
<1>1. TypeOK /\ Protocol /\ FifoFilter => NulloptMeansAll
  BY DrainedFacts DEF NulloptMeansAll, Protocol
<1>2. QED BY <1>1, TypeCorrect, ProtocolHolds, FifoFiltering, PTL

\* The filter's operator, in this module's terms.
LEMMA SameOutstanding ==
  Filter!Outstanding = {c \in passing : c <= submitted} \ Range(delivered)
BY Zenon DEF Filter!Outstanding, Filter!Range, Range

\* Delivering the front of verified_ is the filter's Deliver.
LEMMA DeliverRefines ==
  ASSUME TypeOK, FifoFilter, verified # <<>>, Deliver, UNCHANGED <<ver, candidate>>
  PROVE  Filter!Deliver
<1> USE MaxCandidatesAssumption DEF TypeOK
<1> DEFINE h == Head(verified)
<1>1. verified \in Seq(Nat) /\ h \in Nat
  OBVIOUS
<1>2. /\ Range(verified) = {h} \cup Range(Tail(verified))
      /\ \A y \in Range(Tail(verified)) : h < y
  BY <1>1, TailFacts DEF FifoFilter
<1>3. h \in passing /\ h <= Checked /\ h \notin Range(delivered)
  <2>1. h \in Range(verified)
    BY <1>2
  <2>2. h \in {c \in passing : c <= Checked}
    BY <2>1 DEF FifoFilter
  <2>3. \A d \in Range(delivered) : d < h
    BY <2>1 DEF FifoFilter
  <2>4. h \notin Range(delivered)
    BY <1>1, <2>3
  <2>5. QED BY <2>2, <2>4
<1>4. Checked \in Int /\ Checked <= submitted
  <2>1. Len(pending) \in Nat /\ submitted \in Nat
    OBVIOUS
  <2>2. CASE Holding
    <3>1. Checked = submitted - Len(pending) - 1
      BY <2>2, Zenon DEF Checked
    <3>2. QED BY <2>1, <3>1
  <2>3. CASE ~Holding
    <3>1. Checked = submitted - Len(pending) - 0
      BY <2>3, Zenon DEF Checked
    <3>2. QED BY <2>1, <3>1
  <2>4. QED BY <2>2, <2>3
<1>5. h \in Filter!Outstanding
  <2>1. h <= submitted
    BY <1>1, <1>3, <1>4
  <2>2. QED BY <1>3, <2>1, SameOutstanding
<1>6. ASSUME NEW c \in Filter!Outstanding PROVE h <= c
  <2>1. c \in passing /\ c \in Int /\ c \notin Range(delivered)
    <3>1. c \in passing /\ c \notin Range(delivered)
      BY <1>6, Zenon, SameOutstanding
    <3>2. \A p \in passing : p \in Int
      OBVIOUS
    <3>3. QED BY <3>1, <3>2
  <2>2. CASE c <= Checked
    <3>1. c \in Range(verified)
      BY <2>1, <2>2 DEF FifoFilter
    <3>2. QED BY <1>1, <1>2, <2>1, <3>1
  <2>3. CASE c > Checked
    BY <1>1, <1>3, <1>4, <2>1, <2>3
  <2>4. QED BY <1>4, <2>1, <2>2, <2>3
<1>7. Filter!Min(Filter!Outstanding) = h
  <2>1. \A x \in Filter!Outstanding : x \in Int
    BY SameOutstanding
  <2>2. \A x \in Filter!Outstanding : (\A y \in Filter!Outstanding : x <= y) => x = h
    BY <1>1, <1>5, <1>6, <2>1
  <2>3. QED BY <1>5, <1>6, <2>2 DEF Filter!Min
<1>8. QED BY <1>5, <1>7 DEF Filter!Deliver, Deliver

\* The threads, queues and locks implement the filter: what the consumer sees
\* is always the matching candidates, in order, and the end comes after the last.
THEOREM Refinement == Spec => FilterSpec
<1>1. Init => Filter!Init
  BY DEF Init, Filter!Init
<1>2. ASSUME TypeOK, Submitting, Protocol, FifoFilter, [Next]_vars
      PROVE  [Filter!Next]_Filter!vars
  <2> USE DEF user, queues, flags, locks, vars
  <2>1. CASE PollSome \/ NextSome
    BY <1>2, <2>1, DeliverRefines DEF PollSome, NextSome, Filter!Next
  <2>2. CASE SubmitPush
    <3>1. ~drained /\ submitted < MaxCandidates
      BY <1>2, <2>2 DEF SubmitPush, Protocol, Submitting, TypeOK
    <3>2. QED BY <2>2, <3>1 DEF SubmitPush, Filter!Submit, Filter!Next
  <2>3. CASE NextNone
    <3>1. Range(delivered) = {c \in passing : c <= submitted}
      BY <1>2, <2>3, DrainedFacts DEF NextNone, Protocol
    <3>3. Filter!Outstanding = {}
      BY <3>1, Zenon, SameOutstanding
    <3>2. QED BY <2>3, <3>3 DEF NextNone, Filter!Drain, Filter!Next
  <2>4. ASSUME ~(PollSome \/ NextSome \/ SubmitPush \/ NextNone)
        PROVE  UNCHANGED <<passing, submitted, delivered, drained>>
    <3>1. CASE UNCHANGED vars
      BY <3>1
    <3>2. CASE VerifierNext
      BY <3>2 DEF VerifierNext, VerifierLock, VerifierPop, VerifierBreak, VerifierEmpty,
         VerifierBlock, VerifierNotifyRoom, VerifierAccept, VerifierReject, VerifierFinish,
         VerifierNotifyDone
    <3>3. CASE SpuriousWakeup
      BY <3>3 DEF SpuriousWakeup
    <3>4. CASE DfsNext
      BY <2>4, <3>4 DEF DfsNext, Found, SubmitLock, SubmitFull, SubmitBlock, SubmitNotify,
         PollNone, Resume, Stop, Exhausted, Undisputed, ShutdownStore, ShutdownNotify,
         NextLock, NextEmpty, NextBlock, Join
    <3>5. QED BY <1>2, <3>1, <3>2, <3>3, <3>4 DEF Next
  <2>5. QED BY <2>1, <2>2, <2>3, <2>4 DEF Filter!vars
<1>3. QED
  BY <1>1, <1>2, Typing, ProtocolHolds, FifoFiltering, PTL DEF Spec, FilterSpec, Filter!Spec
===============================================================================
