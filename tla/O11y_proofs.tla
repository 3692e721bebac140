------------------------------ MODULE O11y_proofs ------------------------------
(***************************************************************************)
(* The safety of O11y for every number of events, set of values and width  *)
(* of the counters: typing, that the worker does not sleep through work,   *)
(* and that no event is lost, repeated or measured wrongly on its way to   *)
(* the file.                                                               *)
(***************************************************************************)
EXTENDS O11y, SequenceTheorems, TLAPS

\* The types, with those of the parts that are read at an index: a job is the
\* number of an emission.
Typing ==
  /\ TypeOK
  /\ jobs \in Seq(1..Len(emitted)) /\ local \in Seq(1..Len(emitted))

LEMMA TypingInit == Init => Typing
<1> SUFFICES ASSUME Init PROVE Typing
  OBVIOUS
<1>1. /\ emitted \in Seq(Emitted) /\ Len(emitted) <= MaxEvents
      /\ jobs \in Seq(Emissions) /\ local \in Seq(Emissions)
      /\ jobs \in Seq(1..Len(emitted)) /\ local \in Seq(1..Len(emitted))
      /\ events_queue \in Seq(Records) /\ batch \in Seq(Records) /\ file \in Seq(Records)
      /\ window \in Windows
  BY MaxEventsAssumption, WidthAssumption DEF Init, Windows
<1>2. /\ started \in BOOLEAN /\ stop \in BOOLEAN /\ signalled \in BOOLEAN
      /\ due \in BOOLEAN /\ run_ \in BOOLEAN /\ flushEnabled \in BOOLEAN
  BY Zenon DEF Init
<1>3. /\ main \in MainLabels /\ worker \in WorkerLabels /\ heartbeat \in BeatLabels
      /\ frames \subseteq Emissions /\ sched_mu \in {Free, "worker"}
      /\ back \in {"check", "resume", "gone"}
  BY DEF Init, MainLabels, WorkerLabels, BeatLabels
<1>4. QED BY <1>1, <1>2, <1>3 DEF Typing, TypeOK

\* What the worker records fits its type.
LEMMA RecordedTyped ==
  ASSUME Typing, NEW i \in 1..Len(emitted)
  PROVE  Recorded(i) \in Records
<1>1. emitted[i].kind \in {Event, "metric"} /\ emitted[i].value \in 0..(Width - 1)
  <2>1. emitted[i] \in Emitted
    BY DEF Typing, TypeOK
  <2>2. QED BY <2>1 DEF Emitted
<1>2. i \in Emissions
  BY MaxEventsAssumption DEF Typing, TypeOK, Emissions
<1>3. 0 \in 0..(Width - 1)
  BY WidthAssumption
<1>4. (emitted[i].value + Width - window.prev) % Width \in 0..(Width - 1)
  <2>1. window.prev \in 0..(Width - 1)
    BY DEF Typing, TypeOK, Windows
  <2> DEFINE difference == emitted[i].value + Width - window.prev
  <2>2. difference \in Int
    BY <1>1, <2>1, WidthAssumption
  <2> HIDE DEF difference
  <2>3. difference % Width \in 0..(Width - 1)
    BY <2>2, WidthAssumption
  <2>4. QED BY <2>3 DEF difference
<1>5. QED BY <1>2, <1>3, <1>4 DEF Recorded, Records

LEMMA EmittedTyped ==
  ASSUME NEW e \in [kind : {Event}, value : {0}] \cup [kind : {"metric"}, value : Values]
  PROVE  e \in Emitted
<1>1. 0 \in 0..(Width - 1)
  BY WidthAssumption
<1>2. CASE e \in [kind : {Event}, value : {0}]  BY <1>1, <1>2 DEF Emitted
<1>3. CASE e \in [kind : {"metric"}, value : Values]
  BY <1>3, ValuesAssumption DEF Emitted
<1>4. QED BY <1>2, <1>3

LEMMA TypingStep == Typing /\ [Next]_vars => Typing'
<1> SUFFICES ASSUME Typing, [Next]_vars PROVE Typing'
  OBVIOUS
<1> USE MaxEventsAssumption, WidthAssumption, ValuesAssumption
    DEF Typing, TypeOK, MainLabels, WorkerLabels, BeatLabels, Free,
        emission, scheduler, records, pulse, vars
<1>1. CASE Start          BY <1>1 DEF Start, EnsureStarted
<1>2. CASE \E e \in [kind : {Event}, value : {0}] \cup [kind : {"metric"}, value : Values] : Emit(e)
  <2> PICK e \in [kind : {Event}, value : {0}] \cup [kind : {"metric"}, value : Values] : Emit(e)
    BY <1>2
  <2>1. e \in Emitted
    BY EmittedTyped
  <2>2. /\ emitted' \in Seq(Emitted)
        /\ Len(emitted') = Len(emitted) + 1 /\ Len(emitted') <= MaxEvents
    BY <2>1 DEF Emit
  <2>3. /\ jobs \in Seq(1..(Len(emitted) + 1)) /\ local \in Seq(1..(Len(emitted) + 1))
    OBVIOUS
  <2>4. jobs' \in Seq(1..Len(emitted')) /\ local' \in Seq(1..Len(emitted'))
    BY <2>2, <2>3 DEF Emit
  <2>5. jobs' \in Seq(Emissions) /\ frames' \subseteq Emissions
    <3>1. Len(emitted) + 1 \in Emissions
      BY <2>2 DEF Emissions
    <3>2. QED BY <3>1 DEF Emit
  <2>6. QED BY <2>2, <2>4, <2>5 DEF Emit, EnsureStarted
<1>3. CASE NotifyJob
  <2>1. signalled' \in BOOLEAN
    BY <1>3, Zenon DEF NotifyJob, Notified
  <2>2. QED BY <1>3, <2>1 DEF NotifyJob
<1>4. CASE HeartbeatStart BY <1>4 DEF HeartbeatStart
<1>5. CASE HeartbeatStop
  <2>1. run_' \in BOOLEAN
    BY <1>5, Zenon DEF HeartbeatStop
  <2>2. QED BY <1>5, <2>1 DEF HeartbeatStop
<1>6. CASE HeartbeatJoin  BY <1>6 DEF HeartbeatJoin
<1>7. CASE Return         BY <1>7 DEF Return
<1>8. CASE RequestStop    BY <1>8 DEF RequestStop
<1>9. CASE PassMutex      BY <1>9 DEF PassMutex
<1>10. CASE NotifyStop    BY <1>10 DEF NotifyStop, Notified
<1>11. CASE Join          BY <1>11 DEF Join
<1>12. CASE FinalFlush    BY <1>12 DEF FinalFlush, SwapOut
<1>13. CASE FinalWrite    BY <1>13 DEF FinalWrite, WriteLine
<1>14. CASE Returned      BY <1>14 DEF Returned
<1>15. CASE Check         BY <1>15 DEF Check
<1>16. CASE Lock          BY <1>16 DEF Lock
<1>17. CASE Test          BY <1>17 DEF Test
<1>18. CASE Sleep
  <2>1. signalled' \in BOOLEAN
    BY <1>18, Zenon DEF Sleep
  <2>2. QED BY <1>18, <2>1 DEF Sleep
<1>19. CASE Wake
  <2>1. signalled' \in BOOLEAN /\ sched_mu' \in {Free, "worker"}
    BY <1>19, Zenon DEF Wake
  <2>2. worker' \in WorkerLabels
    BY <1>19 DEF Wake
  <2>3. UNCHANGED <<emission, main, started, stop, jobs, frames, local, due, records, pulse>>
    BY <1>19, Zenon DEF Wake
  <2> HIDE DEF Free
  <2>4. QED BY <2>1, <2>2, <2>3
<1>20. CASE WakeLate
  <2>1. signalled' \in BOOLEAN /\ sched_mu' \in {Free, "worker"}
    BY <1>20, Zenon DEF WakeLate
  <2>2. worker' \in WorkerLabels
    BY <1>20 DEF WakeLate
  <2>3. UNCHANGED <<emission, main, started, stop, jobs, frames, local, due, records, pulse>>
    BY <1>20, Zenon DEF WakeLate
  <2> HIDE DEF Free
  <2>4. QED BY <2>1, <2>2, <2>3
<1>21. CASE TakeAll       BY <1>21 DEF TakeAll
<1>22. CASE Resume
  <2>1. Head(local) \in 1..Len(emitted) /\ Tail(local) \in Seq(1..Len(emitted)) /\ Tail(local) \in Seq(Emissions)
    BY <1>22 DEF Resume
  <2>2. Recorded(Head(local)) \in Records
    BY <2>1, RecordedTyped DEF Typing
  <2>3. window' \in Windows
    <3>1. emitted[Head(local)].value \in 0..(Width - 1)
      <4>1. emitted[Head(local)] \in Emitted
        BY <2>1
      <4>2. QED BY <4>1 DEF Emitted
    <3>2. QED BY <1>22, <3>1 DEF Resume, Remember, Windows
  <2>4. QED BY <1>22, <2>1, <2>2, <2>3 DEF Resume
<1>23. CASE ResumedAll    BY <1>23 DEF ResumedAll
<1>24. CASE Timer
  <2>1. due' \in BOOLEAN
    BY <1>24, Zenon DEF Timer
  <2>2. QED BY <1>24, <2>1 DEF Timer
<1>25. CASE Flush         BY <1>25 DEF Flush, SwapOut
<1>26. CASE Write         BY <1>26 DEF Write, WriteLine
<1>27. CASE Flushed       BY <1>27 DEF Flushed
<1>28. CASE Tick          BY <1>28 DEF Tick
<1>29. CASE BeatCheck     BY <1>29 DEF BeatCheck
<1>30. CASE Beat          BY <1>30 DEF Beat
<1>31. CASE watchdog_thread BY <1>31 DEF watchdog_thread
<1>32. CASE UNCHANGED vars BY <1>32
<1>33. QED
  BY <1>1, <1>2, <1>3, <1>4, <1>5, <1>6, <1>7, <1>8, <1>9, <1>10, <1>11, <1>12, <1>13, <1>14,
     <1>15, <1>16, <1>17, <1>18, <1>19, <1>20, <1>21, <1>22, <1>23, <1>24, <1>25, <1>26,
     <1>27, <1>28, <1>29, <1>30, <1>31, <1>32
  DEF Next, MainStep, Destructor, WorkerStep, HeartbeatStep
LEMMA TypingHolds == Spec => []Typing
BY TypingInit, TypingStep, PTL DEF Spec

\* Every variable keeps its type; a difference is always a value of the counter's
\* width.
THEOREM TypeCorrect == Spec => []TypeOK
<1>1. Typing => TypeOK
  BY DEF Typing
<1>2. QED BY <1>1, TypingHolds, PTL

-------------------------------------------------------------------------------
\* Where each thread can be while the others are where they are: who holds the
\* mutex, that no event precedes the worker, that the worker ends only when told
\* to, and that main flushes only after the worker has ended.
Protocol ==
  /\ sched_mu = "worker" <=> worker \in {"test", "sleep", "swap"}
  /\ worker = "none" <=> ~started
  /\ worker = "none" => emitted = <<>> /\ jobs = <<>> /\ local = <<>>
  /\ stop => main \notin {"run", "notify", "heartbeat_wait", "exit"}
  /\ worker = "gone" \/ back = "gone" => stop
  /\ main \in {"flush", "write", "returned"} => worker \in {"none", "gone"}
  /\ main = "notify" => emitted # <<>>

\* What each place may hold: the local queue only while it is worked off, the
\* batch only while it is written, the records only until the last flush.
Places ==
  /\ local # <<>> => worker = "resume" \/ (worker \in {"flush", "write"} /\ back = "resume")
  /\ batch # <<>> => worker = "write" \/ main \in {"write", "terminated"}
  /\ main \in {"write", "returned"} => events_queue = <<>>
  /\ main = "returned" => batch = <<>>

LEMMA ProtocolInit == Init => Protocol /\ Places
BY DEF Init, Protocol, Places, Free

LEMMA ProtocolStep == Typing /\ Protocol /\ Places /\ [Next]_vars => (Protocol /\ Places)'
<1> SUFFICES ASSUME Typing, Protocol, Places, [Next]_vars PROVE (Protocol /\ Places)'
  OBVIOUS
<1> USE DEF Typing, TypeOK, Protocol, Places, Free, emission, scheduler, records, pulse, vars
<1>1. CASE Start            BY <1>1 DEF Start, EnsureStarted
<1>2. CASE \E e \in [kind : {Event}, value : {0}] \cup [kind : {"metric"}, value : Values] : Emit(e)
  <2> PICK e \in [kind : {Event}, value : {0}] \cup [kind : {"metric"}, value : Values] : Emit(e)
    BY <1>2
  <2>1. e \in Emitted
    BY EmittedTyped
  <2>2. Len(emitted') = Len(emitted) + 1
    BY <2>1 DEF Emit
  <2>3. emitted' # <<>>
    BY <2>2
  <2>4. QED BY <2>3 DEF Emit, EnsureStarted
<1>3. CASE NotifyJob        BY <1>3 DEF NotifyJob, Notified
<1>4. CASE HeartbeatStart   BY <1>4 DEF HeartbeatStart
<1>5. CASE HeartbeatStop    BY <1>5 DEF HeartbeatStop
<1>6. CASE HeartbeatJoin    BY <1>6 DEF HeartbeatJoin
<1>7. CASE Return           BY <1>7 DEF Return
<1>8. CASE RequestStop      BY <1>8 DEF RequestStop
<1>9. CASE PassMutex        BY <1>9 DEF PassMutex
<1>10. CASE NotifyStop      BY <1>10 DEF NotifyStop, Notified
<1>11. CASE Join            BY <1>11 DEF Join
<1>12. CASE FinalFlush      BY <1>12 DEF FinalFlush, SwapOut
<1>13. CASE FinalWrite      BY <1>13 DEF FinalWrite, WriteLine
<1>14. CASE Returned        BY <1>14 DEF Returned
<1>15. CASE Check           BY <1>15 DEF Check
<1>16. CASE Lock            BY <1>16 DEF Lock
<1>17. CASE Test            BY <1>17 DEF Test
<1>18. CASE Sleep           BY <1>18 DEF Sleep
<1>19. CASE Wake            BY <1>19 DEF Wake
<1>20. CASE WakeLate        BY <1>20 DEF WakeLate
<1>21. CASE TakeAll         BY <1>21 DEF TakeAll
<1>22. CASE Resume          BY <1>22 DEF Resume
<1>23. CASE ResumedAll      BY <1>23 DEF ResumedAll
<1>24. CASE Timer           BY <1>24 DEF Timer
<1>25. CASE Flush           BY <1>25 DEF Flush, SwapOut
<1>26. CASE Write           BY <1>26 DEF Write, WriteLine
<1>27. CASE Flushed         BY <1>27 DEF Flushed
<1>28. CASE Tick            BY <1>28 DEF Tick
<1>29. CASE BeatCheck       BY <1>29 DEF BeatCheck
<1>30. CASE Beat            BY <1>30 DEF Beat
<1>31. CASE watchdog_thread BY <1>31 DEF watchdog_thread
<1>32. CASE UNCHANGED vars BY <1>32
<1>33. QED
  BY <1>1, <1>2, <1>3, <1>4, <1>5, <1>6, <1>7, <1>8, <1>9, <1>10, <1>11, <1>12, <1>13, <1>14,
     <1>15, <1>16, <1>17, <1>18, <1>19, <1>20, <1>21, <1>22, <1>23, <1>24, <1>25, <1>26,
     <1>27, <1>28, <1>29, <1>30, <1>31, <1>32
  DEF Next, MainStep, Destructor, WorkerStep, HeartbeatStep
-------------------------------------------------------------------------------
recorded == Len(emitted) - Len(jobs) - Len(local)

\* The emissions still to be recorded are the last ones, in order: first those of
\* the local queue, then the jobs.  Their frames exist, and no others.
Numbered ==
  /\ Len(file) + Len(batch) + Len(events_queue) = recorded
  /\ \A k \in 1..Len(local) : local[k] = recorded + k
  /\ \A k \in 1..Len(jobs) : jobs[k] = recorded + Len(local) + k
  /\ frames = (recorded + 1)..Len(emitted)

\* Lengths are numbers.
LEMMA Lengths ==
  Typing => /\ Len(emitted) \in Nat /\ Len(jobs) \in Nat /\ Len(local) \in Nat
            /\ Len(file) \in Nat /\ Len(batch) \in Nat /\ Len(events_queue) \in Nat
BY DEF Typing, TypeOK

LEMMA NumberedInit == Init => Numbered
<1> SUFFICES ASSUME Init PROVE Numbered
  OBVIOUS
<1>1. /\ Len(emitted) = 0 /\ Len(jobs) = 0 /\ Len(local) = 0
      /\ Len(file) = 0 /\ Len(batch) = 0 /\ Len(events_queue) = 0
  BY DEF Init
<1>2. frames = 1..0
  BY DEF Init
<1>3. QED BY <1>1, <1>2 DEF Numbered, recorded

LEMMA NumberedStep == Typing /\ Protocol /\ Places /\ Numbered /\ [Next]_vars => Numbered'
<1> SUFFICES ASSUME Typing, Protocol, Places, Numbered, [Next]_vars PROVE Numbered'
  OBVIOUS
<1> USE DEF emission, scheduler, records, pulse, vars
<1> DEFINE queues == <<emitted, jobs, frames, local, events_queue, batch, file>>
<1>1. CASE UNCHANGED queues
  BY <1>1 DEF Numbered, recorded
<1>2. CASE \E e \in [kind : {Event}, value : {0}] \cup [kind : {"metric"}, value : Values] : Emit(e)
  <2> PICK e \in [kind : {Event}, value : {0}] \cup [kind : {"metric"}, value : Values] : Emit(e)
    BY <1>2
  <2>1. e \in Emitted
    BY EmittedTyped
  <2>2. Len(emitted') = Len(emitted) + 1 /\ Len(jobs') = Len(jobs) + 1
    BY <2>1 DEF Emit, Typing, TypeOK
  <2>3. \A k \in 1..Len(jobs') : jobs'[k] = IF k <= Len(jobs) THEN jobs[k] ELSE Len(emitted) + 1
    BY <2>1, <2>2 DEF Emit, Typing, TypeOK
  <2>4. UNCHANGED <<local, file, batch, events_queue>> /\ frames' = frames \cup {Len(emitted) + 1}
    BY DEF Emit
  <2>5. recorded' = recorded /\ recorded <= Len(emitted) /\ Len(local') = Len(local)
    BY <2>2, <2>4, Lengths DEF recorded
  <2>6. \A k \in 1..Len(jobs') : jobs'[k] = recorded' + Len(local') + k
    <3> TAKE k \in 1..Len(jobs')
    <3>1. CASE k <= Len(jobs)
      BY <2>2, <2>3, <2>5, <3>1, Lengths DEF Numbered
    <3>2. CASE k = Len(jobs) + 1
      BY <2>2, <2>3, <2>5, <3>2, Lengths DEF recorded
    <3>3. QED BY <2>2, <3>1, <3>2, Lengths
  <2>7. frames' = (recorded' + 1)..Len(emitted')
    BY <2>2, <2>4, <2>5, Lengths DEF Numbered, recorded
  <2>8. QED BY <2>4, <2>5, <2>6, <2>7 DEF Numbered
<1>3. CASE SwapOut /\ batch = <<>> /\ UNCHANGED <<emitted, jobs, frames, local, file>>
  <2>1. Len(batch') = Len(events_queue) /\ Len(events_queue') = 0 /\ Len(batch) = 0
    BY <1>3 DEF SwapOut, Typing, TypeOK
  <2>2. QED BY <1>3, <2>1, Lengths DEF Numbered, recorded
<1>4. CASE WriteLine /\ batch # <<>> /\ UNCHANGED <<emitted, jobs, frames, local, events_queue>>
  <2>1. Len(file') = Len(file) + 1 /\ Len(batch') = Len(batch) - 1
    BY <1>4 DEF WriteLine, Typing, TypeOK
  <2>2. recorded' = recorded
    BY <1>4 DEF recorded
  <2>3. Len(file') + Len(batch') + Len(events_queue') = recorded'
    BY <1>4, <2>1, <2>2, Lengths DEF Numbered
  <2>4. QED BY <1>4, <2>2, <2>3 DEF Numbered
<1>5. CASE TakeAll
  <2>1. local = <<>> /\ local' = jobs /\ jobs' = <<>>
        /\ UNCHANGED <<emitted, frames, events_queue, batch, file>>
    BY <1>5 DEF TakeAll, Places
  <2>2. Len(local) = 0 /\ Len(jobs') = 0
    BY <2>1
  <2>3. QED BY <2>1, <2>2, Lengths DEF Numbered, recorded
<1>6. CASE Resume
  <2>1. local # <<>> /\ local' = Tail(local) /\ events_queue' = Append(events_queue, Recorded(Head(local)))
    BY <1>6 DEF Resume
  <2>2. emitted' = emitted /\ jobs' = jobs /\ batch' = batch /\ file' = file
    BY <1>6 DEF Resume
  <2>3. Len(local) > 0 /\ Head(local) = local[1] /\ Len(local') = Len(local) - 1
    BY <2>1 DEF Typing, TypeOK
  <2>4. \A k \in 1..Len(local') : local'[k] = local[k + 1]
    BY <2>1 DEF Typing, TypeOK
  <2>5. Len(events_queue') = Len(events_queue) + 1
    <3>1. Head(local) \in 1..Len(emitted)
      BY <2>1 DEF Typing
    <3>2. Recorded(Head(local)) \in Records
      BY <3>1, RecordedTyped
    <3>3. QED BY <2>1, <3>2 DEF Typing, TypeOK
  <2>6. recorded' = recorded + 1
    BY <2>2, <2>3, Lengths DEF recorded
  <2>7. Head(local) = recorded + 1
    BY <2>3, Lengths DEF Numbered
  <2>8. \A k \in 1..Len(local') : local'[k] = recorded' + k
    <3> TAKE k \in 1..Len(local')
    <3>1. k + 1 \in 1..Len(local)
      BY <2>3, Lengths
    <3>2. local'[k] = recorded + (k + 1)
      BY <2>4, <3>1 DEF Numbered
    <3>3. QED BY <2>6, <3>2, Lengths DEF recorded
  <2>9. \A k \in 1..Len(jobs') : jobs'[k] = recorded' + Len(local') + k
    <3> TAKE k \in 1..Len(jobs')
    <3>1. jobs'[k] = recorded + Len(local) + k
      BY <2>2 DEF Numbered
    <3>2. QED BY <2>3, <2>6, <3>1, Lengths DEF recorded
  <2>10. frames' = (recorded' + 1)..Len(emitted')
    <3>1. frames' = ((recorded + 1)..Len(emitted)) \ {recorded + 1}
      BY <1>6, <2>7 DEF Resume, Numbered
    <3>2. QED BY <2>2, <2>6, <3>1, Lengths DEF recorded
  <2>11. Len(file') + Len(batch') + Len(events_queue') = recorded'
    BY <2>2, <2>5, <2>6, Lengths DEF Numbered
  <2>12. QED BY <2>8, <2>9, <2>10, <2>11 DEF Numbered
<1>7. MainStep => UNCHANGED queues \/ \E e \in [kind : {Event}, value : {0}] \cup [kind : {"metric"}, value : Values] : Emit(e)
  BY DEF MainStep, Start, NotifyJob, HeartbeatStart, HeartbeatStop, HeartbeatJoin, Return
<1>8. Running /\ (FinalFlush \/ Flush) => SwapOut /\ batch = <<>> /\ UNCHANGED <<emitted, jobs, frames, local, file>>
  BY DEF FinalFlush, Flush, Places, Protocol, Running
<1>9. FinalWrite \/ Write => WriteLine /\ batch # <<>> /\ UNCHANGED <<emitted, jobs, frames, local, events_queue>>
  BY DEF FinalWrite, Write
<1>10. Destructor => FinalFlush \/ FinalWrite \/ UNCHANGED queues
  BY DEF Destructor, RequestStop, PassMutex, NotifyStop, Join, Returned
<1>11. WorkerStep => TakeAll \/ Resume \/ Flush \/ Write \/ UNCHANGED queues
  BY DEF WorkerStep, Check, Lock, Test, Sleep, Wake, WakeLate, ResumedAll, Timer, Flushed
<1>12. Tick \/ HeartbeatStep \/ watchdog_thread \/ UNCHANGED vars => UNCHANGED queues
  BY DEF Tick, HeartbeatStep, BeatCheck, Beat, watchdog_thread
<1>13. QED
  BY <1>1, <1>2, <1>3, <1>4, <1>5, <1>6, <1>7, <1>8, <1>9, <1>10, <1>11, <1>12 DEF Next

-------------------------------------------------------------------------------
\* A worker about to sleep has seen no job, and no stop before it took the mutex,
\* which the destructor passes through before it notifies.
Drowsy ==
  worker = "sleep" => jobs = <<>> /\ (stop => main \in {"stopped", "terminated"})

LEMMA SleepInit == Init => Drowsy /\ NoSleepThroughWork
BY DEF Init, Drowsy, NoSleepThroughWork

LEMMA SleepStep ==
  Typing /\ Protocol /\ Numbered /\ Drowsy /\ NoSleepThroughWork /\ [Next]_vars
    => (Drowsy /\ NoSleepThroughWork)'
<1> SUFFICES ASSUME Typing, Protocol, Numbered, Drowsy, NoSleepThroughWork, [Next]_vars
             PROVE  (Drowsy /\ NoSleepThroughWork)'
  OBVIOUS
<1> USE DEF Typing, TypeOK, Protocol, Drowsy, NoSleepThroughWork, Free,
        emission, scheduler, records, pulse, vars
<1>1. CASE MainStep
  <2>1. CASE Start          BY <2>1 DEF Start, EnsureStarted
  <2>2. CASE \E e \in [kind : {Event}, value : {0}] \cup [kind : {"metric"}, value : Values] : Emit(e)
    BY <2>2 DEF Emit, EnsureStarted
  <2>3. CASE NotifyJob
    <3>1. CASE main' = "run" /\ Notified
      <4>1. worker = "asleep" => signalled'
        BY <3>1, Zenon DEF Notified
      <4>2. QED BY <2>3, <3>1, <4>1 DEF NotifyJob
    <3>2. CASE Len(emitted) \notin frames
      <4>1. jobs = <<>>
        BY <2>3, <3>2, Lengths DEF Numbered, recorded, NotifyJob
      <4>2. QED BY <2>3, <3>1, <3>2, <4>1 DEF NotifyJob
    <3>3. QED BY <2>3, <3>1, <3>2 DEF NotifyJob
  <2>4. CASE HeartbeatStart \/ HeartbeatStop \/ HeartbeatJoin \/ Return
    BY <2>4 DEF HeartbeatStart, HeartbeatStop, HeartbeatJoin, Return
  <2>5. QED BY <1>1, <2>1, <2>2, <2>3, <2>4 DEF MainStep
<1>2. CASE Destructor
  <2>1. CASE NotifyStop
    <3>1. worker = "asleep" => signalled'
      BY <2>1, Zenon DEF NotifyStop, Notified
    <3>2. QED BY <2>1, <3>1 DEF NotifyStop
  <2>2. CASE RequestStop \/ PassMutex \/ Join \/ FinalFlush \/ FinalWrite \/ Returned
    BY <2>2 DEF RequestStop, PassMutex, Join, FinalFlush, FinalWrite, Returned
  <2>3. QED BY <1>2, <2>1, <2>2 DEF Destructor
<1>3. CASE WorkerStep
  <2>1. CASE Check \/ Lock \/ Test \/ Sleep \/ Wake \/ WakeLate \/ TakeAll
    BY <2>1 DEF Check, Lock, Test, Sleep, Wake, WakeLate, TakeAll
  <2>2. CASE Resume \/ ResumedAll \/ Timer \/ Flush \/ Write \/ Flushed
    BY <2>2 DEF Resume, ResumedAll, Timer, Flush, Write, Flushed
  <2>3. QED BY <1>3, <2>1, <2>2 DEF WorkerStep
<1>4. CASE Tick \/ HeartbeatStep \/ watchdog_thread \/ UNCHANGED vars
  BY <1>4 DEF Tick, HeartbeatStep, BeatCheck, Beat, watchdog_thread
<1>5. QED BY <1>1, <1>2, <1>3, <1>4 DEF Next

LEMMA Safety == Spec => [](Typing /\ Protocol /\ Places /\ Numbered)
<1>1. Init => Protocol /\ Places /\ Numbered
  BY ProtocolInit, NumberedInit
<1>2. QED BY <1>1, ProtocolStep, NumberedStep, TypingInit, TypingStep, PTL DEF Spec

\* The worker never sleeps through a job or a stop, for which the destructor's pass
\* through the mutex is needed.
THEOREM NoLostNotification == Spec => []NoSleepThroughWork
BY Safety, SleepInit, SleepStep, PTL DEF Spec
-------------------------------------------------------------------------------
\* Of the metrics before an emission, if there are any, one is the last.
HasLast ==
  \A i \in 1..(Len(emitted) + 1) :
    MetricsBefore(i) # {} => \E j \in MetricsBefore(i) : \A y \in MetricsBefore(i) : j >= y

LEMMA LastIsMax ==
  ASSUME Typing, HasLast, NEW i \in 1..(Len(emitted) + 1), MetricsBefore(i) # {}
  PROVE  /\ Max(MetricsBefore(i)) \in MetricsBefore(i)
         /\ \A y \in MetricsBefore(i) : Max(MetricsBefore(i)) >= y
BY Zenon DEF HasLast, Max

\* The window do_metric has left behind before the i-th emission.
LastWindow(i) ==
  IF MetricsBefore(i) = {} THEN [initialized |-> FALSE, prev |-> 0]
  ELSE [initialized |-> TRUE, prev |-> emitted[Max(MetricsBefore(i))].value]

\* What was emitted later changes nothing of what an earlier record should say.
LEMMA EarlierStay ==
  ASSUME Typing, HasLast, NEW e \in Emitted, emitted' = Append(emitted, e)
  PROVE  /\ \A i \in 1..Len(emitted) : emitted'[i] = emitted[i]
         /\ Len(emitted') = Len(emitted) + 1 /\ emitted'[Len(emitted) + 1] = e
         /\ \A i \in 1..(Len(emitted) + 1) :
              MetricsBefore(i)' = MetricsBefore(i) /\ LastWindow(i)' = LastWindow(i)
         /\ \A i \in 1..Len(emitted) : Measured(i)' = Measured(i)
<1>1. /\ \A i \in 1..Len(emitted) : emitted'[i] = emitted[i]
      /\ Len(emitted') = Len(emitted) + 1 /\ emitted'[Len(emitted) + 1] = e
  BY DEF Typing, TypeOK
<1>2. ASSUME NEW i \in 1..(Len(emitted) + 1)
      PROVE  MetricsBefore(i)' = MetricsBefore(i) /\ LastWindow(i)' = LastWindow(i)
  <2>1. \A j \in 1..(i - 1) : j \in 1..Len(emitted)
    BY Lengths
  <2>2. MetricsBefore(i)' = MetricsBefore(i)
    BY <1>1, <2>1 DEF MetricsBefore
  <2>3. CASE MetricsBefore(i) = {}
    BY <2>2, <2>3 DEF LastWindow
  <2>4. CASE MetricsBefore(i) # {}
    <3>1. Max(MetricsBefore(i)) \in 1..Len(emitted)
      BY <2>1, <2>4, LastIsMax DEF MetricsBefore
    <3>2. QED BY <1>1, <2>2, <2>4, <3>1 DEF LastWindow
  <2>5. QED BY <2>2, <2>3, <2>4
<1>3. ASSUME NEW i \in 1..Len(emitted) PROVE Measured(i)' = Measured(i)
  <2>1. i \in 1..(Len(emitted) + 1)
    BY Lengths
  <2>2. MetricsBefore(i)' = MetricsBefore(i) /\ LastWindow(i)' = LastWindow(i)
    BY <1>2, <2>1
  <2>3. CASE MetricsBefore(i) = {}
    BY <1>1, <2>2, <2>3 DEF Measured
  <2>4. CASE MetricsBefore(i) # {}
    <3>1. emitted'[Max(MetricsBefore(i)')].value = emitted[Max(MetricsBefore(i))].value
      BY <2>2, <2>4 DEF LastWindow
    <3>2. QED BY <1>1, <2>2, <2>4, <3>1 DEF Measured
  <2>5. QED BY <2>3, <2>4
<1>4. QED BY <1>1, <1>2, <1>3

LEMMA HasLastStep == Typing /\ HasLast /\ [Next]_vars => HasLast'
<1> SUFFICES ASSUME Typing, HasLast, [Next]_vars PROVE HasLast'
  OBVIOUS
<1>1. CASE UNCHANGED emitted
  BY <1>1 DEF HasLast, MetricsBefore
<1>2. CASE \E e \in [kind : {Event}, value : {0}] \cup [kind : {"metric"}, value : Values] : Emit(e)
  <2> PICK e \in [kind : {Event}, value : {0}] \cup [kind : {"metric"}, value : Values] : Emit(e)
    BY <1>2
  <2> DEFINE n == Len(emitted) + 1
  <2>1. e \in Emitted /\ emitted' = Append(emitted, e)
    BY EmittedTyped DEF Emit
  <2>2. Len(emitted') = n /\ \A i \in 1..n : MetricsBefore(i)' = MetricsBefore(i)
    BY <2>1, EarlierStay
  <2>3. ASSUME NEW i \in 1..n, MetricsBefore(i)' # {}
        PROVE  \E j \in MetricsBefore(i)' : \A y \in MetricsBefore(i)' : j >= y
    BY <2>2, <2>3 DEF HasLast
  <2>4. ASSUME NEW i \in {n + 1}, MetricsBefore(i)' # {}
        PROVE  \E j \in MetricsBefore(i)' : \A y \in MetricsBefore(i)' : j >= y
    <3>1. i - 1 = n /\ n \in 1..n
      BY Lengths
    <3>2. MetricsBefore(i)' = {j \in 1..n : emitted'[j].kind # Event}
      BY <3>1 DEF MetricsBefore
    <3>3. CASE emitted'[n].kind # Event
      BY <3>1, <3>2, <3>3
    <3>4. CASE emitted'[n].kind = Event
      <4>1. ASSUME NEW k \in {n} PROVE MetricsBefore(i)' = MetricsBefore(k)'
        <5>1. MetricsBefore(k)' = {j \in 1..(n - 1) : emitted'[j].kind # Event}
          BY DEF MetricsBefore
        <5>2. QED BY <3>1, <3>2, <3>4, <5>1, Lengths
      <4>2. QED BY <2>3, <2>4, <3>1, <4>1
    <3>5. QED BY <3>3, <3>4
  <2>5. \A i : i \in 1..(n + 1) => i \in 1..n \/ i = n + 1
    BY Lengths
  <2>6. QED BY <2>2, <2>3, <2>4, <2>5 DEF HasLast
<1>3. QED
  BY <1>1, <1>2
  DEF Next, MainStep, Start, NotifyJob, HeartbeatStart, HeartbeatStop, HeartbeatJoin, Return,
      Destructor, RequestStop, PassMutex, NotifyStop, Join, FinalFlush, FinalWrite, Returned,
      WorkerStep, Check, Lock, Test, Sleep, Wake, WakeLate, TakeAll, Resume, ResumedAll, Timer,
      Flush, Write, Flushed, Tick, HeartbeatStep, BeatCheck, Beat, watchdog_thread,
      emission, vars
-------------------------------------------------------------------------------
\* What has been recorded says what it should, wherever it is by now, and the
\* window holds the value of the last metric recorded, or no baseline yet.
Accurate ==
  /\ window = LastWindow(recorded + 1)
  /\ \A k \in 1..Len(file) : file[k] = Measured(k)
  /\ \A k \in 1..Len(batch) : batch[k] = Measured(Len(file) + k)
  /\ \A k \in 1..Len(events_queue) : events_queue[k] = Measured(Len(file) + Len(batch) + k)

LEMMA AccurateInit == Init => HasLast /\ Accurate
<1> SUFFICES ASSUME Init PROVE HasLast /\ Accurate
  OBVIOUS
<1>1. /\ Len(emitted) = 0 /\ Len(jobs) = 0 /\ Len(local) = 0
      /\ Len(file) = 0 /\ Len(batch) = 0 /\ Len(events_queue) = 0
      /\ window = [initialized |-> FALSE, prev |-> 0]
  BY DEF Init
<1>2. MetricsBefore(1) = {}
  BY DEF MetricsBefore
<1>3. HasLast
  BY <1>1, <1>2 DEF HasLast
<1>4. window = LastWindow(recorded + 1)
  BY <1>1, <1>2 DEF LastWindow, recorded
<1>5. /\ \A k \in 1..Len(file) : file[k] = Measured(k)
      /\ \A k \in 1..Len(batch) : batch[k] = Measured(Len(file) + k)
      /\ \A k \in 1..Len(events_queue) : events_queue[k] = Measured(Len(file) + Len(batch) + k)
  BY <1>1
<1>6. QED BY <1>3, <1>4, <1>5 DEF Accurate

LEMMA AccurateStep ==
  Typing /\ Protocol /\ Places /\ Numbered /\ HasLast /\ Accurate /\ [Next]_vars => Accurate'
<1> SUFFICES ASSUME Typing, Protocol, Places, Numbered, HasLast, Accurate, [Next]_vars
             PROVE  Accurate'
  OBVIOUS
<1> USE DEF emission, scheduler, records, pulse, vars
<1> DEFINE queues == <<emitted, jobs, local, window, events_queue, batch, file>>
<1>1. CASE UNCHANGED queues
  <2>1. \A i : Measured(i)' = Measured(i) /\ LastWindow(i)' = LastWindow(i)
    BY <1>1 DEF Measured, LastWindow, MetricsBefore
  <2>2. recorded' = recorded
    BY <1>1 DEF recorded
  <2>3. QED BY <1>1, <2>1, <2>2 DEF Accurate
<1>2. CASE \E e \in [kind : {Event}, value : {0}] \cup [kind : {"metric"}, value : Values] : Emit(e)
  <2> PICK e \in [kind : {Event}, value : {0}] \cup [kind : {"metric"}, value : Values] : Emit(e)
    BY <1>2
  <2>1. e \in Emitted /\ emitted' = Append(emitted, e)
    BY EmittedTyped DEF Emit
  <2>2. Len(emitted') = Len(emitted) + 1 /\ Len(jobs') = Len(jobs) + 1
    BY <2>1 DEF Emit, Typing, TypeOK
  <2>3. local' = local /\ file' = file /\ batch' = batch /\ events_queue' = events_queue /\ window' = window
    BY DEF Emit
  <2>4. recorded' = recorded /\ recorded \in Nat /\ recorded <= Len(emitted)
    BY <2>2, <2>3, Lengths DEF recorded, Numbered
  <2>5. \A i \in 1..recorded : Measured(i)' = Measured(i)
    BY <2>1, <2>4, EarlierStay, Lengths
  <2>6. LastWindow(recorded + 1)' = LastWindow(recorded + 1)
    <3>1. ASSUME NEW i \in {recorded + 1} PROVE LastWindow(i)' = LastWindow(i)
      BY <2>1, <2>4, EarlierStay, Lengths
    <3>2. QED BY <2>4, <3>1
  <2>7. /\ \A k \in 1..Len(file) : k \in 1..recorded
        /\ \A k \in 1..Len(batch) : Len(file) + k \in 1..recorded
        /\ \A k \in 1..Len(events_queue) : Len(file) + Len(batch) + k \in 1..recorded
    BY <2>4, Lengths DEF Numbered
  <2>8. QED BY <2>3, <2>4, <2>5, <2>6, <2>7 DEF Accurate
<1>3. CASE SwapOut /\ batch = <<>> /\ UNCHANGED <<emitted, jobs, local, window, file>>
  <2>1. Len(batch) = 0 /\ batch' = events_queue /\ Len(events_queue') = 0
    BY <1>3 DEF SwapOut
  <2>2. \A i : Measured(i)' = Measured(i) /\ LastWindow(i)' = LastWindow(i)
    BY <1>3 DEF Measured, LastWindow, MetricsBefore
  <2>3. recorded' = recorded /\ file' = file /\ window' = window
    BY <1>3 DEF recorded
  <2>4. QED BY <2>1, <2>2, <2>3, Lengths DEF Accurate
<1>4. CASE WriteLine /\ batch # <<>> /\ UNCHANGED <<emitted, jobs, local, window, events_queue>>
  <2>1. file' = Append(file, batch[1]) /\ Len(file') = Len(file) + 1 /\ Len(batch') = Len(batch) - 1
    BY <1>4 DEF WriteLine, Typing, TypeOK
  <2>2. \A k \in 1..Len(batch') : batch'[k] = batch[k + 1]
    BY <1>4 DEF WriteLine, Typing, TypeOK
  <2>3. \A i : Measured(i)' = Measured(i) /\ LastWindow(i)' = LastWindow(i)
    BY <1>4 DEF Measured, LastWindow, MetricsBefore
  <2>4. recorded' = recorded /\ events_queue' = events_queue /\ window' = window
    BY <1>4 DEF recorded
  <2>5. \A k \in 1..Len(file') : file'[k] = IF k <= Len(file) THEN file[k] ELSE batch[1]
    <3>1. file \in Seq(Records)
      BY DEF Typing, TypeOK
    <3>2. QED BY ONLY <2>1, <3>1
  <2>6. Len(batch) > 0
    BY <1>4 DEF Typing, TypeOK
  <2>7. \A k \in 1..Len(file') : file'[k] = Measured(k)'
    BY <2>1, <2>3, <2>5, <2>6, Lengths DEF Accurate
  <2>8. \A k \in 1..Len(batch') : batch'[k] = Measured(Len(file) + 1 + k)
    BY <2>1, <2>2, Lengths DEF Accurate
  <2>9. \A k \in 1..Len(batch') : batch'[k] = Measured(Len(file) + k)'
    BY <2>1, <2>3, <2>8
  <2>10. \A k \in 1..Len(events_queue') : events_queue'[k] = Measured(Len(file) + Len(batch) + k)'
    BY <2>1, <2>3, <2>4, Lengths DEF Accurate
  <2>11. QED BY <2>3, <2>4, <2>7, <2>9, <2>10 DEF Accurate
<1>5. CASE TakeAll
  <2>1. local = <<>> /\ local' = jobs /\ jobs' = <<>>
        /\ UNCHANGED <<emitted, window, events_queue, batch, file>>
    BY <1>5 DEF TakeAll, Places
  <2>2. recorded' = recorded
    BY <2>1, Lengths DEF recorded
  <2>3. \A i : Measured(i)' = Measured(i) /\ LastWindow(i)' = LastWindow(i)
    BY <2>1 DEF Measured, LastWindow, MetricsBefore
  <2>4. QED BY <2>1, <2>2, <2>3 DEF Accurate
<1>6. CASE Resume
  <2> DEFINE i == recorded + 1
  <2>1. local # <<>> /\ events_queue' = Append(events_queue, Recorded(Head(local)))
        /\ emitted' = emitted /\ jobs' = jobs /\ batch' = batch /\ file' = file
        /\ local' = Tail(local) /\ Remember(Head(local))
    BY <1>6 DEF Resume
  <2>2. Len(local) > 0 /\ Head(local) = local[1] /\ Len(local') = Len(local) - 1
    BY <2>1 DEF Typing, TypeOK
  <2>3. Head(local) = i /\ i \in 1..Len(emitted) /\ recorded' = i
    <3>1. Head(local) = i
      BY <2>2, Lengths DEF Numbered
    <3>2. Head(local) \in 1..Len(emitted)
      BY <2>1 DEF Typing
    <3>3. recorded' = i
      <4>1. Len(emitted') = Len(emitted) /\ Len(jobs') = Len(jobs)
        BY <2>1
      <4>2. QED BY <2>2, <4>1, Lengths DEF recorded
    <3>4. QED BY <3>1, <3>2, <3>3
  <2>4. Recorded(i) = Measured(i) /\ Recorded(i) \in Records
    BY <2>3, RecordedTyped DEF Recorded, Measured, Accurate, LastWindow
  <2>5. /\ Len(events_queue') = Len(events_queue) + 1
        /\ \A k \in 1..Len(events_queue') :
             events_queue'[k] = IF k <= Len(events_queue) THEN events_queue[k] ELSE Measured(i)
    <3>1. events_queue' = Append(events_queue, Measured(i)) /\ Measured(i) \in Records
      BY <2>1, <2>3, <2>4
    <3>2. QED BY <3>1 DEF Typing, TypeOK
  <2>6. \A k : Measured(k)' = Measured(k) /\ LastWindow(k)' = LastWindow(k)
    BY <2>1 DEF Measured, LastWindow, MetricsBefore
  <2>7. \A k \in 1..Len(events_queue') : events_queue'[k] = Measured(Len(file) + Len(batch) + k)'
    <3>1. ASSUME NEW k \in 1..Len(events_queue')
          PROVE  events_queue'[k] = Measured(Len(file) + Len(batch) + k)
      <4>1. CASE k <= Len(events_queue)
        BY <2>5, <4>1, Lengths DEF Accurate
      <4>2. CASE k = Len(events_queue) + 1
        <5>1. Len(file) + Len(batch) + k = i
          BY <4>2, Lengths DEF Numbered
        <5>2. QED BY <2>5, <4>2, <5>1, Lengths
      <4>3. QED BY <2>5, <4>1, <4>2, Lengths
    <3>2. QED BY <2>1, <2>6, <3>1
  <2>8. window' = LastWindow(i + 1)
    <3>1. MetricsBefore(i + 1) = IF emitted[i].kind = Event THEN MetricsBefore(i) ELSE MetricsBefore(i) \cup {i}
      BY <2>3, Lengths DEF MetricsBefore
    <3>2. CASE emitted[i].kind = Event
      BY <2>1, <2>3, <3>1, <3>2 DEF Remember, LastWindow, Accurate
    <3>3. CASE emitted[i].kind # Event
      <4>1. i + 1 \in 1..(Len(emitted) + 1) /\ i \in MetricsBefore(i + 1)
        BY <2>3, <3>1, <3>3, Lengths
      <4>2. Max(MetricsBefore(i + 1)) = i
        <5>1. Max(MetricsBefore(i + 1)) \in MetricsBefore(i + 1) /\ Max(MetricsBefore(i + 1)) >= i
          BY <4>1, LastIsMax
        <5>2. QED BY <2>3, <5>1, Lengths DEF MetricsBefore
      <4>3. QED BY <2>1, <2>3, <3>3, <4>1, <4>2 DEF Remember, LastWindow
    <3>4. QED BY <3>2, <3>3
  <2>9. window' = LastWindow(recorded + 1)'
    BY <2>3, <2>6, <2>8
  <2>10. QED BY <2>1, <2>6, <2>7, <2>9 DEF Accurate
<1>7. MainStep => UNCHANGED queues \/ \E e \in [kind : {Event}, value : {0}] \cup [kind : {"metric"}, value : Values] : Emit(e)
  BY DEF MainStep, Start, NotifyJob, HeartbeatStart, HeartbeatStop, HeartbeatJoin, Return
<1>8. Running /\ (FinalFlush \/ Flush) => SwapOut /\ batch = <<>> /\ UNCHANGED <<emitted, jobs, local, window, file>>
  BY DEF FinalFlush, Flush, Places, Protocol, Running
<1>9. FinalWrite \/ Write => WriteLine /\ batch # <<>> /\ UNCHANGED <<emitted, jobs, local, window, events_queue>>
  BY DEF FinalWrite, Write
<1>10. Destructor => FinalFlush \/ FinalWrite \/ UNCHANGED queues
  BY DEF Destructor, RequestStop, PassMutex, NotifyStop, Join, Returned
<1>11. WorkerStep => TakeAll \/ Resume \/ Flush \/ Write \/ UNCHANGED queues
  BY DEF WorkerStep, Check, Lock, Test, Sleep, Wake, WakeLate, ResumedAll, Timer, Flushed
<1>12. Tick \/ HeartbeatStep \/ watchdog_thread \/ UNCHANGED vars => UNCHANGED queues
  BY DEF Tick, HeartbeatStep, BeatCheck, Beat, watchdog_thread
<1>13. QED
  BY <1>1, <1>2, <1>3, <1>4, <1>5, <1>6, <1>7, <1>8, <1>9, <1>10, <1>11, <1>12 DEF Next
-------------------------------------------------------------------------------
\* The invariant says of the sequences as a whole what EventsKept does.
LEMMA KeptSequence ==
  ASSUME Typing, Numbered, Accurate
  PROVE  Done \o [k \in DOMAIN Waiting |-> Measured(Waiting[k])] = [i \in DOMAIN emitted |-> Measured(i)]
<1> DEFINE expected == [i \in DOMAIN emitted |-> Measured(i)]
           pending  == [k \in DOMAIN Waiting |-> Measured(Waiting[k])]
           Any      == {Measured(i) : i \in 1..Len(emitted)}
<1>1. Len(emitted) \in Nat /\ DOMAIN emitted = 1..Len(emitted) /\ recorded \in Nat /\ recorded <= Len(emitted)
  BY Lengths DEF Typing, TypeOK, Numbered, recorded
<1>2. expected \in Seq(Any) /\ Len(expected) = Len(emitted)
  <2>1. expected \in [1..Len(emitted) -> Any]
    BY <1>1
  <2>2. QED BY <1>1, <2>1, SeqDef
<1>3. /\ Len(Waiting) = Len(local) + Len(jobs) /\ DOMAIN Waiting = 1..Len(Waiting)
      /\ \A k \in 1..Len(Waiting) : Waiting[k] = recorded + k
  <2>1. /\ Waiting \in Seq(Emissions) /\ Len(Waiting) = Len(local) + Len(jobs)
        /\ \A k \in 1..Len(local) + Len(jobs) :
             Waiting[k] = IF k <= Len(local) THEN local[k] ELSE jobs[k - Len(local)]
    BY ConcatProperties DEF Typing, TypeOK, Waiting
  <2>2. DOMAIN Waiting = 1..Len(Waiting)
    BY <2>1
  <2>3. ASSUME NEW k \in 1..Len(Waiting) PROVE Waiting[k] = recorded + k
    <3>1. CASE k <= Len(local)
      <4>1. k \in 1..Len(local) /\ k \in 1..Len(local) + Len(jobs)
        BY <2>1, <3>1, Lengths
      <4>2. QED BY <2>1, <3>1, <4>1 DEF Numbered
    <3>2. CASE k > Len(local)
      <4>1. k - Len(local) \in 1..Len(jobs)
        BY <2>1, <3>2, Lengths
      <4>2. jobs[k - Len(local)] = recorded + Len(local) + (k - Len(local))
        BY <4>1 DEF Numbered
      <4>3. QED BY <1>1, <2>1, <3>2, <4>2, Lengths
    <3>3. QED BY <2>1, <3>1, <3>2, Lengths
  <2>4. QED BY <2>1, <2>2, <2>3
<1>4. Len(Waiting) = Len(emitted) - recorded
  BY <1>3, Lengths DEF recorded
<1>5. /\ pending \in Seq(Any) /\ Len(pending) = Len(emitted) - recorded
      /\ \A k \in 1..(Len(emitted) - recorded) : pending[k] = Measured(recorded + k)
  <2>1. \A k \in 1..(Len(emitted) - recorded) : pending[k] = Measured(recorded + k)
    BY <1>3, <1>4
  <2>2. \A k \in 1..(Len(emitted) - recorded) : recorded + k \in 1..Len(emitted)
    BY <1>1
  <2>3. pending \in [1..(Len(emitted) - recorded) -> Any]
    BY <1>3, <1>4, <2>1, <2>2
  <2>4. Len(emitted) - recorded \in Nat
    BY <1>1
  <2>5. QED BY <2>1, <2>3, <2>4, SeqDef
<1>6. /\ Done \in Seq(Any) /\ Len(Done) = recorded
      /\ \A k \in 1..recorded : Done[k] = Measured(k)
  <2>1. /\ file \o batch \in Seq(Records) /\ Len(file \o batch) = Len(file) + Len(batch)
        /\ \A k \in 1..Len(file) + Len(batch) :
             (file \o batch)[k] = IF k <= Len(file) THEN file[k] ELSE batch[k - Len(file)]
    BY ConcatProperties DEF Typing, TypeOK
  <2>2. /\ Done \in Seq(Records) /\ Len(Done) = recorded
        /\ \A k \in 1..recorded :
             Done[k] = IF k <= Len(file) + Len(batch) THEN (file \o batch)[k]
                       ELSE events_queue[k - (Len(file) + Len(batch))]
    BY <2>1, ConcatProperties DEF Typing, TypeOK, Done, Numbered
  <2>3. ASSUME NEW k \in 1..recorded PROVE Done[k] = Measured(k)
    <3>1. CASE k <= Len(file)
      BY <2>1, <2>2, <3>1, Lengths DEF Accurate
    <3>2. CASE Len(file) < k /\ k <= Len(file) + Len(batch)
      <4>1. k - Len(file) \in 1..Len(batch) /\ Len(file) + (k - Len(file)) = k
        BY <3>2, Lengths
      <4>2. batch[k - Len(file)] = Measured(k)
        BY <4>1 DEF Accurate
      <4>3. QED BY <2>1, <2>2, <3>2, <4>2, Lengths
    <3>3. CASE Len(file) + Len(batch) < k
      <4>1. /\ k - (Len(file) + Len(batch)) \in 1..Len(events_queue)
            /\ Len(file) + Len(batch) + (k - (Len(file) + Len(batch))) = k
        BY <1>1, <3>3, Lengths DEF Numbered
      <4>2. events_queue[k - (Len(file) + Len(batch))] = Measured(k)
        BY <4>1 DEF Accurate
      <4>3. QED BY <2>2, <3>3, <4>2, Lengths
    <3>4. QED BY <1>1, <3>1, <3>2, <3>3, Lengths
  <2>4. \A k \in 1..recorded : Done[k] \in Any
    BY <1>1, <2>3
  <2>5. Done \in [1..recorded -> Any]
    BY <2>2, <2>4
  <2>6. QED BY <1>1, <2>2, <2>3, <2>5, SeqDef
<1> HIDE DEF pending, Any
<1>7. /\ Done \o pending \in Seq(Any) /\ Len(Done \o pending) = Len(emitted)
      /\ \A k \in 1..Len(emitted) :
           (Done \o pending)[k] = IF k <= recorded THEN Done[k] ELSE pending[k - recorded]
  <2>1. Len(Done) + Len(pending) = Len(emitted)
    BY <1>1, <1>5, <1>6
  <2>2. QED BY <1>5, <1>6, <2>1, ConcatProperties
<1>8. ASSUME NEW k \in 1..Len(emitted) PROVE (Done \o pending)[k] = expected[k]
  <2>1. CASE k <= recorded
    BY <1>1, <1>6, <1>7, <2>1
  <2>2. CASE k > recorded
    <3>1. k - recorded \in 1..(Len(emitted) - recorded) /\ recorded + (k - recorded) = k
      BY <1>1, <2>2
    <3>2. QED BY <1>1, <1>5, <1>7, <2>2, <3>1
  <2>3. k <= recorded \/ k > recorded
    BY <1>1
  <2>4. QED BY <2>1, <2>2, <2>3
<1>9. Done \o pending = expected
  <2> HIDE DEF expected
  <2>1. QED BY <1>2, <1>7, <1>8, SeqEqual
<1>10. QED BY <1>9 DEF pending

\* Every emission is in exactly one place on its way to the file, in order and
\* measured against the metric before it, the first one of a metric as 0; only jobs
\* the worker had not taken when it saw the stop are missing from the file when the
\* process returns.
THEOREM NothingLost == Spec => []EventsKept
<1>1. ASSUME Typing, Protocol, Places, Numbered, Accurate PROVE EventsKept
  <2>1. CASE main = "returned"
    <3>1. local = <<>> /\ batch = <<>> /\ events_queue = <<>>
      BY <1>1, <2>1 DEF Protocol, Places
    <3>2. Len(file) + Len(jobs) = Len(emitted)
      <4>1. Len(local) = 0 /\ Len(batch) = 0 /\ Len(events_queue) = 0
        BY <3>1
      <4>2. QED BY <1>1, <4>1, Lengths DEF Numbered, recorded
    <3>3. QED BY <1>1, <3>2, KeptSequence DEF EventsKept
  <2>2. CASE main # "returned"
    BY <1>1, <2>2, KeptSequence DEF EventsKept
  <2>3. QED BY <2>1, <2>2
<1>2. Spec => [](HasLast /\ Accurate)
  <2>1. Init => HasLast /\ Accurate
    BY AccurateInit
  <2>2. QED BY <2>1, Safety, HasLastStep, AccurateStep, PTL DEF Spec
<1>3. QED BY <1>1, <1>2, Safety, PTL
================================================================================
