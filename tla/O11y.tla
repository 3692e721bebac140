--------------------------------- MODULE O11y ---------------------------------
(***************************************************************************)
(* common/O11y with the threads every command starts beside its work: the  *)
(* main thread emits events, each a coroutine that suspends into a queue;  *)
(* the O11y worker takes the queue, resumes the coroutines, and appends    *)
(* what they recorded to the events file; a heartbeat thread prints until  *)
(* it is told to stop; a detached watchdog ends the process from outside.  *)
(* When main returns, the destructor of the O11y singleton stops the       *)
(* worker and flushes.                                                     *)
(*                                                                         *)
(* An emission is known by its number.  A metric has one counter field.    *)
(* Its first emission only sets the baseline and records a rate of 0; from *)
(* then on the worker records the difference to the previous emission, in  *)
(* Width values (2^64 in the code).  notify_one after the push reads the awaiter *)
(* inside the coroutine's frame, which the worker may have freed by then:  *)
(* that read may do as intended, notify nobody, or end the process.        *)
(***************************************************************************)
EXTENDS Integers, Sequences, FiniteSetsExt

CONSTANTS
  MaxEvents,  \* bound of the model: emissions of one process
  Values,     \* values a metric's counter may have
  Width       \* values an unsigned counter can hold

ASSUME MaxEventsAssumption == MaxEvents \in Nat
ASSUME WidthAssumption == Width \in Nat \ {0}
ASSUME ValuesAssumption == Values \subseteq 0..(Width - 1)

VARIABLES
  flushEnabled,  \* CRSCE_METRICS_FLUSH
  emitted,       \* the emissions so far: their kind and value
  main,          \* where the main thread is
  started,       \* started_
  stop,          \* stop_requested() of worker_
  jobs,          \* jobs_: suspended coroutines
  frames,        \* coroutine frames not yet destroyed
  sched_mu,      \* holder of sched_mu_
  worker,        \* where the worker is
  signalled,     \* the worker, asleep, has been notified
  local,         \* worker_loop's local queue
  due,           \* now >= next_event_flush
  window,        \* the metric's window: has it a baseline, and prev_counter_values
  events_queue,  \* events_queue_
  batch,         \* what flush_events swapped out and has still to write
  back,          \* where flush_events returns to
  file,          \* the lines of the events file
  heartbeat,     \* where the heartbeat thread is
  run_           \* Heartbeat::run_

emission  == <<flushEnabled, emitted>>
scheduler == <<started, stop, jobs, frames, sched_mu, worker, signalled, local, due>>
records   == <<window, events_queue, batch, back, file>>
pulse     == <<heartbeat, run_>>
vars      == <<emission, main, scheduler, records, pulse>>

Event == "event"
Free  == "free"

MainLabels   == {"run", "notify", "heartbeat_wait", "exit", "stopped", "wake", "join",
                 "flush", "write", "returned", "terminated"}
WorkerLabels == {"none", "check", "lock", "test", "sleep", "asleep", "swap", "resume",
                 "timer", "flush", "write", "gone"}
BeatLabels   == {"off", "check", "beat", "ended"}

Init ==
  /\ flushEnabled \in BOOLEAN
  /\ emitted = <<>>
  /\ main = "run"
  /\ started = FALSE /\ stop = FALSE
  /\ jobs = <<>> /\ frames = {} /\ local = <<>>
  /\ sched_mu = Free
  /\ worker = "none" /\ signalled = FALSE /\ due = FALSE
  /\ window = [initialized |-> FALSE, prev |-> 0]
  /\ events_queue = <<>> /\ batch = <<>> /\ back = "check" /\ file = <<>>
  /\ heartbeat = "off" /\ run_ = TRUE

Running == main \notin {"returned", "terminated"}

-------------------------------------------------------------------------------
(* The main thread at work.                                                *)

\* Only main starts the worker, so the exchange of started_ and the start of
\* the thread are one step.
EnsureStarted ==
  /\ started' = TRUE
  /\ worker' = IF started THEN worker ELSE "check"

\* O11y::start
Start ==
  /\ main = "run"
  /\ EnsureStarted
  /\ UNCHANGED <<emission, main, stop, jobs, frames, sched_mu, signalled, local, due, records, pulse>>

\* event, metric: the coroutine runs up to its suspension, which pushes it.
Emit(e) ==
  /\ main = "run" /\ Len(emitted) < MaxEvents
  /\ sched_mu = Free
  /\ EnsureStarted
  /\ emitted' = Append(emitted, e)
  /\ jobs' = Append(jobs, Len(emitted) + 1)
  /\ frames' = frames \cup {Len(emitted) + 1}
  /\ main' = "notify"
  /\ UNCHANGED <<flushEnabled, stop, sched_mu, signalled, local, due, records, pulse>>

Notified == signalled' = (signalled \/ worker = "asleep")

\* sched_cv_.notify_one through the awaiter's self_.
NotifyJob ==
  /\ main = "notify"
  /\ \/ main' = "run" /\ Notified
     \/ /\ Len(emitted) \notin frames
        /\ main' \in {"run", "terminated"} /\ UNCHANGED signalled
  /\ UNCHANGED <<emission, started, stop, jobs, frames, sched_mu, worker, local, due, records, pulse>>

\* Heartbeat::start; a command starts it once, so run_ still has its first value.
HeartbeatStart ==
  /\ main = "run" /\ heartbeat = "off" /\ run_
  /\ heartbeat' = "check"
  /\ UNCHANGED <<emission, main, scheduler, records, run_>>

\* Heartbeat::wait, called at the end of the work and by the destructor.
HeartbeatStop ==
  /\ main = "run" /\ heartbeat # "off"
  /\ run_' = FALSE
  /\ main' = "heartbeat_wait"
  /\ UNCHANGED <<emission, scheduler, records, heartbeat>>

HeartbeatJoin ==
  /\ main = "heartbeat_wait" /\ heartbeat = "ended"
  /\ heartbeat' = "off"
  /\ main' = "run"
  /\ UNCHANGED <<emission, scheduler, records, run_>>

Return ==
  /\ main = "run" /\ heartbeat = "off"
  /\ main' = "exit"
  /\ UNCHANGED <<emission, scheduler, records, pulse>>

-------------------------------------------------------------------------------
(* ~O11y, when the process exits.                                          *)

RequestStop ==
  /\ main = "exit"
  /\ stop' = started
  /\ main' = IF started THEN "stopped" ELSE "flush"
  /\ UNCHANGED <<emission, started, jobs, frames, sched_mu, worker, signalled, local, due, records, pulse>>

\* A variant of the destructor that does not pass through the mutex.
PassWithoutMutex ==
  /\ main = "stopped"
  /\ main' = "wake"
  /\ UNCHANGED <<emission, scheduler, records, pulse>>

\* The empty critical section: a worker that saw no stop is asleep by now.
PassMutex ==
  /\ main = "stopped" /\ sched_mu = Free
  /\ main' = "wake"
  /\ UNCHANGED <<emission, scheduler, records, pulse>>

NotifyStop ==
  /\ main = "wake"
  /\ Notified
  /\ main' = "join"
  /\ UNCHANGED <<emission, started, stop, jobs, frames, sched_mu, worker, local, due, records, pulse>>

Join ==
  /\ main = "join" /\ worker = "gone"
  /\ main' = "flush"
  /\ UNCHANGED <<emission, scheduler, records, pulse>>

SwapOut == batch' = events_queue /\ events_queue' = <<>>
WriteLine == file' = Append(file, Head(batch)) /\ batch' = Tail(batch)

FinalFlush ==
  /\ main = "flush"
  /\ SwapOut
  /\ main' = "write"
  /\ UNCHANGED <<emission, scheduler, window, back, file, pulse>>

FinalWrite ==
  /\ main = "write" /\ batch # <<>>
  /\ WriteLine
  /\ UNCHANGED <<emission, main, scheduler, window, events_queue, back, pulse>>

Returned ==
  /\ main = "write" /\ batch = <<>>
  /\ main' = "returned"
  /\ UNCHANGED <<emission, scheduler, records, pulse>>

-------------------------------------------------------------------------------
(* worker_loop.                                                            *)

Check ==
  /\ worker = "check"
  /\ worker' = IF stop THEN "flush" ELSE "lock"
  /\ back' = IF stop THEN "gone" ELSE back
  /\ UNCHANGED <<emission, main, started, stop, jobs, frames, sched_mu, signalled, local, due,
                 window, events_queue, batch, file, pulse>>

\* Taking sched_mu_, for the first time or on the way out of a wait.
Lock ==
  /\ worker = "lock" /\ sched_mu = Free
  /\ sched_mu' = "worker"
  /\ worker' = IF jobs = <<>> THEN "test" ELSE "swap"
  /\ UNCHANGED <<emission, main, started, stop, jobs, frames, signalled, local, due, records, pulse>>

\* should_wake
Test ==
  /\ worker = "test"
  /\ worker' = IF stop \/ jobs # <<>> THEN "swap" ELSE "sleep"
  /\ UNCHANGED <<emission, main, started, stop, jobs, frames, sched_mu, signalled, local, due, records, pulse>>

Sleep ==
  /\ worker = "sleep"
  /\ sched_mu' = Free
  /\ worker' = "asleep" /\ signalled' = FALSE
  /\ UNCHANGED <<emission, main, started, stop, jobs, frames, local, due, records, pulse>>

\* Notified, or for no reason, before the deadline.
Wake ==
  /\ worker = "asleep" /\ ~due /\ sched_mu = Free
  /\ sched_mu' = "worker"
  /\ worker' = "test" /\ signalled' = FALSE
  /\ UNCHANGED <<emission, main, started, stop, jobs, frames, local, due, records, pulse>>

\* The deadline has passed: the wait is over whatever the predicate says.
WakeLate ==
  /\ worker = "asleep" /\ due /\ sched_mu = Free
  /\ sched_mu' = "worker"
  /\ worker' = "swap" /\ signalled' = FALSE
  /\ UNCHANGED <<emission, main, started, stop, jobs, frames, local, due, records, pulse>>

TakeAll ==
  /\ worker = "swap"
  /\ local' = jobs /\ jobs' = <<>>
  /\ sched_mu' = Free
  /\ worker' = "resume"
  /\ UNCHANGED <<emission, main, started, stop, frames, signalled, due, records, pulse>>

\* A variant that subtracts without wrapping around.
RecordedUnwrapped(i) ==
  [of |-> i, delta |-> IF emitted[i].kind = Event \/ ~window.initialized THEN 0
                       ELSE emitted[i].value - window.prev]

\* A variant that measures a metric's first emission against 0.
RecordedWithoutBaseline(i) ==
  [of |-> i, delta |-> IF emitted[i].kind = Event THEN 0
                       ELSE (emitted[i].value + Width - window.prev) % Width]

\* do_event; do_metric gives the difference to the previous value, modulo the
\* width, but 0 for the first emission.
Recorded(i) ==
  [of |-> i, delta |-> IF emitted[i].kind = Event \/ ~window.initialized THEN 0
                       ELSE (emitted[i].value + Width - window.prev) % Width]

\* do_metric keeps the value, the first as the baseline.
Remember(i) ==
  window' = IF emitted[i].kind = Event THEN window
            ELSE [initialized |-> TRUE, prev |-> emitted[i].value]

\* A coroutine records and is destroyed; it may flush at once.
Resume ==
  /\ worker = "resume" /\ local # <<>>
  /\ events_queue' = Append(events_queue, Recorded(Head(local)))
  /\ Remember(Head(local))
  /\ frames' = frames \ {Head(local)}
  /\ local' = Tail(local)
  /\ worker' = IF flushEnabled THEN "flush" ELSE "resume"
  /\ back' = IF flushEnabled THEN "resume" ELSE back
  /\ UNCHANGED <<emission, main, started, stop, jobs, sched_mu, signalled, due, batch, file, pulse>>

ResumedAll ==
  /\ worker = "resume" /\ local = <<>>
  /\ worker' = "timer"
  /\ UNCHANGED <<emission, main, started, stop, jobs, frames, sched_mu, signalled, local, due, records, pulse>>

\* A variant that forgets to flush when the time has come.
TimerForgotten ==
  /\ worker = "timer"
  /\ worker' = "check"
  /\ due' = FALSE
  /\ UNCHANGED <<emission, main, started, stop, jobs, frames, sched_mu, signalled, local, records, pulse>>

Timer ==
  /\ worker = "timer"
  /\ worker' = IF due THEN "flush" ELSE "check"
  /\ back' = IF due THEN "check" ELSE back
  /\ due' = FALSE
  /\ UNCHANGED <<emission, main, started, stop, jobs, frames, sched_mu, signalled, local,
                 window, events_queue, batch, file, pulse>>

Flush ==
  /\ worker = "flush"
  /\ SwapOut
  /\ worker' = "write"
  /\ UNCHANGED <<emission, main, started, stop, jobs, frames, sched_mu, signalled, local, due,
                 window, back, file, pulse>>

Write ==
  /\ worker = "write" /\ batch # <<>>
  /\ WriteLine
  /\ UNCHANGED <<emission, main, scheduler, window, events_queue, back, pulse>>

Flushed ==
  /\ worker = "write" /\ batch = <<>>
  /\ worker' = back
  /\ UNCHANGED <<emission, main, started, stop, jobs, frames, sched_mu, signalled, local, due, records, pulse>>

Tick ==
  /\ ~due /\ worker \notin {"none", "gone"}
  /\ due' = TRUE
  /\ UNCHANGED <<emission, main, started, stop, jobs, frames, sched_mu, worker, signalled, local, records, pulse>>

-------------------------------------------------------------------------------
(* The other threads.                                                      *)

\* A variant of the loop that does not look at the flag again.
BeatForever ==
  /\ heartbeat = "check"
  /\ heartbeat' = "beat"
  /\ UNCHANGED <<emission, main, scheduler, records, run_>>

BeatCheck ==
  /\ heartbeat = "check"
  /\ heartbeat' = IF run_ THEN "beat" ELSE "ended"
  /\ UNCHANGED <<emission, main, scheduler, records, run_>>

\* A line on stdout and in the heartbeat file, then the sleep.
Beat ==
  /\ heartbeat = "beat"
  /\ heartbeat' = "check"
  /\ UNCHANGED <<emission, main, scheduler, records, run_>>

\* _Exit: no destructor runs, what was not in the file is gone.
watchdog_thread ==
  /\ main' = "terminated"
  /\ UNCHANGED <<emission, scheduler, records, pulse>>

-------------------------------------------------------------------------------
MainStep ==
  \/ Start \/ (\E e \in [kind : {Event}, value : {0}] \cup [kind : {"metric"}, value : Values] : Emit(e))
  \/ NotifyJob \/ HeartbeatStart \/ HeartbeatStop \/ HeartbeatJoin \/ Return

Destructor ==
  RequestStop \/ PassMutex \/ NotifyStop \/ Join \/ FinalFlush \/ FinalWrite \/ Returned

WorkerStep ==
  \/ Check \/ Lock \/ Test \/ Sleep \/ Wake \/ WakeLate \/ TakeAll
  \/ Resume \/ ResumedAll \/ Timer \/ Flush \/ Write \/ Flushed

HeartbeatStep == BeatCheck \/ Beat

Next ==
  /\ Running
  /\ MainStep \/ Destructor \/ WorkerStep \/ Tick \/ HeartbeatStep \/ watchdog_thread

\* Every thread runs and time passes.  Nothing is asked of main while it works,
\* and the watchdog may never fire.
Fairness ==
  /\ WF_vars(Running /\ (Destructor \/ NotifyJob \/ HeartbeatJoin))
  /\ WF_vars(Running /\ WorkerStep)
  /\ WF_vars(Running /\ Tick)
  /\ WF_vars(Running /\ HeartbeatStep)

Spec == Init /\ [][Next]_vars /\ Fairness

-------------------------------------------------------------------------------
Emissions == 1..MaxEvents
Emitted   == [kind : {Event, "metric"}, value : 0..(Width - 1)]
Windows   == [initialized : BOOLEAN, prev : 0..(Width - 1)]
Records   == [of : Emissions, delta : 0..(Width - 1)]

\* The types.
TypeOK ==
  /\ flushEnabled \in BOOLEAN
  /\ emitted \in Seq(Emitted) /\ Len(emitted) <= MaxEvents
  /\ main \in MainLabels /\ worker \in WorkerLabels /\ heartbeat \in BeatLabels
  /\ started \in BOOLEAN /\ stop \in BOOLEAN /\ signalled \in BOOLEAN /\ due \in BOOLEAN
  /\ run_ \in BOOLEAN
  /\ jobs \in Seq(Emissions) /\ local \in Seq(Emissions) /\ frames \subseteq Emissions
  /\ sched_mu \in {Free, "worker"}
  /\ window \in Windows
  /\ events_queue \in Seq(Records) /\ batch \in Seq(Records) /\ file \in Seq(Records)
  /\ back \in {"check", "resume", "gone"}

\* What the record of an emission should say: the difference to the last metric
\* emitted before it, and 0 when there is none.
MetricsBefore(i) == {j \in 1..(i - 1) : emitted[j].kind # Event}

Measured(i) ==
  [of |-> i,
   delta |-> IF emitted[i].kind = Event \/ MetricsBefore(i) = {} THEN 0
             ELSE (emitted[i].value + Width - emitted[Max(MetricsBefore(i))].value) % Width]

Done    == file \o batch \o events_queue
Waiting == local \o jobs

\* Every emission is in exactly one place on its way to the file, in the order
\* of emission and measured against the metric before it, whenever the worker
\* came to it; and when the process has returned, only jobs the worker had not
\* taken when it saw the stop are missing from the file.
EventsKept ==
  /\ Done \o [k \in DOMAIN Waiting |-> Measured(Waiting[k])] = [i \in DOMAIN emitted |-> Measured(i)]
  /\ main = "returned" => Len(file) + Len(jobs) = Len(emitted)

\* Outside a destroyed frame's read, the worker never stays asleep on work: a
\* job or a stop finds it awake, notified, or main about to notify.
NoSleepThroughWork ==
  worker = "asleep" /\ ~signalled =>
    /\ stop => main \in {"stopped", "wake", "terminated"}
    /\ jobs # <<>> => main \in {"notify", "terminated"}

\* While main works, what it emits reaches the file.
EventuallyWritten ==
  \A i \in Emissions :
    i <= Len(emitted) ~> (i <= Len(file) \/ main \notin {"run", "notify", "heartbeat_wait"})

\* A process that is told to stop its heartbeat, or returns from main, gets there.
Exits ==
  /\ main = "heartbeat_wait" ~> main \in {"run", "terminated"}
  /\ main = "exit" ~> main \in {"returned", "terminated"}
===============================================================================
