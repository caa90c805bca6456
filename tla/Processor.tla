------------------------------ MODULE Processor ------------------------------
(***************************************************************************)
(* processor.c, scheduler.c and callback_job.c of libstrongswan: the       *)
(* thread pool on which the watcher's callbacks, the plugin's reconnect    *)
(* job and charon's IKE jobs run, and the timer job that is itself one of  *)
(* the pool's jobs.                                                        *)
(*                                                                         *)
(* What happens under the processor's mutex is one step, and so is taking  *)
(* an event off the heap and queueing its job.  A signal wakes one of the  *)
(* waiting threads.  The pool is used as daemon.c uses it: started once,   *)
(* stopped with set_threads(0) and cancel(), then the heap is flushed.     *)
(***************************************************************************)
EXTENDS Scheduler, FiniteSets

CONSTANTS
    Thread, Job,
    Timer,         \* the job that executes schedule(), the only cancelable one
    PrioOf,        \* priority of a job, 1 is the highest
    PrioThreads,   \* threads reserved for each priority
    Delay,         \* delays of schedule_job
    MaxTime,       \* bound of the clock
    None           \* no job, no deadline

Prio == DOMAIN PrioThreads

ASSUME JobAssumption ==
    /\ Timer \in Job /\ None \notin Job
    /\ PrioOf \in [Job -> Prio]
    /\ IsFiniteSet(Thread)
ASSUME NumberAssumption == PrioThreads \in Seq(Nat) /\ Delay \subseteq Nat /\ MaxTime \in Nat

VARIABLES
    queue,      \* jobs[] of the processor
    status,     \* what has become of a job
    thread,     \* state of a worker thread
    job,        \* worker->job
    working,    \* working_threads
    total,      \* total_threads
    desired,    \* desired_threads
    phase,      \* what the daemon does with the processor
    heap, now,  \* the scheduler's events, the monotonic clock
    schedule    \* what the timer job does, and until when it waits

pool == <<thread, job, working, total, desired, phase>>
timer == <<heap, now, schedule>>
vars == <<queue, status, pool, timer>>

Init ==
    /\ queue = [p \in Prio |-> IF p = PrioOf[Timer] THEN <<Timer>> ELSE <<>>]
    /\ status = [j \in Job |-> IF j = Timer THEN "queued" ELSE "new"]
    /\ thread = [t \in Thread |-> "none"]
    /\ job = [t \in Thread |-> None]
    /\ working = [p \in Prio |-> 0]
    /\ total = 0 /\ desired = 0
    /\ phase = "created"
    /\ heap = <<>> /\ now = 0
    /\ schedule = [st |-> "run", until |-> None]

Waiting == {t \in Thread : thread[t] = "wait"}

\* The sum of f over the priorities S: as many pairs <<p, i>> as there are
\* numbers i in 1..f[p].
SumOver(S, f) == Cardinality(UNION {{p} \X (1..f[p]) : p \in S})

\* get_idle_threads_nolock
Idle == total - SumOver(Prio, working)

\* Mutant of Signal: only the first job in a queue is announced.
SignalIfEmpty(th, j) ==
    IF Waiting = {} \/ queue[PrioOf[j]] # <<>> THEN {th}
    ELSE {[th EXCEPT ![t] = "run"] : t \in Waiting}

\* job_added->signal after j was queued.
Signal(th, j) ==
    IF Waiting = {} THEN {th} ELSE {[th EXCEPT ![t] = "run"] : t \in Waiting}

Broadcast == [t \in Thread |-> IF thread[t] = "wait" THEN "run" ELSE thread[t]]

\* schedule_job_tv: insert an event, signal the timer job.
AddEvent(j, delay) ==
    /\ heap' = InsertEvent(heap, [time |-> now + delay, job |-> j])
    /\ schedule' = [st |-> "run", until |-> None]
    /\ UNCHANGED now

(***************************************************************************)
(* What other parts of the daemon call.                                    *)
(***************************************************************************)
QueueJob(j) ==
    /\ status[j] = "new" /\ phase \notin {"canceled", "flushed"}
    /\ queue' = [queue EXCEPT ![PrioOf[j]] = Append(@, j)]
    /\ status' = [status EXCEPT ![j] = "queued"]
    /\ thread' \in Signal(thread, j)
    /\ UNCHANGED <<job, working, total, desired, phase, timer>>

\* An idle thread executes the job next, or the caller does so at once.  The
\* watcher, a job of the pool itself, is the only caller; its callbacks have
\* the timer job's priority.
ExecuteJob(j) ==
    /\ status[j] = "new" /\ PrioOf[j] = PrioOf[Timer]
    /\ phase \notin {"created", "canceled", "flushed"}
    /\ IF desired > 0 /\ Idle > 0
       THEN /\ queue' = [queue EXCEPT ![PrioOf[j]] = <<j>> \o @]
            /\ status' = [status EXCEPT ![j] = "queued"]
       ELSE /\ status' = [status EXCEPT ![j] = "done"]
            /\ UNCHANGED queue
    /\ thread' \in Signal(thread, j)
    /\ UNCHANGED <<job, working, total, desired, phase, timer>>

ScheduleJob(j, delay) ==
    /\ status[j] = "new" /\ phase # "flushed"
    /\ now + delay <= MaxTime
    /\ status' = [status EXCEPT ![j] = "queued"]
    /\ AddEvent(j, delay)
    /\ UNCHANGED <<queue, pool>>

\* set_threads when the daemon starts, and set_threads(0) when it stops.
SetThreads ==
    /\ \/ /\ phase = "created"
          /\ phase' = "running"
          /\ total' = Cardinality(Thread) /\ desired' = Cardinality(Thread)
          /\ thread' = [t \in Thread |-> "run"]
       \/ /\ phase = "running"
          /\ phase' = "stopping"
          /\ desired' = 0
          /\ thread' = Broadcast
          /\ UNCHANGED total
    /\ UNCHANGED <<queue, status, job, working, timer>>

\* cancel: the timer job's thread is canceled, the others end by themselves.
Cancel ==
    /\ phase = "stopping"
    /\ phase' = "canceling"
    /\ status' = IF \E t \in Thread : job[t] = Timer
                 THEN [status EXCEPT ![Timer] = "canceled"] ELSE status
    /\ UNCHANGED <<queue, thread, job, working, total, desired, timer>>

\* The loop of cancel: wake the threads and wait for one to terminate; after
\* the last one, destroy what is queued.
CancelLoop ==
    /\ phase = "canceling"
    /\ IF total > 0
       THEN phase' = "waiting" /\ thread' = Broadcast /\ UNCHANGED <<queue, status>>
       ELSE /\ phase' = "canceled"
            /\ queue' = [p \in Prio |-> <<>>]
            /\ status' = [j \in Job |->
                 IF \E p \in Prio : \E i \in DOMAIN queue[p] : queue[p][i] = j
                 THEN "done" ELSE status[j]]
            /\ UNCHANGED thread
    /\ UNCHANGED <<job, working, total, desired, timer>>

Flush ==
    /\ phase = "canceled"
    /\ phase' = "flushed"
    /\ status' = [j \in Job |-> IF \E i \in DOMAIN heap : heap[i].job = j
                                THEN "done" ELSE status[j]]
    /\ heap' = <<>>
    /\ UNCHANGED <<queue, thread, job, working, total, desired, now, schedule>>

(***************************************************************************)
(* The worker threads.                                                     *)
(***************************************************************************)
\* Mutant of Terminated: cancel() is not told.
TerminatedUnseen == phase' = phase

\* thread_terminated->signal: cancel() looks again.
Terminated == phase' = IF phase = "waiting" THEN "canceling" ELSE phase

Exit(t) ==
    /\ thread[t] = "run" /\ desired < total
    /\ thread' = [thread EXCEPT ![t] = "none"]
    /\ total' = total - 1
    /\ Terminated
    /\ UNCHANGED <<queue, status, job, working, desired, timer>>

\* Threads still kept for the priorities above p: those by which prio_threads
\* exceeds working_threads.
Reserved(p) ==
    Cardinality(UNION {{k} \X ((working[k] + 1)..PrioThreads[k]) : k \in 1..(p - 1)})

\* Mutant of Delayed: the reserve counts as free for one job too many.
DelayedLate(p) == Reserved(p) > 0 /\ Reserved(p) > Idle

\* get_job leaves a job of priority p queued if all idle threads are reserved.
Delayed(p) == Reserved(p) > 0 /\ Reserved(p) >= Idle

HasJob == \E p \in Prio : queue[p] # <<>>
TopPrio == Min({p \in Prio : queue[p] # <<>>})
CanGet == HasJob /\ ~Delayed(TopPrio)

\* Mutant of Occupy: the thread that got the job is not counted.
OccupyUncounted(p) == working' = working

\* working_threads while a thread has a job of priority p.
Occupy(p) == working' = [working EXCEPT ![p] = @ + 1]
Release(p) == working' = [working EXCEPT ![p] = @ - 1]

GetJob(t) ==
    /\ thread[t] = "run" /\ desired >= total
    /\ IF CanGet
       THEN LET p == TopPrio
                j == Head(queue[p])
            IN  /\ queue' = [queue EXCEPT ![p] = Tail(@)]
                /\ job' = [job EXCEPT ![t] = j]
                /\ status' = [status EXCEPT ![j] = "executing"]
                /\ Occupy(p)
                /\ thread' = [thread EXCEPT ![t] = "exec"]
       ELSE /\ thread' = [thread EXCEPT ![t] = "wait"]
            /\ UNCHANGED <<queue, status, job, working>>
    /\ UNCHANGED <<total, desired, phase, timer>>

\* The job returns and is destroyed, queued again or scheduled again.
Finish(t) ==
    LET j == job[t]
        back == [thread EXCEPT ![t] = "run"]
    IN
    /\ thread[t] = "exec" /\ j # Timer
    /\ Release(PrioOf[j])
    /\ job' = [job EXCEPT ![t] = None]
    /\ \/ /\ status' = [status EXCEPT ![j] = "done"]
          /\ thread' = back
          /\ UNCHANGED <<queue, timer>>
       \/ /\ status' = [status EXCEPT ![j] = "queued"]
          /\ queue' = [queue EXCEPT ![PrioOf[j]] = Append(@, j)]
          /\ thread' \in Signal(back, j)
          /\ UNCHANGED timer
       \/ /\ status' = [status EXCEPT ![j] = "queued"]
          /\ thread' = back
          /\ \E delay \in Delay : now + delay <= MaxTime /\ AddEvent(j, delay)
          /\ UNCHANGED queue
    /\ UNCHANGED <<total, desired, phase>>

(***************************************************************************)
(* schedule(), in the thread that executes the timer job.                  *)
(***************************************************************************)
TimerRuns == \E t \in Thread : thread[t] = "exec" /\ job[t] = Timer
Due == heap # <<>> /\ heap[1].time <= now

Schedule ==
    /\ TimerRuns /\ schedule.st = "run"
    /\ IF Due
       THEN LET j == heap[1].job
            IN  /\ heap' = RemoveEvent(heap)
                /\ queue' = [queue EXCEPT ![PrioOf[j]] = Append(@, j)]
                /\ thread' \in Signal(thread, j)
                /\ UNCHANGED schedule
       ELSE /\ schedule' = [st |-> "wait", until |-> IF heap = <<>> THEN None ELSE heap[1].time]
            /\ UNCHANGED <<heap, queue, thread>>
    /\ UNCHANGED <<status, job, working, total, desired, phase, now>>

\* The wait ends when the event is due, or for no reason; that of a canceled
\* thread does not return.
ScheduleTimeout ==
    /\ TimerRuns /\ schedule.st = "wait" /\ status[Timer] # "canceled"
    /\ schedule.until # None /\ schedule.until <= now
    /\ schedule' = [st |-> "run", until |-> None]
    /\ UNCHANGED <<queue, status, pool, heap, now>>

SpuriousWakeup ==
    /\ TimerRuns /\ schedule.st = "wait" /\ status[Timer] # "canceled"
    /\ schedule' = [st |-> "run", until |-> None]
    /\ UNCHANGED <<queue, status, pool, heap, now>>

\* Mutant of Restart: the thread is still counted as working.
RestartStillWorking(t) ==
    /\ thread[t] = "exec" /\ job[t] = Timer /\ status[Timer] = "canceled"
    /\ schedule.st = "wait"
    /\ job' = [job EXCEPT ![t] = None]
    /\ IF desired >= total
       THEN thread' = [thread EXCEPT ![t] = "run"] /\ UNCHANGED <<total, phase>>
       ELSE /\ thread' = [thread EXCEPT ![t] = "none"]
            /\ total' = total - 1
            /\ Terminated
    /\ UNCHANGED <<queue, status, working, desired, timer>>

\* The canceled thread ends where it waits; a new one takes its place unless
\* the pool shrinks.
Restart(t) ==
    /\ thread[t] = "exec" /\ job[t] = Timer /\ status[Timer] = "canceled"
    /\ schedule.st = "wait"
    /\ Release(PrioOf[Timer])
    /\ job' = [job EXCEPT ![t] = None]
    /\ IF desired >= total
       THEN thread' = [thread EXCEPT ![t] = "run"] /\ UNCHANGED <<total, phase>>
       ELSE /\ thread' = [thread EXCEPT ![t] = "none"]
            /\ total' = total - 1
            /\ Terminated
    /\ UNCHANGED <<queue, status, desired, timer>>

Tick ==
    /\ now < MaxTime
    /\ now' = now + 1
    /\ UNCHANGED <<queue, status, pool, heap, schedule>>

-----------------------------------------------------------------------------
Worker(t) == Exit(t) \/ GetJob(t) \/ Restart(t)

Next ==
    \/ \E j \in Job : QueueJob(j) \/ ExecuteJob(j) \/ \E d \in Delay : ScheduleJob(j, d)
    \/ SetThreads \/ Cancel \/ CancelLoop \/ Flush
    \/ \E t \in Thread : Worker(t) \/ Finish(t)
    \/ Schedule \/ ScheduleTimeout \/ SpuriousWakeup
    \/ Tick

Spec == Init /\ [][Next]_vars

\* Threads run, jobs end, and cancel() continues when it is woken.
FairSpec ==
    /\ Spec
    /\ \A t \in Thread : WF_vars(Worker(t)) /\ WF_vars(Finish(t))
    /\ WF_vars(Schedule) /\ WF_vars(ScheduleTimeout)
    /\ WF_vars(CancelLoop)

-----------------------------------------------------------------------------
TypeOK ==
    /\ queue \in [Prio -> Seq(Job)]
    /\ status \in [Job -> {"new", "queued", "executing", "canceled", "done"}]
    /\ thread \in [Thread -> {"none", "run", "wait", "exec"}]
    /\ job \in [Thread -> Job \cup {None}]
    /\ working \in [Prio -> Nat] /\ total \in Nat /\ desired \in Nat
    /\ phase \in {"created", "running", "stopping", "canceling", "waiting", "canceled", "flushed"}
    /\ heap \in Seq([time : Nat, job : Job]) /\ now \in 0..MaxTime
    /\ schedule \in [st : {"run", "wait"}, until : Nat \cup {None}]

(***************************************************************************)
(* The counters that decide where a job runs are right: total_threads is   *)
(* the number of threads, working_threads that of those at work, also when *)
(* a thread is canceled in its job.                                        *)
(***************************************************************************)
WorkingCounted ==
    /\ total = Cardinality({t \in Thread : thread[t] # "none"})
    /\ \A p \in Prio : working[p] =
         Cardinality({t \in Thread : thread[t] = "exec" /\ PrioOf[job[t]] = p})

(***************************************************************************)
(* No wakeup is lost: if a thread waits although get_job would find it a   *)
(* job, another thread is awake and about to call get_job.  A job that was *)
(* left to a reserve needs no signal of its own once the reserve is free.  *)
(***************************************************************************)
NoLostWakeup ==
    Waiting # {} /\ CanGet /\ desired >= total => \E t \in Thread : thread[t] = "run"

(***************************************************************************)
(* "The job processor will reserve some threads for higher priority jobs,  *)
(* these threads are not available for lower priority, locking jobs"       *)
(* (strongswan.conf.5): jobs of priority p and below never occupy the      *)
(* threads reserved above p.                                               *)
(***************************************************************************)
ReserveKept == \A p \in Prio :
    LET lower == SumOver({q \in Prio : q >= p}, working)
        reserve == SumOver(1..(p - 1), PrioThreads)
    IN  desired > 0 /\ lower > 0 => lower + reserve <= total

(***************************************************************************)
(* The heap implements the timer queue: jobs are handed to the processor   *)
(* in the order of their times, none early, none lost or invented.         *)
(***************************************************************************)
Timers == INSTANCE TimerQueue WITH
    pending <- {heap[i] : i \in DOMAIN heap},
    flushed <- phase = "flushed"

ImplementsTimerQueue == Timers!Spec

(***************************************************************************)
(* cancel() returns once the jobs that run have ended, whatever the        *)
(* threads were doing when it was called.                                  *)
(***************************************************************************)
CancelReturns == (phase = "canceling") ~> (phase = "canceled")
=============================================================================
