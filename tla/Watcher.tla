------------------------------- MODULE Watcher -------------------------------
(***************************************************************************)
(* watcher.c of libstrongswan, which the osmo_epdg plugin's IPA connection *)
(* rests on: the job that polls the registered file descriptors, the       *)
(* callbacks it starts on other threads (or runs itself if none is idle),  *)
(* and threads that register and remove descriptors meanwhile.             *)
(*                                                                         *)
(* What happens under the watcher's mutex is one step.  remove() keeps the *)
(* pointer prev while it waits on the condition variable; prev and the set *)
(* of freed entries make visible what that pointer is worth afterwards.    *)
(* Thread cancellation (shutdown) is left out.                             *)
(***************************************************************************)
EXTENDS Integers, Sequences, FiniteSets, SequencesExt

CONSTANTS
    Entry,     \* registrations, each made at most once
    FdOf,      \* file descriptor of a registration
    EventsOf,  \* events it asks for
    MayEnd,    \* registrations whose callback may return FALSE
    Removable, \* file descriptors somebody removes
    Remover,   \* threads that call remove()
    NoEntry    \* NULL

Fd == {FdOf[e] : e \in Entry}
Event == UNION {EventsOf[e] : e \in Entry}
Callback == [e : Entry, ev : Event]

\* A watcher_event_t is a set of at most three events.
ASSUME EntryAssumption ==
    /\ NoEntry \notin Entry /\ MayEnd \subseteq Entry /\ Removable \subseteq Fd
    /\ EventsOf \in [Entry -> SUBSET Event] /\ \A e \in Entry : IsFiniteSet(EventsOf[e])

VARIABLES
    fds,     \* list of registered entries
    freed,   \* entries that have been freed
    events,  \* events an entry still waits for
    inCb,    \* in_callback of an entry
    state,   \* state of the watcher
    watcher, \* the watch job: what it does next, its pollfd set, what poll returned
    pipe,    \* the notify pipe is readable
    jobs,    \* callbacks to be executed by the watcher
    active,  \* callbacks being executed
    ready,   \* what the descriptors are ready for
    remover  \* threads in remove()

vars == <<fds, freed, events, inCb, state, watcher, pipe, jobs, active, ready, remover>>

Idle == [st |-> "none", pfd |-> {}, revents |-> {}, own |-> {}]
WatchStates == {"none", "build", "poll", "dispatch", "execute", "inline"}

Init ==
    /\ fds = <<>> /\ freed = {}
    /\ events = EventsOf
    /\ inCb = [e \in Entry |-> 0]
    /\ state = "STOPPED"
    /\ watcher = Idle
    /\ pipe = FALSE
    /\ jobs = {} /\ active = {}
    /\ ready = {}
    /\ remover = [t \in Remover |-> [st |-> "idle", fd |-> NoEntry, prev |-> NoEntry]]

\* Mutant of Update: the watcher is not told.
NoUpdate == UNCHANGED pipe

\* update(): the watcher is told to collect its descriptors anew.
Update == pipe' = TRUE

(***************************************************************************)
(* add(): append the entry, and start or notify the watch job.  That a     *)
(* descriptor is registered once is no check of add(), and watcher.h:80    *)
(* allows more; it is what its callers keep: the streams, whose on_read    *)
(* and on_write remove the descriptor first, and the other sockets of      *)
(* charon, which have one callback each.                                   *)
(***************************************************************************)
Add(e) ==
    /\ e \notin ToSet(fds) \cup freed
    /\ \A i \in 1..Len(fds) : FdOf[fds[i]] # FdOf[e]
    /\ \A t \in Remover : remover[t].fd # FdOf[e]
    /\ fds' = Append(fds, e)
    /\ IF state = "STOPPED"
       THEN /\ state' = "QUEUED"
            /\ watcher' = [watcher EXCEPT !.st = "build"]
            /\ UNCHANGED pipe
       ELSE Update /\ UNCHANGED <<state, watcher>>
    /\ UNCHANGED <<freed, events, inCb, jobs, active, ready, remover>>

(***************************************************************************)
(* The watch job.                                                          *)
(***************************************************************************)
\* Positions before the first one in P, all of them if P is empty.
Before(P) == {i \in 1..Len(fds) : \A j \in P : i < j}
InCallback == {i \in 1..Len(fds) : inCb[fds[i]] # 0}

\* Collect the descriptors to poll, or end the job if there are none.
Build ==
    /\ watcher.st = "build"
    /\ IF fds = <<>>
       THEN state' = "STOPPED" /\ watcher' = Idle
       ELSE /\ state' = "RUNNING"
            /\ watcher' = [Idle EXCEPT
                 !.st = "poll",
                 !.pfd = {FdOf[fds[i]] : i \in 1..Len(fds) \ InCallback}]
    /\ UNCHANGED <<fds, freed, events, inCb, pipe, jobs, active, ready, remover>>

\* poll() returns; a notification is handled before anything else.
Poll ==
    /\ watcher.st = "poll"
    /\ \/ /\ pipe
          /\ pipe' = FALSE
          /\ watcher' = [watcher EXCEPT !.st = "build"]
       \/ /\ ~pipe
          /\ \E f \in watcher.pfd : \E v \in Event : <<f, v>> \in ready
          /\ watcher' = [watcher EXCEPT !.st = "dispatch",
                                        !.revents = {p \in ready : p[1] \in watcher.pfd}]
          /\ UNCHANGED pipe
    /\ UNCHANGED <<fds, freed, events, inCb, state, jobs, active, ready, remover>>

\* The callbacks to start: the loop over the entries stops at the first one
\* whose callback is active.
Notified ==
    {c \in Callback : \E i \in Before(InCallback) :
        fds[i] = c.e /\ c.ev \in events[c.e] /\ <<FdOf[c.e], c.ev>> \in watcher.revents}

\* Mutant of Dispatch: notify() does not deactivate the entry.
DispatchStillActive ==
    /\ watcher.st = "dispatch"
    /\ jobs' = Notified
    /\ watcher' = [watcher EXCEPT !.st = IF Notified # {} THEN "execute" ELSE "build"]
    /\ UNCHANGED <<fds, freed, events, inCb, state, pipe, active, ready, remover>>

\* One callback per event, and the entry is not polled while they are active.
Dispatch ==
    /\ watcher.st = "dispatch"
    /\ jobs' = Notified
    /\ inCb' = [e \in Entry |-> inCb[e] + Cardinality({c \in Notified : c.e = e})]
    /\ watcher' = [watcher EXCEPT !.st = IF Notified # {} THEN "execute"
                                         ELSE IF InCallback # {} THEN "build" ELSE "poll"]
    /\ UNCHANGED <<fds, freed, events, state, pipe, active, ready, remover>>

\* processor->execute_job: an idle thread runs the callback, or the watcher
\* itself does.
Execute ==
    /\ watcher.st = "execute"
    /\ \/ \E c \in jobs :
            /\ jobs' = jobs \ {c}
            /\ active' = active \cup {c}
            /\ \/ UNCHANGED watcher
               \/ watcher' = [watcher EXCEPT !.st = "inline", !.own = {c}]
       \/ jobs = {} /\ watcher' = [Idle EXCEPT !.st = "build"] /\ UNCHANGED <<jobs, active>>
    /\ UNCHANGED <<fds, freed, events, inCb, state, pipe, ready, remover>>

InlineDone ==
    /\ watcher.st = "inline"
    /\ watcher.own \cap active = {}
    /\ watcher' = [watcher EXCEPT !.st = "execute", !.own = {}]
    /\ UNCHANGED <<fds, freed, events, inCb, state, pipe, jobs, active, ready, remover>>

(***************************************************************************)
(* A callback returns: notify_end.                                         *)
(***************************************************************************)
\* Mutant of Broadcast: threads in remove() are not woken.
NoBroadcast == remover

\* condvar->broadcast: threads waiting in remove() look again.
Broadcast == [t \in Remover |->
    IF remover[t].st = "wait" THEN [remover[t] EXCEPT !.st = "scan"] ELSE remover[t]]

\* Mutant of CallbackEnds: the entry stays deactivated after its callback.
CallbackEndsWithoutDecrement(c, keep) ==
    /\ c \in active
    /\ keep \/ c.e \in MayEnd
    /\ active' = active \ {c}
    /\ ready' \in {ready, ready \ {<<FdOf[c.e], c.ev>>}}
    /\ Update
    /\ remover' = Broadcast
    /\ UNCHANGED <<fds, freed, events, inCb, state, watcher, jobs>>

\* The callback has or has not consumed what the descriptor was ready for;
\* FALSE drops the event, and the entry with the last one.  The entry is
\* looked up by its descriptor.
CallbackEnds(c, keep) ==
    LET same == {i \in 1..Len(fds) : FdOf[fds[i]] = FdOf[c.e]}
        first == CHOOSE i \in same : \A j \in same : i <= j
        e == fds[first]
    IN
    /\ c \in active
    /\ keep \/ c.e \in MayEnd
    /\ active' = active \ {c}
    /\ ready' \in {ready, ready \ {<<FdOf[c.e], c.ev>>}}
    /\ IF same = {}
       THEN UNCHANGED <<fds, freed, events, inCb>>
       ELSE /\ events' = IF keep THEN events ELSE [events EXCEPT ![e] = @ \ {c.ev}]
            /\ IF events'[e] = {}
               THEN fds' = RemoveAt(fds, first) /\ freed' = freed \cup {e} /\ UNCHANGED inCb
               ELSE inCb' = [inCb EXCEPT ![e] = @ - 1] /\ UNCHANGED <<fds, freed>>
    /\ Update
    /\ remover' = Broadcast
    /\ UNCHANGED <<state, watcher, jobs>>

(***************************************************************************)
(* remove().                                                               *)
(***************************************************************************)
RemoveCall(t, fd) ==
    /\ remover[t].st = "idle"
    /\ remover' = [remover EXCEPT ![t] = [st |-> "scan", fd |-> fd, prev |-> NoEntry]]
    /\ UNCHANGED <<fds, freed, events, inCb, state, watcher, pipe, jobs, active, ready>>

\* Entries of fd that the scan must wait for.
Busy(fd) == {i \in InCallback : FdOf[fds[i]] = fd /\ state # "STOPPED"}

\* One pass over the list.  Entries of fd up to the first busy one are freed
\* and unlinked from prev, the last other entry seen.  In a second pass prev
\* is still that of the first one: if it has been freed meanwhile, no entry
\* before the ones of fd replaces it, and the list keeps the freed entries.
\* (What they are read as from then on is undefined; here, as they were.)
\* A descriptor is registered once (see Add), so there is one to unlink at most.
Scan(t) ==
    LET fd == remover[t].fd
        seen == Before(Busy(fd))
        found == {i \in seen : FdOf[fds[i]] = fd}
        other == seen \ found
        unlinked == {i \in found : remover[t].prev = NoEntry \/ \E j \in other : j < i}
        prev == IF other = {} THEN remover[t].prev
                ELSE fds[CHOOSE j \in other : \A k \in other : k <= j]
    IN
    /\ remover[t].st = "scan"
    /\ fds' = IF unlinked = {} THEN fds ELSE RemoveAt(fds, CHOOSE i \in unlinked : TRUE)
    /\ freed' = freed \cup {fds[i] : i \in found}
    /\ IF Busy(fd) # {}
       THEN /\ remover' = [remover EXCEPT ![t].st = "wait", ![t].prev = prev]
            /\ UNCHANGED pipe
       ELSE /\ remover' = [remover EXCEPT ![t] = [st |-> "idle", fd |-> NoEntry, prev |-> NoEntry]]
            /\ IF found # {} THEN Update ELSE UNCHANGED pipe
    /\ UNCHANGED <<events, inCb, state, watcher, jobs, active, ready>>

(***************************************************************************)
(* The peers make descriptors ready (external).                            *)
(***************************************************************************)
BecomeReady(fd, ev) ==
    /\ <<fd, ev>> \notin ready
    /\ \E e \in Entry : FdOf[e] = fd /\ ev \in EventsOf[e]
    /\ ready' = ready \cup {<<fd, ev>>}
    /\ UNCHANGED <<fds, freed, events, inCb, state, watcher, pipe, jobs, active, remover>>

-----------------------------------------------------------------------------
WatchStep == Build \/ Poll \/ Dispatch \/ Execute \/ InlineDone
CallbackStep(c) == \E keep \in BOOLEAN : CallbackEnds(c, keep)

Next ==
    \/ \E e \in Entry : Add(e)
    \/ WatchStep
    \/ \E c \in Callback : CallbackStep(c)
    \/ \E t \in Remover : Scan(t) \/ \E fd \in Removable : RemoveCall(t, fd)
    \/ \E fd \in Fd, ev \in Event : BecomeReady(fd, ev)

Spec == Init /\ [][Next]_vars

\* The jobs and the callers of remove() run, and callbacks return.
FairSpec ==
    /\ Spec
    /\ WF_vars(WatchStep)
    /\ \A c \in Callback : WF_vars(CallbackStep(c))
    /\ \A t \in Remover : WF_vars(Scan(t))

-----------------------------------------------------------------------------
TypeOK ==
    /\ fds \in Seq(Entry)
    /\ freed \subseteq Entry
    /\ events \in [Entry -> SUBSET Event]
    /\ inCb \in [Entry -> Nat]
    /\ state \in {"STOPPED", "QUEUED", "RUNNING"}
    /\ watcher \in [st : WatchStates, pfd : SUBSET Fd, revents : SUBSET (Fd \X Event),
                    own : SUBSET Callback]
    /\ pipe \in BOOLEAN
    /\ jobs \subseteq Callback /\ active \subseteq Callback
    /\ ready \subseteq Fd \X Event
    /\ remover \in [Remover -> [st : {"idle", "scan", "wait"}, fd : Fd \cup {NoEntry},
                                prev : Entry \cup {NoEntry}]]

(***************************************************************************)
(* watcher.h:94 "This call blocks until any active callback for this FD    *)
(* returns. All callbacks registered for that FD get unregistered.": no    *)
(* callback is queued or active for an entry that has been freed, so a     *)
(* stream may be freed once remove() has returned.  The code keeps this    *)
(* only as long as the entry that remove() remembers across its wait       *)
(* (prev, watcher.c:544) stays registered.                                 *)
(***************************************************************************)
NoCallbackAfterRemove == \A c \in jobs \cup active : c.e \notin freed

(***************************************************************************)
(* in_callback counts the callbacks that are active for an entry: no entry *)
(* stays deactivated after its callback, and none is started twice.        *)
(***************************************************************************)
CallbacksCounted == \A i \in 1..Len(fds) :
    inCb[fds[i]] = Cardinality({c \in jobs \cup active : c.e = fds[i]})

\* A watcher that is about to poll, or to read what poll() returned, and has no
\* notification to find in the pipe, polls every entry that has no callback.
PolledOf(w, p, q, cb) ==
    w.st \in {"poll", "dispatch"} /\ ~p => \A e \in ToSet(q) : cb[e] = 0 => FdOf[e] \in w.pfd
Polled == PolledOf(watcher, pipe, fds, inCb)

\* As long as something is registered, there is a watch job.
WatchJob == (state = "STOPPED" <=> watcher.st = "none") /\ (watcher.st = "none" => fds = <<>>)

\* A thread that waits in remove() has a callback of its descriptor to wake it.
WaitsFor(r, J) == r.st = "wait" => \E c \in J : FdOf[c.e] = r.fd
Awaited == \A t \in Remover : WaitsFor(remover[t], jobs \cup active)

(***************************************************************************)
(* No wakeup is lost, whatever callbacks, registrations and removals cross *)
(* the watcher's poll(): watch() sleeps in poll() with an outdated set of  *)
(* descriptors only if the notify pipe will wake it, the watch job ends    *)
(* only with nothing left to watch, and a thread sleeps in remove() only   *)
(* as long as a callback is to end that will wake it.                      *)
(***************************************************************************)
NobodyForgotten == Polled /\ WatchJob /\ Awaited

(***************************************************************************)
(* A registered descriptor that is ready gets its callback, unless it is   *)
(* removed: neither the deactivation during a callback nor a registration  *)
(* while the watcher polls makes the watcher forget it.                    *)
(***************************************************************************)
ReadyIsServed == \A c \in Callback :
    (c.e \in ToSet(fds) /\ c.ev \in events[c.e] /\ <<FdOf[c.e], c.ev>> \in ready)
        ~> (c \in jobs \cup active \/ c.e \in freed \/ <<FdOf[c.e], c.ev>> \notin ready)

(***************************************************************************)
(* remove() returns once the callbacks have: it is woken by each of them,  *)
(* and only a descriptor that is ready again and again, so that the        *)
(* watcher starts the next callback before remove() has the mutex, can     *)
(* hold it up.                                                             *)
(***************************************************************************)
RemoveReturns == \A t \in Remover :
    \/ []<>(remover[t].st = "idle")
    \/ []<>(\E ev \in Event : <<remover[t].fd, ev>> \in ready)
=============================================================================
