------------------------------ MODULE IpaClient ------------------------------
(***************************************************************************)
(* ipa_client.c of the osmo_epdg plugin: the connection to osmo-epdg's     *)
(* GSUP server, its reader and its reconnection.                           *)
(*                                                                         *)
(* Three threads meet here: the one that creates the client, the scheduled *)
(* reconnect job, and the callback the watcher starts when the descriptor  *)
(* is readable.  Both connectors also call on_stream_read() themselves, so *)
(* that two threads can read from one connection.  The peer's bytes are    *)
(* parts: a header or the body of one.                                     *)
(* The watcher and the stream are modelled by what this client uses of     *)
(* them (Watcher models them); allocation failures, the replies to         *)
(* IPA's own messages and the client's destruction are left out.           *)
(***************************************************************************)
EXTENDS Integers

CONSTANTS
    InitialBackoff,  \* INITIAL_BACKOFF_MS
    MaxBackoff,      \* MAX_BACKOFF_MS
    MaxConn,         \* bound: connections that succeed
    MaxParts         \* bound: parts the peer sends on a connection

ASSUME BackoffAssumption ==
    /\ InitialBackoff \in Nat \ {0} /\ MaxBackoff \in Nat
    /\ InitialBackoff <= MaxBackoff
ASSUME BoundAssumption == MaxConn \in Nat /\ MaxParts \in Nat

Connector == {"create", "job"}
Thread == Connector \cup {"callback"}

VARIABLES
    stream,        \* number of the connection, 0 for NULL
    conns,         \* connections made so far
    pc,            \* what a thread does next
    using,         \* connection whose stream a thread was given
    mutex,         \* owner of the recursive mutex
    reconnecting,
    backoff,       \* reconnect_backoff_ms
    timers,        \* reconnect jobs the scheduler holds
    registered,    \* the stream's entry in the watcher
    read, sent,    \* parts read from and sent to the connection
    closed         \* the peer has closed it

vars == <<stream, conns, pc, using, mutex, reconnecting, backoff, timers,
          registered, read, sent, closed>>
socket == <<read, sent, closed>>

Init ==
    /\ stream = 0 /\ conns = 0
    /\ pc = [t \in Thread |-> IF t = "create" THEN "connect" ELSE "idle"]
    /\ using = [t \in Thread |-> 0]
    /\ mutex = "none"
    /\ reconnecting = FALSE
    /\ backoff = InitialBackoff
    /\ timers = 0
    /\ registered = "no"
    /\ read = 0 /\ sent = 0 /\ closed = FALSE

Goto(t, label) == pc' = [pc EXCEPT ![t] = label]

(***************************************************************************)
(* connect_ipa, and the job around it.                                     *)
(***************************************************************************)
\* The scheduler starts the job, which takes the mutex and keeps it.
JobStarts ==
    /\ timers > 0 /\ pc["job"] = "idle"
    /\ mutex = "none"
    /\ timers' = timers - 1
    /\ mutex' = "job"
    /\ Goto("job", IF stream # 0 THEN "disconnect" ELSE "connect")
    /\ UNCHANGED <<stream, conns, using, reconnecting, backoff, registered, socket>>

\* disconnect: watcher->remove waits for an active callback of the stream.
Disconnect ==
    /\ pc["job"] = "disconnect"
    /\ registered # "active"
    /\ registered' = "no"
    /\ stream' = 0
    /\ Goto("job", "connect")
    /\ UNCHANGED <<conns, using, mutex, reconnecting, backoff, timers, socket>>

\* The new stream is registered with the watcher, then read from here.
Connect(c) ==
    /\ pc[c] = "connect"
    /\ \/ /\ conns < MaxConn
          /\ conns' = conns + 1
          /\ stream' = conns + 1
          /\ using' = [using EXCEPT ![c] = conns + 1]
          /\ registered' = "armed"
          /\ read' = 0 /\ sent' = 0 /\ closed' = FALSE
          /\ Goto(c, "header")
       \/ /\ stream' = 0
          /\ Goto(c, "refused")
          /\ UNCHANGED <<conns, using, registered, socket>>
    /\ UNCHANGED <<mutex, reconnecting, backoff, timers>>

\* The connection stands: what is read or failed on the way is forgotten.
Connected(c) ==
    /\ pc[c] = "return"
    /\ backoff' = InitialBackoff
    /\ Goto(c, "idle")
    /\ IF c = "job" THEN reconnecting' = FALSE /\ mutex' = "none"
       ELSE UNCHANGED <<reconnecting, mutex>>
    /\ UNCHANGED <<stream, conns, using, timers, registered, socket>>

\* Mutant of Doubled: the limit is not applied.
DoubledWithoutLimit == backoff * 2

Doubled == IF backoff * 2 > MaxBackoff THEN MaxBackoff ELSE backoff * 2

\* The job failed to connect and schedules its successor.
Retry ==
    /\ pc["job"] = "retry"
    /\ backoff' = Doubled
    /\ timers' = timers + 1
    /\ mutex' = "none"
    /\ Goto("job", "idle")
    /\ UNCHANGED <<stream, conns, using, reconnecting, registered, socket>>

(***************************************************************************)
(* reconnect_ipa, called after a failed read and a failed connect.         *)
(***************************************************************************)
AfterReconnect(t) ==
    CASE pc[t] = "error" -> IF t \in Connector THEN "return" ELSE "unregister"
      [] pc[t] = "refused" -> IF t = "job" THEN "retry" ELSE "idle"

\* Mutant of Reconnect: the flag is read without the mutex.
ReconnectUnlocked(t) ==
    /\ pc[t] \in {"error", "refused"}
    /\ IF reconnecting THEN UNCHANGED <<reconnecting, timers>>
       ELSE reconnecting' = TRUE /\ timers' = timers + 1
    /\ Goto(t, AfterReconnect(t))
    /\ UNCHANGED <<stream, conns, using, mutex, backoff, registered, socket>>

\* Mutant of Reconnect: a job is scheduled whether or not there is one.
ReconnectAlways(t) ==
    /\ pc[t] \in {"error", "refused"}
    /\ mutex \in {"none", t}
    /\ reconnecting' = TRUE
    /\ timers' = timers + 1
    /\ Goto(t, AfterReconnect(t))
    /\ UNCHANGED <<stream, conns, using, mutex, backoff, registered, socket>>

Reconnect(t) ==
    /\ pc[t] \in {"error", "refused"}
    /\ mutex \in {"none", t}
    /\ IF reconnecting THEN UNCHANGED <<reconnecting, timers>>
       ELSE reconnecting' = TRUE /\ timers' = timers + 1
    /\ Goto(t, AfterReconnect(t))
    /\ UNCHANGED <<stream, conns, using, mutex, backoff, registered, socket>>

(***************************************************************************)
(* The watcher's callback.                                                 *)
(***************************************************************************)
CallbackStarts ==
    /\ registered = "armed"
    /\ read < sent \/ closed
    /\ registered' = "active"
    /\ using' = [using EXCEPT !["callback"] = stream]
    /\ Goto("callback", "header")
    /\ UNCHANGED <<stream, conns, mutex, reconnecting, backoff, timers, socket>>

\* on_stream_read returns: TRUE keeps the registration.
CallbackReturns ==
    /\ pc["callback"] \in {"return", "unregister"}
    /\ registered' = IF pc["callback"] = "return" THEN "armed" ELSE "no"
    /\ Goto("callback", "idle")
    /\ UNCHANGED <<stream, conns, using, mutex, reconnecting, backoff, timers, socket>>

(***************************************************************************)
(* on_stream_read.  A thread whose stream has been destroyed (the creating *)
(* one, if the job runs before it has returned) reads from a closed or     *)
(* reused descriptor: it may fail, find nothing, or read from the new      *)
(* connection.                                                             *)
(***************************************************************************)
Dangling(t) == using[t] # stream

\* The header, without blocking.  A header too large for the buffer is an
\* error, and its body is left unread; a body taken for a header is one or
\* passes.  recv() returning 0 leaves errno alone: if it holds EWOULDBLOCK
\* from an earlier call, the end of the stream looks like "no data yet".
ReadHeader(t) ==
    /\ pc[t] = "header"
    /\ \/ /\ read < sent
          /\ read' = read + 1
          /\ \/ Goto(t, "body")
             \/ Goto(t, "error")
       \/ /\ read = sent \/ Dangling(t)
          /\ Goto(t, "return")
          /\ UNCHANGED read
    /\ UNCHANGED <<stream, conns, using, mutex, reconnecting, backoff, timers, registered,
                   sent, closed>>

\* The end of the stream is seen as such.
ReadEnd(t) ==
    /\ pc[t] \in {"header", "body"}
    /\ (read = sent /\ closed) \/ Dangling(t)
    /\ Goto(t, "error")
    /\ UNCHANGED <<stream, conns, using, mutex, reconnecting, backoff, timers, registered,
                   socket>>

\* read_all of the body blocks until it is there.
ReadBody(t) ==
    /\ pc[t] = "body"
    /\ read < sent
    /\ read' = read + 1
    /\ Goto(t, "return")
    /\ UNCHANGED <<stream, conns, using, mutex, reconnecting, backoff, timers, registered,
                   sent, closed>>

(***************************************************************************)
(* The peer (external).                                                    *)
(***************************************************************************)
Arrive ==
    /\ stream # 0 /\ ~closed /\ sent < MaxParts
    /\ sent' = sent + 1
    /\ UNCHANGED <<stream, conns, pc, using, mutex, reconnecting, backoff, timers,
                   registered, read, closed>>

Close ==
    /\ stream # 0 /\ ~closed
    /\ closed' = TRUE
    /\ UNCHANGED <<stream, conns, pc, using, mutex, reconnecting, backoff, timers,
                   registered, read, sent>>

-----------------------------------------------------------------------------
ThreadStep(t) ==
    \/ t \in Connector /\ (Connect(t) \/ Connected(t))
    \/ Reconnect(t)
    \/ ReadHeader(t) \/ ReadEnd(t) \/ ReadBody(t)
JobStep == JobStarts \/ Disconnect \/ Retry
CallbackStep == CallbackStarts \/ CallbackReturns

Next ==
    \/ \E t \in Thread : ThreadStep(t)
    \/ JobStep
    \/ CallbackStep
    \/ Arrive \/ Close

Spec == Init /\ [][Next]_vars

\* Threads run and timers expire; a mutex that is released again and again is
\* had; a peer that does not send the body it owes closes the connection.  A read
\* that finds the stream closed is finished, but nothing makes ReadEnd rather than
\* ReadHeader its outcome: errno belongs to the thread and keeps its value.
FairSpec ==
    /\ Spec
    /\ \A t \in Thread : WF_vars(ThreadStep(t)) /\ SF_vars(Reconnect(t))
    /\ WF_vars(CallbackStep)
    /\ WF_vars(Disconnect) /\ WF_vars(Retry) /\ SF_vars(JobStarts)
    /\ WF_vars(Close)

-----------------------------------------------------------------------------
TypeOK ==
    /\ conns \in 0..MaxConn /\ stream \in 0..conns
    /\ pc \in [Thread -> {"idle", "disconnect", "connect", "refused", "retry", "header",
                          "body", "error", "return", "unregister"}]
    /\ using \in [Thread -> 0..conns]
    /\ mutex \in {"none", "job"}
    /\ reconnecting \in BOOLEAN
    /\ backoff \in InitialBackoff..MaxBackoff
    /\ timers \in Nat
    /\ registered \in {"no", "armed", "active"}
    /\ read \in 0..sent /\ sent \in 0..MaxParts /\ closed \in BOOLEAN

(***************************************************************************)
(* reconnecting stands for one reconnect job, scheduled or running: two    *)
(* threads that fail at once do not start two, and the job's success does  *)
(* not clear the flag of another one.                                      *)
(***************************************************************************)
OneReconnect ==
    timers + (IF pc["job"] = "idle" THEN 0 ELSE 1) = IF reconnecting THEN 1 ELSE 0

(***************************************************************************)
(* No connection is given up: without a stream, or with one the watcher no *)
(* longer watches, a reconnect job exists or a thread is still on its way  *)
(* to ask for one.  In particular an error that the callback meets while   *)
(* the job, with reconnecting set, still connects is not lost with it.     *)
(***************************************************************************)
NoLostReconnect ==
    (stream = 0 \/ registered = "no") =>
        reconnecting \/ pc["create"] \in {"connect", "refused"}

(***************************************************************************)
(* ipa_client.c:131 "IPA client failed to read with %d. Reconnecting": a   *)
(* reconnect that is asked for is attempted, or over.                      *)
(***************************************************************************)
ReconnectAttempted == reconnecting ~> (pc["job"] = "connect" \/ ~reconnecting)
=============================================================================
