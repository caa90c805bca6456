-------------------------- MODULE IpaClient_proofs --------------------------
(***************************************************************************)
(* Proofs about IpaClient, for every backoff and all bounds: the type      *)
(* invariant, and that the flag reconnecting stands for exactly one job    *)
(* and is raised whenever the connection is down.                          *)
(***************************************************************************)
EXTENDS IpaClient, TLAPS

\* The labels of the code each thread can be at.
Places ==
    /\ pc["create"] \in {"connect", "header", "body", "error", "return", "refused", "idle"}
    /\ pc["job"] \in {"idle", "disconnect", "connect", "header", "body", "error", "return",
                      "refused", "retry"}
    /\ pc["callback"] \in {"idle", "header", "body", "error", "return", "unregister"}

\* The job holds the mutex while it runs.
JobHoldsMutex == (mutex = "job") <=> (pc["job"] # "idle")

\* The watcher's entry is active while its callback runs, and belongs to a
\* stream.
EntryOfStream ==
    /\ (registered = "active") <=> (pc["callback"] # "idle")
    /\ registered # "no" => stream # 0

\* What the connectors know of stream and registration.
ConnectorKnows ==
    /\ pc["create"] = "connect" =>
         stream = 0 /\ registered = "no" /\ ~reconnecting
    /\ pc["job"] \in {"connect", "refused", "retry"} => registered = "no"
    /\ pc["job"] \in {"header", "body", "error", "return"} => registered # "no"

\* A callback that has met an error has asked for the job, and the job cannot
\* get past the destruction of the stream before that callback has returned.
ErrorReported ==
    pc["callback"] = "unregister" => reconnecting /\ pc["job"] \in {"idle", "disconnect"}

IInv ==
    /\ TypeOK
    /\ Places
    /\ JobHoldsMutex
    /\ EntryOfStream
    /\ ConnectorKnows
    /\ ErrorReported
    /\ OneReconnect
    /\ NoLostReconnect

\* The initial state: nothing is connected and the creating thread is about to.
LEMMA InitIInv == Init => IInv
<1> SUFFICES ASSUME Init PROVE IInv
  OBVIOUS
<1> USE BackoffAssumption, BoundAssumption DEF Init, Thread, Connector
<1>1. TypeOK
  <2>1. conns \in 0..MaxConn /\ stream \in 0..conns /\ backoff \in InitialBackoff..MaxBackoff
    OBVIOUS
  <2>2. timers \in Nat /\ read \in 0..sent /\ sent \in 0..MaxParts
    OBVIOUS
  <2>3. pc \in [Thread -> {"idle", "connect"}] /\ using \in [Thread -> 0..conns]
    OBVIOUS
  <2>4. reconnecting \in BOOLEAN /\ closed \in BOOLEAN
    BY Zenon
  <2> QED
    BY <2>1, <2>2, <2>3, <2>4 DEF TypeOK
<1>2. Places /\ JobHoldsMutex /\ EntryOfStream /\ ConnectorKnows /\ ErrorReported
  BY DEF Places, JobHoldsMutex, EntryOfStream, ConnectorKnows, ErrorReported
<1>3. OneReconnect /\ NoLostReconnect
  BY DEF OneReconnect, NoLostReconnect
<1> QED
  BY <1>1, <1>2, <1>3 DEF IInv

\* The doubled backoff (reconnect_job) stays within its limits.
LEMMA DoubledInRange ==
    ASSUME backoff \in InitialBackoff..MaxBackoff
    PROVE  Doubled \in InitialBackoff..MaxBackoff
  BY BackoffAssumption DEF Doubled

\* Where a thread goes on after reconnect_ipa.
LEMMA AfterReconnectPlaces ==
    ASSUME NEW t \in Thread, pc[t] \in {"error", "refused"}, Places
    PROVE  /\ t = "job" /\ pc[t] = "error" => AfterReconnect(t) = "return"
           /\ t = "job" /\ pc[t] = "refused" => AfterReconnect(t) = "retry"
           /\ t = "create" => AfterReconnect(t) \in {"return", "idle"}
           /\ t = "callback" => AfterReconnect(t) = "unregister"
  BY DEF AfterReconnect, Places, Thread, Connector

\* Every step of the three threads and of the peer preserves the invariant.
LEMMA NextIInv == IInv /\ [Next]_vars => IInv'
<1> SUFFICES ASSUME IInv, [Next]_vars PROVE IInv'
  OBVIOUS
<1> USE BackoffAssumption, BoundAssumption
    DEF Places, JobHoldsMutex, EntryOfStream, ConnectorKnows, ErrorReported, OneReconnect,
        NoLostReconnect, Thread, Connector, Goto, socket
<1>1. CASE JobStarts
  BY <1>1 DEF IInv, TypeOK, JobStarts
<1>2. CASE Disconnect
  BY <1>2 DEF IInv, TypeOK, Disconnect
<1>3. CASE Retry
  BY <1>3, DoubledInRange DEF IInv, TypeOK, Retry
<1>4. CASE CallbackStarts
  BY <1>4 DEF IInv, TypeOK, CallbackStarts
<1>5. CASE CallbackReturns
  BY <1>5 DEF IInv, TypeOK, CallbackReturns
<1>6. ASSUME NEW c \in Connector, Connect(c) PROVE IInv'
  <2>1. TypeOK'
    <3>1. (/\ conns \in 0..MaxConn /\ stream \in 0..conns
           /\ read \in 0..sent /\ sent \in 0..MaxParts)'
      BY <1>6 DEF IInv, TypeOK, Connect
    <3>2. (using \in [Thread -> 0..conns])'
      BY <1>6 DEF IInv, TypeOK, Connect
    <3>3. (reconnecting \in BOOLEAN /\ closed \in BOOLEAN)'
      BY <1>6, Zenon DEF IInv, TypeOK, Connect
    <3>4. (/\ registered \in {"no", "armed", "active"} /\ mutex \in {"none", "job"}
           /\ backoff \in InitialBackoff..MaxBackoff /\ timers \in Nat)'
      BY <1>6 DEF IInv, TypeOK, Connect
    <3>5. pc' \in [Thread -> {"idle", "disconnect", "connect", "refused", "retry", "header",
                             "body", "error", "return", "unregister"}]
      BY <1>6 DEF IInv, TypeOK, Connect
    <3> QED
      BY <3>1, <3>2, <3>3, <3>4, <3>5 DEF TypeOK
  <2>2. CASE c = "create"
    BY <1>6, <2>1, <2>2 DEF IInv, TypeOK, Connect
  <2>3. CASE c = "job"
    BY <1>6, <2>1, <2>3 DEF IInv, TypeOK, Connect
  <2> QED
    BY <2>2, <2>3
<1>7. ASSUME NEW c \in Connector, Connected(c) PROVE IInv'
  <2>1. TypeOK'
    <3>1. (reconnecting \in BOOLEAN /\ closed \in BOOLEAN)'
      BY <1>7, Zenon DEF IInv, TypeOK, Connected
    <3>2. (backoff \in InitialBackoff..MaxBackoff /\ mutex \in {"none", "job"})'
      BY <1>7 DEF IInv, TypeOK, Connected
    <3> QED
      BY <1>7, <3>1, <3>2 DEF IInv, TypeOK, Connected
  <2>2. CASE c = "create"
    BY <1>7, <2>1, <2>2 DEF IInv, TypeOK, Connected
  <2>3. CASE c = "job"
    BY <1>7, <2>1, <2>3 DEF IInv, TypeOK, Connected
  <2> QED
    BY <2>2, <2>3
<1>8. ASSUME NEW t \in Thread, Reconnect(t) PROVE IInv'
  <2>1. /\ t = "job" /\ pc[t] = "error" => AfterReconnect(t) = "return"
        /\ t = "job" /\ pc[t] = "refused" => AfterReconnect(t) = "retry"
        /\ t = "create" => AfterReconnect(t) \in {"return", "idle"}
        /\ t = "callback" => AfterReconnect(t) = "unregister"
    BY <1>8, AfterReconnectPlaces DEF IInv, Reconnect
  <2>2. /\ reconnecting' = TRUE
        /\ timers' = IF reconnecting THEN timers ELSE timers + 1
    BY <1>8 DEF IInv, TypeOK, Reconnect
  <2>3. /\ pc[t] \in {"error", "refused"}
        /\ pc' = [pc EXCEPT ![t] = AfterReconnect(t)]
        /\ mutex \in {"none", t}
        /\ UNCHANGED <<stream, conns, using, mutex, backoff, registered, socket>>
    BY <1>8 DEF Reconnect
  <2>4. TypeOK'
    BY <2>1, <2>2, <2>3 DEF IInv, TypeOK
  <2>5. CASE t = "create"
    BY <2>1, <2>2, <2>3, <2>4, <2>5 DEF IInv, TypeOK
  <2>6. CASE t = "job"
    BY <2>1, <2>2, <2>3, <2>4, <2>6 DEF IInv, TypeOK
  <2>7. CASE t = "callback"
    BY <2>1, <2>2, <2>3, <2>4, <2>7 DEF IInv, TypeOK
  <2> QED
    BY <2>5, <2>6, <2>7
<1>9. ASSUME NEW t \in Thread, ReadHeader(t) PROVE IInv'
  BY <1>9 DEF IInv, TypeOK, ReadHeader
<1>10. ASSUME NEW t \in Thread, ReadEnd(t) PROVE IInv'
  BY <1>10 DEF IInv, TypeOK, ReadEnd
<1>11. ASSUME NEW t \in Thread, ReadBody(t) PROVE IInv'
  BY <1>11 DEF IInv, TypeOK, ReadBody
<1>12. CASE Arrive
  BY <1>12 DEF IInv, TypeOK, Arrive
<1>13. CASE Close
  BY <1>13 DEF IInv, TypeOK, Close
<1>14. CASE UNCHANGED vars
  BY <1>14 DEF IInv, TypeOK, vars
<1> QED
  BY <1>1, <1>2, <1>3, <1>4, <1>5, <1>6, <1>7, <1>8, <1>9, <1>10, <1>11, <1>12, <1>13, <1>14
  DEF Next, ThreadStep, JobStep, CallbackStep

\* The invariant holds in every reachable state of the IPA client.
THEOREM Invariance == Spec => []IInv
  BY InitIInv, NextIInv, PTL DEF Spec

\* Type correctness of the IPA client's state.
THEOREM TypeCorrect == Spec => []TypeOK
<1>1. IInv => TypeOK
  BY DEF IInv
<1> QED
  BY <1>1, Invariance, PTL

\* reconnect_ipa and reconnect_job never leave two jobs, nor a raised flag
\* without a job.
THEOREM ReconnectIsOne == Spec => []OneReconnect
<1>1. IInv => OneReconnect
  BY DEF IInv
<1> QED
  BY <1>1, Invariance, PTL

\* A connection that is down or no longer watched has a reconnect job, or its
\* creator is still about to ask for one.
THEOREM ReconnectNotLost == Spec => []NoLostReconnect
<1>1. IInv => NoLostReconnect
  BY DEF IInv
<1> QED
  BY <1>1, Invariance, PTL
=============================================================================
