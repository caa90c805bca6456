-------------------------- MODULE EpdgUeFsm_proofs --------------------------
(***************************************************************************)
(* Proofs about EpdgUeFsm, for any bounds and any kinds of client request. *)
(*                                                                         *)
(* Every handler moves the FSM in one of a few ways: Become, Terminate,    *)
(* NoEffect, a call to the S2b server, the reply to it, a start.  What a   *)
(* move preserves is proved once, and cited for every handler.             *)
(***************************************************************************)
EXTENDS EpdgUeFsm, CommonLemmas, TLAPS, SequenceTheorems

(* The environment does not touch the FSM, the kernel or the S2b server.   *)
LEMMA EnvLeavesInternals == ASSUME EnvStep PROVE UNCHANGED internals
  BY DEF EnvStep, ClientSend, ClientTimeout, ClientCancelLocationRes, AaaTake,
         AaaRequest, PgwAnswer, GtpLoss, PgwDeleteBearer

(* An unregistered FSM is in no state.                                     *)
LEMMA NoneIsNoState == "none" \notin States
  BY DEF States, CrashStates, RefuseStates, IgnoreStates, DeregStates, NetDeregStates

(* The states the handlers name.                                           *)
LEMMA StateNames ==
     {"new", "wait_auth_resp", "authenticating", "authenticated", "active",
      "wait_create_session_resp", "wait_delete_session_resp",
      "wait_swm_session_termination_answer",
      "dereg_pgw_initiated_wait_cancel_location_res",
      "dereg_net_initiated_wait_cancel_location_res",
      "dereg_net_initiated_wait_s2b_delete_session_resp"} \subseteq States
  BY DEF States, CrashStates, RefuseStates, IgnoreStates, DeregStates, NetDeregStates

LEMMA InitDataType == InitData \in Data
  BY DEF InitData, Data, Undefined

(* The updates the handlers make to #ue_fsm_data{} are type correct.       *)
LEMMA DataClosed ==
     \A d \in Data :
       /\ WithoutCtx(d) \in Data
       /\ \A b \in BOOLEAN : [d EXCEPT !.gsupNeeded = b] \in Data
       /\ [d EXCEPT !.gsupNeeded = FALSE, !.s2bNeeded = FALSE] \in Data
       /\ \A a, b \in BOOLEAN :
             [d EXCEPT !.ctx = Undefined, !.gsupNeeded = FALSE,
                       !.s2bNeeded = a, !.asaNeeded = b] \in Data
       /\ \A l \in Nat : [d EXCEPT !.ctx = l] \in Data
       /\ \A b \in BOOLEAN :
             [d EXCEPT !.gsupNeeded = TRUE, !.gsupCause = IF b THEN @ ELSE 1] \in Data
  BY DEF Data, Undefined, WithoutCtx

(* The session the S2b server will store after its call to the FSM.         *)
LEMMA AfterType ==
  ASSUME S2bTypeOK
  PROVE  s2bWait.after \in Sessions /\ s2bWait.after.l \in Nat
<1>1. NoWait.after = NoSess
  BY DEF NoWait
<1>2. s2bWait.after \in Sessions
  <2>1. CASE s2bWait = NoWait
    BY <1>1, <2>1 DEF Sessions
  <2>2. CASE s2bWait \in [ev : {"v4", "v6", "rej", "ok", "err", "delete_bearer"},
                          pid : Nat \ {0}, after : Sessions]
    BY <2>2
  <2> QED BY <2>1, <2>2 DEF S2bTypeOK
<1>3. \A x \in Sessions : x.l \in Nat
  BY DEF Sessions, NoSess
<1> QED BY <1>2, <1>3

CallRecords == [op : {"create", "delete"}, pid : Nat \ {0}]

(* The call the S2b server serves next.                                    *)
LEMMA HeadOfCalls ==
  ASSUME S2bTypeOK, s2bCalls # <<>>
  PROVE  /\ s2bCalls \in Seq(CallRecords)
         /\ Head(s2bCalls) = s2bCalls[1] /\ 1 \in 1..Len(s2bCalls)
         /\ Head(s2bCalls).pid \in Nat \ {0}
<1>1. s2bCalls \in Seq(CallRecords)
  BY DEF S2bTypeOK, CallRecords
<1>2. Head(s2bCalls) \in CallRecords /\ Head(s2bCalls) = s2bCalls[1]
  BY <1>1, HeadTailProperties
<1>3. Len(s2bCalls) \in Nat /\ Len(s2bCalls) # 0
  BY <1>1, EmptySeq
<1> QED BY <1>1, <1>2, <1>3 DEF CallRecords

-----------------------------------------------------------------------------
(* Type correctness of the FSM.                                            *)

LEMMA TypeBecome ==
  ASSUME FsmTypeOK, Serving, NEW s \in States, NEW d \in Data, Become(s, d)
  PROVE  FsmTypeOK'
  BY NoneIsNoState DEF FsmTypeOK, Serving, Alive, Become

LEMMA TypeTerminate ==
  ASSUME FsmTypeOK, Terminate
  PROVE  FsmTypeOK'
  BY InitDataType DEF FsmTypeOK, Terminate

LEMMA TypeNoEffect ==
  ASSUME FsmTypeOK, UNCHANGED fsmVars
  PROVE  FsmTypeOK'
  BY DEF FsmTypeOK, fsmVars

(* A handler calls the S2b server, or resumes when the server has answered. *)
LEMMA TypeCall ==
  ASSUME FsmTypeOK, Alive, UNCHANGED <<pid, lastPid>>, data' \in Data, state' \in States,
         \/ blocked' = "no"
         \/ blocked' = "create" /\ state' = "authenticated"
         \/ blocked' = "delete" /\ state' = "active"
         \/ /\ blocked' = "delete_dereg"
            /\ state' = "dereg_net_initiated_wait_s2b_delete_session_resp"
  PROVE  FsmTypeOK'
  BY NoneIsNoState DEF FsmTypeOK, Alive

LEMMA TypeStart ==
  ASSUME FsmTypeOK, ~Alive, pid' = lastPid + 1, lastPid' = lastPid + 1,
         state' = "wait_auth_resp", data' = InitData, UNCHANGED blocked
  PROVE  FsmTypeOK'
<1>1. "wait_auth_resp" \in States
  BY StateNames
<1> QED BY <1>1, InitDataType DEF FsmTypeOK, Alive

LEMMA FsmTypeStep ==
  ASSUME FsmTypeOK, S2bTypeOK, [Next]_vars
  PROVE  FsmTypeOK'
<1> USE StateNames, DataClosed, TypeBecome, TypeTerminate, TypeNoEffect DEF In, NoEffect
<1>0. data \in Data /\ (Serving => state \in States)
  BY DEF FsmTypeOK, Serving, Alive
<1>1. CASE GsupStep
  <2>1. CASE RxAuthRequest
    <3>1. CASE /\ ~Alive
               /\ pid' = lastPid + 1 /\ lastPid' = lastPid + 1
               /\ state' = "wait_auth_resp" /\ data' = InitData
               /\ UNCHANGED blocked
      BY <3>1, TypeStart
    <3> QED BY <1>0, <2>1, <3>1 DEF RxAuthRequest
  <2>2. CASE RxLuRequest
    BY <2>2 DEF RxLuRequest
  <2>3. CASE RxTunnelRequest
    <3>1. CASE In({"authenticated"}) /\ CallS2b("create", "create")
                 /\ UNCHANGED <<pid, lastPid, state, data, kmod>>
      BY <1>0, <3>1, TypeCall DEF CallS2b, Serving
    <3> QED BY <2>3, <3>1 DEF RxTunnelRequest
  <2>4. CASE RxPurgeRequest
    <3>1. CASE In({"active"}) /\ CallS2b("delete", "delete")
                 /\ UNCHANGED <<pid, lastPid, state, data>>
      BY <1>0, <3>1, TypeCall DEF CallS2b, Serving
    <3> QED BY <1>0, <2>4, <3>1 DEF RxPurgeRequest, EnterWaitSta
  <2>5. CASE RxCancelLocationRes
    <3>1. CASE Serving /\ EnterWaitS2bDelete
      BY <1>0, <3>1, TypeCall DEF EnterWaitS2bDelete, CallS2b, Serving
    <3> QED BY <1>0, <2>5, <3>1 DEF RxCancelLocationRes, EnterWaitSta
  <2>6. ASSUME NEW k \in {"auth", "lu", "tunnel"}, TxResponse(k)
        PROVE  FsmTypeOK'
    BY <2>6 DEF TxResponse
  <2>7. CASE TxPurgeMsResponse
    BY <2>7 DEF TxPurgeMsResponse
  <2>8. CASE TxCancelLocationRequest
    BY <2>8 DEF TxCancelLocationRequest
  <2> QED BY <1>1, <2>1, <2>2, <2>3, <2>4, <2>5, <2>6, <2>7, <2>8 DEF GsupStep
<1>2. CASE SwmStep
  <2>1. CASE RxDeaAuthResponse
    BY <1>0, <2>1 DEF RxDeaAuthResponse
  <2>2. CASE RxDeaAuthComplResponse
    BY <1>0, <2>2 DEF RxDeaAuthComplResponse
  <2>3. CASE RxReauthRequest
    BY <2>3 DEF RxReauthRequest
  <2>4. CASE RxAuthAnswer
    BY <1>0, <2>4 DEF RxAuthAnswer, EnterWaitCancelLocation
  <2>5. CASE RxSessionTerminationAnswer
    BY <2>5 DEF RxSessionTerminationAnswer
  <2>6. CASE RxAbortSessionRequest
    BY <1>0, <2>6 DEF RxAbortSessionRequest, EnterWaitCancelLocation
  <2> QED BY <1>2, <2>1, <2>2, <2>3, <2>4, <2>5, <2>6 DEF SwmStep
<1>3. CASE S2bStep
  <2>0. ASSUME TakeCall("create") \/ TakeCall("delete"), CallerWaits PROVE Alive
    BY <2>0, HeadOfCalls DEF TakeCall, CallerWaits, Alive
  <2>1. CASE CreateSessionReq
    BY <1>0, <2>0, <2>1, TypeCall DEF CreateSessionReq, Restart, fsmVars, FsmTypeOK
  <2>2. CASE DeleteSessionReq
    <3>1. CASE DeleteUnknownSession /\ TakeCall("delete")
      BY <1>0, <2>0, <3>1, TypeCall DEF DeleteUnknownSession, FsmTypeOK, Alive
    <3>2. CASE DeleteKnownSession /\ TakeCall("delete")
      BY <1>0, <2>0, <3>2, TypeCall DEF DeleteKnownSession, FsmTypeOK, Alive
    <3> QED BY <2>2, <3>1, <3>2 DEF DeleteSessionReq, Restart
  <2>3. ASSUME NEW m \in gtp,
               RxCreateSessionResponse(m) \/ RxDeleteSessionResponse(m) \/ RxDeleteBearerRequest(m)
        PROVE  FsmTypeOK'
    BY <2>3 DEF RxCreateSessionResponse, RxDeleteSessionResponse, RxDeleteBearerRequest, RxGtp
  <2>4. CASE FsmCreateSessionResponse
    BY <1>0, <2>4, AfterType DEF FsmCreateSessionResponse, FsmIn
  <2>5. CASE FsmDeleteSessionResponse
    BY <1>0, <2>5 DEF FsmDeleteSessionResponse, FsmIn, EnterWaitSta
  <2>6. CASE FsmDeleteBearerRequest
    BY <1>0, <2>6 DEF FsmDeleteBearerRequest, FsmIn, EnterWaitCancelLocation
  <2>7. CASE FsmGone
    BY <2>7 DEF FsmGone
  <2> QED BY <1>3, <2>1, <2>2, <2>3, <2>4, <2>5, <2>6, <2>7 DEF S2bStep
<1>4. CASE StateTimeout
  <2>1. CASE Serving /\ EnterWaitS2bDelete
    BY <1>0, <2>1, TypeCall DEF EnterWaitS2bDelete, CallS2b, Serving
  <2> QED BY <1>0, <1>4, <2>1
          DEF StateTimeout, Timer, SwmDerTimeout, CreateSessionTimeout, SwmStrTimeout,
              GsupCancelLocationTimeout, S2bDeleteSessionTimeout, EnterWaitSta
<1>5. CASE CallTimeout
  BY <1>5 DEF CallTimeout
<1>6. CASE EnvStep
  BY <1>6, EnvLeavesInternals DEF internals
<1>7. CASE UNCHANGED vars
  BY <1>7 DEF vars
<1> QED BY <1>1, <1>2, <1>3, <1>4, <1>5, <1>6, <1>7 DEF Next

-----------------------------------------------------------------------------
(* Type correctness of the S2b server.                                     *)

WaitRecords == [ev : {"v4", "v6", "rej", "ok", "err", "delete_bearer"},
                pid : Nat \ {0}, after : Sessions]

LEMMA S2bTypeUnchanged ==
  ASSUME S2bTypeOK, UNCHANGED s2bVars
  PROVE  S2bTypeOK'
  BY DEF S2bTypeOK, s2bVars

LEMMA S2bTypeCall ==
  ASSUME FsmTypeOK, S2bTypeOK, Serving, NEW op \in {"create", "delete"}, NEW b, CallS2b(op, b)
  PROVE  S2bTypeOK'
<1>1. [op |-> op, pid |-> pid] \in CallRecords
  BY DEF FsmTypeOK, Serving, Alive, CallRecords
<1>2. s2bCalls' \in Seq(CallRecords)
  BY <1>1, AppendProperties DEF S2bTypeOK, CallS2b, CallRecords
<1> QED BY <1>2 DEF S2bTypeOK, CallS2b, CallRecords

(* The server returns from its call to the FSM.                            *)
LEMMA S2bTypeReturn ==
  ASSUME S2bTypeOK, sess' = s2bWait.after, s2bWait' = NoWait, UNCHANGED <<nextTei, s2bCalls>>
  PROVE  S2bTypeOK'
<1>1. NoWait.ev # "v4"
  BY DEF NoWait
<1> QED BY <1>1, AfterType DEF S2bTypeOK

LEMMA S2bTypeServed ==
  ASSUME S2bTypeOK, s2bCalls # <<>>,
         s2bCalls' = Tail(s2bCalls) \/ s2bCalls' = <<>>,
         sess' \in Sessions, nextTei' \in Nat \ {0}, UNCHANGED s2bWait
  PROVE  S2bTypeOK'
<1>1. s2bCalls \in Seq(CallRecords)
  BY DEF S2bTypeOK, CallRecords
<1>2. Tail(s2bCalls) \in Seq(CallRecords) /\ <<>> \in Seq(CallRecords)
  BY <1>1, HeadTailProperties, EmptySeq
<1>3. s2bCalls' \in Seq(CallRecords)
  BY <1>2
<1> QED BY <1>3 DEF S2bTypeOK, CallRecords

(* A datagram makes the server call the FSM the session names.             *)
LEMMA S2bTypeWait ==
  ASSUME S2bTypeOK, sess # NoSess, NEW ev \in {"v4", "v6", "rej", "ok", "err", "delete_bearer"},
         NEW after \in Sessions, ev = "v4" => after # NoSess,
         CallFsm(ev, after), UNCHANGED <<sess, nextTei, s2bCalls>>
  PROVE  S2bTypeOK'
<1>1. sess.pid \in Nat \ {0}
  BY DEF S2bTypeOK, Sessions
<1>2. s2bWait' \in WaitRecords /\ s2bWait'.ev = ev /\ s2bWait'.after = after
  BY <1>1 DEF CallFsm, WaitRecords
<1> QED BY <1>2 DEF S2bTypeOK, WaitRecords

LEMMA S2bTypeStep ==
  ASSUME FsmTypeOK, S2bTypeOK, QueueTypeOK, [Next]_vars
  PROVE  S2bTypeOK'
<1> USE S2bTypeUnchanged DEF In
<1>0. NoSess \in Sessions /\ sess \in Sessions
  BY DEF Sessions, S2bTypeOK
<1>1. CASE GsupStep
  <2>1. CASE RxTunnelRequest
    BY <2>1, S2bTypeCall DEF RxTunnelRequest
  <2>2. CASE RxPurgeRequest
    BY <2>2, S2bTypeCall DEF RxPurgeRequest
  <2>3. CASE RxCancelLocationRes
    BY <2>3, S2bTypeCall DEF RxCancelLocationRes, EnterWaitS2bDelete
  <2> QED BY <1>1, <2>1, <2>2, <2>3
          DEF GsupStep, RxAuthRequest, RxLuRequest, TxResponse, TxPurgeMsResponse,
              TxCancelLocationRequest, TakeCast
<1>2. CASE SwmStep
  BY <1>2 DEF SwmStep, RxDeaAuthResponse, RxDeaAuthComplResponse, RxReauthRequest,
              RxAuthAnswer, RxSessionTerminationAnswer, RxAbortSessionRequest, RxSwm
<1>3. CASE S2bStep
  <2>1. CASE CreateSessionReq
    <3>1. Head(s2bCalls).pid \in Nat \ {0}
      <4>1. s2bCalls # <<>>
        BY <2>1 DEF CreateSessionReq, TakeCall
      <4> QED BY <4>1, HeadOfCalls
    <3>2. FindOrNewSession(Head(s2bCalls).pid) \in Sessions
      BY <3>1 DEF FindOrNewSession, Sessions, S2bTypeOK
    <3>3. nextTei \in Nat \ {0} /\ nextTei + 1 \in Nat \ {0}
      BY DEF S2bTypeOK
    <3> QED BY <1>0, <2>1, <3>2, <3>3, S2bTypeServed DEF CreateSessionReq, TakeCall, Restart
  <2>2. CASE DeleteSessionReq
    <3>1. nextTei \in Nat \ {0}
      BY DEF S2bTypeOK
    <3>2. sess' \in Sessions
      BY <1>0, <2>2 DEF DeleteSessionReq, Restart, DeleteKnownSession, DeleteUnknownSession
    <3> QED BY <2>2, <3>1, <3>2, S2bTypeServed DEF DeleteSessionReq, TakeCall, Restart
  <2>3. ASSUME NEW m \in gtp, RxCreateSessionResponse(m) PROVE S2bTypeOK'
    BY <1>0, <2>3, S2bTypeWait DEF RxCreateSessionResponse, RxGtp, Known, s2bVars
  <2>4. ASSUME NEW m \in gtp, RxDeleteSessionResponse(m) PROVE S2bTypeOK'
    <3>1. m.t = "delete_resp" => m.v \in {"ok", "err"}
      BY DEF QueueTypeOK, GtpMsgs
    <3> QED BY <1>0, <2>4, <3>1, S2bTypeWait DEF RxDeleteSessionResponse, RxGtp, Known, s2bVars
  <2>5. ASSUME NEW m \in gtp, RxDeleteBearerRequest(m) PROVE S2bTypeOK'
    <3>1. sess # NoSess => [sess EXCEPT !.dflt = FALSE] \in Sessions
      BY <1>0 DEF Sessions
    <3> QED BY <2>5, <3>1, S2bTypeWait DEF RxDeleteBearerRequest, RxGtp, Known, s2bVars
  <2>6. CASE \/ FsmCreateSessionResponse \/ FsmDeleteSessionResponse
             \/ FsmDeleteBearerRequest \/ FsmGone
    BY <2>6, S2bTypeReturn DEF FsmCreateSessionResponse, FsmDeleteSessionResponse,
                               FsmDeleteBearerRequest, FsmGone, FsmRx
  <2> QED BY <1>3, <2>1, <2>2, <2>3, <2>4, <2>5, <2>6 DEF S2bStep
<1>4. CASE StateTimeout
  BY <1>4, S2bTypeCall
     DEF StateTimeout, Timer, SwmDerTimeout, CreateSessionTimeout, SwmStrTimeout,
         GsupCancelLocationTimeout, S2bDeleteSessionTimeout, EnterWaitS2bDelete
<1>5. CASE CallTimeout
  BY <1>5 DEF CallTimeout
<1>6. CASE EnvStep
  BY <1>6, EnvLeavesInternals DEF internals
<1>7. CASE UNCHANGED vars
  BY <1>7 DEF vars
<1> QED BY <1>1, <1>2, <1>3, <1>4, <1>5, <1>6, <1>7 DEF Next

-----------------------------------------------------------------------------
(* The calls queued at the S2b server.                                     *)

CallsInv == CallsOfTheLiving /\ NoQueuedCreate

Connecting == {"wait_create_session_resp", "active"}

LEMMA CallsKept ==
  ASSUME CallsInv, UNCHANGED <<s2bCalls, pid, lastPid, blocked>>,
         state' \in Connecting => state \in Connecting
  PROVE  CallsInv'
  BY DEF CallsInv, CallsOfTheLiving, NoQueuedCreate, Connecting

LEMMA CallsTerminate ==
  ASSUME S2bTypeOK, CallsInv, Terminate, UNCHANGED s2bCalls
  PROVE  CallsInv'
<1>1. \A i \in 1..Len(s2bCalls) : s2bCalls[i].pid # 0
  <2>1. s2bCalls \in Seq(CallRecords)
    BY DEF S2bTypeOK, CallRecords
  <2>2. \A i \in 1..Len(s2bCalls) : s2bCalls[i] \in CallRecords
    BY <2>1, ElementOfSeq
  <2> QED BY <2>2 DEF CallRecords
<1> QED BY <1>1 DEF CallsInv, CallsOfTheLiving, NoQueuedCreate, Terminate

LEMMA CallsStart ==
  ASSUME FsmTypeOK, S2bTypeOK, CallsInv, pid' = lastPid + 1, lastPid' = lastPid + 1,
         state' = "wait_auth_resp", UNCHANGED s2bCalls
  PROVE  CallsInv'
<1>1. s2bCalls \in Seq(CallRecords) /\ lastPid \in Nat
  BY DEF S2bTypeOK, CallRecords, FsmTypeOK
<1>2. \A i \in 1..Len(s2bCalls) : s2bCalls[i].pid \in Nat
  <2>1. \A i \in 1..Len(s2bCalls) : s2bCalls[i] \in CallRecords
    BY <1>1, ElementOfSeq
  <2> QED BY <2>1 DEF CallRecords
<1> QED BY <1>1, <1>2 DEF CallsInv, CallsOfTheLiving, NoQueuedCreate

LEMMA CallsAppended ==
  ASSUME FsmTypeOK, S2bTypeOK, CallsInv, Serving, UNCHANGED <<pid, lastPid>>,
         NEW op \in {"create", "delete"}, NEW b, b # "no",
         b = "create" <=> op = "create",
         CallS2b(op, b),
         state' \in Connecting => state \in Connecting /\ op # "create"
  PROVE  CallsInv'
<1> DEFINE call == [op |-> op, pid |-> pid]
<1>1. s2bCalls \in Seq(CallRecords) /\ pid \in Nat /\ lastPid \in Nat /\ pid <= lastPid
  BY DEF S2bTypeOK, CallRecords, FsmTypeOK
<1>2. call \in CallRecords
  BY <1>1 DEF Serving, Alive, CallRecords
<1>3. /\ Len(s2bCalls) \in Nat
      /\ Len(s2bCalls') = Len(s2bCalls) + 1
      /\ \A i \in 1..Len(s2bCalls) : s2bCalls'[i] = s2bCalls[i]
      /\ s2bCalls'[Len(s2bCalls) + 1] = call
  BY <1>1, <1>2, AppendProperties, LenProperties DEF CallS2b
<1>4. \A i \in 1..Len(s2bCalls) : s2bCalls[i].pid <= lastPid /\ s2bCalls[i].pid # pid
  BY DEF CallsInv, CallsOfTheLiving, Serving
<1>5. call.pid = pid /\ call.op = op
  OBVIOUS
<1>6. \A i \in 1..Len(s2bCalls') : i \in 1..Len(s2bCalls) \/ i = Len(s2bCalls')
  BY <1>3
<1>7. blocked' = b
  BY DEF CallS2b
<1> HIDE DEF call
<1>8. CallsOfTheLiving'
  BY <1>1, <1>3, <1>4, <1>5, <1>6, <1>7 DEF CallsOfTheLiving
<1>9. NoQueuedCreate'
  BY <1>3, <1>5, <1>6 DEF CallsInv, NoQueuedCreate, Connecting
<1> QED BY <1>8, <1>9 DEF CallsInv

(* The indices of a tail, in the sequence it is the tail of.               *)
LEMMA IndexShift ==
  ASSUME NEW n \in Nat, NEW k, k = n - 1
  PROVE  \A i \in 1..k : i + 1 \in 1..n /\ (i + 1 = n => i = k)
  OBVIOUS

(* The caller, if it is alive, made the last call of the queue.            *)
LEMMA CallsServed ==
  ASSUME S2bTypeOK, CallsInv, s2bCalls # <<>>, s2bCalls' = Tail(s2bCalls), lastPid' = lastPid,
         CallerWaits \/ UNCHANGED <<pid, state, blocked>>
  PROVE  CallsInv'
<1>1. /\ s2bCalls \in Seq(CallRecords)
      /\ Head(s2bCalls) = s2bCalls[1] /\ 1 \in 1..Len(s2bCalls)
  BY HeadOfCalls
<1>2. /\ Len(s2bCalls') = Len(s2bCalls) - 1
      /\ \A i \in 1..Len(s2bCalls') : s2bCalls'[i] = s2bCalls[i + 1]
      /\ Len(s2bCalls) \in Nat
  BY <1>1, HeadTailProperties, LenProperties
<1>3. CASE CallerWaits
  <2>1. Len(s2bCalls) = 1
    BY <1>1, <1>3 DEF CallerWaits, CallsInv, CallsOfTheLiving
  <2>2. Len(s2bCalls') = 0
    BY <1>2, <2>1
  <2>3. 1..0 = {}
    OBVIOUS
  <2>4. 1..Len(s2bCalls') = {}
    BY <2>2, <2>3, Zenon
  <2> QED BY <2>4 DEF CallsInv, CallsOfTheLiving, NoQueuedCreate
<1>4. CASE UNCHANGED <<pid, state, blocked>>
  <2>1. \A i \in 1..Len(s2bCalls') :
           /\ i + 1 \in 1..Len(s2bCalls)
           /\ i + 1 = Len(s2bCalls) => i = Len(s2bCalls')
    BY <1>2, IndexShift
  <2>2. CallsOfTheLiving'
    BY <1>2, <1>4, <2>1 DEF CallsInv, CallsOfTheLiving
  <2>3. NoQueuedCreate'
    BY <1>2, <1>4, <2>1 DEF CallsInv, NoQueuedCreate
  <2> QED BY <2>2, <2>3 DEF CallsInv
<1> QED BY <1>3, <1>4

LEMMA CallsDropped ==
  ASSUME s2bCalls' = <<>>
  PROVE  CallsInv'
<1>1. Len(s2bCalls') = 0
  BY EmptySeq
<1> QED BY <1>1 DEF CallsInv, CallsOfTheLiving, NoQueuedCreate

LEMMA CallsStep ==
  ASSUME FsmTypeOK, S2bTypeOK, CallsInv, [Next]_vars
  PROVE  CallsInv'
<1> USE CallsKept, CallsTerminate DEF In, NoEffect, fsmVars, s2bVars, Become, Connecting
<1>1. CASE GsupStep
  <2>1. CASE RxAuthRequest
    BY <2>1, CallsStart DEF RxAuthRequest
  <2>2. CASE RxLuRequest
    BY <2>2 DEF RxLuRequest
  <2>3. CASE RxTunnelRequest
    BY <2>3, CallsAppended DEF RxTunnelRequest
  <2>4. CASE RxPurgeRequest
    BY <2>4, CallsAppended DEF RxPurgeRequest, EnterWaitSta
  <2>5. CASE RxCancelLocationRes
    BY <2>5, CallsAppended DEF RxCancelLocationRes, EnterWaitSta, EnterWaitS2bDelete
  <2>6. ASSUME NEW k \in {"auth", "lu", "tunnel"}, TxResponse(k)
        PROVE  CallsInv'
    BY <2>6 DEF TxResponse, TakeCast
  <2>7. CASE TxPurgeMsResponse
    BY <2>7 DEF TxPurgeMsResponse, TakeCast
  <2>8. CASE TxCancelLocationRequest
    BY <2>8 DEF TxCancelLocationRequest, TakeCast
  <2> QED BY <1>1, <2>1, <2>2, <2>3, <2>4, <2>5, <2>6, <2>7, <2>8 DEF GsupStep
<1>2. CASE SwmStep
  <2> USE DEF RxSwm
  <2>1. CASE RxDeaAuthResponse
    BY <2>1 DEF RxDeaAuthResponse
  <2>2. CASE RxDeaAuthComplResponse
    BY <2>2 DEF RxDeaAuthComplResponse
  <2>3. CASE RxReauthRequest
    BY <2>3 DEF RxReauthRequest
  <2>4. CASE RxAuthAnswer
    BY <2>4 DEF RxAuthAnswer, EnterWaitCancelLocation
  <2>5. CASE RxSessionTerminationAnswer
    BY <2>5 DEF RxSessionTerminationAnswer
  <2>6. CASE RxAbortSessionRequest
    BY <2>6 DEF RxAbortSessionRequest, EnterWaitCancelLocation
  <2> QED BY <1>2, <2>1, <2>2, <2>3, <2>4, <2>5, <2>6 DEF SwmStep
<1>3. CASE S2bStep
  <2>1. CASE CreateSessionReq
    BY <2>1, CallsServed, CallsDropped DEF CreateSessionReq, TakeCall, Restart
  <2>2. CASE DeleteSessionReq
    <3>1. CASE /\ s2bCalls # <<>> /\ s2bCalls' = Tail(s2bCalls)
               /\ DeleteUnknownSession \/ DeleteKnownSession
      BY <3>1, CallsServed DEF DeleteUnknownSession, DeleteKnownSession, Terminate
    <3> QED BY <2>2, <3>1, CallsDropped DEF DeleteSessionReq, TakeCall, Restart
  <2>3. ASSUME NEW m \in gtp,
               RxCreateSessionResponse(m) \/ RxDeleteSessionResponse(m) \/ RxDeleteBearerRequest(m)
        PROVE  CallsInv'
    BY <2>3 DEF RxCreateSessionResponse, RxDeleteSessionResponse, RxDeleteBearerRequest, RxGtp
  <2>4. CASE FsmCreateSessionResponse
    BY <2>4 DEF FsmCreateSessionResponse, FsmIn, FsmRx
  <2>5. CASE FsmDeleteSessionResponse
    BY <2>5 DEF FsmDeleteSessionResponse, FsmIn, FsmRx, EnterWaitSta
  <2>6. CASE FsmDeleteBearerRequest
    BY <2>6 DEF FsmDeleteBearerRequest, FsmIn, FsmRx, EnterWaitCancelLocation
  <2>7. CASE FsmGone
    BY <2>7 DEF FsmGone, FsmRx
  <2> QED BY <1>3, <2>1, <2>2, <2>3, <2>4, <2>5, <2>6, <2>7 DEF S2bStep
<1>4. CASE StateTimeout
  BY <1>4, CallsAppended
     DEF StateTimeout, Timer, SwmDerTimeout, CreateSessionTimeout, SwmStrTimeout,
         GsupCancelLocationTimeout, S2bDeleteSessionTimeout, EnterWaitSta, EnterWaitS2bDelete
<1>5. CASE CallTimeout
  BY <1>5 DEF CallTimeout
<1>6. CASE EnvStep
  BY <1>6, EnvLeavesInternals DEF internals
<1>7. CASE UNCHANGED vars
  BY <1>7 DEF vars
<1> QED BY <1>1, <1>2, <1>3, <1>4, <1>5, <1>6, <1>7 DEF Next

-----------------------------------------------------------------------------
(* The kernel holds the context the FSM remembers.                         *)

(* What the updates of #ue_fsm_data{} do to the PDP context.               *)
LEMMA DataCtx ==
     \A d \in Data :
       /\ WithoutCtx(d).ctx = Undefined
       /\ \A b \in BOOLEAN : [d EXCEPT !.gsupNeeded = b].ctx = d.ctx
       /\ [d EXCEPT !.gsupNeeded = FALSE, !.s2bNeeded = FALSE].ctx = d.ctx
       /\ \A a, b \in BOOLEAN :
             [d EXCEPT !.ctx = Undefined, !.gsupNeeded = FALSE,
                       !.s2bNeeded = a, !.asaNeeded = b].ctx = Undefined
       /\ \A l \in Nat : [d EXCEPT !.ctx = l].ctx = l
       /\ \A b \in BOOLEAN :
             [d EXCEPT !.gsupNeeded = TRUE, !.gsupCause = IF b THEN @ ELSE 1].ctx = d.ctx
  BY DEF Data, Undefined, WithoutCtx

LEMMA LeakTerminate ==
  ASSUME NoTunnelLeak, Terminate
  PROVE  NoTunnelLeak'
<1>1. InitData.ctx = Undefined
  BY DEF InitData
<1> QED BY <1>1 DEF NoTunnelLeak, HasCtx, Terminate

LEMMA LeakNoEffect ==
  ASSUME NoTunnelLeak, UNCHANGED <<data, kmod, state, blocked>>
  PROVE  NoTunnelLeak'
  BY DEF NoTunnelLeak, HasCtx

(* Outside state_active there is neither a context nor the memory of one.  *)
LEMMA LeakElsewhere ==
  ASSUME NoTunnelLeak, state # "active", UNCHANGED kmod, data'.ctx = data.ctx
  PROVE  NoTunnelLeak'
  BY DEF NoTunnelLeak, HasCtx

(* A handler of state_active that deletes the context and forgets it.      *)
LEMMA LeakRelease ==
  ASSUME NoTunnelLeak, kmod' \subseteq kmod \ {data.ctx}, data'.ctx = Undefined
  PROVE  NoTunnelLeak'
  BY DEF NoTunnelLeak, HasCtx

(* A purge deletes the context, then waits for the S2b server.             *)
LEMMA LeakPurge ==
  ASSUME NoTunnelLeak, DeletePdpContext, blocked' = "delete", UNCHANGED <<data, state>>
  PROVE  NoTunnelLeak'
  BY DEF NoTunnelLeak, HasCtx, DeletePdpContext

(* The S2b server answers a purge.                                         *)
LEMMA LeakPurged ==
  ASSUME NoTunnelLeak, blocked = "delete", UNCHANGED kmod, data'.ctx = Undefined
  PROVE  NoTunnelLeak'
  BY DEF NoTunnelLeak, HasCtx

(* The FSM that waits for the PGW installs the context.                    *)
LEMMA LeakInstall ==
  ASSUME NoTunnelLeak, state # "active", NEW l, kmod' = kmod \cup {l}, l # Undefined,
         data'.ctx = l, state' = "active", blocked' = "no"
  PROVE  NoTunnelLeak'
  BY DEF NoTunnelLeak, HasCtx

LEMMA LeakStep ==
  ASSUME FsmTypeOK, S2bTypeOK, CallsInv, NoTunnelLeak, [Next]_vars
  PROVE  NoTunnelLeak'
<1> USE DataCtx, LeakTerminate, LeakNoEffect, LeakElsewhere DEF In, NoEffect, fsmVars
<1>0. data \in Data /\ InitData.ctx = Undefined
  BY DEF FsmTypeOK, InitData
<1>1. CASE GsupStep
  <2>1. CASE RxAuthRequest
    <3>1. CASE /\ ~Alive
               /\ pid' = lastPid + 1 /\ lastPid' = lastPid + 1
               /\ state' = "wait_auth_resp" /\ data' = InitData
               /\ UNCHANGED <<blocked, kmod>>
      <4>1. state # "active" /\ data = InitData
        BY <3>1 DEF FsmTypeOK, Alive
      <4> QED BY <3>1, <4>1
    <3>2. CASE In({"active"}) /\ DeletePdpContext /\ Become("wait_auth_resp", WithoutCtx(data))
      BY <1>0, <3>2, LeakRelease DEF DeletePdpContext, Become
    <3> QED BY <2>1, <3>1, <3>2 DEF RxAuthRequest, Become, ReauthStates
  <2>2. CASE RxLuRequest
    BY <2>2 DEF RxLuRequest
  <2>3. CASE RxTunnelRequest
    BY <2>3 DEF RxTunnelRequest
  <2>4. CASE RxPurgeRequest
    <3>1. CASE In({"active"}) /\ DeletePdpContext /\ CallS2b("delete", "delete")
                 /\ UNCHANGED <<state, data>>
      BY <3>1, LeakPurge DEF CallS2b
    <3>2. CASE In({"authenticated"}) /\ EnterWaitSta([data EXCEPT !.gsupNeeded = TRUE])
                 /\ UNCHANGED kmod
      BY <1>0, <3>2 DEF EnterWaitSta, Become
    <3> QED BY <2>4, <3>1, <3>2 DEF RxPurgeRequest
  <2>5. CASE RxCancelLocationRes
    BY <2>5 DEF RxCancelLocationRes, EnterWaitSta, EnterWaitS2bDelete, Become
  <2>6. ASSUME NEW k \in {"auth", "lu", "tunnel"}, TxResponse(k)
        PROVE  NoTunnelLeak'
    BY <2>6 DEF TxResponse
  <2>7. CASE TxPurgeMsResponse
    BY <2>7 DEF TxPurgeMsResponse
  <2>8. CASE TxCancelLocationRequest
    BY <2>8 DEF TxCancelLocationRequest
  <2> QED BY <1>1, <2>1, <2>2, <2>3, <2>4, <2>5, <2>6, <2>7, <2>8 DEF GsupStep
<1>2. CASE SwmStep
  <2> USE LeakRelease DEF Become, EnterWaitCancelLocation, DeletePdpContext
  <2>1. CASE RxDeaAuthResponse
    BY <2>1 DEF RxDeaAuthResponse
  <2>2. CASE RxDeaAuthComplResponse
    BY <2>2 DEF RxDeaAuthComplResponse
  <2>3. CASE RxReauthRequest
    BY <2>3 DEF RxReauthRequest
  <2>4. CASE RxAuthAnswer
    <3>1. CASE /\ In({"active"}) /\ DeletePdpContext
               /\ EnterWaitCancelLocation("dereg_net_initiated_wait_cancel_location_res",
                     [data EXCEPT !.ctx = Undefined, !.gsupNeeded = FALSE,
                                  !.s2bNeeded = TRUE, !.asaNeeded = FALSE])
      BY <1>0, <3>1
    <3>2. CASE /\ In({"authenticated"}) /\ UNCHANGED kmod
               /\ EnterWaitCancelLocation("dereg_net_initiated_wait_cancel_location_res",
                     [data EXCEPT !.gsupNeeded = FALSE, !.s2bNeeded = FALSE])
      BY <1>0, <3>2
    <3> HIDE DEF EnterWaitCancelLocation, DeletePdpContext
    <3> QED BY <2>4, <3>1, <3>2 DEF RxAuthAnswer
  <2>5. CASE RxSessionTerminationAnswer
    BY <2>5 DEF RxSessionTerminationAnswer
  <2>6. CASE RxAbortSessionRequest
    BY <1>0, <2>6 DEF RxAbortSessionRequest
  <2> QED BY <1>2, <2>1, <2>2, <2>3, <2>4, <2>5, <2>6 DEF SwmStep
<1>3. CASE S2bStep
  <2>1. CASE CreateSessionReq
    <3>1. TakeCall("create") /\ CallerWaits => state # "active"
      <4>1. TakeCall("create") /\ CallerWaits => blocked = "create"
        BY HeadOfCalls DEF TakeCall, CallerWaits, CallsInv, CallsOfTheLiving
      <4> QED BY <4>1 DEF FsmTypeOK
    <3> QED BY <2>1, <3>1 DEF CreateSessionReq, Restart
  <2>2. CASE DeleteSessionReq
    <3>1. CASE DeleteUnknownSession
      BY <1>0, <3>1, LeakPurged DEF DeleteUnknownSession
    <3>2. CASE DeleteKnownSession
      <4>1. blocked = "delete_dereg" => state # "active"
        BY DEF FsmTypeOK
      <4> QED BY <1>0, <3>2, <4>1, LeakPurged DEF DeleteKnownSession
    <3> QED BY <2>2, <3>1, <3>2 DEF DeleteSessionReq, Restart
  <2>3. ASSUME NEW m \in gtp,
               RxCreateSessionResponse(m) \/ RxDeleteSessionResponse(m) \/ RxDeleteBearerRequest(m)
        PROVE  NoTunnelLeak'
    BY <2>3 DEF RxCreateSessionResponse, RxDeleteSessionResponse, RxDeleteBearerRequest, RxGtp
  <2>4. CASE FsmCreateSessionResponse
    <3>1. CASE /\ FsmRx("v4") /\ FsmIn({"wait_create_session_resp"})
               /\ kmod' = kmod \cup {s2bWait.after.l}
               /\ Become("active", [data EXCEPT !.ctx = s2bWait.after.l])
      <4>1. s2bWait.after.l \in Nat \ {0}
        BY <3>1, AfterType DEF FsmRx, S2bTypeOK, Sessions
      <4> QED BY <1>0, <3>1, <4>1, LeakInstall DEF FsmIn, Become, Serving, Undefined
    <3> QED BY <2>4, <3>1 DEF FsmCreateSessionResponse, FsmIn, Become
  <2>5. CASE FsmDeleteSessionResponse
    BY <1>0, <2>5 DEF FsmDeleteSessionResponse, FsmIn, EnterWaitSta, Become
  <2>6. CASE FsmDeleteBearerRequest
    BY <1>0, <2>6, LeakRelease
       DEF FsmDeleteBearerRequest, FsmIn, EnterWaitCancelLocation, Become, DeletePdpContext
  <2>7. CASE FsmGone
    BY <2>7 DEF FsmGone
  <2> QED BY <1>3, <2>1, <2>2, <2>3, <2>4, <2>5, <2>6, <2>7 DEF S2bStep
<1>4. CASE StateTimeout
  BY <1>4
     DEF StateTimeout, Timer, SwmDerTimeout, CreateSessionTimeout, SwmStrTimeout, Become,
         GsupCancelLocationTimeout, S2bDeleteSessionTimeout, EnterWaitSta, EnterWaitS2bDelete
<1>5. CASE CallTimeout
  BY <1>5 DEF CallTimeout
<1>6. CASE EnvStep
  BY <1>6, EnvLeavesInternals DEF internals
<1>7. CASE UNCHANGED vars
  BY <1>7 DEF vars
<1> QED BY <1>1, <1>2, <1>3, <1>4, <1>5, <1>6, <1>7 DEF Next

-----------------------------------------------------------------------------
(* The flags of a deregistration.                                          *)

Flags(d) == d.gsupNeeded \/ d.s2bNeeded \/ d.asaNeeded

LEMMA DataFlags ==
     /\ ~Flags(InitData)
     /\ \A d \in Data :
          /\ Flags(WithoutCtx(d)) <=> Flags(d)
          /\ \A l \in Nat : Flags([d EXCEPT !.ctx = l]) <=> Flags(d)
  BY DEF Data, InitData, Undefined, WithoutCtx, Flags

(* Handlers outside a deregistration do not touch the flags.               *)
LEMMA FlagsKept ==
  ASSUME FlagsOnlyInTeardown, state \notin TeardownStates \/ state' = state,
         Flags(data') <=> Flags(data)
  PROVE  FlagsOnlyInTeardown'
  BY DEF FlagsOnlyInTeardown, Flags

LEMMA FlagsRaised ==
  ASSUME state' \in TeardownStates
  PROVE  FlagsOnlyInTeardown'
  BY DEF FlagsOnlyInTeardown

LEMMA FlagsCleared ==
  ASSUME data' = InitData
  PROVE  FlagsOnlyInTeardown'
  BY DataFlags DEF FlagsOnlyInTeardown, Flags

LEMMA TeardownNames ==
  /\ {"wait_delete_session_resp", "wait_swm_session_termination_answer",
      "dereg_pgw_initiated_wait_cancel_location_res",
      "dereg_net_initiated_wait_cancel_location_res",
      "dereg_net_initiated_wait_s2b_delete_session_resp"} \subseteq TeardownStates
  /\ TeardownStates \cap {"new", "wait_auth_resp", "authenticating", "authenticated",
                          "active", "wait_create_session_resp"} = {}
  BY DEF TeardownStates, DeregStates, NetDeregStates

LEMMA FlagsStep ==
  ASSUME FsmTypeOK, S2bTypeOK, CallsInv, FlagsOnlyInTeardown, [Next]_vars
  PROVE  FlagsOnlyInTeardown'
<1> USE FlagsKept, FlagsRaised, FlagsCleared, TeardownNames DEF In, NoEffect, fsmVars, Become, Terminate
<1>0. data \in Data
  BY DEF FsmTypeOK
<1>1. CASE GsupStep
  <2>1. CASE RxAuthRequest
    BY <1>0, <2>1, DataFlags DEF RxAuthRequest, ReauthStates
  <2>2. CASE RxLuRequest
    BY <2>2 DEF RxLuRequest
  <2>3. CASE RxTunnelRequest
    BY <2>3 DEF RxTunnelRequest
  <2>4. CASE RxPurgeRequest
    BY <2>4 DEF RxPurgeRequest, EnterWaitSta
  <2>5. CASE RxCancelLocationRes
    BY <2>5 DEF RxCancelLocationRes, EnterWaitSta, EnterWaitS2bDelete
  <2>6. ASSUME NEW k \in {"auth", "lu", "tunnel"}, TxResponse(k)
        PROVE  FlagsOnlyInTeardown'
    BY <2>6 DEF TxResponse
  <2>7. CASE TxPurgeMsResponse
    BY <2>7 DEF TxPurgeMsResponse
  <2>8. CASE TxCancelLocationRequest
    BY <2>8 DEF TxCancelLocationRequest
  <2> QED BY <1>1, <2>1, <2>2, <2>3, <2>4, <2>5, <2>6, <2>7, <2>8 DEF GsupStep
<1>2. CASE SwmStep
  <2> USE DEF EnterWaitCancelLocation
  <2>1. CASE RxDeaAuthResponse
    BY <2>1 DEF RxDeaAuthResponse
  <2>2. CASE RxDeaAuthComplResponse
    BY <2>2 DEF RxDeaAuthComplResponse
  <2>3. CASE RxReauthRequest
    BY <2>3 DEF RxReauthRequest
  <2>4. CASE RxAuthAnswer
    BY <2>4 DEF RxAuthAnswer
  <2>5. CASE RxSessionTerminationAnswer
    BY <2>5 DEF RxSessionTerminationAnswer
  <2>6. CASE RxAbortSessionRequest
    BY <2>6 DEF RxAbortSessionRequest
  <2> QED BY <1>2, <2>1, <2>2, <2>3, <2>4, <2>5, <2>6 DEF SwmStep
<1>3. CASE S2bStep
  <2>1. CASE CreateSessionReq
    <3>1. TakeCall("create") /\ CallerWaits => state \notin TeardownStates
      <4>1. TakeCall("create") /\ CallerWaits => blocked = "create"
        BY HeadOfCalls DEF TakeCall, CallerWaits, CallsInv, CallsOfTheLiving
      <4> QED BY <4>1 DEF FsmTypeOK
    <3> QED BY <2>1, <3>1 DEF CreateSessionReq, Restart
  <2>2. CASE DeleteSessionReq
    BY <1>0, <2>2, DataFlags DEF DeleteSessionReq, Restart, DeleteKnownSession, DeleteUnknownSession
  <2>3. ASSUME NEW m \in gtp,
               RxCreateSessionResponse(m) \/ RxDeleteSessionResponse(m) \/ RxDeleteBearerRequest(m)
        PROVE  FlagsOnlyInTeardown'
    BY <2>3 DEF RxCreateSessionResponse, RxDeleteSessionResponse, RxDeleteBearerRequest, RxGtp
  <2>4. CASE FsmCreateSessionResponse
    <3>1. CASE /\ FsmIn({"wait_create_session_resp"})
               /\ Become("active", [data EXCEPT !.ctx = s2bWait.after.l])
      BY <1>0, <3>1, AfterType, DataFlags DEF FsmIn
    <3> QED BY <2>4, <3>1 DEF FsmCreateSessionResponse, FsmIn
  <2>5. CASE FsmDeleteSessionResponse
    BY <2>5 DEF FsmDeleteSessionResponse, FsmIn, EnterWaitSta
  <2>6. CASE FsmDeleteBearerRequest
    BY <2>6 DEF FsmDeleteBearerRequest, FsmIn, EnterWaitCancelLocation
  <2>7. CASE FsmGone
    BY <2>7 DEF FsmGone
  <2> QED BY <1>3, <2>1, <2>2, <2>3, <2>4, <2>5, <2>6, <2>7 DEF S2bStep
<1>4. CASE StateTimeout
  BY <1>4
     DEF StateTimeout, Timer, SwmDerTimeout, CreateSessionTimeout, SwmStrTimeout,
         GsupCancelLocationTimeout, S2bDeleteSessionTimeout, EnterWaitSta, EnterWaitS2bDelete
<1>5. CASE CallTimeout
  BY <1>5 DEF CallTimeout
<1>6. CASE EnvStep
  BY <1>6, EnvLeavesInternals DEF internals
<1>7. CASE UNCHANGED vars
  BY <1>7 DEF vars
<1> QED BY <1>1, <1>2, <1>3, <1>4, <1>5, <1>6, <1>7 DEF Next

-----------------------------------------------------------------------------
(* The session behind a tunnel.                                            *)

LEMMA WaitKept ==
  ASSUME WaitIsAboutSession, UNCHANGED <<sess, s2bWait>>
  PROVE  WaitIsAboutSession'
  BY DEF WaitIsAboutSession, S2bIdle

LEMMA WaitOver ==
  ASSUME s2bWait' = NoWait
  PROVE  WaitIsAboutSession'
  BY DEF WaitIsAboutSession, S2bIdle

LEMMA WaitBegins ==
  ASSUME sess # NoSess, UNCHANGED sess, NEW ev, NEW after, CallFsm(ev, after),
         after # NoSess => after.pid = sess.pid /\ after.l = sess.l
  PROVE  WaitIsAboutSession'
<1>1. s2bWait'.pid = sess.pid /\ s2bWait'.after = after
  BY DEF CallFsm
<1> QED BY <1>1 DEF WaitIsAboutSession

(* The S2b server calls the FSM only about the session it holds, and       *)
(* touches no session while it waits.                                      *)
LEMMA WaitStep ==
  ASSUME S2bTypeOK, WaitIsAboutSession, [Next]_vars
  PROVE  WaitIsAboutSession'
<1> USE WaitKept, WaitOver
<1>1. CASE GsupStep
  BY <1>1 DEF GsupStep, RxAuthRequest, RxLuRequest, RxTunnelRequest, RxPurgeRequest,
              RxCancelLocationRes, EnterWaitS2bDelete, CallS2b, TxResponse,
              TxPurgeMsResponse, TxCancelLocationRequest, TakeCast, s2bVars
<1>2. CASE SwmStep
  BY <1>2 DEF SwmStep, RxDeaAuthResponse, RxDeaAuthComplResponse, RxReauthRequest,
              RxAuthAnswer, RxSessionTerminationAnswer, RxAbortSessionRequest, RxSwm, s2bVars
<1>3. CASE S2bStep
  <2>1. CASE CreateSessionReq \/ DeleteSessionReq
    <3>1. s2bWait' = s2bWait /\ s2bWait = NoWait
      BY <2>1 DEF CreateSessionReq, DeleteSessionReq, TakeCall, S2bIdle, Restart
    <3> QED BY <3>1
  <2>2. ASSUME NEW m \in gtp,
               RxCreateSessionResponse(m) \/ RxDeleteSessionResponse(m) \/ RxDeleteBearerRequest(m)
        PROVE  WaitIsAboutSession'
    <3>1. UNCHANGED sess
      BY <2>2 DEF RxCreateSessionResponse, RxDeleteSessionResponse, RxDeleteBearerRequest, RxGtp
    <3>2. CASE UNCHANGED s2bWait
      BY <3>1, <3>2
    <3>3. CASE Known(m) /\ \E ev : CallFsm(ev, sess) \/ CallFsm(ev, NoSess)
      BY <3>1, <3>3, WaitBegins DEF Known
    <3>4. CASE Known(m) /\ CallFsm("delete_bearer", [sess EXCEPT !.dflt = FALSE])
      <4>1. sess \in [pid : Nat \ {0}, l : Nat \ {0}, dflt : BOOLEAN]
        BY <3>4 DEF Known, S2bTypeOK, Sessions
      <4>2. /\ [sess EXCEPT !.dflt = FALSE].pid = sess.pid
            /\ [sess EXCEPT !.dflt = FALSE].l = sess.l
        BY <4>1
      <4> QED BY <3>1, <3>4, <4>2, WaitBegins DEF Known
    <3> QED BY <2>2, <3>2, <3>3, <3>4
            DEF RxCreateSessionResponse, RxDeleteSessionResponse, RxDeleteBearerRequest
  <2>3. CASE \/ FsmCreateSessionResponse \/ FsmDeleteSessionResponse
             \/ FsmDeleteBearerRequest \/ FsmGone
    BY <2>3 DEF FsmCreateSessionResponse, FsmDeleteSessionResponse,
                FsmDeleteBearerRequest, FsmGone, FsmRx
  <2> QED BY <1>3, <2>1, <2>2, <2>3 DEF S2bStep
<1>4. CASE StateTimeout
  BY <1>4
     DEF StateTimeout, Timer, SwmDerTimeout, CreateSessionTimeout, SwmStrTimeout, CallS2b,
         GsupCancelLocationTimeout, S2bDeleteSessionTimeout, EnterWaitS2bDelete, s2bVars
<1>5. CASE CallTimeout
  BY <1>5 DEF CallTimeout, s2bVars
<1>6. CASE EnvStep
  BY <1>6, EnvLeavesInternals DEF internals, s2bVars
<1>7. CASE UNCHANGED vars
  BY <1>7 DEF vars, s2bVars
<1> QED BY <1>1, <1>2, <1>3, <1>4, <1>5, <1>6, <1>7 DEF Next

(* The FSM keeps the context it has, or has none.                          *)
CtxKept == data'.ctx = Undefined \/ (data'.ctx = data.ctx /\ pid' = pid)

InstallContext ==
    /\ FsmRx("v4") /\ FsmIn({"wait_create_session_resp"})
    /\ Become("active", [data EXCEPT !.ctx = s2bWait.after.l])

LEMMA CtxTerminate == ASSUME Terminate PROVE CtxKept
  BY DEF Terminate, CtxKept, InitData

LEMMA CtxNoEffect == ASSUME UNCHANGED <<pid, data>> PROVE CtxKept
  BY DEF CtxKept

LEMMA CtxStep ==
  ASSUME FsmTypeOK, [Next]_vars
  PROVE  CtxKept \/ InstallContext
<1> USE DataCtx, CtxTerminate, CtxNoEffect DEF In, NoEffect, fsmVars, Become
<1>0. data \in Data /\ InitData.ctx = Undefined
  BY DEF FsmTypeOK, InitData
<1>1. CASE GsupStep
  <2>1. CASE RxAuthRequest
    BY <1>0, <2>1 DEF RxAuthRequest, CtxKept
  <2>2. CASE RxPurgeRequest
    BY <1>0, <2>2 DEF RxPurgeRequest, EnterWaitSta, CtxKept
  <2> QED BY <1>1, <2>1, <2>2
          DEF GsupStep, RxLuRequest, RxTunnelRequest, RxCancelLocationRes, EnterWaitSta,
              EnterWaitS2bDelete, TxResponse, TxPurgeMsResponse, TxCancelLocationRequest
<1>2. CASE SwmStep
  <2>1. CASE RxAuthAnswer
    BY <1>0, <2>1 DEF RxAuthAnswer, EnterWaitCancelLocation, CtxKept
  <2>2. CASE RxAbortSessionRequest
    BY <1>0, <2>2 DEF RxAbortSessionRequest, EnterWaitCancelLocation, CtxKept
  <2> QED BY <1>2, <2>1, <2>2
          DEF SwmStep, RxDeaAuthResponse, RxDeaAuthComplResponse, RxReauthRequest,
              RxSessionTerminationAnswer
<1>3. CASE S2bStep
  <2>1. CASE CreateSessionReq
    BY <2>1 DEF CreateSessionReq, Restart
  <2>2. CASE DeleteSessionReq
    BY <1>0, <2>2
       DEF DeleteSessionReq, DeleteKnownSession, DeleteUnknownSession, Restart, CtxKept
  <2>3. ASSUME NEW m \in gtp,
               RxCreateSessionResponse(m) \/ RxDeleteSessionResponse(m) \/ RxDeleteBearerRequest(m)
        PROVE  CtxKept
    BY <2>3 DEF RxCreateSessionResponse, RxDeleteSessionResponse, RxDeleteBearerRequest, RxGtp
  <2>4. CASE FsmCreateSessionResponse
    BY <2>4 DEF FsmCreateSessionResponse, InstallContext
  <2>5. CASE FsmDeleteSessionResponse
    BY <1>0, <2>5 DEF FsmDeleteSessionResponse, EnterWaitSta, CtxKept
  <2>6. CASE FsmDeleteBearerRequest
    BY <1>0, <2>6 DEF FsmDeleteBearerRequest, EnterWaitCancelLocation, CtxKept
  <2>7. CASE FsmGone
    BY <2>7 DEF FsmGone
  <2> QED BY <1>3, <2>1, <2>2, <2>3, <2>4, <2>5, <2>6, <2>7 DEF S2bStep
<1>4. CASE StateTimeout
  BY <1>4
     DEF StateTimeout, Timer, SwmDerTimeout, CreateSessionTimeout, SwmStrTimeout,
         GsupCancelLocationTimeout, S2bDeleteSessionTimeout, EnterWaitSta, EnterWaitS2bDelete
<1>5. CASE CallTimeout
  BY <1>5 DEF CallTimeout
<1>6. CASE EnvStep
  BY <1>6, EnvLeavesInternals DEF internals
<1>7. CASE UNCHANGED vars
  BY <1>7 DEF vars
<1> QED BY <1>1, <1>2, <1>3, <1>4, <1>5, <1>6, <1>7 DEF Next

(* A session appears only on a call that no FSM with a tunnel leaves in    *)
(* the queue; otherwise it stays, goes, or is the one the wait names.      *)
LEMMA SessStep ==
  ASSUME S2bTypeOK, [Next]_vars
  PROVE  \/ sess' = sess \/ sess' = NoSess
         \/ TakeCall("create") /\ data' = data
         \/ ~S2bIdle /\ sess' = s2bWait.after
<1>0. NoWait.ev = "none"
  BY DEF NoWait
<1>1. CASE GsupStep
  BY <1>1 DEF GsupStep, RxAuthRequest, RxLuRequest, RxTunnelRequest, RxPurgeRequest,
              RxCancelLocationRes, EnterWaitS2bDelete, CallS2b, TxResponse,
              TxPurgeMsResponse, TxCancelLocationRequest, TakeCast, s2bVars
<1>2. CASE SwmStep
  BY <1>2 DEF SwmStep, RxDeaAuthResponse, RxDeaAuthComplResponse, RxReauthRequest,
              RxAuthAnswer, RxSessionTerminationAnswer, RxAbortSessionRequest, RxSwm, s2bVars
<1>3. CASE S2bStep
  <2>1. CASE CreateSessionReq \/ DeleteSessionReq
    BY <2>1 DEF CreateSessionReq, DeleteSessionReq, DeleteKnownSession,
                DeleteUnknownSession, Restart
  <2>2. ASSUME NEW m \in gtp,
               RxCreateSessionResponse(m) \/ RxDeleteSessionResponse(m) \/ RxDeleteBearerRequest(m)
        PROVE  sess' = sess
    BY <2>2 DEF RxCreateSessionResponse, RxDeleteSessionResponse, RxDeleteBearerRequest, RxGtp
  <2>3. CASE \/ FsmCreateSessionResponse \/ FsmDeleteSessionResponse
             \/ FsmDeleteBearerRequest \/ FsmGone
    BY <1>0, <2>3 DEF FsmCreateSessionResponse, FsmDeleteSessionResponse,
                      FsmDeleteBearerRequest, FsmGone, FsmRx, S2bIdle
  <2> QED BY <1>3, <2>1, <2>2, <2>3 DEF S2bStep
<1>4. CASE StateTimeout
  BY <1>4
     DEF StateTimeout, Timer, SwmDerTimeout, CreateSessionTimeout, SwmStrTimeout, CallS2b,
         GsupCancelLocationTimeout, S2bDeleteSessionTimeout, EnterWaitS2bDelete, s2bVars
<1>5. CASE CallTimeout
  BY <1>5 DEF CallTimeout, s2bVars
<1>6. CASE EnvStep
  BY <1>6, EnvLeavesInternals DEF internals, s2bVars
<1>7. CASE UNCHANGED vars
  BY <1>7 DEF vars, s2bVars
<1> QED BY <1>1, <1>2, <1>3, <1>4, <1>5, <1>6, <1>7 DEF Next

LEMMA TunnelStep ==
  ASSUME FsmTypeOK, S2bTypeOK, CallsInv, NoTunnelLeak, WaitIsAboutSession,
         TunnelHasItsSession, [Next]_vars
  PROVE  TunnelHasItsSession'
<1>0. data \in Data
  BY DEF FsmTypeOK
<1>1. CASE InstallContext
  <2>1. /\ ~S2bIdle /\ s2bWait.after # NoSess /\ s2bWait.pid = pid
        /\ sess' = s2bWait.after /\ pid' = pid
    BY <1>1 DEF InstallContext, FsmRx, FsmIn, S2bIdle, NoWait, S2bTypeOK, Become
  <2>2. data'.ctx = s2bWait.after.l
    BY <1>0, <1>1, AfterType, DataCtx DEF InstallContext, Become
  <2> QED BY <2>1, <2>2 DEF WaitIsAboutSession, TunnelHasItsSession, HasCtx
<1>2. CASE CtxKept
  <2>1. CASE sess' = sess \/ sess' = NoSess
    BY <1>2, <2>1 DEF CtxKept, TunnelHasItsSession, HasCtx
  <2>2. CASE TakeCall("create") /\ data' = data
    <3>1. ~HasCtx
      <4>1. state \notin {"active"}
        BY <2>2, HeadOfCalls DEF TakeCall, CallsInv, NoQueuedCreate
      <4> QED BY <4>1 DEF NoTunnelLeak
    <3> QED BY <2>2, <3>1 DEF TunnelHasItsSession, HasCtx
  <2>3. CASE ~S2bIdle /\ sess' = s2bWait.after
    BY <1>2, <2>3 DEF CtxKept, TunnelHasItsSession, HasCtx, WaitIsAboutSession
  <2> QED BY <2>1, <2>2, <2>3, SessStep
<1> QED BY <1>1, <1>2, CtxStep

-----------------------------------------------------------------------------
(* The queues and the environment.                                         *)

SwmRequests == {"der", "derc", "str", "aar", "raa", "asa"}

SwmAnswers == [t : {"dea", "deac", "rar", "aaa", "sta", "sta_int", "asr"}, ok : BOOLEAN]

LEMMA GsupMsgType ==
  /\ \A k \in Kinds \cup {"cancel_location"}, ok \in BOOLEAN : Cast(k, ok) \in GsupMsgs
  /\ \A k \in Kinds \cup {"cancel_location"} : Request(k) \in GsupMsgs
  BY DEF Cast, Request, GsupMsgs

(* What a step may do to a queue: leave it, add to it, take its head, or   *)
(* empty it.                                                               *)
LEMMA QueueMoves ==
  ASSUME NEW S, NEW q \in Seq(S)
  PROVE  /\ \A x \in S : Append(q, x) \in Seq(S)
         /\ \A x, y \in S : q \o <<x, y>> \in Seq(S)
         /\ q # <<>> => Tail(q) \in Seq(S) /\ Head(q) \in S
         /\ <<>> \in Seq(S)
<1>1. \A x \in S : Append(q, x) \in Seq(S)
  BY AppendProperties
<1>2. \A x, y \in S : q \o <<x, y>> \in Seq(S)
  <2>1. \A x, y \in S : <<x, y>> \in Seq(S)
    OBVIOUS
  <2> QED BY <2>1, ConcatProperties
<1>3. q # <<>> => Tail(q) \in Seq(S) /\ Head(q) \in S
  BY HeadTailProperties
<1> QED BY <1>1, <1>2, <1>3, EmptySeq

(* The mailbox of gsup_server.                                             *)
LEMMA MboxStep ==
  ASSUME QueueTypeOK, [Next]_vars
  PROVE  mbox' \in Seq(GsupMsgs)
<1>0. mbox \in Seq(GsupMsgs)
  BY DEF QueueTypeOK
<1>m. /\ \A x \in GsupMsgs : Append(mbox, x) \in Seq(GsupMsgs)
      /\ mbox # <<>> => Tail(mbox) \in Seq(GsupMsgs)
      /\ <<>> \in Seq(GsupMsgs)
  BY <1>0, QueueMoves
<1>c. /\ \A k \in {"auth", "lu", "tunnel", "purge", "cancel_location"}, ok \in BOOLEAN :
            Cast(k, ok) \in GsupMsgs
      /\ \A k \in {"auth", "lu", "tunnel", "purge", "cancel_location"} : Request(k) \in GsupMsgs
  BY GsupMsgType DEF Kinds
<1>a. \A x \in SwmAnswers : x.ok \in BOOLEAN
  BY DEF SwmAnswers
<1>h. swmRx # <<>> => Head(swmRx).ok \in BOOLEAN
  BY <1>a, QueueMoves DEF QueueTypeOK, SwmAnswers
<1> USE <1>0, <1>m, <1>c, <1>h
<1>1. CASE GsupStep
  BY <1>1 DEF GsupStep, RxAuthRequest, RxLuRequest, RxTunnelRequest, RxPurgeRequest,
              RxCancelLocationRes, RxGsup, TxResponse,
              TxPurgeMsResponse, TxCancelLocationRequest, TakeCast
<1>2. CASE SwmStep
  <2>1. CASE RxDeaAuthResponse
    BY <2>1 DEF RxDeaAuthResponse, RxSwm
  <2>2. CASE RxDeaAuthComplResponse
    BY <2>2 DEF RxDeaAuthComplResponse, RxSwm
  <2>3. CASE RxReauthRequest
    BY <2>3 DEF RxReauthRequest
  <2>4. CASE RxAuthAnswer
    BY <2>4 DEF RxAuthAnswer, EnterWaitCancelLocation
  <2>5. CASE RxSessionTerminationAnswer
    <3>1. (Head(swmRx).ok /\ data.gsupCause = 0) \in BOOLEAN
      BY Zenon
    <3> QED BY <2>5, <3>1 DEF RxSessionTerminationAnswer, RxSwm
  <2>6. CASE RxAbortSessionRequest
    BY <2>6 DEF RxAbortSessionRequest, EnterWaitCancelLocation
  <2> QED BY <1>2, <2>1, <2>2, <2>3, <2>4, <2>5, <2>6 DEF SwmStep
<1>3. CASE S2bStep
  BY <1>3 DEF S2bStep, CreateSessionReq, DeleteSessionReq, Restart, RxCreateSessionResponse,
              RxDeleteSessionResponse, RxDeleteBearerRequest, RxGtp, FsmCreateSessionResponse,
              FsmDeleteSessionResponse, FsmDeleteBearerRequest, EnterWaitCancelLocation,
              FsmGone, gsupVars
<1>4. CASE StateTimeout
  BY <1>4
     DEF StateTimeout, SwmDerTimeout, CreateSessionTimeout, SwmStrTimeout,
         GsupCancelLocationTimeout, S2bDeleteSessionTimeout
<1>5. CASE CallTimeout
  BY <1>5 DEF CallTimeout
<1>6. CASE EnvStep
  BY <1>6, ClientAssumption
     DEF EnvStep, ClientSend, ClientTimeout, ClientCancelLocationRes, AaaTake,
         AaaRequest, PgwAnswer, GtpLoss, PgwDeleteBearer, gsupVars
<1>7. CASE UNCHANGED vars
  BY <1>7 DEF vars, gsupVars
<1> QED BY <1>1, <1>2, <1>3, <1>4, <1>5, <1>6, <1>7 DEF Next

(* The casts towards the AAA server.                                       *)
LEMMA SwmTxStep ==
  ASSUME QueueTypeOK, [Next]_vars
  PROVE  swmTx' \in Seq(SwmRequests)
<1>0. swmTx \in Seq(SwmRequests)
  BY DEF QueueTypeOK, SwmRequests
<1>m. /\ \A x \in {"der", "derc", "str", "aar", "raa", "asa"} :
            Append(swmTx, x) \in Seq(SwmRequests)
      /\ swmTx \o <<"raa", "aar">> \in Seq(SwmRequests)
      /\ swmTx # <<>> => Tail(swmTx) \in Seq(SwmRequests)
      /\ <<>> \in Seq(SwmRequests)
  BY <1>0, QueueMoves DEF SwmRequests
<1> USE <1>0, <1>m DEF swmVars, EnterWaitSta, TxSwmAsaIfNeeded, EnterWaitS2bDelete
<1>1. CASE GsupStep
  BY <1>1 DEF GsupStep, RxAuthRequest, RxLuRequest, RxTunnelRequest, RxPurgeRequest,
              RxCancelLocationRes, TxResponse, TxPurgeMsResponse, TxCancelLocationRequest,
              TakeCast
<1>2. CASE SwmStep
  BY <1>2 DEF SwmStep, RxDeaAuthResponse, RxDeaAuthComplResponse, RxReauthRequest,
              RxAuthAnswer, RxSessionTerminationAnswer, RxAbortSessionRequest
<1>3. CASE S2bStep
  BY <1>3 DEF S2bStep, CreateSessionReq, DeleteSessionReq, DeleteKnownSession,
              DeleteUnknownSession, Restart, RxCreateSessionResponse,
              RxDeleteSessionResponse, RxDeleteBearerRequest, RxGtp, FsmCreateSessionResponse,
              FsmDeleteSessionResponse, FsmDeleteBearerRequest, FsmGone
<1>4. CASE StateTimeout
  BY <1>4
     DEF StateTimeout, SwmDerTimeout, CreateSessionTimeout, SwmStrTimeout,
         GsupCancelLocationTimeout, S2bDeleteSessionTimeout
<1>5. CASE CallTimeout
  BY <1>5 DEF CallTimeout
<1>6. CASE EnvStep
  BY <1>6
     DEF EnvStep, ClientSend, ClientTimeout, ClientCancelLocationRes, AaaTake,
         AaaRequest, PgwAnswer, GtpLoss, PgwDeleteBearer
<1>7. CASE UNCHANGED vars
  BY <1>7 DEF vars
<1> QED BY <1>1, <1>2, <1>3, <1>4, <1>5, <1>6, <1>7 DEF Next

(* The casts from the AAA server.                                          *)
LEMMA SwmRxStep ==
  ASSUME QueueTypeOK, [Next]_vars
  PROVE  swmRx' \in Seq(SwmAnswers)
<1>0. swmRx \in Seq(SwmAnswers)
  BY DEF QueueTypeOK, SwmAnswers
<1>m. /\ \A x \in SwmAnswers : Append(swmRx, x) \in Seq(SwmAnswers)
      /\ swmRx # <<>> => Tail(swmRx) \in Seq(SwmAnswers)
      /\ <<>> \in Seq(SwmAnswers)
  BY <1>0, QueueMoves
<1> USE <1>0, <1>m DEF swmVars
<1>1. CASE GsupStep
  BY <1>1 DEF GsupStep, RxAuthRequest, RxLuRequest, RxTunnelRequest, RxPurgeRequest,
              RxCancelLocationRes, RxGsup, TxResponse, TxPurgeMsResponse,
              TxCancelLocationRequest, TakeCast
<1>2. CASE SwmStep
  BY <1>2 DEF SwmStep, RxDeaAuthResponse, RxDeaAuthComplResponse, RxReauthRequest, RxSwm,
              RxAuthAnswer, RxSessionTerminationAnswer, RxAbortSessionRequest
<1>3. CASE S2bStep
  BY <1>3 DEF S2bStep, CreateSessionReq, DeleteSessionReq, Restart, RxCreateSessionResponse,
              RxDeleteSessionResponse, RxDeleteBearerRequest, RxGtp, FsmCreateSessionResponse,
              FsmDeleteSessionResponse, FsmDeleteBearerRequest, FsmGone, FsmRx
<1>4. CASE StateTimeout
  BY <1>4
     DEF StateTimeout, SwmDerTimeout, CreateSessionTimeout, SwmStrTimeout, Timer,
         GsupCancelLocationTimeout, S2bDeleteSessionTimeout
<1>5. CASE CallTimeout
  BY <1>5 DEF CallTimeout
<1>6. CASE EnvStep
  <2>1. CASE AaaTake
    <3>1. PICK a \in AaaAnswers(Head(swmTx)) :
             swmRx' = IF a[1] = "none" THEN swmRx ELSE Append(swmRx, SwmMsg(a[1], a[2]))
      BY <2>1 DEF AaaTake
    <3>2. \/ a[1] = "none"
          \/ /\ a[1] \in {"dea", "deac", "sta", "sta_int", "aaa"}
             /\ a[2] \in BOOLEAN
      BY <3>1 DEF AaaAnswers
    <3>3. a[1] = "none" \/ SwmMsg(a[1], a[2]) \in SwmAnswers
      BY <3>2 DEF SwmMsg, SwmAnswers
    <3> QED BY <3>1, <3>3
  <2>2. CASE AaaRequest
    <3>1. \A t \in {"rar", "asr"} : SwmMsg(t, TRUE) \in SwmAnswers
      BY DEF SwmMsg, SwmAnswers
    <3> QED BY <2>2, <3>1 DEF AaaRequest
  <2> QED BY <1>6, <2>1, <2>2
          DEF EnvStep, ClientSend, ClientTimeout, ClientCancelLocationRes,
              PgwAnswer, GtpLoss, PgwDeleteBearer
<1>7. CASE UNCHANGED vars
  BY <1>7 DEF vars
<1> QED BY <1>1, <1>2, <1>3, <1>4, <1>5, <1>6, <1>7 DEF Next

(* The datagrams in flight, and the sessions the PGW has.                  *)
LEMMA GtpStep ==
  ASSUME S2bTypeOK, QueueTypeOK, EnvTypeOK, [Next]_vars
  PROVE  gtp' \subseteq GtpMsgs /\ pgw' \subseteq Nat \ {0}
<1>0. gtp \subseteq GtpMsgs /\ pgw \subseteq Nat \ {0}
  BY DEF QueueTypeOK, EnvTypeOK
<1>m. /\ \A l \in Nat \ {0} : /\ Gtp("create_req", l, "") \in GtpMsgs
                              /\ Gtp("delete_req", l, "") \in GtpMsgs
      /\ \A l \in Nat \ {0}, v \in {"v4", "v6", "v4v6", "rej"} :
            Gtp("create_resp", l, v) \in GtpMsgs
      /\ \A l \in Nat \ {0}, v \in {"ok", "err"} : Gtp("delete_resp", l, v) \in GtpMsgs
      /\ \A l \in Nat \ {0}, v \in {"lbi", "other"} : Gtp("delete_bearer", l, v) \in GtpMsgs
      /\ \A m \in GtpMsgs : m.l \in Nat \ {0}
  BY DEF Gtp, GtpMsgs
<1> USE <1>0 DEF envVars
<1>1. CASE GsupStep
  BY <1>1 DEF GsupStep, RxAuthRequest, RxLuRequest, RxTunnelRequest, RxPurgeRequest,
              RxCancelLocationRes, RxGsup, TxResponse, TxPurgeMsResponse,
              TxCancelLocationRequest, TakeCast
<1>2. CASE SwmStep
  BY <1>2 DEF SwmStep, RxDeaAuthResponse, RxDeaAuthComplResponse, RxReauthRequest, RxSwm,
              RxAuthAnswer, RxSessionTerminationAnswer, RxAbortSessionRequest
<1>3. CASE S2bStep
  <2>1. CASE CreateSessionReq
    <3>1. FindOrNewSession(Head(s2bCalls).pid).l \in Nat \ {0}
      BY DEF FindOrNewSession, S2bTypeOK, Sessions
    <3> QED BY <1>m, <2>1, <3>1 DEF CreateSessionReq, Restart
  <2>2. CASE DeleteSessionReq
    <3>1. sess # NoSess => sess.l \in Nat \ {0}
      BY DEF S2bTypeOK, Sessions
    <3> QED BY <1>m, <2>2, <3>1
            DEF DeleteSessionReq, Restart, DeleteKnownSession, DeleteUnknownSession
  <2> QED BY <1>3, <2>1, <2>2
          DEF S2bStep, RxCreateSessionResponse, RxDeleteSessionResponse,
              RxDeleteBearerRequest, RxGtp, FsmCreateSessionResponse,
              FsmDeleteSessionResponse, FsmDeleteBearerRequest, FsmGone, FsmRx
<1>4. CASE StateTimeout
  BY <1>4
     DEF StateTimeout, SwmDerTimeout, CreateSessionTimeout, SwmStrTimeout, Timer,
         GsupCancelLocationTimeout, S2bDeleteSessionTimeout
<1>5. CASE CallTimeout
  BY <1>5 DEF CallTimeout
<1>6. CASE EnvStep
  <2>1. ASSUME NEW m \in gtp, PgwAnswer(m) PROVE gtp' \subseteq GtpMsgs /\ pgw' \subseteq Nat \ {0}
    <3>1. m.l \in Nat \ {0}
      BY <1>m
    <3> QED BY <1>m, <2>1, <3>1 DEF PgwAnswer
  <2>2. CASE PgwDeleteBearer
    BY <1>m, <2>2 DEF PgwDeleteBearer
  <2> QED BY <1>6, <2>1, <2>2
          DEF EnvStep, ClientSend, ClientTimeout, ClientCancelLocationRes, AaaTake,
              AaaRequest, GtpLoss
<1>7. CASE UNCHANGED vars
  BY <1>7 DEF vars
<1> QED BY <1>1, <1>2, <1>3, <1>4, <1>5, <1>6, <1>7 DEF Next

(* strongSwan's side of GSUP.                                              *)
ClientTypeOK ==
    /\ client \in Kinds \cup {"none"}
    /\ clr \in BOOLEAN
    /\ reqs \in 0..MaxReq /\ nets \in 0..MaxNet
    /\ owed \in [Kinds -> Int]

LEMMA ClientRespond ==
  ASSUME ClientTypeOK, NEW k \in {"auth", "lu", "tunnel", "purge"}, Respond(k)
  PROVE  client' \in Kinds \cup {"none"} /\ owed' \in [Kinds -> Int]
  BY DEF ClientTypeOK, Respond, Kinds

LEMMA ClientStep ==
  ASSUME ClientTypeOK, [Next]_vars
  PROVE  ClientTypeOK'
<1> USE ClientRespond DEF NoResponse, envVars, gsupVars
<1>0. /\ client \in Kinds \cup {"none"} /\ "none" \in Kinds \cup {"none"}
      /\ owed \in [Kinds -> Int]
      /\ clr \in BOOLEAN /\ reqs \in 0..MaxReq /\ nets \in 0..MaxNet
  BY DEF ClientTypeOK
<1>1. CASE GsupStep
  <2>1. client' \in Kinds \cup {"none"} /\ owed' \in [Kinds -> Int]
    BY <1>0, <1>1 DEF GsupStep, RxAuthRequest, RxLuRequest, RxTunnelRequest, RxPurgeRequest,
              RxCancelLocationRes, TxResponse, TxPurgeMsResponse, TxCancelLocationRequest
  <2>2. clr' \in BOOLEAN /\ UNCHANGED <<reqs, nets>>
    BY <1>0, <1>1 DEF GsupStep, RxAuthRequest, RxLuRequest, RxTunnelRequest, RxPurgeRequest,
              RxCancelLocationRes, RxGsup, TxResponse, TxPurgeMsResponse,
              TxCancelLocationRequest, TakeCast
  <2> QED BY <1>0, <2>1, <2>2 DEF ClientTypeOK
<1>2. CASE SwmStep
  BY <1>0, <1>2
     DEF SwmStep, RxDeaAuthResponse, RxDeaAuthComplResponse, RxReauthRequest, RxSwm,
         RxAuthAnswer, RxSessionTerminationAnswer, RxAbortSessionRequest, ClientTypeOK
<1>3. CASE S2bStep
  <2>1. CASE DeleteSessionReq
    <3>1. client' \in Kinds \cup {"none"} /\ owed' \in [Kinds -> Int]
      BY <1>0, <2>1 DEF DeleteSessionReq, Restart, DeleteKnownSession, DeleteUnknownSession
    <3>2. clr' \in BOOLEAN /\ UNCHANGED <<reqs, nets>>
      BY <1>0, <2>1 DEF DeleteSessionReq, Restart
    <3> QED BY <1>0, <3>1, <3>2 DEF ClientTypeOK
  <2>2. CASE CreateSessionReq
    BY <1>0, <2>2 DEF CreateSessionReq, Restart, ClientTypeOK
  <2> QED BY <1>0, <1>3, <2>1, <2>2
          DEF S2bStep, RxCreateSessionResponse, RxDeleteSessionResponse,
              RxDeleteBearerRequest, RxGtp, FsmCreateSessionResponse,
              FsmDeleteSessionResponse, FsmDeleteBearerRequest, FsmGone, FsmRx, ClientTypeOK
<1>4. CASE StateTimeout
  BY <1>0, <1>4
     DEF StateTimeout, SwmDerTimeout, CreateSessionTimeout, SwmStrTimeout, Timer,
         GsupCancelLocationTimeout, S2bDeleteSessionTimeout, ClientTypeOK
<1>5. CASE CallTimeout
  <2>1. client' \in Kinds \cup {"none"} /\ owed' \in [Kinds -> Int]
    BY <1>0, <1>5 DEF CallTimeout
  <2> QED BY <1>0, <1>5, <2>1 DEF CallTimeout, ClientTypeOK
<1>6. CASE EnvStep
  <2>1. ASSUME NEW k \in ClientKinds, ClientSend(k) PROVE ClientTypeOK'
    <3>1. k \in Kinds
      BY ClientAssumption DEF Kinds
    <3>2. owed' \in [Kinds -> Int]
      BY <1>0, <2>1, <3>1 DEF ClientSend
    <3>3. reqs' \in 0..MaxReq
      BY <1>0, <2>1, BoundsAssumption DEF ClientSend
    <3> QED BY <1>0, <2>1, <3>1, <3>2, <3>3 DEF ClientSend, ClientTypeOK
  <2>2. CASE AaaRequest \/ PgwDeleteBearer
    <3>1. nets' \in 0..MaxNet
      <4>1. nets < MaxNet /\ nets' = nets + 1
        BY <2>2 DEF AaaRequest, PgwDeleteBearer
      <4> QED BY <1>0, <4>1, BoundsAssumption
    <3> QED BY <1>0, <2>2, <3>1 DEF AaaRequest, PgwDeleteBearer, ClientTypeOK
  <2> QED BY <1>0, <1>6, <2>1, <2>2
          DEF EnvStep, ClientTimeout, ClientCancelLocationRes, AaaTake,
              PgwAnswer, GtpLoss, ClientTypeOK
<1>7. CASE UNCHANGED vars
  BY <1>0, <1>7 DEF vars, ClientTypeOK
<1> QED BY <1>1, <1>2, <1>3, <1>4, <1>5, <1>6, <1>7 DEF Next

-----------------------------------------------------------------------------
(* The inductive invariant.                                                *)

IInv ==
    /\ FsmTypeOK /\ S2bTypeOK /\ QueueTypeOK /\ EnvTypeOK
    /\ CallsInv
    /\ NoTunnelLeak
    /\ FlagsOnlyInTeardown
    /\ WaitIsAboutSession
    /\ TunnelHasItsSession

LEMMA IInvInit == Init => IInv
<1> SUFFICES ASSUME Init PROVE IInv
  OBVIOUS
<1>1. /\ InitData \in Data /\ InitData.ctx = Undefined /\ ~Flags(InitData)
      /\ NoWait.ev = "none" /\ NoSess \in Sessions
  BY InitDataType, DataFlags DEF InitData, NoWait, Sessions
<1>2. FsmTypeOK
  BY <1>1, NoneIsNoState DEF Init, FsmTypeOK
<1>3. S2bTypeOK
  BY <1>1, EmptySeq DEF Init, S2bTypeOK
<1>4. QueueTypeOK
  BY EmptySeq DEF Init, QueueTypeOK
<1>5. EnvTypeOK
  <2>1. owed \in [Kinds -> Int]
    BY DEF Init
  <2>2. 0 \in 0..MaxReq /\ 0 \in 0..MaxNet
    BY BoundsAssumption
  <2>3. clr \in BOOLEAN
    BY Zenon DEF Init
  <2> QED BY <2>1, <2>2, <2>3 DEF Init, EnvTypeOK
<1>6. CallsInv
  <2>1. Len(s2bCalls) = 0
    BY DEF Init
  <2> QED BY <2>1 DEF CallsInv, CallsOfTheLiving, NoQueuedCreate
<1>7. NoTunnelLeak /\ TunnelHasItsSession /\ FlagsOnlyInTeardown /\ WaitIsAboutSession
  BY <1>1 DEF Init, NoTunnelLeak, TunnelHasItsSession, FlagsOnlyInTeardown, Flags, HasCtx,
              WaitIsAboutSession, S2bIdle
<1> QED BY <1>2, <1>3, <1>4, <1>5, <1>6, <1>7 DEF IInv

LEMMA IInvStep == IInv /\ [Next]_vars => IInv'
<1> SUFFICES ASSUME IInv, [Next]_vars PROVE IInv'
  OBVIOUS
<1>0. /\ FsmTypeOK /\ S2bTypeOK /\ QueueTypeOK /\ EnvTypeOK /\ CallsInv /\ NoTunnelLeak
      /\ FlagsOnlyInTeardown /\ WaitIsAboutSession /\ TunnelHasItsSession
  BY DEF IInv
<1>1. FsmTypeOK' /\ S2bTypeOK'
  BY <1>0, FsmTypeStep, S2bTypeStep
<1>2. QueueTypeOK' /\ EnvTypeOK'
  <2>1. /\ mbox' \in Seq(GsupMsgs) /\ swmTx' \in Seq(SwmRequests)
        /\ swmRx' \in Seq(SwmAnswers)
        /\ gtp' \subseteq GtpMsgs /\ pgw' \subseteq Nat \ {0}
    BY <1>0, MboxStep, SwmTxStep, SwmRxStep, GtpStep
  <2>2. ClientTypeOK'
    BY <1>0, ClientStep DEF EnvTypeOK, ClientTypeOK
  <2> QED BY <2>1, <2>2
          DEF QueueTypeOK, EnvTypeOK, ClientTypeOK, SwmRequests, SwmAnswers
<1>3. CallsInv'
  BY <1>0, CallsStep
<1>4. NoTunnelLeak' /\ FlagsOnlyInTeardown'
  BY <1>0, LeakStep, FlagsStep
<1>5. WaitIsAboutSession' /\ TunnelHasItsSession'
  BY <1>0, WaitStep, TunnelStep
<1> QED BY <1>1, <1>2, <1>3, <1>4, <1>5 DEF IInv

LEMMA IInvImplies ==
  IInv => TypeOK /\ NoTunnelLeak /\ FlagsOnlyInTeardown /\ TunnelHasItsSession
<1> SUFFICES ASSUME IInv PROVE TypeOK
  BY DEF IInv
<1>1. kmod \subseteq Nat \ {0}
  <2>1. kmod \subseteq {data.ctx} \ {0} /\ data.ctx \in Nat
    BY DEF IInv, NoTunnelLeak, HasCtx, FsmTypeOK, Data, Undefined
  <2> QED BY <2>1
<1> QED BY <1>1 DEF IInv, TypeOK

(* The inductive invariant holds of every execution of the ePDG, whatever  *)
(* strongSwan, the AAA server, the PGW and the network do.                 *)
THEOREM Invariance == Spec => []IInv
  BY IInvInit, IInvStep, PTL DEF Spec

(* Type correctness of the UE state machine, the servers and their queues. *)
THEOREM TypeCorrect == Spec => []TypeOK
  BY Invariance, IInvImplies, PTL

(* No crash, timeout, restart or deregistration leaves a PDP context in    *)
(* the kernel that its FSM does not know of, or takes one it counts on.    *)
THEOREM TunnelSafety == Spec => []NoTunnelLeak
  BY Invariance, IInvImplies, PTL

(* The deregistration flags of #ue_fsm_data{} are raised only during the   *)
(* deregistration they belong to, never while the UE is served.            *)
THEOREM FlagSafety == Spec => []FlagsOnlyInTeardown
  BY Invariance, IInvImplies, PTL

(* The S2b session of a UE with a tunnel is never replaced by another one, *)
(* however late calls and answers arrive at the S2b server.                *)
THEOREM SessionSafety == Spec => []TunnelHasItsSession
  BY Invariance, IInvImplies, PTL

-----------------------------------------------------------------------------
(* What a step may never do.                                               *)

(* A step leaves the FSM where it is, ends it, starts from a state of      *)
(* service, or ends in one of deregistration.                              *)
StaysTornDown == state' = state \/ pid' = 0 \/ state \notin TeardownStates
                 \/ state' \in TeardownStates

LEMMA TeardownStep ==
  ASSUME FsmTypeOK, S2bTypeOK, CallsInv, [Next]_vars
  PROVE  StaysTornDown
<1> USE TeardownNames DEF In, NoEffect, fsmVars, Become, Terminate, StaysTornDown
<1>1. CASE GsupStep
  <2>1. CASE RxAuthRequest
    <3>1. ~Alive => state \notin TeardownStates
      BY DEF FsmTypeOK, Alive, TeardownStates, DeregStates, NetDeregStates
    <3> QED BY <2>1, <3>1 DEF RxAuthRequest, ReauthStates
  <2>2. CASE RxLuRequest
    BY <2>2 DEF RxLuRequest
  <2>3. CASE RxTunnelRequest
    BY <2>3 DEF RxTunnelRequest
  <2>4. CASE RxPurgeRequest
    BY <2>4 DEF RxPurgeRequest, EnterWaitSta
  <2>5. CASE RxCancelLocationRes
    BY <2>5 DEF RxCancelLocationRes, EnterWaitSta, EnterWaitS2bDelete
  <2> QED BY <1>1, <2>1, <2>2, <2>3, <2>4, <2>5
          DEF GsupStep, TxResponse, TxPurgeMsResponse, TxCancelLocationRequest
<1>2. CASE SwmStep
  <2>1. CASE RxDeaAuthResponse
    BY <2>1 DEF RxDeaAuthResponse
  <2>2. CASE RxDeaAuthComplResponse
    BY <2>2 DEF RxDeaAuthComplResponse
  <2>3. CASE RxReauthRequest
    BY <2>3 DEF RxReauthRequest
  <2>4. CASE RxAuthAnswer
    BY <2>4 DEF RxAuthAnswer, EnterWaitCancelLocation
  <2>5. CASE RxSessionTerminationAnswer
    BY <2>5 DEF RxSessionTerminationAnswer
  <2>6. CASE RxAbortSessionRequest
    BY <2>6 DEF RxAbortSessionRequest, EnterWaitCancelLocation
  <2> QED BY <1>2, <2>1, <2>2, <2>3, <2>4, <2>5, <2>6 DEF SwmStep
<1>3. CASE S2bStep
  <2>1. CASE CreateSessionReq
    <3>1. TakeCall("create") /\ CallerWaits => state \notin TeardownStates
      <4>1. TakeCall("create") /\ CallerWaits => blocked = "create"
        BY HeadOfCalls DEF TakeCall, CallerWaits, CallsInv, CallsOfTheLiving
      <4> QED BY <4>1 DEF FsmTypeOK
    <3> QED BY <2>1, <3>1 DEF CreateSessionReq, Restart
  <2>2. CASE DeleteSessionReq
    BY <2>2 DEF DeleteSessionReq, Restart, DeleteKnownSession, DeleteUnknownSession
  <2>3. ASSUME NEW m \in gtp,
               RxCreateSessionResponse(m) \/ RxDeleteSessionResponse(m) \/ RxDeleteBearerRequest(m)
        PROVE  StaysTornDown
    BY <2>3 DEF RxCreateSessionResponse, RxDeleteSessionResponse, RxDeleteBearerRequest, RxGtp
  <2>4. CASE FsmCreateSessionResponse
    BY <2>4 DEF FsmCreateSessionResponse, FsmIn
  <2>5. CASE FsmDeleteSessionResponse
    BY <2>5 DEF FsmDeleteSessionResponse, FsmIn, EnterWaitSta
  <2>6. CASE FsmDeleteBearerRequest
    BY <2>6 DEF FsmDeleteBearerRequest, FsmIn, EnterWaitCancelLocation
  <2>7. CASE FsmGone
    BY <2>7 DEF FsmGone
  <2> QED BY <1>3, <2>1, <2>2, <2>3, <2>4, <2>5, <2>6, <2>7 DEF S2bStep
<1>4. CASE StateTimeout
  BY <1>4
     DEF StateTimeout, Timer, SwmDerTimeout, CreateSessionTimeout, SwmStrTimeout,
         GsupCancelLocationTimeout, S2bDeleteSessionTimeout, EnterWaitSta, EnterWaitS2bDelete
<1>5. CASE CallTimeout
  BY <1>5 DEF CallTimeout
<1>6. CASE EnvStep
  BY <1>6, EnvLeavesInternals DEF internals
<1>7. CASE UNCHANGED vars
  BY <1>7 DEF vars
<1> QED BY <1>1, <1>2, <1>3, <1>4, <1>5, <1>6, <1>7 DEF Next

(* No step of the same FSM leads from a deregistration back into service.  *)
THEOREM TeardownSafety == Spec => TeardownIsFinal
<1> DEFINE A == pid' = pid /\ state \in TeardownStates => state' \in TeardownStates
<1>1. ASSUME IInv, [Next]_vars PROVE A
  <2>1. state \in TeardownStates => pid # 0
    BY <1>1 DEF IInv, FsmTypeOK, TeardownStates, DeregStates, NetDeregStates
  <2> QED BY <1>1, <2>1, TeardownStep DEF IInv, StaysTornDown
<1>2. IInv /\ [Next]_vars => [A]_vars
  BY <1>1
<1> QED BY <1>2, Invariance, PTL DEF Spec, TeardownIsFinal

AsaSent == \E i \in 1..Len(swmTx') : i > Len(swmTx) /\ swmTx'[i] = "asa"

(* Casts other than an ASA, and what removes casts, send no ASA.           *)
LEMMA NoAsa ==
  ASSUME QueueTypeOK,
         \/ swmTx' = swmTx
         \/ swmTx' = <<>>
         \/ swmTx # <<>> /\ swmTx' = Tail(swmTx)
         \/ \E x \in SwmRequests \ {"asa"} : swmTx' = Append(swmTx, x)
         \/ swmTx' = swmTx \o <<"raa", "aar">>
  PROVE  ~AsaSent
<1>0. swmTx \in Seq(SwmRequests) /\ Len(swmTx) \in Nat
  BY LenProperties DEF QueueTypeOK, SwmRequests
<1>1. CASE swmTx' = swmTx \/ swmTx' = <<>>
  BY <1>0, <1>1 DEF AsaSent
<1>2. CASE swmTx # <<>> /\ swmTx' = Tail(swmTx)
  <2>1. Len(swmTx') = Len(swmTx) - 1
    BY <1>0, <1>2, HeadTailProperties
  <2> QED BY <1>0, <2>1 DEF AsaSent
<1>3. ASSUME NEW x \in SwmRequests \ {"asa"}, swmTx' = Append(swmTx, x) PROVE ~AsaSent
  <2>1. Len(swmTx') = Len(swmTx) + 1 /\ swmTx'[Len(swmTx) + 1] = x
    BY <1>0, <1>3, AppendProperties
  <2>2. \A i \in 1..Len(swmTx') : i > Len(swmTx) => i = Len(swmTx) + 1
    BY <1>0, <2>1
  <2> QED BY <2>1, <2>2 DEF AsaSent
<1>4. CASE swmTx' = swmTx \o <<"raa", "aar">>
  <2>1. <<"raa", "aar">> \in Seq(SwmRequests)
    BY DEF SwmRequests
  <2>2. /\ Len(swmTx') = Len(swmTx) + 2
        /\ swmTx'[Len(swmTx) + 1] = "raa" /\ swmTx'[Len(swmTx) + 2] = "aar"
    BY <1>0, <1>4, <2>1
  <2>3. \A i \in 1..Len(swmTx') :
           i > Len(swmTx) => i = Len(swmTx) + 1 \/ i = Len(swmTx) + 2
    BY <1>0, <2>2
  <2> QED BY <2>2, <2>3 DEF AsaSent
<1> QED BY <1>1, <1>2, <1>3, <1>4

(* Every ASA goes with the end of the FSM.                                 *)
LEMMA AsaStep ==
  ASSUME QueueTypeOK, [Next]_vars
  PROVE  ~AsaSent \/ (pid' = 0 /\ data' = InitData)
<1> USE NoAsa DEF Terminate, EnterWaitSta, TxSwmAsaIfNeeded, swmVars
<1>0. {"der", "derc", "str", "aar", "raa"} \subseteq SwmRequests \ {"asa"}
  BY DEF SwmRequests
<1>1. CASE GsupStep
  <2>1. CASE RxAuthRequest
    BY <1>0, <2>1 DEF RxAuthRequest
  <2>2. CASE RxLuRequest
    BY <1>0, <2>2 DEF RxLuRequest
  <2>3. CASE RxTunnelRequest
    BY <2>3 DEF RxTunnelRequest
  <2>4. CASE RxPurgeRequest
    BY <1>0, <2>4 DEF RxPurgeRequest
  <2>5. CASE RxCancelLocationRes
    BY <1>0, <2>5 DEF RxCancelLocationRes, EnterWaitS2bDelete
  <2> QED BY <1>1, <2>1, <2>2, <2>3, <2>4, <2>5
          DEF GsupStep, TxResponse, TxPurgeMsResponse, TxCancelLocationRequest, TakeCast
<1>2. CASE SwmStep
  <2>1. CASE RxReauthRequest
    BY <1>0, <2>1 DEF RxReauthRequest
  <2> QED BY <1>2, <2>1
          DEF SwmStep, RxDeaAuthResponse, RxDeaAuthComplResponse, RxAuthAnswer,
              RxSessionTerminationAnswer, RxAbortSessionRequest
<1>3. CASE S2bStep
  <2>1. CASE CreateSessionReq
    BY <2>1 DEF CreateSessionReq, Restart
  <2>2. CASE DeleteSessionReq
    BY <2>2 DEF DeleteSessionReq, DeleteKnownSession, DeleteUnknownSession, Restart
  <2>3. ASSUME NEW m \in gtp,
               RxCreateSessionResponse(m) \/ RxDeleteSessionResponse(m) \/ RxDeleteBearerRequest(m)
        PROVE  ~AsaSent
    BY <2>3 DEF RxCreateSessionResponse, RxDeleteSessionResponse, RxDeleteBearerRequest, RxGtp
  <2>4. CASE FsmDeleteSessionResponse
    BY <1>0, <2>4 DEF FsmDeleteSessionResponse
  <2> QED BY <1>3, <2>1, <2>2, <2>3, <2>4
          DEF S2bStep, FsmCreateSessionResponse, FsmDeleteBearerRequest, FsmGone
<1>4. CASE StateTimeout
  BY <1>0, <1>4
     DEF StateTimeout, SwmDerTimeout, CreateSessionTimeout, SwmStrTimeout,
         GsupCancelLocationTimeout, S2bDeleteSessionTimeout, EnterWaitS2bDelete
<1>5. CASE CallTimeout
  BY <1>5 DEF CallTimeout
<1>6. CASE EnvStep
  BY <1>6 DEF EnvStep, ClientSend, ClientTimeout, ClientCancelLocationRes, AaaTake,
              AaaRequest, PgwAnswer, GtpLoss, PgwDeleteBearer
<1>7. CASE UNCHANGED vars
  BY <1>7 DEF vars
<1> QED BY <1>1, <1>2, <1>3, <1>4, <1>5, <1>6, <1>7 DEF Next

(* tx_swm_asa_if_needed reports a session as aborted only when the FSM     *)
(* ends and no PDP context of the subscriber is left.                      *)
THEOREM AsaSafety == Spec => AsaAfterRelease
<1> DEFINE A == AsaSent => kmod' = {} /\ pid' = 0
<1>1. ASSUME IInv, [Next]_vars, AsaSent PROVE kmod' = {} /\ pid' = 0
  <2>1. pid' = 0 /\ data' = InitData
    BY <1>1, AsaStep DEF IInv
  <2>2. NoTunnelLeak'
    BY <1>1, IInvStep DEF IInv
  <2>3. ~HasCtx'
    BY <2>1 DEF HasCtx, InitData, Undefined
  <2> QED BY <2>1, <2>2, <2>3 DEF NoTunnelLeak
<1>2. IInv /\ [Next]_vars => [A]_vars
  BY <1>1
<1> QED BY <1>2, Invariance, PTL DEF Spec, AsaAfterRelease, AsaSent

-----------------------------------------------------------------------------
(* Responses.  A GSUP response of kind k is due for each request still in  *)
(* the mailbox and each response on its way there, for what the FSM waits  *)
(* for on behalf of a request, and for the SWm exchanges of Location       *)
(* Updates, of which there may be several at a time.  No step takes away   *)
(* more from what is owed than from what is due.                           *)

OfKind(k) == [t : {"cast", "req"}, k : {k}, ok : BOOLEAN]
Box(q, k) == HowMany(q, OfKind(k))

Deac == [t : {"deac"}, ok : BOOLEAN]
Asked(k, tx) == IF k = "lu" THEN HowMany(tx, {"derc"}) ELSE 0
Answered(k, rx) == IF k = "lu" THEN HowMany(rx, Deac) ELSE 0

Due(k, s, b, d) ==
    CASE k = "auth" -> One(s = "wait_auth_resp")
      [] k = "tunnel" -> One(b = "create") + One(s = "wait_create_session_resp")
      [] k = "purge" -> One(b = "delete") + One(s = "wait_delete_session_resp")
                        + One(d.gsupNeeded)
      [] OTHER -> 0

OwedInv == \A k \in Kinds :
    owed[k] >= Box(mbox, k) + Due(k, state, blocked, data) + Asked(k, swmTx) + Answered(k, swmRx)

(* The mailbox of gsup_server.                                             *)
LEMMA BoxMoves ==
  ASSUME NEW q \in Seq(GsupMsgs), NEW k \in Kinds
  PROVE  /\ Box(q, k) \in Nat /\ Box(<<>>, k) = 0
         /\ q # <<>> => Box(Tail(q), k) = Box(q, k) - One(k = Head(q).k)
         /\ \A j \in Kinds \cup {"cancel_location"} :
              /\ Box(Append(q, Request(j)), k) = Box(q, k) + One(k = j)
              /\ \A ok \in BOOLEAN : Box(Append(q, Cast(j, ok)), k) = Box(q, k) + One(k = j)
<1>1. \A m \in GsupMsgs : m \in OfKind(k) <=> k = m.k
  BY DEF GsupMsgs, OfKind
<1>2. Box(q, k) \in Nat /\ Box(<<>>, k) = 0
  BY HowManyFinite, HowManyEmpty DEF Box
<1>3. ASSUME q # <<>> PROVE Box(Tail(q), k) = Box(q, k) - One(k = Head(q).k)
  <2>1. HowMany(Tail(q), OfKind(k)) = HowMany(q, OfKind(k)) - One(Head(q) \in OfKind(k))
    BY <1>3, HowManyTail
  <2>2. Head(q) \in OfKind(k) <=> k = Head(q).k
    BY <1>1, <1>3, QueueMoves
  <2> QED BY <2>1, <2>2 DEF Box, One
<1>4. ASSUME NEW m \in GsupMsgs PROVE Box(Append(q, m), k) = Box(q, k) + One(k = m.k)
  <2>1. HowMany(Append(q, m), OfKind(k)) = HowMany(q, OfKind(k)) + One(m \in OfKind(k))
    BY HowManyAppend
  <2> QED BY <1>1, <2>1 DEF Box, One
<1>5. \A j, ok : Request(j).k = j /\ Cast(j, ok).k = j
  BY DEF Request, Cast
<1>6. ASSUME NEW j \in Kinds \cup {"cancel_location"}
      PROVE  /\ Box(Append(q, Request(j)), k) = Box(q, k) + One(k = j)
             /\ \A ok \in BOOLEAN : Box(Append(q, Cast(j, ok)), k) = Box(q, k) + One(k = j)
  BY <1>4, <1>5, GsupMsgType
<1> QED BY <1>2, <1>3, <1>6

(* Casts to and from the AAA server.                                       *)
LEMMA AskedMoves ==
  ASSUME NEW q \in Seq(SwmRequests), NEW k
  PROVE  /\ Asked(k, q) \in Nat /\ Asked(k, <<>>) = 0
         /\ q # <<>> => Asked(k, Tail(q)) = Asked(k, q) - One(k = "lu" /\ Head(q) = "derc")
         /\ \A x \in SwmRequests : Asked(k, Append(q, x)) = Asked(k, q) + One(k = "lu" /\ x = "derc")
         /\ Asked(k, q \o <<"raa", "aar">>) = Asked(k, q)
<1>1. HowMany(q, {"derc"}) \in Nat /\ HowMany(<<>>, {"derc"}) = 0
  BY HowManyFinite, HowManyEmpty
<1>2. q # <<>> => HowMany(Tail(q), {"derc"}) = HowMany(q, {"derc"}) - One(Head(q) = "derc")
  BY HowManyTail DEF One
<1>3. ASSUME NEW p \in Seq(SwmRequests), NEW x \in SwmRequests
      PROVE  HowMany(Append(p, x), {"derc"}) = HowMany(p, {"derc"}) + One(x = "derc")
  BY HowManyAppend DEF One
<1>4. HowMany(q \o <<"raa", "aar">>, {"derc"}) = HowMany(q, {"derc"})
  <2>1. PICK p, r : p = Append(q, "raa") /\ r = Append(p, "aar")
    OBVIOUS
  <2>2. p \in Seq(SwmRequests) /\ "raa" \in SwmRequests /\ "aar" \in SwmRequests
    BY <2>1 DEF SwmRequests
  <2>3. HowMany(p, {"derc"}) = HowMany(q, {"derc"}) + 0
    BY <1>3, <2>1, <2>2 DEF One
  <2>4. HowMany(r, {"derc"}) = HowMany(p, {"derc"}) + 0
    BY <1>3, <2>1, <2>2 DEF One
  <2>5. r = q \o <<"raa", "aar">>
    BY <2>1
  <2>6. HowMany(r, {"derc"}) = HowMany(q, {"derc"})
    BY <1>1, <2>3, <2>4
  <2> QED BY <2>5, <2>6
<1>5. CASE k = "lu"
  <2>1. \A x \in SwmRequests : HowMany(Append(q, x), {"derc"}) = HowMany(q, {"derc"}) + One(x = "derc")
    BY <1>3
  <2> QED BY <1>1, <1>2, <1>4, <1>5, <2>1 DEF Asked, One
<1>6. CASE k # "lu"
  BY <1>6 DEF Asked, One
<1> QED BY <1>5, <1>6

LEMMA AnsweredMoves ==
  ASSUME NEW q \in Seq(SwmAnswers), NEW k
  PROVE  /\ Answered(k, q) \in Nat /\ Answered(k, <<>>) = 0
         /\ q # <<>> => Answered(k, Tail(q)) = Answered(k, q) - One(k = "lu" /\ Head(q).t = "deac")
         /\ \A m \in SwmAnswers :
              Answered(k, Append(q, m)) = Answered(k, q) + One(k = "lu" /\ m.t = "deac")
<1>1. HowMany(q, Deac) \in Nat /\ HowMany(<<>>, Deac) = 0
  BY HowManyFinite, HowManyEmpty
<1>2. \A m \in SwmAnswers : m \in Deac <=> m.t = "deac"
  BY DEF SwmAnswers, Deac
<1>3. ASSUME q # <<>> PROVE HowMany(Tail(q), Deac) = HowMany(q, Deac) - One(Head(q).t = "deac")
  <2>1. HowMany(Tail(q), Deac) = HowMany(q, Deac) - One(Head(q) \in Deac)
    BY <1>3, HowManyTail
  <2>2. Head(q) \in SwmAnswers
    BY <1>3, QueueMoves
  <2> QED BY <1>2, <2>1, <2>2 DEF One
<1>4. ASSUME NEW m \in SwmAnswers
      PROVE  HowMany(Append(q, m), Deac) = HowMany(q, Deac) + One(m.t = "deac")
  <2>1. HowMany(Append(q, m), Deac) = HowMany(q, Deac) + One(m \in Deac)
    BY HowManyAppend
  <2> QED BY <1>2, <2>1 DEF One
<1> QED BY <1>1, <1>3, <1>4 DEF Answered, One

LEMMA DueType == ASSUME NEW k \in Kinds, NEW s, NEW b, NEW d PROVE Due(k, s, b, d) \in Nat
  BY DEF Due, One, Kinds

(* An FSM that is not in a call.                                           *)
LEMMA DueIs ==
  ASSUME NEW k \in Kinds, NEW s, NEW d
  PROVE  Due(k, s, "no", d) = One(k = "auth" /\ s = "wait_auth_resp")
                              + One(k = "tunnel" /\ s = "wait_create_session_resp")
                              + One(k = "purge" /\ s = "wait_delete_session_resp")
                              + One(k = "purge" /\ d.gsupNeeded)
  BY DEF Due, One, Kinds

LEMMA OwedStep ==
  ASSUME IInv, OwedInv, [Next]_vars
  PROVE  OwedInv'
<1> SUFFICES ASSUME NEW k \in Kinds
             PROVE  owed'[k] >= Box(mbox', k) + Due(k, state', blocked', data')
                                + Asked(k, swmTx') + Answered(k, swmRx')
  BY DEF OwedInv
<1>1. PICK w, w1, b, b1, f, f1, t, t1, r, r1 :
        /\ w = owed[k] /\ w1 = owed'[k] /\ b = Box(mbox, k) /\ b1 = Box(mbox', k)
        /\ f = Due(k, state, blocked, data) /\ f1 = Due(k, state', blocked', data')
        /\ t = Asked(k, swmTx) /\ t1 = Asked(k, swmTx')
        /\ r = Answered(k, swmRx) /\ r1 = Answered(k, swmRx')
  OBVIOUS
<1>2. /\ mbox \in Seq(GsupMsgs) /\ swmTx \in Seq(SwmRequests) /\ swmRx \in Seq(SwmAnswers)
      /\ owed \in [Kinds -> Int] /\ data \in Data /\ FsmTypeOK
  BY DEF IInv, QueueTypeOK, EnvTypeOK, FsmTypeOK, SwmRequests, SwmAnswers
<1>3. /\ w \in Int /\ b \in Nat /\ f \in Nat /\ t \in Nat /\ r \in Nat /\ f1 \in Nat
      /\ w >= b + f + t + r
  <2>1. w \in Int /\ b \in Nat /\ t \in Nat /\ r \in Nat
    BY <1>1, <1>2, BoxMoves, AskedMoves, AnsweredMoves
  <2>2. f \in Nat /\ f1 \in Nat
    BY <1>1, DueType
  <2>3. w >= b + f + t + r
    BY <1>1 DEF OwedInv
  <2> QED BY <2>1, <2>2, <2>3
<1>4. /\ owed' = owed => w1 = w
      /\ \A j \in Kinds : Respond(j) => w1 = w - One(k = j)
  BY <1>1, <1>2 DEF Respond, One
<1>5. /\ mbox' = mbox => b1 = b
      /\ mbox' = <<>> => b1 = 0
      /\ mbox # <<>> /\ mbox' = Tail(mbox) => b1 = b - One(k = Head(mbox).k)
      /\ \A j \in Kinds \cup {"cancel_location"} :
           /\ mbox' = Append(mbox, Request(j)) => b1 = b + One(k = j)
           /\ \A ok \in BOOLEAN : mbox' = Append(mbox, Cast(j, ok)) => b1 = b + One(k = j)
  <2>1. /\ Box(<<>>, k) = 0
        /\ mbox # <<>> => Box(Tail(mbox), k) = Box(mbox, k) - One(k = Head(mbox).k)
        /\ \A j \in Kinds \cup {"cancel_location"} :
             /\ Box(Append(mbox, Request(j)), k) = Box(mbox, k) + One(k = j)
             /\ \A ok \in BOOLEAN : Box(Append(mbox, Cast(j, ok)), k) = Box(mbox, k) + One(k = j)
    BY <1>2, BoxMoves
  <2>2. /\ mbox' = mbox => b1 = b
        /\ mbox' = <<>> => b1 = 0
        /\ mbox # <<>> /\ mbox' = Tail(mbox) => b1 = b - One(k = Head(mbox).k)
    BY <1>1, <2>1
  <2>3. ASSUME NEW j \in Kinds \cup {"cancel_location"}, mbox' = Append(mbox, Request(j))
        PROVE  b1 = b + One(k = j)
    BY <1>1, <2>1, <2>3
  <2>4. ASSUME NEW j \in Kinds \cup {"cancel_location"}, NEW ok \in BOOLEAN,
               mbox' = Append(mbox, Cast(j, ok))
        PROVE  b1 = b + One(k = j)
    <3>1. Box(Append(mbox, Cast(j, ok)), k) = Box(mbox, k) + One(k = j)
      BY <2>1
    <3> QED BY <1>1, <2>4, <3>1
  <2> QED BY <2>2, <2>3, <2>4
<1>6. /\ swmTx' = swmTx => t1 = t
      /\ swmTx' = <<>> => t1 = 0
      /\ swmTx # <<>> /\ swmTx' = Tail(swmTx) => t1 = t - One(k = "lu" /\ Head(swmTx) = "derc")
      /\ \A x \in SwmRequests : swmTx' = Append(swmTx, x) => t1 = t + One(k = "lu" /\ x = "derc")
      /\ swmTx' = swmTx \o <<"raa", "aar">> => t1 = t
  <2>1. /\ Asked(k, <<>>) = 0
        /\ swmTx # <<>> =>
             Asked(k, Tail(swmTx)) = Asked(k, swmTx) - One(k = "lu" /\ Head(swmTx) = "derc")
        /\ \A x \in SwmRequests :
             Asked(k, Append(swmTx, x)) = Asked(k, swmTx) + One(k = "lu" /\ x = "derc")
        /\ Asked(k, swmTx \o <<"raa", "aar">>) = Asked(k, swmTx)
    BY <1>2, AskedMoves
  <2> QED BY <1>1, <2>1
<1>7. /\ swmRx' = swmRx => r1 = r
      /\ swmRx' = <<>> => r1 = 0
      /\ swmRx # <<>> /\ swmRx' = Tail(swmRx) => r1 = r - One(k = "lu" /\ Head(swmRx).t = "deac")
      /\ \A m \in SwmAnswers : swmRx' = Append(swmRx, m) => r1 = r + One(k = "lu" /\ m.t = "deac")
  <2>1. /\ Answered(k, <<>>) = 0
        /\ swmRx # <<>> =>
             Answered(k, Tail(swmRx)) = Answered(k, swmRx) - One(k = "lu" /\ Head(swmRx).t = "deac")
        /\ \A m \in SwmAnswers :
             Answered(k, Append(swmRx, m)) = Answered(k, swmRx) + One(k = "lu" /\ m.t = "deac")
    BY <1>2, AnsweredMoves
  <2> QED BY <1>1, <2>1
<1>8. /\ Terminate => f1 = 0
      /\ UNCHANGED <<state, blocked, data>> => f1 = f
      /\ NoEffect => f1 = f
  <2>1. Terminate => f1 = 0
    BY <1>1, DueIs DEF Terminate, InitData, One
  <2> QED BY <1>1, <2>1 DEF NoEffect, fsmVars
<1>9. /\ Serving => f = Due(k, state, "no", data)
      /\ \A s, d : Serving /\ Become(s, d) => f1 = Due(k, s, "no", d)
  BY <1>1 DEF Serving, Become
<1> SUFFICES w1 >= b1 + f1 + t1 + r1
  BY <1>1
<1>10. {"der", "str", "raa", "aar", "asa", "derc"} \subseteq SwmRequests
       /\ Kinds = {"auth", "lu", "tunnel", "purge"}
  BY DEF SwmRequests, Kinds
<1>11. ASSUME In({"dereg_net_initiated_wait_cancel_location_res"}), EnterWaitS2bDelete
       PROVE  f1 <= f /\ t1 = t
  <2>1. CASE /\ state' = "dereg_net_initiated_wait_s2b_delete_session_resp"
             /\ CallS2b("delete", "delete_dereg") /\ UNCHANGED <<data, swmTx>>
    <3>1. f1 = f
      BY <1>1, <1>11, <2>1 DEF Due, One, In, Serving, CallS2b, Kinds
    <3> QED BY <1>3, <1>6, <2>1, <3>1
  <2>2. CASE TxSwmAsaIfNeeded /\ Terminate
    BY <1>3, <1>6, <1>8, <1>10, <2>2 DEF TxSwmAsaIfNeeded, One
  <2> QED BY <1>11, <2>1, <2>2 DEF EnterWaitS2bDelete
<1>12. CASE GsupStep
  <2>0. \A j : RxGsup(j) => b1 = b - One(k = j) /\ r1 = r
    BY <1>5, <1>7 DEF RxGsup, Request
  <2>1. CASE RxAuthRequest
    <3>1. CASE ~Alive /\ state' = "wait_auth_resp" /\ data' = InitData /\ UNCHANGED blocked
      <4>1. f1 = One(k = "auth")
        BY <1>1, <1>2, <3>1, DueIs DEF FsmTypeOK, Alive, InitData, One
      <4>2. swmTx' = Append(swmTx, "der") /\ NoResponse
        BY <2>1, <3>1 DEF RxAuthRequest, In, Serving
      <4>3. w1 = w /\ t1 = t
        BY <1>3, <1>4, <1>6, <1>10, <4>2 DEF NoResponse, One
      <4> QED BY <1>3, <2>0, <2>1, <4>1, <4>3 DEF RxAuthRequest, One
    <3>2. ASSUME Serving, state \in {"new", "authenticating", "authenticated", "active"},
                 Become("wait_auth_resp", data) \/ Become("wait_auth_resp", WithoutCtx(data)),
                 swmTx' = Append(swmTx, "der"), NoResponse
          PROVE  w1 >= b1 + f1 + t1 + r1
      <4>1. WithoutCtx(data).gsupNeeded = data.gsupNeeded
        BY <1>2 DEF WithoutCtx, Data
      <4>2. f1 = f + One(k = "auth")
        BY <1>9, <3>2, <4>1, DueIs DEF One
      <4>3. w1 = w /\ t1 = t
        BY <1>3, <1>4, <1>6, <1>10, <3>2 DEF NoResponse, One
      <4> QED BY <1>3, <2>0, <2>1, <4>2, <4>3 DEF RxAuthRequest, One
    <3>3. CASE Terminate /\ Respond("auth") /\ UNCHANGED swmTx
      BY <1>3, <1>4, <1>6, <1>8, <1>10, <2>0, <2>1, <3>3 DEF RxAuthRequest, One
    <3>4. CASE NoEffect /\ NoResponse /\ UNCHANGED swmTx
      BY <1>3, <1>4, <1>6, <1>8, <2>0, <2>1, <3>4 DEF RxAuthRequest, One, NoResponse
    <3> QED BY <2>1, <3>1, <3>2, <3>3, <3>4 DEF RxAuthRequest, In, ReauthStates
  <2>2. CASE RxLuRequest
    <3>1. CASE swmTx' = Append(swmTx, "derc") /\ NoEffect /\ NoResponse
      BY <1>3, <1>4, <1>6, <1>8, <1>10, <2>0, <2>2, <3>1 DEF RxLuRequest, One, NoResponse
    <3>2. CASE (NoEffect \/ Terminate) /\ Respond("lu") /\ UNCHANGED swmTx
      BY <1>3, <1>4, <1>6, <1>8, <1>10, <2>0, <2>2, <3>2 DEF RxLuRequest, One
    <3>3. CASE NoEffect /\ NoResponse /\ UNCHANGED swmTx
      BY <1>3, <1>4, <1>6, <1>8, <2>0, <2>2, <3>3 DEF RxLuRequest, One, NoResponse
    <3> QED BY <2>2, <3>1, <3>2, <3>3 DEF RxLuRequest
  <2>3. CASE RxTunnelRequest
    <3>0. t1 = t
      BY <1>6, <2>3 DEF RxTunnelRequest
    <3>1. CASE Serving /\ CallS2b("create", "create") /\ NoResponse /\ UNCHANGED <<state, data>>
      <4>1. f1 = f + One(k = "tunnel")
        BY <1>1, <3>1 DEF Due, One, Serving, CallS2b, Kinds
      <4> QED BY <1>3, <1>4, <2>0, <2>3, <3>0, <3>1, <4>1 DEF RxTunnelRequest, One, NoResponse
    <3>2. CASE (NoEffect \/ Terminate) /\ Respond("tunnel")
      BY <1>3, <1>4, <1>8, <1>10, <2>0, <2>3, <3>0, <3>2 DEF RxTunnelRequest, One
    <3>3. CASE NoEffect /\ NoResponse
      BY <1>3, <1>4, <1>8, <2>0, <2>3, <3>0, <3>3 DEF RxTunnelRequest, One, NoResponse
    <3> QED BY <2>3, <3>1, <3>2, <3>3 DEF RxTunnelRequest, In
  <2>4. CASE RxPurgeRequest
    <3>1. CASE (NoEffect \/ Terminate) /\ NoResponse /\ UNCHANGED swmTx
      BY <1>3, <1>4, <1>6, <1>8, <2>0, <2>4, <3>1 DEF RxPurgeRequest, One, NoResponse
    <3>2. CASE (NoEffect \/ Terminate) /\ Respond("purge") /\ UNCHANGED swmTx
      BY <1>3, <1>4, <1>6, <1>8, <1>10, <2>0, <2>4, <3>2 DEF RxPurgeRequest, One
    <3>3. CASE /\ In({"authenticated"}) /\ EnterWaitSta([data EXCEPT !.gsupNeeded = TRUE])
               /\ NoResponse
      <4>1. f1 = One(k = "purge")
        BY <1>2, <1>9, <3>3, DueIs DEF EnterWaitSta, In, One, Data
      <4>2. w1 = w /\ t1 = t
        BY <1>3, <1>4, <1>6, <1>10, <3>3 DEF NoResponse, One, EnterWaitSta
      <4> QED BY <1>3, <2>0, <2>4, <4>1, <4>2 DEF RxPurgeRequest, One
    <3>4. CASE /\ Serving /\ CallS2b("delete", "delete") /\ NoResponse
               /\ UNCHANGED <<state, data, swmTx>>
      <4>1. f1 = f + One(k = "purge")
        BY <1>1, <3>4 DEF Due, One, Serving, CallS2b, Kinds
      <4> QED BY <1>3, <1>4, <1>6, <2>0, <2>4, <3>4, <4>1 DEF RxPurgeRequest, One, NoResponse
    <3> QED BY <2>4, <3>1, <3>2, <3>3, <3>4 DEF RxPurgeRequest, In
  <2>5. CASE RxCancelLocationRes
    <3>1. w1 = w
      BY <1>4, <2>5 DEF RxCancelLocationRes, NoResponse
    <3>2. CASE In({"dereg_pgw_initiated_wait_cancel_location_res"}) /\ EnterWaitSta(data)
      <4>1. f1 = f /\ t1 = t
        <5>1. f1 = f
          BY <1>9, <3>2, DueIs DEF EnterWaitSta, In, One
        <5>2. t1 = t
          BY <1>3, <1>6, <1>10, <3>2 DEF EnterWaitSta, One
        <5> QED BY <5>1, <5>2
      <4> QED BY <1>3, <2>0, <2>5, <3>1, <4>1 DEF RxCancelLocationRes, One
    <3>3. CASE /\ In({"dereg_net_initiated_wait_cancel_location_res"})
               /\ EnterWaitS2bDelete
      <4>1. f1 <= f /\ t1 = t
        BY <1>11, <3>3
      <4> QED BY <1>3, <2>0, <2>5, <3>1, <4>1 DEF RxCancelLocationRes, One
    <3>4. CASE (NoEffect \/ Terminate) /\ UNCHANGED swmTx
      BY <1>3, <1>6, <1>8, <2>0, <2>5, <3>1, <3>4 DEF RxCancelLocationRes, One
    <3> QED BY <2>5, <3>2, <3>3, <3>4 DEF RxCancelLocationRes
  <2>6. ASSUME NEW j \in {"auth", "lu", "tunnel", "purge"}, TakeCast(j), Respond(j),
               NoEffect \/ Terminate
        PROVE  w1 >= b1 + f1 + t1 + r1
    <3>1. b1 = b - One(k = j) /\ t1 = t /\ r1 = r
      BY <1>5, <1>6, <1>7, <2>6 DEF TakeCast, swmVars
    <3> QED BY <1>3, <1>4, <1>8, <1>10, <2>6, <3>1 DEF One
  <2>7. CASE TxCancelLocationRequest
    <3>1. b1 = b - One(k = "cancel_location") /\ t1 = t /\ r1 = r
      BY <1>5, <1>6, <1>7, <2>7 DEF TxCancelLocationRequest, TakeCast, swmVars
    <3> QED BY <1>3, <1>4, <1>8, <1>10, <2>7, <3>1 DEF One, TxCancelLocationRequest, NoResponse
  <2>8. TxPurgeMsResponse => TakeCast("purge") /\ Respond("purge") /\ (NoEffect \/ Terminate)
    BY DEF TxPurgeMsResponse
  <2>9. \A j : TxResponse(j) => TakeCast(j) /\ Respond(j) /\ NoEffect
    BY DEF TxResponse
  <2> QED BY <1>12, <2>1, <2>2, <2>3, <2>4, <2>5, <2>6, <2>7, <2>8, <2>9 DEF GsupStep
<1>13. CASE SwmStep
  <2>0. /\ \A j : RxSwm(j) => w1 = w /\ swmRx # <<>> /\ r1 = r - One(k = "lu" /\ j = "deac")
        /\ \A j : RxSwm(j) => r1 <= r
    BY <1>3, <1>4, <1>7 DEF RxSwm, One
  <2>1. ASSUME NEW j, RxSwm(j), NoEffect \/ Terminate, UNCHANGED <<mbox, swmTx>>
        PROVE  w1 >= b1 + f1 + t1 + r1
    <3>1. b1 = b /\ t1 = t /\ w1 = w /\ r1 <= r /\ f1 <= f /\ r1 = r - One(k = "lu" /\ j = "deac")
      BY <1>3, <1>5, <1>6, <1>8, <2>0, <2>1
    <3> QED BY <1>3, <3>1 DEF One
  <2>2. Head(swmRx).ok \in BOOLEAN \/ swmRx = <<>>
    <3>1. swmRx # <<>> => Head(swmRx) \in SwmAnswers
      BY <1>2, QueueMoves
    <3> QED BY <3>1 DEF SwmAnswers
  <2>3. CASE RxDeaAuthResponse
    <3>1. CASE /\ In({"wait_auth_resp"})
               /\ Become(IF Head(swmRx).ok THEN "authenticating" ELSE "new", data)
               /\ mbox' = Append(mbox, Cast("auth", Head(swmRx).ok))
      <4>1. f1 = f - One(k = "auth")
        BY <1>9, <3>1, DueIs DEF In, One
      <4>2. b1 = b + One(k = "auth") /\ t1 = t
        BY <1>5, <1>6, <1>10, <2>0, <2>2, <2>3, <3>1 DEF RxDeaAuthResponse
      <4> QED BY <1>3, <2>0, <2>3, <4>1, <4>2 DEF RxDeaAuthResponse, One
    <3> QED BY <2>1, <2>3, <3>1 DEF RxDeaAuthResponse
  <2>4. CASE RxDeaAuthComplResponse
    <3>1. CASE /\ In({"authenticating"})
               /\ Become(IF Head(swmRx).ok THEN "authenticated" ELSE "new", data)
               /\ mbox' = Append(mbox, Cast("lu", Head(swmRx).ok))
      <4>1. f1 = f
        BY <1>9, <3>1, DueIs DEF In, One
      <4>2. b1 = b + One(k = "lu") /\ t1 = t
        BY <1>5, <1>6, <1>10, <2>0, <2>2, <2>4, <3>1 DEF RxDeaAuthComplResponse
      <4> QED BY <1>3, <2>0, <2>4, <4>1, <4>2 DEF RxDeaAuthComplResponse, One
    <3> QED BY <2>1, <2>4, <3>1 DEF RxDeaAuthComplResponse
  <2>5. CASE RxReauthRequest
    <3>1. CASE swmTx' = Append(swmTx, "raa") \/ swmTx' = swmTx \o <<"raa", "aar">>
      <4>1. t1 = t
        BY <1>3, <1>6, <1>10, <3>1 DEF One
      <4>2. b1 = b /\ w1 = w /\ r1 <= r /\ r1 = r - One(k = "lu" /\ "rar" = "deac")
        BY <1>5, <2>0, <2>5 DEF RxReauthRequest
      <4>3. f1 <= f
        BY <1>3, <1>8, <2>5 DEF RxReauthRequest
      <4> QED BY <1>3, <4>1, <4>2, <4>3 DEF One
    <3> QED BY <2>1, <2>5, <3>1 DEF RxReauthRequest
  <2>6. ASSUME NEW j, RxSwm(j), In({"authenticated", "active"}), UNCHANGED swmTx,
               NEW s \in {"dereg_net_initiated_wait_cancel_location_res",
                          "dereg_pgw_initiated_wait_cancel_location_res"},
               NEW d, d.gsupNeeded = FALSE, EnterWaitCancelLocation(s, d)
        PROVE  w1 >= b1 + f1 + t1 + r1
    <3>1. f1 = 0
      BY <1>9, <2>6, DueIs DEF EnterWaitCancelLocation, In, One
    <3>2. b1 = b /\ t1 = t
      <4>1. mbox' = Append(mbox, Cast("cancel_location", TRUE)) /\ k # "cancel_location"
        BY <1>10, <2>6 DEF EnterWaitCancelLocation
      <4>2. b1 = b + One(k = "cancel_location")
        BY <1>5, <4>1
      <4> QED BY <1>3, <1>6, <2>6, <4>1, <4>2 DEF One
    <3> QED BY <1>3, <2>0, <2>6, <3>1, <3>2 DEF One
  <2>7. /\ [data EXCEPT !.gsupNeeded = FALSE, !.s2bNeeded = FALSE].gsupNeeded = FALSE
        /\ \A x, y : [data EXCEPT !.ctx = Undefined, !.gsupNeeded = FALSE,
                                  !.s2bNeeded = x, !.asaNeeded = y].gsupNeeded = FALSE
    BY <1>2 DEF Data
  <2>8. CASE RxAuthAnswer
    BY <2>1, <2>6, <2>7, <2>8 DEF RxAuthAnswer, In
  <2>9. CASE RxAbortSessionRequest
    BY <2>1, <2>6, <2>7, <2>9 DEF RxAbortSessionRequest, In
  <2>10. CASE RxSessionTerminationAnswer
    <3>1. PICK j \in {"sta", "sta_int"} : RxSwm(j)
      BY <2>10 DEF RxSessionTerminationAnswer
    <3>2. CASE UNCHANGED mbox /\ (NoEffect \/ Terminate)
      BY <2>1, <2>10, <3>1, <3>2 DEF RxSessionTerminationAnswer
    <3>3. ASSUME NEW ok \in BOOLEAN, Terminate, In({"wait_swm_session_termination_answer"}),
                 data.gsupNeeded, mbox' = Append(mbox, Cast("purge", ok))
          PROVE  w1 >= b1 + f1 + t1 + r1
      <4>1. f = One(k = "purge") /\ f1 = 0
        BY <1>8, <1>9, <3>3, DueIs DEF In, One
      <4>2. b1 = b + One(k = "purge")
        BY <1>5, <1>10, <3>3
      <4>3. t1 = t /\ w1 = w /\ r1 = r
        BY <1>3, <1>6, <2>0, <2>10, <3>1 DEF RxSessionTerminationAnswer, One
      <4> QED BY <1>3, <4>1, <4>2, <4>3 DEF One
    <3>4. (Head(swmRx).ok /\ data.gsupCause = 0) \in BOOLEAN
      OBVIOUS
    <3> QED BY <2>10, <3>2, <3>3, <3>4 DEF RxSessionTerminationAnswer
  <2> QED BY <1>13, <2>3, <2>4, <2>5, <2>8, <2>9, <2>10 DEF SwmStep
<1>14. CASE S2bStep
  <2>1. ASSUME Restart PROVE w1 >= b1 + f1 + t1 + r1
    <3>1. w1 = w /\ b1 = 0 /\ t1 = 0 /\ r1 = 0
      BY <1>4, <1>5, <1>6, <1>7, <2>1 DEF Restart
    <3>2. f1 <= f
      BY <1>3, <1>8, <2>1 DEF Restart
    <3> QED BY <1>3, <3>1, <3>2
  <2>2. UNCHANGED <<mbox, swmRx>> => b1 = b /\ r1 = r
    BY <1>5, <1>7
  <2>3. CASE CreateSessionReq
    <3>1. CASE Restart
      BY <2>1, <3>1
    <3>2. CASE /\ TakeCall("create") /\ UNCHANGED <<data, gsupVars, swmVars>>
               /\ IF CallerWaits
                  THEN state' = "wait_create_session_resp" /\ blocked' = "no"
                  ELSE UNCHANGED <<state, blocked>>
      <4>1. w1 = w /\ b1 = b /\ t1 = t /\ r1 = r
        BY <1>4, <1>6, <2>2, <3>2 DEF gsupVars, swmVars
      <4>2. CallerWaits => blocked = "create" /\ state = "authenticated"
        <5>1. s2bCalls # <<>> /\ Head(s2bCalls).op = "create"
          BY <3>2 DEF TakeCall
        <5>2. Head(s2bCalls) = s2bCalls[1] /\ 1 \in 1..Len(s2bCalls)
          BY <5>1, HeadOfCalls DEF IInv
        <5>3. CallerWaits => blocked = "create"
          BY <5>1, <5>2 DEF IInv, CallsInv, CallsOfTheLiving, CallerWaits
        <5> QED BY <1>2, <5>3 DEF FsmTypeOK
      <4>3. f1 = f
        BY <1>1, <3>2, <4>2 DEF Due, One, Kinds
      <4> QED BY <1>3, <4>1, <4>3
    <3>3. Restart \/ UNCHANGED <<data, gsupVars, swmVars>>
      BY <2>3 DEF CreateSessionReq
    <3>4. Restart \/ (IF CallerWaits THEN state' = "wait_create_session_resp" /\ blocked' = "no"
                                     ELSE UNCHANGED <<state, blocked>>)
      BY <2>3 DEF CreateSessionReq
    <3> QED BY <2>3, <3>1, <3>2, <3>3, <3>4 DEF CreateSessionReq
  <2>4. CASE DeleteSessionReq
    <3>1. CASE Restart
      BY <2>1, <3>1
    <3>2. CASE DeleteUnknownSession /\ UNCHANGED <<mbox, swmRx>>
      <4>1. CASE NoEffect /\ NoResponse /\ UNCHANGED swmTx
        BY <1>3, <1>4, <1>6, <1>8, <2>2, <3>2, <4>1 DEF NoResponse
      <4>2. CASE TxSwmAsaIfNeeded /\ Terminate /\ NoResponse
        <5>1. t1 = t
          BY <1>3, <1>6, <1>10, <4>2 DEF TxSwmAsaIfNeeded, One
        <5> QED BY <1>3, <1>4, <1>8, <2>2, <3>2, <4>2, <5>1 DEF NoResponse
      <4>3. CASE /\ blocked = "delete" /\ blocked' = "no" /\ data' = WithoutCtx(data)
                 /\ Respond("purge") /\ UNCHANGED <<state, swmTx>>
        <5>1. WithoutCtx(data).gsupNeeded = data.gsupNeeded
          BY <1>2 DEF WithoutCtx, Data
        <5>2. f1 = f - One(k = "purge")
          BY <1>1, <4>3, <5>1 DEF Due, One, Kinds
        <5> QED BY <1>3, <1>4, <1>6, <1>10, <2>2, <3>2, <4>3, <5>2 DEF One
      <4> QED BY <3>2, <4>1, <4>2, <4>3 DEF DeleteUnknownSession
    <3>3. CASE DeleteKnownSession /\ UNCHANGED <<mbox, swmRx>>
      <4>1. w1 = w /\ b1 = b /\ t1 = t /\ r1 = r
        <5>1. owed' = owed /\ swmTx' = swmTx
          BY <3>3 DEF DeleteKnownSession, NoResponse
        <5> QED BY <1>4, <1>6, <2>2, <3>3, <5>1
      <4>2. f1 = f
        <5>1. CASE /\ blocked = "delete" /\ blocked' = "no" /\ data' = WithoutCtx(data)
                   /\ state' = "wait_delete_session_resp"
          <6>1. WithoutCtx(data).gsupNeeded = data.gsupNeeded /\ state = "active"
            BY <1>2, <5>1 DEF WithoutCtx, Data, FsmTypeOK
          <6> QED BY <1>1, <5>1, <6>1 DEF Due, One, Kinds
        <5>2. CASE blocked = "delete_dereg" /\ blocked' = "no" /\ UNCHANGED <<state, data>>
          BY <1>1, <5>2 DEF Due, One, Kinds
        <5>3. CASE NoEffect
          BY <1>8, <5>3
        <5> QED BY <3>3, <5>1, <5>2, <5>3 DEF DeleteKnownSession
      <4> QED BY <1>3, <4>1, <4>2
    <3> QED BY <2>4, <3>1, <3>2, <3>3 DEF DeleteSessionReq
  <2>5. ASSUME NEW m \in gtp, RxGtp(m) PROVE w1 >= b1 + f1 + t1 + r1
    BY <1>3, <1>4, <1>6, <1>8, <2>2, <2>5 DEF RxGtp, fsmVars, gsupVars, swmVars
  <2>6. \A j : FsmRx(j) => w1 = w /\ r1 = r
    BY <1>4, <1>7 DEF FsmRx
  <2>7. ASSUME NEW j, FsmRx(j), NoEffect \/ Terminate, UNCHANGED <<mbox, swmTx>>
        PROVE  w1 >= b1 + f1 + t1 + r1
    BY <1>3, <1>5, <1>6, <1>8, <2>6, <2>7
  <2>8. CASE FsmCreateSessionResponse
    <3>1. ASSUME NEW j, FsmRx(j), FsmIn({"wait_create_session_resp"}), UNCHANGED swmTx,
                 NEW ok \in BOOLEAN, mbox' = Append(mbox, Cast("tunnel", ok)),
                 NEW s \in {"active", "authenticated"}, NEW d, d.gsupNeeded = data.gsupNeeded,
                 Become(s, d)
          PROVE  w1 >= b1 + f1 + t1 + r1
      <4>1. f1 = f - One(k = "tunnel")
        BY <1>9, <3>1, DueIs DEF FsmIn, In, One
      <4>2. b1 = b + One(k = "tunnel") /\ t1 = t
        BY <1>5, <1>6, <1>10, <3>1
      <4>3. w1 = w /\ r1 = r
        BY <2>6, <3>1
      <4> QED BY <1>3, <4>1, <4>2, <4>3 DEF One
    <3>2. \A l : [data EXCEPT !.ctx = l].gsupNeeded = data.gsupNeeded
      BY <1>2 DEF Data
    <3> QED BY <2>7, <2>8, <3>1, <3>2 DEF FsmCreateSessionResponse
  <2>9. CASE FsmDeleteSessionResponse
    <3>1. PICK j : FsmRx(j) /\ mbox' = mbox
      BY <2>9 DEF FsmDeleteSessionResponse
    <3>2. CASE UNCHANGED swmTx /\ (NoEffect \/ Terminate)
      BY <2>7, <3>1, <3>2
    <3>3. CASE TxSwmAsaIfNeeded /\ Terminate
      <4>1. t1 = t
        BY <1>3, <1>6, <1>10, <3>3 DEF TxSwmAsaIfNeeded, One
      <4> QED BY <1>3, <1>5, <1>8, <2>6, <3>1, <3>3, <4>1
    <3>4. ASSUME FsmIn({"wait_delete_session_resp"}), NEW d, d.gsupNeeded = TRUE, EnterWaitSta(d)
          PROVE  w1 >= b1 + f1 + t1 + r1
      <4>1. f1 <= f
        BY <1>9, <3>4, DueIs DEF FsmIn, In, EnterWaitSta, One
      <4>2. t1 = t
        BY <1>3, <1>6, <1>10, <3>4 DEF EnterWaitSta, One
      <4> QED BY <1>3, <1>5, <2>6, <3>1, <4>1, <4>2
    <3>5. \A c : [data EXCEPT !.gsupNeeded = TRUE, !.gsupCause = c].gsupNeeded = TRUE
      BY <1>2 DEF Data
    <3>6. [data EXCEPT !.gsupNeeded = TRUE,
                       !.gsupCause = IF s2bWait.ev = "ok" THEN @ ELSE 1].gsupNeeded = TRUE
      BY <3>5
    <3> QED BY <2>9, <3>2, <3>3, <3>4, <3>6 DEF FsmDeleteSessionResponse
  <2>10. CASE FsmDeleteBearerRequest
    <3>1. ASSUME Serving, state \in {"authenticated", "active"}, NEW d, d.gsupNeeded = FALSE,
                 EnterWaitCancelLocation("dereg_pgw_initiated_wait_cancel_location_res", d)
          PROVE  w1 >= b1 + f1 + t1 + r1
      <4>1. f1 = 0
        BY <1>9, <3>1, DueIs DEF EnterWaitCancelLocation, One
      <4>2. mbox' = Append(mbox, Cast("cancel_location", TRUE)) /\ k # "cancel_location"
        BY <1>10, <3>1 DEF EnterWaitCancelLocation
      <4>3. b1 = b + One(k = "cancel_location")
        BY <1>5, <4>2
      <4>4. w1 = w /\ r1 = r /\ t1 = t
        BY <1>6, <2>6, <2>10 DEF FsmDeleteBearerRequest
      <4> QED BY <1>3, <4>1, <4>2, <4>3, <4>4 DEF One
    <3>2. /\ [data EXCEPT !.gsupNeeded = FALSE].gsupNeeded = FALSE
          /\ [data EXCEPT !.ctx = Undefined, !.gsupNeeded = FALSE,
                          !.s2bNeeded = FALSE, !.asaNeeded = FALSE].gsupNeeded = FALSE
      BY <1>2 DEF Data
    <3> QED BY <2>7, <2>10, <3>1, <3>2 DEF FsmDeleteBearerRequest, FsmIn, In
  <2>11. CASE FsmGone
    BY <2>7, <2>11 DEF FsmGone
  <2> QED BY <1>14, <2>3, <2>4, <2>5, <2>8, <2>9, <2>10, <2>11
          DEF S2bStep, RxCreateSessionResponse, RxDeleteSessionResponse, RxDeleteBearerRequest
<1>15. CASE StateTimeout
  <2>0. \A st : Timer(st) => In({st}) /\ w1 = w /\ r1 = r
    BY <1>4, <1>7 DEF Timer
  <2>1. CASE SwmDerTimeout
    <3>1. f1 = f - One(k = "auth")
      BY <1>9, <2>0, <2>1, DueIs DEF SwmDerTimeout, In, One
    <3>2. b1 = b + One(k = "auth") /\ t1 = t
      BY <1>5, <1>6, <1>10, <2>1 DEF SwmDerTimeout
    <3>3. w1 = w /\ r1 = r
      BY <2>0, <2>1 DEF SwmDerTimeout
    <3> QED BY <1>3, <3>1, <3>2, <3>3 DEF One
  <2>2. CASE CreateSessionTimeout
    <3>1. f1 = f - One(k = "tunnel")
      BY <1>9, <2>0, <2>2, DueIs DEF CreateSessionTimeout, In, One
    <3>2. b1 = b + One(k = "tunnel") /\ t1 = t
      BY <1>5, <1>6, <1>10, <2>2 DEF CreateSessionTimeout
    <3>3. w1 = w /\ r1 = r
      BY <2>0, <2>2 DEF CreateSessionTimeout
    <3> QED BY <1>3, <3>1, <3>2, <3>3 DEF One
  <2>3. CASE SwmStrTimeout
    <3>1. f1 = 0 /\ t1 = t /\ w1 = w /\ r1 = r
      BY <1>6, <1>8, <2>0, <2>3 DEF SwmStrTimeout
    <3>2. CASE mbox' = mbox
      BY <1>3, <1>5, <3>1, <3>2
    <3>3. CASE data.gsupNeeded /\ mbox' = Append(mbox, Cast("purge", FALSE))
      <4>1. f = One(k = "purge")
        BY <1>9, <2>0, <2>3, <3>3, DueIs DEF SwmStrTimeout, In, One
      <4>2. b1 = b + One(k = "purge")
        BY <1>5, <1>10, <3>3
      <4> QED BY <1>3, <3>1, <4>1, <4>2 DEF One
    <3> QED BY <2>3, <3>2, <3>3 DEF SwmStrTimeout
  <2>4. CASE GsupCancelLocationTimeout
    <3>1. b1 = b /\ w1 = w /\ r1 = r
      BY <1>5, <2>0, <2>4 DEF GsupCancelLocationTimeout
    <3>2. CASE In({"dereg_pgw_initiated_wait_cancel_location_res"}) /\ EnterWaitSta(data)
      <4>1. f1 = f
        BY <1>9, <3>2, DueIs DEF EnterWaitSta, In, One
      <4>2. t1 = t
        BY <1>3, <1>6, <1>10, <3>2 DEF EnterWaitSta, One
      <4> QED BY <1>3, <3>1, <4>1, <4>2
    <3>3. CASE In({"dereg_net_initiated_wait_cancel_location_res"}) /\ EnterWaitS2bDelete
      BY <1>3, <1>11, <3>1, <3>3
    <3> QED BY <2>0, <2>4, <3>2, <3>3 DEF GsupCancelLocationTimeout
  <2>5. CASE S2bDeleteSessionTimeout
    <3>1. t1 = t
      BY <1>3, <1>6, <1>10, <2>5 DEF S2bDeleteSessionTimeout, TxSwmAsaIfNeeded, One
    <3>2. w1 = w /\ r1 = r /\ b1 = b /\ f1 = 0
      BY <1>5, <1>8, <2>0, <2>5 DEF S2bDeleteSessionTimeout
    <3> QED BY <1>3, <3>1, <3>2
  <2> QED BY <1>15, <2>1, <2>2, <2>3, <2>4, <2>5 DEF StateTimeout
<1>16. CASE CallTimeout
  <2>1. b1 = b /\ t1 = t /\ r1 = r /\ f1 = 0
    BY <1>5, <1>6, <1>7, <1>8, <1>16 DEF CallTimeout, swmVars
  <2>2. /\ blocked = "create" => f >= One(k = "tunnel")
        /\ blocked = "delete" => f >= One(k = "purge")
    BY <1>1 DEF Due, One, Kinds
  <2> QED BY <1>3, <1>4, <1>10, <1>16, <2>1, <2>2 DEF CallTimeout, NoResponse, One
<1>17. CASE EnvStep
  <2>1. f1 = f
    BY <1>8, <1>17, EnvLeavesInternals DEF internals, fsmVars
  <2>2. ASSUME NEW j \in ClientKinds, ClientSend(j) PROVE w1 >= b1 + f1 + t1 + r1
    <3>1. j \in Kinds
      BY ClientAssumption DEF Kinds
    <3>2. w1 = w + One(k = j)
      BY <1>1, <1>2, <2>2, <3>1 DEF ClientSend, One
    <3>3. b1 = b + One(k = j) /\ t1 = t /\ r1 = r
      BY <1>5, <1>6, <1>7, <2>2, <3>1 DEF ClientSend, swmVars
    <3> QED BY <1>3, <2>1, <3>2, <3>3 DEF One
  <2>3. CASE ClientCancelLocationRes
    <3>1. w1 = w /\ t1 = t /\ r1 = r /\ b1 = b + One(k = "cancel_location")
      BY <1>4, <1>5, <1>6, <1>7, <2>3 DEF ClientCancelLocationRes, swmVars
    <3> QED BY <1>3, <1>10, <2>1, <3>1 DEF One
  <2>4. CASE AaaTake
    <3>1. w1 = w /\ b1 = b
      BY <1>4, <1>5, <2>4 DEF AaaTake, gsupVars
    <3>2. t1 = t - One(k = "lu" /\ Head(swmTx) = "derc")
      BY <1>6, <2>4 DEF AaaTake
    <3>3. PICK a \in AaaAnswers(Head(swmTx)) :
            swmRx' = IF a[1] = "none" THEN swmRx ELSE Append(swmRx, SwmMsg(a[1], a[2]))
      BY <2>4 DEF AaaTake
    <3>4. /\ a[1] \in {"none", "dea", "deac", "sta", "sta_int", "aaa"} /\ a[2] \in BOOLEAN
          /\ a[1] = "deac" => Head(swmTx) = "derc"
      BY <3>3 DEF AaaAnswers
    <3>5. r1 = r \/ r1 = r + One(k = "lu" /\ Head(swmTx) = "derc")
      <4>1. CASE a[1] = "none"
        BY <1>3, <1>7, <3>3, <4>1 DEF One
      <4>2. CASE a[1] # "none"
        <5>1. SwmMsg(a[1], a[2]) \in SwmAnswers /\ SwmMsg(a[1], a[2]).t = a[1]
          BY <3>4, <4>2 DEF SwmMsg, SwmAnswers
        <5>2. r1 = r + One(k = "lu" /\ a[1] = "deac")
          BY <1>7, <3>3, <4>2, <5>1
        <5> QED BY <1>3, <3>4, <5>2 DEF One
      <4> QED BY <4>1, <4>2
    <3> QED BY <1>3, <2>1, <3>1, <3>2, <3>5 DEF One
  <2>5. CASE AaaRequest
    <3>1. w1 = w /\ b1 = b /\ t1 = t
      BY <1>4, <1>5, <1>6, <2>5 DEF AaaRequest, gsupVars
    <3>2. PICK m : m \in {"rar", "asr"} /\ swmRx' = Append(swmRx, SwmMsg(m, TRUE))
      BY <2>5 DEF AaaRequest
    <3>3. SwmMsg(m, TRUE) \in SwmAnswers /\ SwmMsg(m, TRUE).t = m
      BY <3>2 DEF SwmMsg, SwmAnswers
    <3>4. r1 = r + One(k = "lu" /\ m = "deac")
      BY <1>7, <3>2, <3>3
    <3> QED BY <1>3, <2>1, <3>1, <3>2, <3>4 DEF One
  <2>6. CASE UNCHANGED <<mbox, owed, swmVars>>
    BY <1>3, <1>4, <1>5, <1>6, <1>7, <2>1, <2>6 DEF swmVars
  <2> QED BY <1>17, <2>2, <2>3, <2>4, <2>5, <2>6
          DEF EnvStep, ClientTimeout, PgwAnswer, GtpLoss, PgwDeleteBearer, gsupVars
<1>18. CASE UNCHANGED vars
  BY <1>3, <1>4, <1>5, <1>6, <1>7, <1>8, <1>18 DEF vars, fsmVars, gsupVars, swmVars
<1> QED BY <1>12, <1>13, <1>14, <1>15, <1>16, <1>17, <1>18 DEF Next

LEMMA OwedInit == Init => OwedInv
<1> SUFFICES ASSUME Init, NEW k \in Kinds
             PROVE  owed[k] >= Box(mbox, k) + Due(k, state, blocked, data)
                               + Asked(k, swmTx) + Answered(k, swmRx)
  BY DEF OwedInv
<1>1. owed[k] = 0 /\ mbox = <<>> /\ swmTx = <<>> /\ swmRx = <<>>
  BY DEF Init
<1>2. Due(k, state, blocked, data) = 0
  BY DueIs DEF Init, InitData, One
<1>3. Box(mbox, k) = 0 /\ Asked(k, swmTx) = 0 /\ Answered(k, swmRx) = 0
  BY <1>1, HowManyEmpty DEF Box, Asked, Answered
<1> QED BY <1>1, <1>2, <1>3

(* gsup_server never sends a response that no request is waiting for:      *)
(* whatever arrives late, twice or after a timeout, a request is answered  *)
(* at most once.                                                           *)
THEOREM ResponseSafety == Spec => []NoUnsolicitedResponse
<1>1. ASSUME IInv, OwedInv PROVE NoUnsolicitedResponse
  <2> SUFFICES ASSUME NEW k \in Kinds PROVE owed[k] >= 0
    BY DEF NoUnsolicitedResponse
  <2>1. owed[k] \in Int
    BY <1>1 DEF IInv, EnvTypeOK
  <2>2. Box(mbox, k) \in Nat /\ Due(k, state, blocked, data) \in Nat
    BY <1>1, BoxMoves, DueType DEF IInv, QueueTypeOK
  <2>3. Asked(k, swmTx) \in Nat /\ Answered(k, swmRx) \in Nat
    BY <1>1, AskedMoves, AnsweredMoves DEF IInv, QueueTypeOK, SwmRequests, SwmAnswers
  <2>4. owed[k] >= Box(mbox, k) + Due(k, state, blocked, data) + Asked(k, swmTx)
                   + Answered(k, swmRx)
    BY <1>1 DEF OwedInv
  <2> QED BY <2>1, <2>2, <2>3, <2>4
<1>2. IInv /\ OwedInv /\ [Next]_vars => OwedInv'
  BY OwedStep
<1> QED BY <1>1, <1>2, OwedInit, Invariance, PTL DEF Spec

=============================================================================
