----------------------------- MODULE EpdgUeFsm -----------------------------
(***************************************************************************)
(* The ePDG side of osmo-epdg for one subscriber (IMSI):                   *)
(*                                                                         *)
(*   - epdg_ue_fsm       the UE state machine (a gen_statem registered by  *)
(*                       IMSI, started on demand, not supervised);         *)
(*   - gsup_server       the GSUP/CEAI front end used by strongSwan;       *)
(*   - epdg_diameter_swm the SWm stub towards the AAA server;              *)
(*   - epdg_gtpc_s2b     the GTPv2-C server towards the PGW, restricted to *)
(*                       the session of this IMSI;                         *)
(*   - gtp_u_tun         the PDP contexts installed in the kernel.         *)
(*                                                                         *)
(* A call into the state machine and the reaction of its caller are one    *)
(* step, with one exception that the code makes unavoidable: the S2b       *)
(* server blocks while it calls the state machine, and the state machine   *)
(* blocks while it calls the S2b server.  Both halves are visible, in      *)
(* s2bWait and in blocked.                                                 *)
(*                                                                         *)
(* The peers (strongSwan, the PGW and the AAA server) are the environment: *)
(* they may be slow or silent, and GTP datagrams may be lost or reordered. *)
(***************************************************************************)
EXTENDS Integers, Sequences

CONSTANTS
    ClientKinds, \* kinds of GSUP request the IKE daemon sends
    MaxReq,      \* bound: GSUP requests the IKE daemon sends
    MaxNet       \* bound: procedures the network starts (RAR, ASR, Delete Bearer)

ASSUME BoundsAssumption == MaxReq \in Nat /\ MaxNet \in Nat
ASSUME ClientAssumption == ClientKinds \subseteq {"auth", "lu", "tunnel", "purge"}

VARIABLES
    pid,       \* incarnation registered for the IMSI, 0 if there is none
    lastPid,   \* number of incarnations started so far
    state,     \* gen_statem state of that incarnation
    data,      \* its #ue_fsm_data{}
    blocked,   \* the gen_server:call into the S2b server it is waiting for
    kmod,      \* local TEIDs of the PDP contexts present in the kernel
    sess,      \* #gtp_session{} of the IMSI in the S2b server
    nextTei,   \* next_local_control_tei and next_local_data_tei
    s2bCalls,  \* gen_server calls queued at the S2b server
    s2bWait,   \* the gen_statem:call the S2b server is blocked in
    mbox,      \* mailbox of gsup_server
    swmTx,     \* casts on their way to aaa_diameter_swm
    swmRx,     \* casts on their way from aaa_diameter_swm
    gtp,       \* GTP datagrams in flight, in both directions
    pgw,       \* local TEIs for which the PGW holds a session
    client,    \* GSUP request strongSwan is waiting for
    clr,       \* strongSwan has a Location Cancellation to answer
    reqs,      \* requests strongSwan has sent
    nets,      \* procedures the network has started
    owed       \* per kind: GSUP requests sent minus responses received

fsmVars == <<pid, lastPid, state, data, blocked>>
s2bVars == <<sess, nextTei, s2bCalls, s2bWait>>
gsupVars == <<mbox, client, owed>>
swmVars == <<swmTx, swmRx>>
envVars == <<pgw, clr, reqs, nets>>
vars == <<fsmVars, kmod, s2bVars, gsupVars, swmVars, gtp, envVars>>

-----------------------------------------------------------------------------
(* States.  They differ in what an event without a clause of its own does: *)
(* it crashes the process, is answered ok, or is answered {error, _}.      *)

CrashStates == {"new", "wait_auth_resp", "authenticating"}

RefuseStates == {"wait_create_session_resp", "wait_delete_session_resp",
                 "wait_swm_session_termination_answer"}

NetDeregStates == {"dereg_net_initiated_wait_cancel_location_res",
                   "dereg_net_initiated_wait_s2b_delete_session_resp"}

DeregStates == NetDeregStates \cup {"dereg_pgw_initiated_wait_cancel_location_res"}

IgnoreStates == {"authenticated", "active"} \cup DeregStates

States == CrashStates \cup RefuseStates \cup IgnoreStates

\* The FSM is being torn down: only its termination is left.
TeardownStates == DeregStates \cup {"wait_delete_session_resp",
                                    "wait_swm_session_termination_answer"}

Kinds == {"auth", "lu", "tunnel", "purge"}

\* #epdg_tun_pdp_ctx{} is its local TEID; inc_tei never hands out 0.
Undefined == 0

\* #gtp_session{}: the FSM it reports to, its local TEIs and whether its
\* default bearer is still there.
NoSess == [pid |-> 0, l |-> 0, dflt |-> FALSE]

\* The call the S2b server makes into FSM pid, and the session it stores
\* once the call has returned.
NoWait == [ev |-> "none", pid |-> 0, after |-> NoSess]

InitData == [ctx |-> Undefined, gsupNeeded |-> FALSE, gsupCause |-> 0,
             s2bNeeded |-> FALSE, asaNeeded |-> FALSE]

Init ==
    /\ pid = 0 /\ lastPid = 0 /\ state = "none" /\ data = InitData /\ blocked = "no"
    /\ kmod = {}
    /\ sess = NoSess /\ nextTei = 1 /\ s2bCalls = <<>> /\ s2bWait = NoWait
    /\ mbox = <<>> /\ client = "none" /\ owed = [k \in Kinds |-> 0]
    /\ swmTx = <<>> /\ swmRx = <<>> /\ gtp = {}
    /\ pgw = {} /\ clr = FALSE /\ reqs = 0 /\ nets = 0

-----------------------------------------------------------------------------
(* Pieces the handlers are made of.                                        *)

Alive == pid # 0

\* A call into the FSM is served only when the FSM is not itself in a call.
Serving == Alive /\ blocked = "no"

\* An event reaches the FSM in one of the states S.
In(S) == Serving /\ state \in S

\* keep_state / next_state with new data.
Become(s, d) == state' = s /\ data' = d /\ UNCHANGED <<pid, lastPid, blocked>>

\* The process ends, normally or by a crash; terminate/3 removes the PDP
\* context named by the data the state machine last committed.
Terminate ==
    /\ pid' = 0 /\ state' = "none" /\ data' = InitData /\ blocked' = "no"
    /\ kmod' = kmod \ {data.ctx}
    /\ UNCHANGED lastPid

\* Nobody hears the event, or the state has a clause that drops it.
NoEffect == UNCHANGED <<fsmVars, kmod>>

\* gen_server:call(epdg_gtpc_s2b, op): the FSM waits inside its callback.
CallS2b(op, b) ==
    /\ blocked' = b
    /\ s2bCalls' = Append(s2bCalls, [op |-> op, pid |-> pid])
    /\ UNCHANGED <<sess, nextTei, s2bWait>>

\* gtp_u_tun:delete_pdp_context/1 has no clause for "undefined".
HasCtx == data.ctx # Undefined

\* Mutant of WithoutCtx: tun_pdp_ctx is not reset.
WithCtxKept(d) == d

WithoutCtx(d) == [d EXCEPT !.ctx = Undefined]

\* Mutant of DeletePdpContext: only the FSM's record of the context is cleared.
ForgetPdpContext == UNCHANGED kmod

\* gtp_u_tun:delete_pdp_context/1 on the context of the FSM.
DeletePdpContext == kmod' = kmod \ {data.ctx}

Cast(k, ok) == [t |-> "cast", k |-> k, ok |-> ok]
Request(k) == [t |-> "req", k |-> k, ok |-> TRUE]

\* tx_gsup of a response of kind k.
Respond(k) ==
    /\ owed' = [owed EXCEPT ![k] = @ - 1]
    /\ client' = IF client = k THEN "none" ELSE client

\* Enter callback of wait_swm_session_termination_answer: send STR.
EnterWaitSta(d) ==
    /\ Become("wait_swm_session_termination_answer", d)
    /\ swmTx' = Append(swmTx, "str")

\* Enter callback of the two states that wait for a Cancel Location Result.
EnterWaitCancelLocation(s, d) ==
    /\ Become(s, d)
    /\ mbox' = Append(mbox, Cast("cancel_location", TRUE))

\* tx_swm_asa_if_needed
TxSwmAsaIfNeeded == swmTx' = IF data.asaNeeded THEN Append(swmTx, "asa") ELSE swmTx

\* Enter callback of dereg_net_initiated_wait_s2b_delete_session_resp.
EnterWaitS2bDelete ==
    \/ /\ data.s2bNeeded
       /\ state' = "dereg_net_initiated_wait_s2b_delete_session_resp"
       /\ CallS2b("delete", "delete_dereg")
       /\ UNCHANGED <<pid, lastPid, data, kmod, swmTx>>
    \/ /\ ~data.s2bNeeded
       /\ TxSwmAsaIfNeeded
       /\ Terminate
       /\ UNCHANGED s2bVars

-----------------------------------------------------------------------------
(* gsup_server: requests from strongSwan.  The server makes no step while  *)
(* a request it has passed to the FSM waits there for the S2b server.      *)

GsupIdle == blocked \notin {"create", "delete"}

RxGsup(k) ==
    /\ GsupIdle
    /\ mbox # <<>> /\ Head(mbox) = Request(k)
    /\ mbox' = Tail(mbox)
    /\ UNCHANGED <<swmRx, gtp, envVars>>

NoResponse == UNCHANGED <<owed, client>>

\* Mutant of ReauthStates: a deregistration in progress can be restarted.
ReauthStatesInTeardown ==
    {"new", "authenticating", "authenticated", "wait_swm_session_termination_answer"}

\* States from which a new authentication starts over.
ReauthStates == {"new", "authenticating", "authenticated"}

\* send_auth_info_req starts the FSM if there is none.  From authenticated and
\* active the request is postponed to state_new and handled there at once.
RxAuthRequest ==
    /\ RxGsup("auth")
    /\ UNCHANGED s2bVars
    /\ \/ /\ ~Alive
          /\ pid' = lastPid + 1 /\ lastPid' = lastPid + 1
          /\ state' = "wait_auth_resp" /\ data' = InitData
          /\ swmTx' = Append(swmTx, "der")
          /\ NoResponse
          /\ UNCHANGED <<blocked, kmod>>
       \/ /\ In(ReauthStates)
          /\ Become("wait_auth_resp", data)
          /\ swmTx' = Append(swmTx, "der")
          /\ NoResponse
          /\ UNCHANGED kmod
       \/ /\ In({"active"}) /\ HasCtx
          /\ DeletePdpContext
          /\ Become("wait_auth_resp", WithoutCtx(data))
          /\ swmTx' = Append(swmTx, "der")
          /\ NoResponse
       \/ /\ In(({"wait_auth_resp"} \cup RefuseStates) \ ReauthStates) \/ (In({"active"}) /\ ~HasCtx)
          /\ Terminate          \* crash, or stopped by gsup_server
          /\ Respond("auth")
          /\ UNCHANGED swmTx
       \/ /\ In(DeregStates)
          /\ NoEffect /\ NoResponse
          /\ UNCHANGED swmTx

RxLuRequest ==
    /\ RxGsup("lu")
    /\ UNCHANGED s2bVars
    /\ \/ /\ In({"authenticating"})
          /\ swmTx' = Append(swmTx, "derc")
          /\ NoEffect /\ NoResponse
       \/ /\ ~Alive \/ In(RefuseStates)
          /\ NoEffect
          /\ Respond("lu")
          /\ UNCHANGED swmTx
       \/ /\ In({"new", "wait_auth_resp"})
          /\ Terminate
          /\ Respond("lu")
          /\ UNCHANGED swmTx
       \/ /\ In(IgnoreStates)
          /\ NoEffect /\ NoResponse
          /\ UNCHANGED swmTx

RxTunnelRequest ==
    /\ RxGsup("tunnel")
    /\ UNCHANGED swmTx
    /\ \/ /\ In({"authenticated"})
          /\ CallS2b("create", "create")
          /\ NoResponse
          /\ UNCHANGED <<pid, lastPid, state, data, kmod>>
       \/ /\ ~Alive \/ In(RefuseStates)
          /\ NoEffect
          /\ Respond("tunnel")
          /\ UNCHANGED s2bVars
       \/ /\ In(CrashStates)
          /\ Terminate
          /\ Respond("tunnel")
          /\ UNCHANGED s2bVars
       \/ /\ In({"active"} \cup DeregStates)
          /\ NoEffect /\ NoResponse
          /\ UNCHANGED s2bVars

\* In state_active the kernel context goes first; the new data, without it,
\* is committed only when the S2b server has answered.
RxPurgeRequest ==
    /\ RxGsup("purge")
    /\ \/ /\ In({"new"})
          /\ Terminate
          /\ NoResponse
          /\ UNCHANGED <<s2bVars, swmTx>>
       \/ /\ In({"authenticated"})
          /\ EnterWaitSta([data EXCEPT !.gsupNeeded = TRUE])
          /\ NoResponse
          /\ UNCHANGED <<s2bVars, kmod>>
       \/ /\ In({"active"}) /\ HasCtx
          /\ DeletePdpContext
          /\ CallS2b("delete", "delete")
          /\ NoResponse
          /\ UNCHANGED <<pid, lastPid, state, data, swmTx>>
       \/ /\ In({"wait_auth_resp", "authenticating"}) \/ (In({"active"}) /\ ~HasCtx)
          /\ Terminate
          /\ Respond("purge")
          /\ UNCHANGED <<s2bVars, swmTx>>
       \/ /\ ~Alive \/ In(RefuseStates)
          /\ NoEffect
          /\ Respond("purge")
          /\ UNCHANGED <<s2bVars, swmTx>>
       \/ /\ In(DeregStates)
          /\ NoEffect /\ NoResponse
          /\ UNCHANGED <<s2bVars, swmTx>>

RxCancelLocationRes ==
    /\ RxGsup("cancel_location")
    /\ NoResponse
    /\ \/ /\ In({"dereg_pgw_initiated_wait_cancel_location_res"})
          /\ EnterWaitSta(data)
          /\ UNCHANGED <<s2bVars, kmod>>
       \/ /\ In({"dereg_net_initiated_wait_cancel_location_res"})
          /\ EnterWaitS2bDelete
       \/ /\ In(CrashStates)
          /\ Terminate
          /\ UNCHANGED <<s2bVars, swmTx>>
       \/ /\ \/ ~Alive
             \/ In({"authenticated", "active",
                    "dereg_net_initiated_wait_s2b_delete_session_resp"} \cup RefuseStates)
          /\ NoEffect
          /\ UNCHANGED <<s2bVars, swmTx>>

(* gsup_server: casts from the FSM.                                        *)

TakeCast(k) ==
    /\ GsupIdle
    /\ mbox # <<>> /\ Head(mbox).t = "cast" /\ Head(mbox).k = k
    /\ mbox' = Tail(mbox)
    /\ UNCHANGED <<s2bVars, swmVars, gtp, pgw, reqs, nets>>

TxResponse(k) ==
    /\ TakeCast(k)
    /\ Respond(k)
    /\ NoEffect
    /\ UNCHANGED clr

\* purge_ms_response also stops whatever FSM is registered by then.
TxPurgeMsResponse ==
    /\ TakeCast("purge")
    /\ Respond("purge")
    /\ UNCHANGED clr
    /\ \/ Serving /\ Terminate
       \/ ~Alive /\ NoEffect

TxCancelLocationRequest ==
    /\ TakeCast("cancel_location")
    /\ clr' = TRUE
    /\ NoResponse
    /\ NoEffect

GsupStep ==
    \/ RxAuthRequest \/ RxLuRequest \/ RxTunnelRequest \/ RxPurgeRequest
    \/ RxCancelLocationRes
    \/ \E k \in {"auth", "lu", "tunnel"} : TxResponse(k)
    \/ TxPurgeMsResponse \/ TxCancelLocationRequest

-----------------------------------------------------------------------------
(* epdg_diameter_swm: answers and requests from the AAA server.            *)

SwmMsg(t, ok) == [t |-> t, ok |-> ok]

RxSwm(t) ==
    /\ swmRx # <<>> /\ Head(swmRx).t = t
    /\ swmRx' = Tail(swmRx)
    /\ UNCHANGED <<s2bVars, client, owed, gtp, envVars>>

RxDeaAuthResponse ==
    /\ RxSwm("dea")
    /\ UNCHANGED swmTx
    /\ \/ /\ In({"wait_auth_resp"})
          /\ Become(IF Head(swmRx).ok THEN "authenticating" ELSE "new", data)
          /\ mbox' = Append(mbox, Cast("auth", Head(swmRx).ok))
          /\ UNCHANGED kmod
       \/ /\ In({"new", "authenticating"})
          /\ Terminate
          /\ UNCHANGED mbox
       \/ /\ ~Alive \/ In(RefuseStates \cup IgnoreStates)
          /\ NoEffect
          /\ UNCHANGED mbox

RxDeaAuthComplResponse ==
    /\ RxSwm("deac")
    /\ UNCHANGED swmTx
    /\ \/ /\ In({"authenticating"})
          /\ Become(IF Head(swmRx).ok THEN "authenticated" ELSE "new", data)
          /\ mbox' = Append(mbox, Cast("lu", Head(swmRx).ok))
          /\ UNCHANGED kmod
       \/ /\ In({"new", "wait_auth_resp"})
          /\ Terminate
          /\ UNCHANGED mbox
       \/ /\ ~Alive \/ In(RefuseStates \cup IgnoreStates)
          /\ NoEffect
          /\ UNCHANGED mbox

RxReauthRequest ==
    /\ RxSwm("rar")
    /\ UNCHANGED mbox
    /\ \/ /\ In({"authenticated", "active"})
          /\ swmTx' = swmTx \o <<"raa", "aar">>
          /\ NoEffect
       \/ /\ ~Alive                       \* UNKNOWN_SESSION_ID
          /\ swmTx' = Append(swmTx, "raa")
          /\ NoEffect
       \/ /\ In(CrashStates)
          /\ Terminate
          /\ UNCHANGED swmTx
       \/ /\ In(RefuseStates \cup DeregStates)
          /\ NoEffect
          /\ UNCHANGED swmTx

RxAuthAnswer ==
    /\ RxSwm("aaa")
    /\ UNCHANGED swmTx
    /\ \/ /\ In({"authenticated"}) /\ ~Head(swmRx).ok
          /\ EnterWaitCancelLocation("dereg_net_initiated_wait_cancel_location_res",
                 [data EXCEPT !.gsupNeeded = FALSE, !.s2bNeeded = FALSE])
          /\ UNCHANGED kmod
       \/ /\ In({"active"}) /\ ~Head(swmRx).ok /\ HasCtx
          /\ DeletePdpContext
          /\ EnterWaitCancelLocation("dereg_net_initiated_wait_cancel_location_res",
                 [data EXCEPT !.ctx = Undefined, !.gsupNeeded = FALSE,
                              !.s2bNeeded = TRUE, !.asaNeeded = FALSE])
       \/ /\ In(CrashStates) \/ (In({"active"}) /\ ~Head(swmRx).ok /\ ~HasCtx)
          /\ Terminate
          /\ UNCHANGED mbox
       \/ /\ \/ ~Alive
             \/ In({"authenticated", "active"}) /\ Head(swmRx).ok
             \/ In(RefuseStates \cup DeregStates)
          /\ NoEffect
          /\ UNCHANGED mbox

\* The answer carries an #epdg_dia_rc{} ("sta") or a bare integer ("sta_int"),
\* in which record access crashes the FSM.
RxSessionTerminationAnswer ==
    /\ RxSwm("sta") \/ RxSwm("sta_int")
    /\ UNCHANGED swmTx
    /\ \/ /\ In({"wait_swm_session_termination_answer"})
          /\ Terminate
          /\ mbox' = IF data.gsupNeeded /\ Head(swmRx).t = "sta"
                     THEN Append(mbox, Cast("purge", Head(swmRx).ok /\ data.gsupCause = 0))
                     ELSE mbox
       \/ /\ In(CrashStates)
          /\ Terminate
          /\ UNCHANGED mbox
       \/ /\ \/ ~Alive
             \/ In({"wait_create_session_resp", "wait_delete_session_resp"} \cup IgnoreStates)
          /\ NoEffect
          /\ UNCHANGED mbox

\* Mutant of RxAbortSessionRequest: the request is noted, the UE stays in service.
RxAbortSessionRequestNoted ==
    /\ RxSwm("asr")
    /\ In({"authenticated", "active"})
    /\ Become(state, [data EXCEPT !.asaNeeded = TRUE])
    /\ UNCHANGED <<kmod, mbox, swmTx>>

RxAbortSessionRequest ==
    /\ RxSwm("asr")
    /\ UNCHANGED swmTx
    /\ \/ /\ In({"active"}) /\ HasCtx
          /\ DeletePdpContext
          /\ EnterWaitCancelLocation("dereg_net_initiated_wait_cancel_location_res",
                 [data EXCEPT !.ctx = Undefined, !.gsupNeeded = FALSE,
                              !.s2bNeeded = TRUE, !.asaNeeded = TRUE])
       \/ /\ In(CrashStates) \/ (In({"active"}) /\ ~HasCtx)
          /\ Terminate
          /\ UNCHANGED mbox
       \/ /\ ~Alive \/ In({"authenticated"} \cup RefuseStates \cup DeregStates)
          /\ NoEffect
          /\ UNCHANGED mbox

SwmStep ==
    \/ RxDeaAuthResponse \/ RxDeaAuthComplResponse \/ RxReauthRequest
    \/ RxAuthAnswer \/ RxSessionTerminationAnswer \/ RxAbortSessionRequest

-----------------------------------------------------------------------------
(* epdg_gtpc_s2b: gen_server calls from the FSM.  The caller may have died *)
(* of its 5 s call timeout; its request is served all the same.            *)

S2bIdle == s2bWait = NoWait

Gtp(t, l, v) == [t |-> t, l |-> l, v |-> v]

TakeCall(op) == S2bIdle /\ s2bCalls # <<>> /\ Head(s2bCalls).op = op

\* The caller is still there, waiting for the reply.
CallerWaits == Head(s2bCalls).pid = pid

\* gen_create_session_request and gen_delete_session_request read the default
\* bearer; without one they crash the server.
NoDefaultBearer == sess # NoSess /\ ~sess.dflt

\* one_for_all: every server process is restarted with empty state, and the
\* GSUP connection is lost.  The FSM is not under the supervisor: it dies only
\* if it was in a call to the crashed server.
Restart ==
    /\ sess' = NoSess /\ s2bCalls' = <<>>
    /\ mbox' = <<>> /\ client' = "none" /\ clr' = FALSE /\ UNCHANGED owed
    /\ swmTx' = <<>> /\ swmRx' = <<>>
    /\ IF blocked = "no" THEN NoEffect ELSE Terminate
    /\ UNCHANGED <<nextTei, s2bWait, gtp, pgw, reqs, nets>>

\* Mutant of FindOrNewSession: the template's pid is not filled in.
FindOrNewSessionWithoutPid(p) ==
    IF sess # NoSess THEN sess ELSE [pid |-> 0, l |-> nextTei, dflt |-> p # 0]

\* find_or_new_gtp_session: a session that exists keeps the pid it was made with.
FindOrNewSession(p) ==
    IF sess # NoSess THEN sess ELSE [pid |-> p, l |-> nextTei, dflt |-> TRUE]

CreateSessionReq ==
    /\ TakeCall("create")
    /\ \/ NoDefaultBearer /\ Restart
       \/ /\ ~NoDefaultBearer
          /\ LET s == FindOrNewSession(Head(s2bCalls).pid)
             IN  /\ sess' = s
                 /\ gtp' = gtp \cup {Gtp("create_req", s.l, "")}
          /\ nextTei' = IF sess = NoSess THEN nextTei + 1 ELSE nextTei
          /\ s2bCalls' = Tail(s2bCalls)
          /\ IF CallerWaits
             THEN state' = "wait_create_session_resp" /\ blocked' = "no"
             ELSE UNCHANGED <<state, blocked>>
          /\ UNCHANGED <<pid, lastPid, data, kmod, s2bWait, gsupVars, swmVars, envVars>>

\* {error, imsi_unknown}: a purge is refused and leaves state_active without
\* its context; a network initiated deregistration ends.
DeleteUnknownSession ==
    /\ UNCHANGED <<sess, gtp>>
    /\ \/ /\ CallerWaits /\ blocked = "delete"
          /\ blocked' = "no" /\ data' = WithoutCtx(data)
          /\ Respond("purge")
          /\ UNCHANGED <<pid, lastPid, state, kmod, swmTx>>
       \/ /\ CallerWaits /\ blocked = "delete_dereg"
          /\ TxSwmAsaIfNeeded
          /\ Terminate
          /\ NoResponse
       \/ /\ ~CallerWaits
          /\ NoEffect /\ NoResponse
          /\ UNCHANGED swmTx

DeleteKnownSession ==
    /\ gtp' = gtp \cup {Gtp("delete_req", sess.l, "")}
    /\ UNCHANGED <<sess, swmTx>>
    /\ NoResponse
    /\ \/ /\ CallerWaits /\ blocked = "delete"
          /\ blocked' = "no" /\ data' = WithoutCtx(data)
          /\ state' = "wait_delete_session_resp"
          /\ UNCHANGED <<pid, lastPid, kmod>>
       \/ /\ CallerWaits /\ blocked = "delete_dereg"
          /\ blocked' = "no"
          /\ UNCHANGED <<pid, lastPid, state, data, kmod>>
       \/ ~CallerWaits /\ NoEffect

DeleteSessionReq ==
    /\ TakeCall("delete")
    /\ \/ NoDefaultBearer /\ Restart
       \/ /\ ~NoDefaultBearer
          /\ s2bCalls' = Tail(s2bCalls)
          /\ \/ sess = NoSess /\ DeleteUnknownSession
             \/ sess # NoSess /\ DeleteKnownSession
          /\ UNCHANGED <<nextTei, s2bWait, mbox, swmRx, envVars>>

(* epdg_gtpc_s2b: datagrams from the PGW.  The session is looked up by the *)
(* local control TEI; the FSM it names is called and the server waits.     *)

RxGtp(m) ==
    /\ S2bIdle
    /\ m \in gtp
    /\ gtp' = gtp \ {m}
    /\ UNCHANGED <<fsmVars, kmod, sess, nextTei, s2bCalls, gsupVars, swmVars, envVars>>

Known(m) == sess # NoSess /\ sess.l = m.l

CallFsm(ev, after) == s2bWait' = [ev |-> ev, pid |-> sess.pid, after |-> after]

\* An IPv4v6 address, or a session whose bearer is gone, crashes the process
\* that handles the datagram: the server goes on as if nothing was received.
RxCreateSessionResponse(m) ==
    /\ m.t = "create_resp"
    /\ RxGtp(m)
    /\ \/ Known(m) /\ m.v \in {"v4", "v6"} /\ sess.dflt /\ CallFsm(m.v, sess)
       \/ Known(m) /\ m.v = "rej" /\ CallFsm("rej", NoSess)
       \/ /\ ~Known(m) \/ m.v = "v4v6" \/ (m.v # "rej" /\ ~sess.dflt)
          /\ UNCHANGED s2bWait

RxDeleteSessionResponse(m) ==
    /\ m.t = "delete_resp"
    /\ RxGtp(m)
    /\ \/ Known(m) /\ CallFsm(m.v, NoSess)
       \/ ~Known(m) /\ UNCHANGED s2bWait

\* Only a request for the default bearer (LBI) is understood.
RxDeleteBearerRequest(m) ==
    /\ m.t = "delete_bearer"
    /\ RxGtp(m)
    /\ \/ Known(m) /\ m.v = "lbi" /\ CallFsm("delete_bearer", [sess EXCEPT !.dflt = FALSE])
       \/ (~Known(m) \/ m.v # "lbi") /\ UNCHANGED s2bWait

(* The FSM's half of those calls, and the server's return from them.       *)

FsmRx(ev) ==
    /\ s2bWait.ev = ev
    /\ sess' = s2bWait.after /\ s2bWait' = NoWait
    /\ UNCHANGED <<nextTei, s2bCalls, client, owed, swmRx, gtp, envVars>>

\* Mutant of FsmIn: the FSM is looked up by IMSI, not by the session's pid.
FsmInByImsi(S) == In(S)

\* The event is for the incarnation that is registered now.
FsmIn(S) == s2bWait.pid = pid /\ In(S)

FsmCreateSessionResponse ==
    \/ /\ FsmRx("v4")
       /\ UNCHANGED swmTx
       /\ \/ /\ FsmIn({"wait_create_session_resp"})
             /\ kmod' = kmod \cup {s2bWait.after.l}
             /\ Become("active", [data EXCEPT !.ctx = s2bWait.after.l])
             /\ mbox' = Append(mbox, Cast("tunnel", TRUE))
          \/ FsmIn(CrashStates) /\ Terminate /\ UNCHANGED mbox
          \/ FsmIn((RefuseStates \cup IgnoreStates) \ {"wait_create_session_resp"})
             /\ NoEffect /\ UNCHANGED mbox
    \/ /\ FsmRx("v6")        \* gtp_u_tun handles IPv4 end user addresses only
       /\ UNCHANGED <<mbox, swmTx>>
       /\ \/ FsmIn(CrashStates \cup {"wait_create_session_resp"}) /\ Terminate
          \/ FsmIn((RefuseStates \cup IgnoreStates) \ {"wait_create_session_resp"}) /\ NoEffect
    \/ /\ FsmRx("rej")
       /\ UNCHANGED swmTx
       /\ \/ /\ FsmIn({"wait_create_session_resp"})
             /\ Become("authenticated", data)
             /\ mbox' = Append(mbox, Cast("tunnel", FALSE))
             /\ UNCHANGED kmod
          \/ FsmIn(CrashStates) /\ Terminate /\ UNCHANGED mbox
          \/ FsmIn((RefuseStates \cup IgnoreStates) \ {"wait_create_session_resp"})
             /\ NoEffect /\ UNCHANGED mbox

FsmDeleteSessionResponse ==
    /\ FsmRx("ok") \/ FsmRx("err")
    /\ UNCHANGED mbox
    /\ \/ /\ FsmIn({"wait_delete_session_resp"})
          /\ EnterWaitSta([data EXCEPT !.gsupNeeded = TRUE,
                                       !.gsupCause = IF s2bWait.ev = "ok" THEN @ ELSE 1])
          /\ UNCHANGED kmod
       \/ /\ FsmIn({"dereg_net_initiated_wait_s2b_delete_session_resp"})
          /\ TxSwmAsaIfNeeded
          /\ Terminate
       \/ FsmIn(CrashStates) /\ Terminate /\ UNCHANGED swmTx
       \/ /\ FsmIn({"wait_create_session_resp", "wait_swm_session_termination_answer",
                    "authenticated", "active",
                    "dereg_net_initiated_wait_cancel_location_res",
                    "dereg_pgw_initiated_wait_cancel_location_res"})
          /\ NoEffect
          /\ UNCHANGED swmTx

FsmDeleteBearerRequest ==
    /\ FsmRx("delete_bearer")
    /\ UNCHANGED swmTx
    /\ \/ /\ FsmIn({"authenticated"})
          /\ EnterWaitCancelLocation("dereg_pgw_initiated_wait_cancel_location_res",
                                     [data EXCEPT !.gsupNeeded = FALSE])
          /\ UNCHANGED kmod
       \/ /\ FsmIn({"active"}) /\ HasCtx
          /\ DeletePdpContext
          /\ EnterWaitCancelLocation("dereg_pgw_initiated_wait_cancel_location_res",
                 [data EXCEPT !.ctx = Undefined, !.gsupNeeded = FALSE,
                              !.s2bNeeded = FALSE, !.asaNeeded = FALSE])
       \/ /\ FsmIn(CrashStates) \/ (FsmIn({"active"}) /\ ~HasCtx)
          /\ Terminate
          /\ UNCHANGED mbox
       \/ FsmIn(RefuseStates \cup DeregStates) /\ NoEffect /\ UNCHANGED mbox

\* The call exits with noproc, which epdg_ue_fsm turns into {error, _}.
FsmGone ==
    /\ ~S2bIdle /\ s2bWait.pid # pid
    /\ FsmRx(s2bWait.ev)
    /\ NoEffect
    /\ UNCHANGED <<mbox, swmTx>>

S2bStep ==
    \/ CreateSessionReq \/ DeleteSessionReq
    \/ \E m \in gtp : \/ RxCreateSessionResponse(m) \/ RxDeleteSessionResponse(m)
                      \/ RxDeleteBearerRequest(m)
    \/ FsmCreateSessionResponse \/ FsmDeleteSessionResponse \/ FsmDeleteBearerRequest
    \/ FsmGone

-----------------------------------------------------------------------------
(* Timers.                                                                 *)

\* state_timeout, 10 s after the state was entered.
Timer(st) ==
    /\ In({st})
    /\ UNCHANGED <<client, owed, swmRx, gtp, envVars>>

\* Mutant of SwmDerTimeout: the failure is reported and the wait goes on.
SwmDerTimeoutStays ==
    /\ Timer("wait_auth_resp")
    /\ mbox' = Append(mbox, Cast("auth", FALSE))
    /\ UNCHANGED <<fsmVars, kmod, s2bVars, swmTx>>

SwmDerTimeout ==
    /\ Timer("wait_auth_resp")
    /\ Become("new", data)
    /\ mbox' = Append(mbox, Cast("auth", FALSE))
    /\ UNCHANGED <<kmod, s2bVars, swmTx>>

CreateSessionTimeout ==
    /\ Timer("wait_create_session_resp")
    /\ Become("authenticated", data)
    /\ mbox' = Append(mbox, Cast("tunnel", FALSE))
    /\ UNCHANGED <<kmod, s2bVars, swmTx>>

SwmStrTimeout ==
    /\ Timer("wait_swm_session_termination_answer")
    /\ Terminate
    /\ mbox' = IF data.gsupNeeded THEN Append(mbox, Cast("purge", FALSE)) ELSE mbox
    /\ UNCHANGED <<s2bVars, swmTx>>

\* Mutant of GsupCancelLocationTimeout: the timer is armed for the PGW
\* initiated deregistration only.
GsupCancelLocationTimeoutPgwOnly ==
    /\ Timer("dereg_pgw_initiated_wait_cancel_location_res")
    /\ EnterWaitSta(data)
    /\ UNCHANGED <<kmod, s2bVars, mbox>>

GsupCancelLocationTimeout ==
    /\ UNCHANGED mbox
    /\ \/ /\ Timer("dereg_pgw_initiated_wait_cancel_location_res")
          /\ EnterWaitSta(data)
          /\ UNCHANGED <<kmod, s2bVars>>
       \/ /\ Timer("dereg_net_initiated_wait_cancel_location_res")
          /\ EnterWaitS2bDelete

S2bDeleteSessionTimeout ==
    /\ Timer("dereg_net_initiated_wait_s2b_delete_session_resp")
    /\ TxSwmAsaIfNeeded
    /\ Terminate
    /\ UNCHANGED <<s2bVars, mbox>>

StateTimeout ==
    \/ SwmDerTimeout \/ CreateSessionTimeout \/ SwmStrTimeout
    \/ GsupCancelLocationTimeout \/ S2bDeleteSessionTimeout

\* Mutant of CallTimeout: the call is made with an infinite timeout.
CallWithoutTimeout == FALSE /\ UNCHANGED vars

\* gen_server:call into the S2b server exits after 5 s: the FSM crashes, and
\* gsup_server, if it was waiting for the FSM, answers with an error.
CallTimeout ==
    /\ Alive /\ blocked # "no"
    /\ Terminate
    /\ \/ blocked = "create" /\ Respond("tunnel")
       \/ blocked = "delete" /\ Respond("purge")
       \/ blocked = "delete_dereg" /\ NoResponse
    /\ UNCHANGED <<s2bVars, mbox, swmVars, gtp, envVars>>

-----------------------------------------------------------------------------
(* The environment.                                                        *)

internals == <<fsmVars, kmod, s2bVars>>

ClientSend(k) ==
    /\ client = "none" /\ reqs < MaxReq
    /\ client' = k /\ reqs' = reqs + 1
    /\ mbox' = Append(mbox, Request(k))
    /\ owed' = [owed EXCEPT ![k] = @ + 1]
    /\ UNCHANGED <<internals, swmVars, gtp, pgw, clr, nets>>

\* The 5 s timeout of the plugin's gsup_client.
ClientTimeout ==
    /\ client # "none"
    /\ client' = "none"
    /\ UNCHANGED <<internals, mbox, owed, swmVars, gtp, envVars>>

ClientCancelLocationRes ==
    /\ clr
    /\ clr' = FALSE
    /\ mbox' = Append(mbox, Request("cancel_location"))
    /\ UNCHANGED <<internals, client, owed, swmVars, gtp, pgw, reqs, nets>>

\* The AAA server takes the next SWm request and answers it, or never does.
AaaAnswers(r) ==
    {"none"} \X {FALSE} \cup
    (CASE r = "der"  -> {"dea"} \X BOOLEAN
       [] r = "derc" -> {"deac"} \X BOOLEAN
       [] r = "str"  -> {"sta", "sta_int"} \X BOOLEAN
       [] r = "aar"  -> {"aaa"} \X BOOLEAN
       [] OTHER      -> {})

AaaTake ==
    /\ swmTx # <<>>
    /\ swmTx' = Tail(swmTx)
    /\ \E a \in AaaAnswers(Head(swmTx)) :
          swmRx' = IF a[1] = "none" THEN swmRx ELSE Append(swmRx, SwmMsg(a[1], a[2]))
    /\ UNCHANGED <<internals, gsupVars, gtp, envVars>>

AaaRequest ==
    /\ nets < MaxNet
    /\ nets' = nets + 1
    /\ \E t \in {"rar", "asr"} : swmRx' = Append(swmRx, SwmMsg(t, TRUE))
    /\ UNCHANGED <<internals, gsupVars, swmTx, gtp, pgw, clr, reqs>>

PgwAnswer(m) ==
    /\ m \in gtp
    /\ \/ /\ m.t = "create_req"
          /\ \E v \in {"v4", "v6", "v4v6", "rej"} :
                /\ gtp' = (gtp \ {m}) \cup {Gtp("create_resp", m.l, v)}
                /\ pgw' = IF v = "rej" THEN pgw ELSE pgw \cup {m.l}
       \/ /\ m.t = "delete_req"
          /\ gtp' = (gtp \ {m})
                    \cup {Gtp("delete_resp", m.l, IF m.l \in pgw THEN "ok" ELSE "err")}
          /\ pgw' = pgw \ {m.l}
    /\ UNCHANGED <<internals, gsupVars, swmVars, clr, reqs, nets>>

PgwDeleteBearer ==
    /\ nets < MaxNet
    /\ nets' = nets + 1
    /\ \E l \in pgw, v \in {"lbi", "other"} :
          /\ gtp' = gtp \cup {Gtp("delete_bearer", l, v)}
          /\ pgw' = IF v = "lbi" THEN pgw \ {l} ELSE pgw
    /\ UNCHANGED <<internals, gsupVars, swmVars, clr, reqs>>

GtpLoss(m) ==
    /\ gtp' = gtp \ {m}
    /\ UNCHANGED <<internals, gsupVars, swmVars, envVars>>

EnvStep ==
    \/ \E k \in ClientKinds : ClientSend(k)
    \/ ClientTimeout \/ ClientCancelLocationRes
    \/ AaaTake \/ AaaRequest
    \/ \E m \in gtp : PgwAnswer(m) \/ GtpLoss(m)
    \/ PgwDeleteBearer

-----------------------------------------------------------------------------
Next == GsupStep \/ SwmStep \/ S2bStep \/ StateTimeout \/ CallTimeout \/ EnvStep

Spec == Init /\ [][Next]_vars

\* The Erlang processes are scheduled and their timers fire; nothing is
\* assumed of strongSwan, the AAA server, the PGW or the network.
Fairness ==
    /\ WF_vars(GsupStep)
    /\ WF_vars(SwmStep)
    /\ WF_vars(S2bStep)
    /\ WF_vars(StateTimeout)
    /\ WF_vars(CallTimeout)

FairSpec == Spec /\ Fairness

-----------------------------------------------------------------------------
(* Properties.                                                             *)

Data == [ctx : Nat, gsupNeeded : BOOLEAN, gsupCause : {0, 1},
         s2bNeeded : BOOLEAN, asaNeeded : BOOLEAN]

Sessions == {NoSess} \cup [pid : Nat \ {0}, l : Nat \ {0}, dflt : BOOLEAN]

GsupMsgs == [t : {"cast", "req"}, k : Kinds \cup {"cancel_location"}, ok : BOOLEAN]

GtpMsgs == [t : {"create_req", "delete_req"}, l : Nat \ {0}, v : {""}]
    \cup [t : {"create_resp"}, l : Nat \ {0}, v : {"v4", "v6", "v4v6", "rej"}]
    \cup [t : {"delete_resp"}, l : Nat \ {0}, v : {"ok", "err"}]
    \cup [t : {"delete_bearer"}, l : Nat \ {0}, v : {"lbi", "other"}]

FsmTypeOK ==
    /\ lastPid \in Nat /\ pid \in 0..lastPid
    /\ state \in States \cup {"none"}
    /\ (pid = 0) <=> (state = "none")
    /\ data \in Data
    /\ pid = 0 => data = InitData /\ blocked = "no"
    /\ blocked \in {"no", "create", "delete", "delete_dereg"}
    /\ blocked = "create" => state = "authenticated"
    /\ blocked = "delete" => state = "active"
    /\ blocked = "delete_dereg" => state = "dereg_net_initiated_wait_s2b_delete_session_resp"

S2bTypeOK ==
    /\ sess \in Sessions
    /\ nextTei \in Nat \ {0}
    /\ s2bCalls \in Seq([op : {"create", "delete"}, pid : Nat \ {0}])
    /\ \/ s2bWait = NoWait
       \/ s2bWait \in [ev : {"v4", "v6", "rej", "ok", "err", "delete_bearer"},
                       pid : Nat \ {0}, after : Sessions]
    /\ s2bWait.ev = "v4" => s2bWait.after # NoSess

QueueTypeOK ==
    /\ mbox \in Seq(GsupMsgs)
    /\ swmTx \in Seq({"der", "derc", "str", "aar", "raa", "asa"})
    /\ swmRx \in Seq([t : {"dea", "deac", "rar", "aaa", "sta", "sta_int", "asr"},
                      ok : BOOLEAN])
    /\ gtp \subseteq GtpMsgs

EnvTypeOK ==
    /\ pgw \subseteq Nat \ {0}
    /\ client \in Kinds \cup {"none"}
    /\ clr \in BOOLEAN
    /\ reqs \in 0..MaxReq /\ nets \in 0..MaxNet
    /\ owed \in [Kinds -> Int]

\* Type correctness of the ePDG processes, and what ties the FSM's variables
\* together: a registered process has a state, an unregistered one has none and
\* no leftover data, and it is in a call only from the states that make one.
TypeOK == FsmTypeOK /\ S2bTypeOK /\ QueueTypeOK /\ EnvTypeOK /\ kmod \subseteq Nat \ {0}

\* The calls queued at the S2b server: only the last one can be of the
\* registered FSM, which is then waiting for it; all others are of incarnations
\* that died of the call timeout (gen_server:call in create_session_req and
\* delete_session_req).
CallsOfTheLiving ==
    \A i \in 1..Len(s2bCalls) :
        /\ s2bCalls[i].pid <= lastPid
        /\ s2bCalls[i].pid = pid =>
              /\ i = Len(s2bCalls)
              /\ blocked # "no"
              /\ blocked = "create" <=> s2bCalls[i].op = "create"

\* Once the FSM waits for the PGW or is active, every earlier Create Session
\* call has been served: none can replace the session behind its back.
NoQueuedCreate ==
    state \in {"wait_create_session_resp", "active"} =>
        \A i \in 1..Len(s2bCalls) : s2bCalls[i].op # "create"

\* The call the S2b server is blocked in is about the session it holds, and
\* the session it will store is that session or none.
WaitIsAboutSession ==
    ~S2bIdle =>
        /\ sess # NoSess
        /\ s2bWait.pid = sess.pid
        /\ s2bWait.after # NoSess => /\ s2bWait.after.pid = sess.pid
                                    /\ s2bWait.after.l = sess.l

\* The kernel holds exactly the PDP context the registered FSM remembers, and
\* only in state_active: no crash, timeout, supervisor restart, re-authentication
\* or deregistration leaves a tunnel behind (terminate/3 and the five handlers
\* that delete the context).  Between deleting the context and hearing from the
\* S2b server, a purge still remembers a context that is gone.
NoTunnelLeak ==
    /\ kmod = IF HasCtx /\ blocked # "delete" THEN {data.ctx} ELSE {}
    /\ HasCtx => state = "active"

\* While a UE has its tunnel, the S2b session of its IMSI, if it is still
\* there, is the one the tunnel was made from and reports to the UE's own FSM:
\* late requests of dead incarnations and late answers of the PGW never put
\* another session in its place (find_or_new_gtp_session, delete_gtp_session).
TunnelHasItsSession ==
    HasCtx /\ sess # NoSess => sess.pid = pid /\ sess.l = data.ctx

\* gsup_server never sends more responses of a kind than it got requests: a
\* late or repeated DEA, STA or GTP response and a timeout are not both reported,
\* not even when the FSM survives a restart of the servers.
NoUnsolicitedResponse == \A k \in Kinds : owed[k] >= 0

\* The deregistration flags are raised only on the way out, so a UE that
\* authenticates again never inherits them from an earlier procedure.
FlagsOnlyInTeardown ==
    data.gsupNeeded \/ data.s2bNeeded \/ data.asaNeeded => state \in TeardownStates

\* A deregistration that has begun ends with the process: no late answer, and
\* no new request of the UE, brings the same FSM back into service.
TeardownIsFinal ==
    [][pid' = pid /\ state \in TeardownStates => state' \in TeardownStates]_vars

\* The AAA server is told that the session is aborted (SWm ASA) only when no
\* tunnel of the subscriber is left in the kernel and its FSM has ended.
AsaAfterRelease ==
    [][(\E i \in 1..Len(swmTx') : i > Len(swmTx) /\ swmTx'[i] = "asa")
          => kmod' = {} /\ pid' = 0]_vars

\* A network initiated deregistration, once begun, ends with the FSM, whatever
\* the UE, the PGW and the AAA server do or fail to do.
DeregTerminates ==
    \A p \in 1..MaxReq : (pid = p /\ state \in DeregStates) ~> (pid # p)

\* FSM and S2b server waiting for each other is not for ever.
MutualWait == blocked # "no" /\ ~S2bIdle /\ s2bWait.pid = pid
MutualWaitEnds == MutualWait ~> ~MutualWait

-----------------------------------------------------------------------------
(* What a declaration of the code says, and the code does not do.          *)

\* "default_bearer_id :: non_neg_integer()": a session has a default bearer, so
\* gen_create_session_request and gen_delete_session_request can read it.
RequestsFindDefaultBearer == s2bCalls # <<>> => ~NoDefaultBearer

=============================================================================
