------------------------------ MODULE AaaUeFsm ------------------------------
(***************************************************************************)
(* The AAA side of osmo-epdg for one subscriber (IMSI):                    *)
(*                                                                         *)
(*   - aaa_ue_fsm            the UE state machine of the AAA server;       *)
(*   - aaa_diameter_swm      the SWm stub towards the ePDG, a gen_server   *)
(*                           that both calls the state machine and is      *)
(*                           called by it;                                 *)
(*   - aaa_diameter_swx, _cb Diameter SWx towards the HSS;                 *)
(*   - aaa_diameter_s6b, _cb Diameter S6b towards the PGW, one process per *)
(*                           request of the PGW.                           *)
(*                                                                         *)
(* A call into the state machine and the reaction of its caller are one    *)
(* step, except when the state machine is itself in a call to              *)
(* aaa_diameter_swm: then the caller waits, which swmWait shows for        *)
(* aaa_diameter_swm.  The ePDG, the HSS and the PGW are the environment.   *)
(***************************************************************************)
EXTENDS Integers, Sequences

CONSTANTS
    MaxReq,  \* bound: SWm requests the ePDG starts
    MaxNet,  \* bound: procedures the HSS starts (PPR, RTR)
    MaxS6b   \* bound: S6b requests of the PGW

ASSUME AaaBoundsAssumption == MaxReq \in Nat /\ MaxNet \in Nat /\ MaxS6b \in Nat

VARIABLES
    pid,      \* incarnation registered for the IMSI, 0 if there is none
    lastPid,  \* number of incarnations started so far
    state,    \* gen_statem state
    data,     \* #ue_fsm_data{}
    call,     \* the call into aaa_diameter_swm it is waiting for
    swmQ,     \* mailbox of aaa_diameter_swm: casts of the ePDG, calls of the FSM
    swmWait,  \* incarnation aaa_diameter_swm is blocked on, 0 if none
    hssReq,   \* SWx requests on their way to the HSS
    hssAns,   \* SWx answers on their way back
    hssReg,   \* the HSS has this AAA server registered for the user
    ppr, rtr, \* Push Profile / Registration Termination Request in flight
    s6b,      \* the processes that handle the PGW's requests
    s6bAns,   \* answers of the PGW on their way
    epdg,     \* what the ePDG has received and may act on
    reqs, nets

fsmVars == <<pid, lastPid, state, data, call>>
swmVars == <<swmQ, swmWait>>
swxVars == <<hssReq, hssAns, hssReg, ppr, rtr>>
s6bVars == <<s6b, s6bAns>>
envVars == <<epdg, reqs, nets>>
vars == <<fsmVars, swmVars, swxVars, s6bVars, envVars>>

-----------------------------------------------------------------------------
(* States without a catch-all clause: an event they do not name crashes    *)
(* the process.  The others answer ok to any event.                        *)

WaitStates == {"wait_swx_maa", "wait_swx_saa", "authenticated_wait_swx_saa"}
CrashStates == {"new"} \cup WaitStates
DeregStates == {"dereg_net_initiated_wait_s6b_asa", "dereg_net_initiated_wait_swm_asa"}
States == CrashStates \cup DeregStates \cup {"authenticated"}

S6bProcs == 1..MaxS6b

\* #ue_fsm_data{}; resp is s6b_resp_pid, 0 for undefined, and nai tells
\* whether the NAI is known.
InitData == [epdg |-> FALSE, pgw |-> FALSE, nai |-> FALSE, resp |-> 0]

NoCall == [t |-> "none", ok |-> FALSE]

Init ==
    /\ pid = 0 /\ lastPid = 0 /\ state = "none" /\ data = InitData /\ call = NoCall
    /\ swmQ = <<>> /\ swmWait = 0
    /\ hssReq = <<>> /\ hssAns = {} /\ hssReg = FALSE /\ ppr = FALSE /\ rtr = "no"
    /\ s6b = [i \in S6bProcs |-> "free"] /\ s6bAns = {}
    /\ epdg = {} /\ reqs = 0 /\ nets = 0

-----------------------------------------------------------------------------
(* Pieces the handlers are made of.                                        *)

Alive == pid # 0

\* An event reaches the FSM in one of the states S.
In(S) == Alive /\ call = NoCall /\ state \in S

Become(s, d) == state' = s /\ data' = d /\ UNCHANGED <<pid, lastPid, call>>

\* The process ends, normally or by a crash.
Terminate ==
    /\ pid' = 0 /\ state' = "none" /\ data' = InitData /\ call' = NoCall
    /\ UNCHANGED lastPid

\* Mutant of Unexpected: every state has a catch-all clause.
UnexpectedIgnored == In(States) /\ UNCHANGED fsmVars

\* An event without a clause of its own.
Unexpected ==
    \/ In(CrashStates) /\ Terminate
    \/ In({"authenticated"} \cup DeregStates) /\ UNCHANGED fsmVars

SwmCast(t) == [t |-> t, pid |-> 0, ok |-> TRUE]

\* Mutant of CallSwm: the message is lost when the server has others to handle.
CallSwmLost(t, ok) ==
    /\ call' = [t |-> t, ok |-> ok]
    /\ swmQ' = IF swmQ # <<>> THEN swmQ
               ELSE Append(swmQ, [t |-> t, pid |-> pid, ok |-> ok])
    /\ UNCHANGED <<pid, lastPid>>

\* gen_server:call(aaa_diameter_swm, {t, ...}): the FSM waits in its callback.
CallSwm(t, ok) ==
    /\ call' = [t |-> t, ok |-> ok]
    /\ swmQ' = Append(swmQ, [t |-> t, pid |-> pid, ok |-> ok])
    /\ UNCHANGED <<pid, lastPid>>

\* multimedia_auth_request or server_assignment_request by incarnation p:
\* diameter:call/4 detaches, and may fail at once for want of a peer.
SendSwx(t, p) == hssReq' = Append(hssReq, [t |-> t, pid |-> p])

\* aaa_diameter_s6b:tx_reauth_request and tx_as_request, answered by "a" if
\* the PGW answers at all.  Without a NAI the request cannot be encoded.
SendS6b(a) == s6bAns' = IF data.nai THEN s6bAns \cup {a} ELSE s6bAns

S6bBecomes(i, st) == s6b' = [s6b EXCEPT ![i] = st]

\* Data after the enter callback of state s; state_authenticated marks the
\* ePDG's session as active.
Entered(s, d) == IF s = "authenticated" THEN [d EXCEPT !.epdg = TRUE] ELSE d

\* Enter callback of dereg_net_initiated_wait_swm_asa: send SWm ASR.
EnterWaitSwmAsa ==
    /\ state' = "dereg_net_initiated_wait_swm_asa"
    /\ CallSwm("asr", TRUE)
    /\ UNCHANGED <<data, swmWait>>

-----------------------------------------------------------------------------
(* aaa_diameter_swm, handle_cast: requests and answers of the ePDG.        *)

Casts == {"der", "derc", "raa", "aar", "str", "asa"}

\* The server finds the FSM in a call: it waits, without a timeout, for an FSM
\* that may be waiting for the server.
SwmBlocks ==
    /\ swmQ # <<>> /\ Head(swmQ).t \in Casts
    /\ swmWait = 0 /\ Alive /\ call # NoCall
    /\ swmWait' = pid
    /\ UNCHANGED <<fsmVars, swmQ, swxVars, s6bVars, envVars>>

\* The cast t is handled to its end.
RxSwm(t) ==
    /\ swmQ # <<>> /\ Head(swmQ).t = t
    /\ swmQ' = Tail(swmQ) /\ swmWait' = 0
    /\ UNCHANGED <<hssAns, hssReg, ppr, rtr, s6bVars, reqs, nets>>

Found == swmWait \in {0, pid}            \* the FSM is there and serves the call
NotFound == swmWait = 0 /\ ~Alive        \* get_pid_by_imsi says undefined
Died == swmWait \notin {0, pid}          \* it died during the call: {error, _}

\* From state_authenticated the request is postponed to state_new.
RxDerAuthRequest ==
    /\ RxSwm("der")
    /\ UNCHANGED epdg
    /\ \/ /\ NotFound
          /\ pid' = lastPid + 1 /\ lastPid' = lastPid + 1
          /\ data' = InitData /\ UNCHANGED call
          /\ \/ state' = "wait_swx_maa" /\ SendSwx("mar", pid')
             \/ state' = "new" /\ UNCHANGED hssReq
       \/ /\ Found /\ In({"new", "authenticated"})
          /\ \/ Become("wait_swx_maa", data) /\ SendSwx("mar", pid)
             \/ Become("new", data) /\ UNCHANGED hssReq
       \/ /\ Found /\ In(WaitStates)
          /\ Terminate /\ UNCHANGED hssReq
       \/ /\ Died \/ (Found /\ In(DeregStates))
          /\ UNCHANGED <<fsmVars, hssReq>>

RxDerAuthComplRequest ==
    /\ RxSwm("derc")
    /\ UNCHANGED epdg
    /\ \/ /\ Found /\ In({"new"})
          /\ \/ Become("wait_swx_saa", data) /\ SendSwx("reg", pid)
             \/ UNCHANGED <<fsmVars, hssReq>>
       \/ /\ Found /\ In(WaitStates)
          /\ Terminate /\ UNCHANGED hssReq
       \/ /\ NotFound \/ Died \/ (Found /\ In({"authenticated"} \cup DeregStates))
          /\ UNCHANGED <<fsmVars, hssReq>>

\* Re-Auth-Answer and AA-Request: no state of the FSM changes but by a crash.
RxReauthAnswer ==
    /\ RxSwm("raa") \/ RxSwm("aar")
    /\ UNCHANGED <<epdg, hssReq>>
    /\ \/ Found /\ Unexpected
       \/ (NotFound \/ Died) /\ UNCHANGED fsmVars

\* Mutant of RxSessionTerminationRequest: the PGW's session is not looked at.
RxSessionTerminationRequestAlone ==
    /\ RxSwm("str")
    /\ UNCHANGED epdg
    /\ \/ /\ Found /\ In({"authenticated"}) /\ data.epdg
          /\ Become("authenticated_wait_swx_saa", data)
          /\ SendSwx("dereg", pid)
       \/ /\ Found /\ In(CrashStates)
          /\ Terminate
          /\ UNCHANGED hssReq
       \/ /\ NotFound \/ Died \/ (Found /\ In(DeregStates))
          /\ UNCHANGED <<fsmVars, hssReq>>

\* ok from the FSM means that the STA comes later; anything else is answered
\* now, with a bare integer.
RxSessionTerminationRequest ==
    /\ RxSwm("str")
    /\ UNCHANGED epdg
    /\ \/ /\ Found /\ In({"authenticated"}) /\ data.epdg /\ data.pgw
          /\ Become(state, [data EXCEPT !.epdg = FALSE])
          /\ UNCHANGED hssReq
       \/ /\ Found /\ In({"authenticated"}) /\ data.epdg /\ ~data.pgw
          /\ Become("authenticated_wait_swx_saa", data)
          /\ SendSwx("dereg", pid)
       \/ /\ Found /\ In(DeregStates)  \* ok, but no STA will follow
          /\ UNCHANGED <<fsmVars, hssReq>>
       \/ /\ Found /\ In(CrashStates)
          /\ Terminate
          /\ UNCHANGED hssReq
       \/ /\ \/ NotFound \/ Died
             \/ Found /\ In({"authenticated"})  \* SWm session not active, or no SWx peer
                      /\ (data.epdg => ~data.pgw)
          /\ UNCHANGED <<fsmVars, hssReq>>

RxAbortSessionAnswer ==
    /\ RxSwm("asa")
    /\ UNCHANGED <<epdg, hssReq>>
    /\ \/ /\ Found /\ In({"dereg_net_initiated_wait_swm_asa"} \cup CrashStates)
          /\ Terminate
       \/ /\ \/ NotFound \/ Died
             \/ Found /\ In({"authenticated", "dereg_net_initiated_wait_s6b_asa"})
          /\ UNCHANGED fsmVars

\* What the FSM does when its call into aaa_diameter_swm returns.
Resume(t, ok) ==
    \/ t = "dea" /\ state' = "new" /\ data' = data /\ UNCHANGED s6bAns
    \/ /\ t = "deac" /\ UNCHANGED s6bAns
       /\ state' = IF ok THEN "authenticated" ELSE "new"
       /\ data' = Entered(state', data)
    \/ t = "sta" /\ state' = "new" /\ data' = [data EXCEPT !.epdg = FALSE] /\ UNCHANGED s6bAns
    \/ t = "rar" /\ SendS6b("raa") /\ UNCHANGED <<state, data>>
    \/ t = "asr" /\ UNCHANGED <<state, data, s6bAns>>

(* aaa_diameter_swm, handle_call: the FSM's messages to the ePDG.  The FSM *)
(* may have died of the 5 s call timeout; its message is sent all the same. *)
TxSwm ==
    /\ swmWait = 0
    /\ swmQ # <<>> /\ Head(swmQ).t \notin Casts
    /\ swmQ' = Tail(swmQ)
    /\ LET m == Head(swmQ)
       IN  /\ epdg' = IF m.ok THEN epdg \cup {m.t} ELSE epdg
           /\ \/ /\ m.pid = pid
                 /\ Resume(m.t, m.ok)
                 /\ call' = NoCall /\ UNCHANGED <<pid, lastPid>>
              \/ m.pid # pid /\ UNCHANGED <<fsmVars, s6bAns>>
    /\ UNCHANGED <<swmWait, swxVars, s6b, reqs, nets>>

SwmStep ==
    \/ SwmBlocks \/ RxDerAuthRequest \/ RxDerAuthComplRequest \/ RxReauthAnswer
    \/ RxSessionTerminationRequest \/ RxAbortSessionAnswer \/ TxSwm

-----------------------------------------------------------------------------
(* aaa_diameter_swx_cb: answers and requests of the HSS.  An answer goes   *)
(* to the incarnation that sent the request; for a dead one it is dropped. *)

RxSwx(a) ==
    /\ a \in hssAns
    /\ hssAns' = hssAns \ {a}
    /\ UNCHANGED <<hssReq, hssReg, ppr, rtr, envVars>>

RxMaa(a) ==
    /\ a.t = "mar" /\ a.pid = pid
    /\ RxSwx(a)
    /\ In({"wait_swx_maa"})
    /\ CallSwm("dea", a.ok)
    /\ UNCHANGED <<state, data, swmWait, s6bVars>>

\* Mutant of RxSaaPgwUpdate: s6b_resp_pid is not reset.
RxSaaPgwUpdateKept(a) ==
    /\ a.t = "pgw" /\ a.pid = pid
    /\ RxSwx(a)
    /\ In({"authenticated_wait_swx_saa"})
    /\ S6bBecomes(data.resp, "done")
    /\ Become("authenticated", Entered("authenticated", [data EXCEPT !.pgw = TRUE]))
    /\ UNCHANGED <<swmVars, s6bAns>>

\* SAA of a PGW_UPDATE, successful or not: answer the AAR that asked for it.
RxSaaPgwUpdate(a) ==
    /\ a.t = "pgw" /\ a.pid = pid
    /\ RxSwx(a)
    /\ In({"authenticated_wait_swx_saa"})
    /\ S6bBecomes(data.resp, "done")
    /\ Become("authenticated",
              Entered("authenticated", [data EXCEPT !.pgw = TRUE, !.resp = 0]))
    /\ UNCHANGED <<swmVars, s6bAns>>

\* SAA of a USER_DEREGISTRATION: answer the STR of the ePDG or of the PGW.
RxSaaDeregistration(a) ==
    /\ a.t = "dereg" /\ a.pid = pid
    /\ RxSwx(a)
    /\ In({"authenticated_wait_swx_saa"})
    /\ \/ /\ data.resp = 0
          /\ CallSwm("sta", a.ok)
          /\ UNCHANGED <<state, data, swmWait, s6bVars>>
       \/ /\ data.resp # 0
          /\ S6bBecomes(data.resp, "done")
          /\ Become("new", [data EXCEPT !.pgw = FALSE, !.resp = 0])
          /\ UNCHANGED <<swmVars, s6bAns>>

\* SAA of the registration.
RxSaaRegistration(a) ==
    /\ a.t = "reg" /\ a.pid = pid
    /\ RxSwx(a)
    /\ In({"wait_swx_saa"})
    /\ CallSwm("deac", a.ok)
    /\ UNCHANGED <<state, data, swmWait, s6bVars>>

RxLateSwx(a) ==
    /\ a.pid # pid
    /\ RxSwx(a)
    /\ UNCHANGED <<fsmVars, swmVars, s6bVars>>

\* Push Profile Request: re-authorise towards the ePDG and the PGW.
RxPpr ==
    /\ ppr /\ ppr' = FALSE
    /\ UNCHANGED <<hssReq, hssAns, hssReg, rtr, s6bVars, envVars>>
    /\ \/ /\ In({"authenticated"})
          /\ CallSwm("rar", TRUE)
          /\ UNCHANGED <<state, data, swmWait>>
       \/ In(CrashStates \cup DeregStates) /\ Unexpected /\ UNCHANGED swmVars
       \/ ~Alive /\ UNCHANGED <<fsmVars, swmVars>>

\* Registration Termination Request.  Any reason other than a permanent
\* termination stops the FSM.
RxRtr ==
    /\ rtr # "no" /\ rtr' = "no"
    /\ UNCHANGED <<hssReq, hssAns, hssReg, ppr, swmVars, s6b, envVars>>
    /\ \/ /\ rtr = "permanent" /\ In({"authenticated"})
          /\ Become("dereg_net_initiated_wait_s6b_asa", data)
          /\ SendS6b("asa")
       \/ /\ rtr = "permanent" /\ In(CrashStates \cup DeregStates)
          /\ Unexpected /\ UNCHANGED s6bAns
       \/ /\ rtr = "other" /\ In(States)
          /\ Terminate /\ UNCHANGED s6bAns
       \/ /\ ~Alive
          /\ UNCHANGED <<fsmVars, s6bAns>>

SwxStep ==
    \/ \E a \in hssAns : \/ RxMaa(a) \/ RxSaaPgwUpdate(a) \/ RxSaaDeregistration(a)
                         \/ RxSaaRegistration(a) \/ RxLateSwx(a)
    \/ RxPpr \/ RxRtr

-----------------------------------------------------------------------------
(* aaa_diameter_s6b_cb: a process for every request of the PGW.  When the  *)
(* FSM answers ok, the process waits for a message of the FSM, for ever.   *)

S6bReq(i, st) ==
    /\ s6b[i] = st
    /\ UNCHANGED <<swmVars, hssAns, hssReg, ppr, rtr, s6bAns, envVars>>

RxAar(i) ==
    /\ S6bReq(i, "aar")
    /\ \/ /\ In({"authenticated"}) /\ ~data.pgw
          /\ \/ /\ Become("authenticated_wait_swx_saa",
                          [data EXCEPT !.resp = i, !.nai = TRUE])
                /\ SendSwx("pgw", pid)
                /\ S6bBecomes(i, "aar_wait")
             \/ S6bBecomes(i, "dead") /\ UNCHANGED <<fsmVars, hssReq>>
       \/ /\ ~Alive \/ (In({"authenticated"}) /\ data.pgw)
          /\ S6bBecomes(i, "done")
          /\ UNCHANGED <<fsmVars, hssReq>>
       \/ /\ In(CrashStates)
          /\ Terminate
          /\ S6bBecomes(i, "dead")   \* ok = {error, _}
          /\ UNCHANGED hssReq
       \/ /\ In(DeregStates)
          /\ S6bBecomes(i, "aar_wait")
          /\ UNCHANGED <<fsmVars, hssReq>>

\* The FSM is looked up by the User-Name as it came.
RxStr(i) ==
    /\ S6bReq(i, "str")
    /\ \/ /\ In({"authenticated"}) /\ data.pgw /\ data.epdg
          /\ Become(state, [data EXCEPT !.pgw = FALSE])
          /\ S6bBecomes(i, "done")
          /\ UNCHANGED hssReq
       \/ /\ In({"authenticated"}) /\ data.pgw /\ ~data.epdg
          /\ Become("authenticated_wait_swx_saa", [data EXCEPT !.resp = i])
          /\ SendSwx("dereg", pid)
          /\ S6bBecomes(i, "str_wait")
       \/ /\ In(CrashStates)
          /\ Terminate
          /\ S6bBecomes(i, "done")
          /\ UNCHANGED hssReq
       \/ /\ In(DeregStates)
          /\ S6bBecomes(i, "str_wait")
          /\ UNCHANGED <<fsmVars, hssReq>>
       \/ /\ \/ ~Alive
             \/ In({"authenticated"}) /\ (data.pgw => ~data.epdg)
          /\ S6bBecomes(i, "done")
          /\ UNCHANGED <<fsmVars, hssReq>>

\* The User-Name of the request is a NAI, under which no FSM is registered.
RxStrOfNai(i) ==
    /\ S6bReq(i, "str_nai")
    /\ S6bBecomes(i, "done")
    /\ UNCHANGED <<fsmVars, hssReq>>

RxS6bAnswer(t) ==
    /\ t \in s6bAns
    /\ s6bAns' = s6bAns \ {t}
    /\ UNCHANGED <<swxVars, s6b, envVars>>

RxRaa ==
    /\ RxS6bAnswer("raa")
    /\ UNCHANGED swmVars
    /\ \/ Unexpected
       \/ ~Alive /\ UNCHANGED fsmVars

RxAsa ==
    /\ RxS6bAnswer("asa")
    /\ \/ In({"dereg_net_initiated_wait_s6b_asa"}) /\ EnterWaitSwmAsa
       \/ /\ In(States \ {"dereg_net_initiated_wait_s6b_asa"})
          /\ Unexpected /\ UNCHANGED swmVars
       \/ ~Alive /\ UNCHANGED <<fsmVars, swmVars>>

S6bStep ==
    \/ \E i \in S6bProcs : RxAar(i) \/ RxStr(i) \/ RxStrOfNai(i)
    \/ RxRaa \/ RxAsa

-----------------------------------------------------------------------------
(* Timers.                                                                 *)

S6bAsaTimeout ==
    /\ In({"dereg_net_initiated_wait_s6b_asa"})
    /\ EnterWaitSwmAsa
    /\ UNCHANGED <<swxVars, s6bVars, envVars>>

\* Mutant of SwmAsaTimeout: no timer is armed for the second answer.
SwmAsaNoTimeout == FALSE /\ UNCHANGED vars

SwmAsaTimeout ==
    /\ In({"dereg_net_initiated_wait_swm_asa"})
    /\ Terminate
    /\ UNCHANGED <<swmVars, swxVars, s6bVars, envVars>>

\* Mutant of CallTimeout: the call is made with the timeout infinity.
CallWithoutTimeout == FALSE /\ UNCHANGED vars

\* gen_server:call into aaa_diameter_swm exits after 5 s: the FSM crashes.
CallTimeout ==
    /\ Alive /\ call # NoCall
    /\ Terminate
    /\ UNCHANGED <<swmVars, swxVars, s6bVars, envVars>>

TimerStep == S6bAsaTimeout \/ SwmAsaTimeout \/ CallTimeout

-----------------------------------------------------------------------------
(* The environment.                                                        *)

\* The ePDG starts an authentication, completes it after the challenge came,
\* and may end the session once the authentication is complete.
EpdgRequest ==
    /\ reqs < MaxReq /\ reqs' = reqs + 1
    /\ \E t \in {"der"} \cup (IF "dea" \in epdg THEN {"derc"} ELSE {})
                        \cup (IF "deac" \in epdg THEN {"str"} ELSE {}) :
         swmQ' = Append(swmQ, SwmCast(t))
    /\ UNCHANGED <<fsmVars, swmWait, swxVars, s6bVars, epdg, nets>>

\* It answers an RAR, going on with an AAR if it serves the subscriber, and an
\* ASR.
EpdgAnswer ==
    /\ \/ /\ "rar" \in epdg /\ epdg' = epdg \ {"rar"}
          /\ swmQ' \in {Append(swmQ, SwmCast("raa")),
                        swmQ \o <<SwmCast("raa"), SwmCast("aar")>>}
       \/ /\ "asr" \in epdg /\ epdg' = epdg \ {"asr"}
          /\ swmQ' = Append(swmQ, SwmCast("asa"))
    /\ UNCHANGED <<fsmVars, swmWait, swxVars, s6bVars, reqs, nets>>

\* The HSS serves its requests in the order they came.  An error leaves the
\* registration as it was; the PGW of a user who is not registered is refused.
HssServe ==
    /\ hssReq # <<>> /\ hssReq' = Tail(hssReq)
    /\ LET r == Head(hssReq)
       IN  \E ok \in BOOLEAN :
             /\ ok /\ r.t = "pgw" => hssReg
             /\ hssReg' = IF ok /\ r.t \in {"reg", "dereg"} THEN r.t = "reg" ELSE hssReg
             /\ hssAns' = hssAns \cup {[t |-> r.t, pid |-> r.pid, ok |-> ok]}
    /\ UNCHANGED <<fsmVars, swmVars, ppr, rtr, s6bVars, envVars>>

\* A request or an answer is lost, or the peer goes down: handle_error logs it
\* and the FSM is not told.
SwxLoss ==
    /\ \/ hssReq # <<>> /\ hssReq' = Tail(hssReq) /\ UNCHANGED hssAns
       \/ \E a \in hssAns : hssAns' = hssAns \ {a} /\ UNCHANGED hssReq
    /\ UNCHANGED <<fsmVars, swmVars, hssReg, ppr, rtr, s6bVars, envVars>>

\* The HSS pushes a new profile or ends the registration.
HssPush ==
    /\ hssReg /\ nets < MaxNet /\ nets' = nets + 1
    /\ \/ ~ppr /\ ppr' = TRUE /\ UNCHANGED <<hssReg, rtr>>
       \/ /\ rtr = "no" /\ rtr' \in {"permanent", "other"}
          /\ hssReg' = FALSE /\ UNCHANGED ppr
    /\ UNCHANGED <<fsmVars, swmVars, hssReq, hssAns, s6bVars, epdg, reqs>>

\* The PGW asks for authorisation or ends a session, naming the user by a NAI
\* or by the bare IMSI; requests are numbered in the order they are made.
PgwRequest ==
    /\ \E i \in S6bProcs :
         /\ s6b[i] = "free" /\ \A j \in 1..(i - 1) : s6b[j] # "free"
         /\ \E st \in {"aar", "str", "str_nai"} : S6bBecomes(i, st)
    /\ UNCHANGED <<fsmVars, swmVars, swxVars, s6bAns, envVars>>

S6bLoss ==
    /\ \E t \in s6bAns : s6bAns' = s6bAns \ {t}
    /\ UNCHANGED <<fsmVars, swmVars, swxVars, s6b, envVars>>

EnvStep ==
    \/ EpdgRequest \/ EpdgAnswer \/ HssServe \/ SwxLoss \/ HssPush \/ PgwRequest \/ S6bLoss

-----------------------------------------------------------------------------

Next == SwmStep \/ SwxStep \/ S6bStep \/ TimerStep \/ EnvStep

Spec == Init /\ [][Next]_vars

\* The Erlang scheduler runs every process that has something to do, and armed
\* timers fire.  Nothing is assumed of the ePDG, the HSS and the PGW.
Fairness == WF_vars(SwmStep) /\ WF_vars(SwxStep) /\ WF_vars(S6bStep) /\ WF_vars(TimerStep)

FairSpec == Spec /\ Fairness

-----------------------------------------------------------------------------
(* Properties.                                                             *)

Pids == 0..lastPid
SwxMsgs == [t : {"mar", "reg", "pgw", "dereg"}, pid : Pids]

\* Type invariant.  Beyond the types it says that an FSM exists exactly in the
\* states of gen_statem, that it is the incarnation started last, and that an
\* FSM in a call has its message in the mailbox of aaa_diameter_swm.
TypeOK ==
    /\ lastPid \in Nat /\ pid \in {0, lastPid}
    /\ state \in IF Alive THEN States ELSE {"none"}
    /\ data \in [epdg : BOOLEAN, pgw : BOOLEAN, nai : BOOLEAN, resp : 0..MaxS6b]
    /\ call \in [t : {"none", "dea", "deac", "sta", "rar", "asr"}, ok : BOOLEAN]
    /\ swmQ \in Seq([t : Casts \cup {"dea", "deac", "sta", "rar", "asr"},
                     pid : Pids, ok : BOOLEAN])
    /\ swmWait \in Pids
    /\ hssReq \in Seq(SwxMsgs)
    /\ \A a \in hssAns : a.ok \in BOOLEAN /\ [t |-> a.t, pid |-> a.pid] \in SwxMsgs
    /\ hssReg \in BOOLEAN /\ ppr \in BOOLEAN /\ rtr \in {"no", "permanent", "other"}
    /\ s6b \in [S6bProcs -> {"free", "aar", "str", "str_nai", "aar_wait", "str_wait",
                             "done", "dead"}]
    /\ s6bAns \subseteq {"raa", "asa"} /\ epdg \subseteq {"dea", "deac", "sta", "rar", "asr"}
    /\ reqs \in 0..MaxReq /\ nets \in 0..MaxNet
    /\ call # NoCall =>
         /\ Alive
         /\ \E k \in 1..Len(swmQ) : swmQ[k] = [t |-> call.t, pid |-> pid, ok |-> call.ok]

\* An FSM is in state_authenticated only while the HSS has the user registered
\* at this AAA server, or has an RTR on its way that will end the state.  The
\* RTR may overtake the SAA it follows, or meet the FSM in any wait state.
ServedOnlyIfRegistered == state = "authenticated" => hssReg \/ rtr # "no"

\* state_authenticated means that the ePDG or the PGW still has its session, and
\* a USER_DEREGISTRATION is under way only for the last session there was: an STR
\* of one side never deregisters a user whom the other side still serves.
LastSessionDeregisters ==
    /\ state = "authenticated" => data.epdg \/ data.pgw
    /\ \A m \in hssAns \cup {hssReq[k] : k \in 1..Len(hssReq)} :
         m.t = "dereg" /\ m.pid = pid => ~(data.epdg /\ data.pgw)

\* State in which the answer to a SWx request is understood.
AnswerState(t) ==
    CASE t = "mar" -> "wait_swx_maa"
      [] t = "reg" -> "wait_swx_saa"
      [] t \in {"pgw", "dereg"} -> "authenticated_wait_swx_saa"

\* Whatever SWx request of the running FSM is outstanding, its answer will find
\* the FSM in the state that understands it, and the process recorded in
\* s6b_resp_pid, if any, still waits for that very answer.  A late, crossing or
\* second answer would crash the FSM or be sent to the wrong process.
AnswerExpected ==
    /\ \A m \in hssAns \cup {hssReq[k] : k \in 1..Len(hssReq)} :
         m.pid = pid /\ Alive =>
           /\ state = AnswerState(m.t) /\ call = NoCall
           /\ m.t = "pgw" => data.resp # 0 /\ s6b[data.resp] = "aar_wait"
           /\ m.t = "dereg" => data.resp = 0 \/ s6b[data.resp] = "str_wait"
    /\ data.resp # 0 => state = "authenticated_wait_swx_saa"

\* A network-initiated deregistration ends with the FSM gone, whether or not the
\* PGW and the ePDG answer, and whatever else arrives meanwhile.
DeregTerminates == state \in DeregStates ~> ~Alive

\* aaa_diameter_swm calls the FSM without a timeout while the FSM calls
\* aaa_diameter_swm: the two never wait for each other for ever.
MutualWaitEnds == swmWait # 0 ~> swmWait = 0

=============================================================================
