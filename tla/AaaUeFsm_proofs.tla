-------------------------- MODULE AaaUeFsm_proofs --------------------------
(***************************************************************************)
(* Proofs about AaaUeFsm, for any number of requests of the ePDG, the HSS  *)
(* and the PGW: the answer to every SWx request finds the state machine in *)
(* the state that understands it, only the last session deregisters the    *)
(* user, and a user is served only while registered at the HSS.            *)
(***************************************************************************)
EXTENDS AaaUeFsm, TLAPS

(***************************************************************************)
(* The inductive invariant.                                                *)
(***************************************************************************)
SwmCalls == {"dea", "deac", "sta", "rar", "asr"}
SwmMsg == [t : Casts \cup SwmCalls, pid : Nat, ok : BOOLEAN]
SwxType == {"mar", "reg", "pgw", "dereg"}
SwxReq == [t : SwxType, pid : Nat]
SwxAns == [t : SwxType, pid : Nat, ok : BOOLEAN]
S6bStates == {"free", "aar", "str", "str_nai", "aar_wait", "str_wait", "done", "dead"}

\* Incarnations and what is left when there is none.
Lives ==
    /\ lastPid \in Nat /\ pid \in {0, lastPid}
    /\ Alive => state \in States
    /\ ~Alive => state = "none" /\ data = InitData /\ call = NoCall

\* Types of the other variables.
Rest ==
    /\ swmWait \in 0..lastPid
    /\ hssReg \in BOOLEAN /\ ppr \in BOOLEAN /\ rtr \in {"no", "permanent", "other"}
    /\ s6b \in [S6bProcs -> S6bStates]
    /\ s6bAns \subseteq {"raa", "asa"} /\ epdg \subseteq SwmCalls
    /\ reqs \in 0..MaxReq /\ nets \in 0..MaxNet

Types ==
    /\ data \in [epdg : BOOLEAN, pgw : BOOLEAN, nai : BOOLEAN, resp : 0..MaxS6b]
    /\ call \in [t : {"none"} \cup SwmCalls, ok : BOOLEAN] /\ (call.t = "none" => call = NoCall)
    /\ swmQ \in Seq(SwmMsg) /\ hssReq \in Seq(SwxReq) /\ hssAns \subseteq SwxAns
    /\ Rest

\* The mailbox q of aaa_diameter_swm holds the message of the call c of the FSM
\* p, and no other message of that FSM.
MailboxOf(q, p, last, c) ==
    /\ \A k \in 1..Len(q) :
         /\ q[k].pid \in 0..last
         /\ q[k].t \in Casts <=> q[k].pid = 0
         /\ p # 0 /\ q[k].pid = p =>
              /\ c = [t |-> q[k].t, ok |-> q[k].ok]
              /\ \A l \in 1..Len(q) : q[l].pid = p => l = k
    /\ c # NoCall => \E k \in 1..Len(q) : q[k] = [t |-> c.t, pid |-> p, ok |-> c.ok]

Mailbox == MailboxOf(swmQ, pid, lastPid, call)

\* The state in which the FSM makes a call.
CallState ==
    /\ call.t = "dea" => state = "wait_swx_maa"
    /\ call.t = "deac" => state = "wait_swx_saa"
    /\ call.t = "sta" => state = "authenticated_wait_swx_saa" /\ data.resp = 0
    /\ call.t = "rar" => state = "authenticated"
    /\ call.t = "asr" => state = "dereg_net_initiated_wait_swm_asa"

\* At most one SWx request of the running FSM p is outstanding; on its way to
\* the HSS it is the last one.
OutstandingOf(req, ans, p, last) ==
    /\ \A k \in 1..Len(req) :
         /\ req[k].pid \in 1..last
         /\ p # 0 /\ req[k].pid = p => k = Len(req) /\ \A a \in ans : a.pid # p
    /\ \A a \in ans : a.pid \in 1..last
    /\ \A a, b \in ans : p # 0 /\ a.pid = p /\ b.pid = p => a = b

Outstanding == OutstandingOf(hssReq, hssAns, pid, lastPid)

\* A request t of the running FSM p is outstanding.
PendOf(req, ans, p, t) ==
    /\ p # 0
    /\ \/ \E k \in 1..Len(req) : req[k].pid = p /\ req[k].t = t
       \/ \E a \in ans : a.pid = p /\ a.t = t

Pend(t) == PendOf(hssReq, hssAns, pid, t)

Expected ==
    /\ \A t \in SwxType : Pend(t) => state = AnswerState(t) /\ call = NoCall
    /\ Pend("pgw") => data.resp # 0 /\ s6b[data.resp] = "aar_wait"
    /\ Pend("dereg") =>
         (data.resp = 0 \/ s6b[data.resp] = "str_wait") /\ ~(data.epdg /\ data.pgw)
    /\ data.resp # 0 => state = "authenticated_wait_swx_saa"
    /\ state = "authenticated" => data.epdg \/ data.pgw

NoDereg(req) == \A k \in 1..Len(req) : req[k].t # "dereg"

\* The HSS will not end the registration but by an RTR.
Registered == (hssReg \/ rtr # "no") /\ NoDereg(hssReq)

\* The registration of the running FSM p has been answered.
RegOkOf(ans, p) == p # 0 /\ \E a \in ans : a.pid = p /\ a.t = "reg" /\ a.ok
RegOk == RegOkOf(hssAns, pid)

StaysRegistered ==
    \/ state = "authenticated"
    \/ call.t = "deac" /\ call.ok
    \/ Pend("pgw")
    \/ RegOk
    => Registered

IInv ==
    /\ Lives /\ Types /\ Mailbox /\ CallState
    /\ Outstanding /\ Expected /\ StaysRegistered

(***************************************************************************)
(* The mailbox of aaa_diameter_swm.                                        *)
(***************************************************************************)
\* What is left after the first message.
LEMMA TailIs ==
    ASSUME NEW S, NEW q \in Seq(S), q # <<>>
    PROVE  /\ Tail(q) \in Seq(S) /\ Len(Tail(q)) = Len(q) - 1 /\ Len(q) \in Nat \ {0}
           /\ Head(q) = q[1] /\ Head(q) \in S
           /\ \A k \in 1..Len(Tail(q)) : Tail(q)[k] = q[k + 1] /\ k + 1 \in 1..Len(q)
  OBVIOUS

LEMMA AppendIs ==
    ASSUME NEW S, NEW q \in Seq(S), NEW m \in S
    PROVE  /\ Append(q, m) \in Seq(S) /\ Len(Append(q, m)) = Len(q) + 1
           /\ Append(q, m)[Len(q) + 1] = m
           /\ \A k \in 1..Len(q) : Append(q, m)[k] = q[k]
  OBVIOUS

LEMMA SeqOfOthers ==
    ASSUME NEW S, NEW T, NEW q \in Seq(S), \A k \in 1..Len(q) : q[k] \in T
    PROVE  q \in Seq(T)
  OBVIOUS

\* The FSM goes on, ends or starts while the mailbox stays as it is.
LEMMA MailboxSame ==
    ASSUME NEW q \in Seq(SwmMsg), NEW p, NEW last \in Nat, NEW c, MailboxOf(q, p, last, c)
    PROVE  /\ MailboxOf(q, 0, last, NoCall)
           /\ MailboxOf(q, last + 1, last + 1, NoCall)
<1>1. \A k \in 1..Len(q) : /\ q[k].pid \in 0..last
                           /\ q[k].t \in Casts <=> q[k].pid = 0
  BY DEF MailboxOf
<1>2. MailboxOf(q, 0, last, NoCall)
  BY <1>1 DEF MailboxOf
<1>3. \A k \in 1..Len(q) : q[k].pid \in 0..(last + 1) /\ q[k].pid # last + 1
  BY <1>1
<1>4. MailboxOf(q, last + 1, last + 1, NoCall)
  BY <1>1, <1>3 DEF MailboxOf
<1> QED
  BY <1>2, <1>4

\* A message of the ePDG is taken.
LEMMA MailboxTake ==
    ASSUME NEW q \in Seq(SwmMsg), NEW p, NEW last \in Nat, NEW c, MailboxOf(q, p, last, c),
           q # <<>>, Head(q).t \in Casts, c # NoCall => p # 0
    PROVE  MailboxOf(Tail(q), p, last, c)
<1>1. PICK r : r = Tail(q)
  OBVIOUS
<1>2. /\ r \in Seq(SwmMsg) /\ Len(r) = Len(q) - 1 /\ Len(q) \in Nat \ {0}
      /\ Head(q) = q[1] /\ \A k \in 1..Len(r) : r[k] = q[k + 1] /\ k + 1 \in 1..Len(q)
  BY <1>1, TailIs
<1>3. \A k \in 1..Len(r) : /\ r[k].pid \in 0..last
                           /\ r[k].t \in Casts <=> r[k].pid = 0
  BY <1>2 DEF MailboxOf
<1>4. ASSUME p # 0, NEW k \in 1..Len(r), r[k].pid = p
      PROVE  /\ c = [t |-> r[k].t, ok |-> r[k].ok]
             /\ \A l \in 1..Len(r) : r[l].pid = p => l = k
  <2>1. /\ c = [t |-> q[k + 1].t, ok |-> q[k + 1].ok]
        /\ \A l \in 1..Len(q) : q[l].pid = p => l = k + 1
    BY <1>2, <1>4 DEF MailboxOf
  <2>2. ASSUME NEW l \in 1..Len(r), r[l].pid = p PROVE l = k
    <3>1. l + 1 = k + 1
      BY <1>2, <2>1, <2>2
    <3> QED
      BY <1>2, <3>1
  <2> QED
    BY <1>2, <2>1, <2>2
<1>5. ASSUME c # NoCall PROVE \E k \in 1..Len(r) : r[k] = [t |-> c.t, pid |-> p, ok |-> c.ok]
  <2>1. PICK k \in 1..Len(q) : q[k] = [t |-> c.t, pid |-> p, ok |-> c.ok]
    BY <1>5 DEF MailboxOf
  <2>2. q[1].pid = 0 /\ q[k].pid = p
    BY <1>2, <2>1 DEF MailboxOf
  <2>3. k # 1
    BY <1>5, <2>2
  <2>4. k - 1 \in 1..Len(r) /\ r[k - 1] = q[k]
    BY <1>2, <2>3
  <2> QED
    BY <2>1, <2>4
<1> QED
  BY <1>1, <1>3, <1>4, <1>5 DEF MailboxOf

\* The call of the FSM is served, or that of one that has died.
LEMMA MailboxServe ==
    ASSUME NEW q \in Seq(SwmMsg), NEW p, NEW last \in Nat, NEW c, MailboxOf(q, p, last, c),
           q # <<>>, Head(q).t \notin Casts, c # NoCall => p # 0
    PROVE  /\ Head(q).pid \in 1..last
           /\ p # 0 /\ Head(q).pid = p => /\ c = [t |-> Head(q).t, ok |-> Head(q).ok]
                                          /\ MailboxOf(Tail(q), p, last, NoCall)
           /\ Head(q).pid # p => MailboxOf(Tail(q), p, last, c)
<1>1. PICK r : r = Tail(q)
  OBVIOUS
<1>2. /\ r \in Seq(SwmMsg) /\ Len(r) = Len(q) - 1 /\ Len(q) \in Nat \ {0}
      /\ Head(q) = q[1] /\ \A k \in 1..Len(r) : r[k] = q[k + 1] /\ k + 1 \in 1..Len(q)
  BY <1>1, TailIs
<1>3. \A k \in 1..Len(r) : /\ r[k].pid \in 0..last
                           /\ r[k].t \in Casts <=> r[k].pid = 0
  BY <1>2 DEF MailboxOf
<1>4. ASSUME p # 0, NEW k \in 1..Len(r), r[k].pid = p
      PROVE  /\ c = [t |-> r[k].t, ok |-> r[k].ok]
             /\ \A l \in 1..Len(q) : q[l].pid = p => l = k + 1
             /\ \A l \in 1..Len(r) : r[l].pid = p => l = k
  <2>1. /\ c = [t |-> q[k + 1].t, ok |-> q[k + 1].ok]
        /\ \A l \in 1..Len(q) : q[l].pid = p => l = k + 1
    BY <1>2, <1>4 DEF MailboxOf
  <2>2. ASSUME NEW l \in 1..Len(r), r[l].pid = p PROVE l = k
    <3>1. l + 1 = k + 1
      BY <1>2, <2>1, <2>2
    <3> QED
      BY <1>2, <3>1
  <2> QED
    BY <1>2, <2>1, <2>2
<1>5. Head(q).pid \in 1..last
  <2>1. q[1].pid \in 0..last /\ q[1].pid # 0
    BY <1>2 DEF MailboxOf
  <2> QED
    BY <1>2, <2>1
<1>6. ASSUME p # 0, Head(q).pid = p
      PROVE  c = [t |-> Head(q).t, ok |-> Head(q).ok] /\ MailboxOf(r, p, last, NoCall)
  <2>1. c = [t |-> Head(q).t, ok |-> Head(q).ok]
    BY <1>2, <1>6 DEF MailboxOf
  <2>2. \A k \in 1..Len(r) : r[k].pid # p
    <3> SUFFICES ASSUME NEW k \in 1..Len(r), r[k].pid = p PROVE FALSE
      OBVIOUS
    <3>1. 1 = k + 1
      BY <1>2, <1>4, <1>6
    <3> QED
      BY <1>2, <3>1
  <2> QED
    BY <1>3, <2>1, <2>2 DEF MailboxOf
<1>7. ASSUME Head(q).pid # p PROVE MailboxOf(r, p, last, c)
  <2>1. ASSUME c # NoCall PROVE \E k \in 1..Len(r) : r[k] = [t |-> c.t, pid |-> p, ok |-> c.ok]
    <3>1. PICK k \in 1..Len(q) : q[k] = [t |-> c.t, pid |-> p, ok |-> c.ok]
      BY <2>1 DEF MailboxOf
    <3>2. k # 1
      BY <1>2, <1>7, <3>1
    <3>3. k - 1 \in 1..Len(r) /\ r[k - 1] = q[k]
      BY <1>2, <3>2
    <3> QED
      BY <3>1, <3>3
  <2> QED
    BY <1>3, <1>4, <2>1 DEF MailboxOf
<1> QED
  BY <1>1, <1>5, <1>6, <1>7

\* A message of the ePDG arrives.
LEMMA MailboxCast ==
    ASSUME NEW q \in Seq(SwmMsg), NEW p, NEW last \in Nat, NEW c, MailboxOf(q, p, last, c),
           NEW t \in Casts
    PROVE  /\ Append(q, SwmCast(t)) \in Seq(SwmMsg)
           /\ MailboxOf(Append(q, SwmCast(t)), p, last, c)
<1>1. PICK m : m = SwmCast(t)
  OBVIOUS
<1>2. m \in SwmMsg /\ m.t = t /\ m.pid = 0
  BY <1>1 DEF SwmCast, SwmMsg
<1>3. PICK r : r = Append(q, m)
  OBVIOUS
<1>4. /\ r \in Seq(SwmMsg) /\ Len(r) = Len(q) + 1 /\ r[Len(q) + 1] = m /\ Len(q) \in Nat
      /\ \A k \in 1..Len(q) : r[k] = q[k]
  BY <1>2, <1>3, AppendIs
<1>5. \A k \in 1..Len(r) : k \in 1..Len(q) \/ k = Len(q) + 1
  BY <1>4
<1>6. \A k \in 1..Len(r) : /\ r[k].pid \in 0..last
                           /\ r[k].t \in Casts <=> r[k].pid = 0
  BY <1>2, <1>4, <1>5 DEF MailboxOf
<1>7. ASSUME p # 0, NEW k \in 1..Len(r), r[k].pid = p
      PROVE  /\ c = [t |-> r[k].t, ok |-> r[k].ok]
             /\ \A l \in 1..Len(r) : r[l].pid = p => l = k
  <2>1. k \in 1..Len(q) /\ q[k].pid = p /\ r[k] = q[k]
    BY <1>2, <1>4, <1>5, <1>7
  <2>2. \A l \in 1..Len(r) : r[l].pid = p => l \in 1..Len(q) /\ q[l].pid = p
    BY <1>2, <1>4, <1>5, <1>7
  <2> QED
    BY <1>7, <2>1, <2>2 DEF MailboxOf
<1>8. ASSUME c # NoCall PROVE \E k \in 1..Len(r) : r[k] = [t |-> c.t, pid |-> p, ok |-> c.ok]
  <2>1. PICK k \in 1..Len(q) : q[k] = [t |-> c.t, pid |-> p, ok |-> c.ok]
    BY <1>8 DEF MailboxOf
  <2>2. k \in 1..Len(r) /\ r[k] = q[k]
    BY <1>4
  <2> QED
    BY <2>1, <2>2
<1> QED
  BY <1>1, <1>3, <1>4, <1>6, <1>7, <1>8 DEF MailboxOf

\* The FSM makes a call.
LEMMA MailboxCall ==
    ASSUME NEW q \in Seq(SwmMsg), NEW last \in Nat, NEW p \in 1..last,
           MailboxOf(q, p, last, NoCall), NEW t \in SwmCalls, NEW ok \in BOOLEAN
    PROVE  /\ Append(q, [t |-> t, pid |-> p, ok |-> ok]) \in Seq(SwmMsg)
           /\ MailboxOf(Append(q, [t |-> t, pid |-> p, ok |-> ok]), p, last, [t |-> t, ok |-> ok])
<1>1. PICK m, c : m = [t |-> t, pid |-> p, ok |-> ok] /\ c = [t |-> t, ok |-> ok]
  OBVIOUS
<1>2. m \in SwmMsg /\ m.t = t /\ m.pid = p /\ m.ok = ok
  BY <1>1 DEF SwmMsg
<1>3. PICK r : r = Append(q, m)
  OBVIOUS
<1>4. /\ r \in Seq(SwmMsg) /\ Len(r) = Len(q) + 1 /\ r[Len(q) + 1] = m /\ Len(q) \in Nat
      /\ \A k \in 1..Len(q) : r[k] = q[k]
  BY <1>2, <1>3, AppendIs
<1>5. \A k \in 1..Len(r) : k \in 1..Len(q) \/ k = Len(q) + 1
  BY <1>4
<1>6. \A k \in 1..Len(q) : q[k].pid # p
  <2> SUFFICES ASSUME NEW k \in 1..Len(q), q[k].pid = p PROVE FALSE
    OBVIOUS
  <2>1. NoCall = [t |-> q[k].t, ok |-> q[k].ok]
    BY DEF MailboxOf
  <2>2. q[k].t = "none" /\ q[k] \in SwmMsg
    BY <2>1 DEF NoCall
  <2> QED
    BY <2>2 DEF SwmMsg, Casts, SwmCalls
<1>7. \A k \in 1..Len(r) : /\ r[k].pid \in 0..last
                           /\ r[k].t \in Casts <=> r[k].pid = 0
  <2>1. t \notin Casts
    BY DEF Casts, SwmCalls
  <2> QED
    BY <1>2, <1>4, <1>5, <2>1 DEF MailboxOf
<1>8. ASSUME NEW k \in 1..Len(r), r[k].pid = p
      PROVE  k = Len(q) + 1 /\ c = [t |-> r[k].t, ok |-> r[k].ok]
  BY <1>1, <1>2, <1>4, <1>5, <1>6, <1>8
<1>9. \E k \in 1..Len(r) : r[k] = [t |-> c.t, pid |-> p, ok |-> c.ok]
  <2>1. Len(q) + 1 \in 1..Len(r)
    BY <1>4
  <2> QED
    BY <1>1, <1>4, <2>1
<1>10. MailboxOf(r, p, last, c)
  BY <1>7, <1>8, <1>9 DEF MailboxOf
<1> QED
  BY <1>1, <1>3, <1>4, <1>10

(***************************************************************************)
(* The SWx requests that are outstanding.                                  *)
(***************************************************************************)
\* A request or an answer goes away.
LEMMA OutstandingFewer ==
    ASSUME NEW req \in Seq(SwxReq), NEW ans, NEW p, NEW last \in Nat,
           OutstandingOf(req, ans, p, last),
           NEW req2, req2 = req \/ (req # <<>> /\ req2 = Tail(req)),
           NEW ans2, ans2 \subseteq ans
    PROVE  /\ req2 \in Seq(SwxReq)
           /\ OutstandingOf(req2, ans2, p, last) /\ OutstandingOf(req2, ans2, 0, last)
           /\ \A t : PendOf(req2, ans2, p, t) => PendOf(req, ans, p, t)
           /\ RegOkOf(ans2, p) => RegOkOf(ans, p)
           /\ NoDereg(req) => NoDereg(req2)
<1>1. /\ req2 \in Seq(SwxReq)
      /\ \A k \in 1..Len(req2) : \E l \in 1..Len(req) :
            req2[k] = req[l] /\ (l = Len(req) => k = Len(req2))
  <2>1. CASE req2 = req
    BY <2>1
  <2>2. CASE req # <<>> /\ req2 = Tail(req)
    <3>1. /\ req2 \in Seq(SwxReq) /\ Len(req2) = Len(req) - 1 /\ Len(req) \in Nat \ {0}
          /\ \A k \in 1..Len(req2) : req2[k] = req[k + 1] /\ k + 1 \in 1..Len(req)
      BY <2>2, TailIs
    <3>2. \A k \in 1..Len(req2) : k + 1 = Len(req) => k = Len(req2)
      BY <3>1
    <3> QED
      BY <3>1, <3>2
  <2> QED
    BY <2>1, <2>2
<1>2. \A k \in 1..Len(req2) : req2[k].pid \in 1..last
  BY <1>1 DEF OutstandingOf
<1>3. ASSUME NEW k \in 1..Len(req2), p # 0, req2[k].pid = p
      PROVE  k = Len(req2) /\ \A a \in ans2 : a.pid # p
  BY <1>1, <1>3 DEF OutstandingOf
<1>4. OutstandingOf(req2, ans2, p, last) /\ OutstandingOf(req2, ans2, 0, last)
  BY <1>2, <1>3 DEF OutstandingOf
<1>5. \A t : PendOf(req2, ans2, p, t) => PendOf(req, ans, p, t)
  BY <1>1 DEF PendOf
<1>6. RegOkOf(ans2, p) => RegOkOf(ans, p)
  BY DEF RegOkOf
<1>7. NoDereg(req) => NoDereg(req2)
  BY <1>1 DEF NoDereg
<1> QED
  BY <1>1, <1>4, <1>5, <1>6, <1>7

\* The FSM p, which waits for no answer, sends the request t0.
LEMMA OutstandingSend ==
    ASSUME NEW req \in Seq(SwxReq), NEW ans \in SUBSET SwxAns, NEW last \in Nat, NEW p \in 1..last,
           OutstandingOf(req, ans, p, last), \A t \in SwxType : ~PendOf(req, ans, p, t),
           NEW t0 \in SwxType
    PROVE  LET r == Append(req, [t |-> t0, pid |-> p])
           IN  /\ r \in Seq(SwxReq) /\ OutstandingOf(r, ans, p, last)
               /\ \A t \in SwxType : PendOf(r, ans, p, t) => t = t0
               /\ ~RegOkOf(ans, p)
               /\ NoDereg(req) /\ t0 # "dereg" => NoDereg(r)
<1>1. PICK m : m = [t |-> t0, pid |-> p]
  OBVIOUS
<1>2. m \in SwxReq /\ m.t = t0 /\ m.pid = p
  BY <1>1 DEF SwxReq
<1>3. PICK r : r = Append(req, m)
  OBVIOUS
<1>4. /\ r \in Seq(SwxReq) /\ Len(r) = Len(req) + 1 /\ r[Len(req) + 1] = m /\ Len(req) \in Nat
      /\ \A k \in 1..Len(req) : r[k] = req[k]
  BY <1>2, <1>3, AppendIs
<1>5. \A k \in 1..Len(r) : k \in 1..Len(req) \/ k = Len(r)
  BY <1>4
<1>6. \A k \in 1..Len(req) : req[k].pid # p
  <2> SUFFICES ASSUME NEW k \in 1..Len(req), req[k].pid = p PROVE FALSE
    OBVIOUS
  <2>1. req[k] \in SwxReq
    OBVIOUS
  <2>2. req[k].t \in SwxType
    BY <2>1 DEF SwxReq
  <2> QED
    BY <2>2 DEF PendOf
<1>7. \A a \in ans : a.pid # p
  <2> SUFFICES ASSUME NEW a \in ans, a.pid = p PROVE FALSE
    OBVIOUS
  <2>1. a.t \in SwxType
    BY DEF SwxAns
  <2> QED
    BY <2>1 DEF PendOf
<1>8. OutstandingOf(r, ans, p, last)
  BY <1>2, <1>4, <1>5, <1>6, <1>7 DEF OutstandingOf
<1>9. \A t \in SwxType : PendOf(r, ans, p, t) => t = t0
  BY <1>2, <1>4, <1>5, <1>6, <1>7 DEF PendOf
<1>10. ~RegOkOf(ans, p)
  BY <1>7 DEF RegOkOf
<1>11. NoDereg(req) /\ t0 # "dereg" => NoDereg(r)
  BY <1>2, <1>4, <1>5 DEF NoDereg
<1> QED
  BY <1>1, <1>3, <1>4, <1>8, <1>9, <1>10, <1>11

\* A new FSM starts.
LEMMA OutstandingBirth ==
    ASSUME NEW req \in Seq(SwxReq), NEW ans \in SUBSET SwxAns, NEW last \in Nat, NEW p,
           OutstandingOf(req, ans, p, last)
    PROVE  /\ OutstandingOf(req, ans, last + 1, last + 1)
           /\ \A t : ~PendOf(req, ans, last + 1, t)
           /\ ~RegOkOf(ans, last + 1)
<1>1. PICK n : n = last + 1
  OBVIOUS
<1>2. \A k \in 1..Len(req) : req[k].pid \in 1..n /\ req[k].pid # n
  BY <1>1 DEF OutstandingOf
<1>3. \A a \in ans : a.pid \in 1..n /\ a.pid # n
  BY <1>1 DEF OutstandingOf
<1>4. OutstandingOf(req, ans, n, n)
  BY <1>2, <1>3 DEF OutstandingOf
<1>5. \A t : ~PendOf(req, ans, n, t)
  BY <1>2, <1>3 DEF PendOf
<1>6. ~RegOkOf(ans, n)
  BY <1>3 DEF RegOkOf
<1> QED
  BY <1>1, <1>4, <1>5, <1>6

\* The answer to the request of the running FSM is taken.
LEMMA OutstandingAnswered ==
    ASSUME NEW req \in Seq(SwxReq), NEW ans, NEW last \in Nat, NEW p, p # 0,
           OutstandingOf(req, ans, p, last), NEW a \in ans, a.pid = p
    PROVE  /\ OutstandingOf(req, ans \ {a}, p, last)
           /\ \A t : ~PendOf(req, ans \ {a}, p, t)
           /\ ~RegOkOf(ans \ {a}, p)
<1>1. \A b \in ans \ {a} : b.pid # p
  BY DEF OutstandingOf
<1>2. \A k \in 1..Len(req) : req[k].pid # p
  BY DEF OutstandingOf
<1>3. OutstandingOf(req, ans \ {a}, p, last)
  BY <1>1, <1>2 DEF OutstandingOf
<1>4. \A t : ~PendOf(req, ans \ {a}, p, t)
  BY <1>1, <1>2 DEF PendOf
<1>5. ~RegOkOf(ans \ {a}, p)
  BY <1>1 DEF RegOkOf
<1> QED
  BY <1>3, <1>4, <1>5

\* The HSS serves the first request.
LEMMA OutstandingServed ==
    ASSUME NEW req \in Seq(SwxReq), NEW ans \in SUBSET SwxAns, NEW last \in Nat, NEW p,
           OutstandingOf(req, ans, p, last), req # <<>>, NEW ok \in BOOLEAN
    PROVE  LET b == [t |-> Head(req).t, pid |-> Head(req).pid, ok |-> ok]
           IN  /\ Tail(req) \in Seq(SwxReq) /\ ans \cup {b} \subseteq SwxAns
               /\ OutstandingOf(Tail(req), ans \cup {b}, p, last)
               /\ \A t : PendOf(Tail(req), ans \cup {b}, p, t) => PendOf(req, ans, p, t)
               /\ RegOkOf(ans \cup {b}, p) =>
                    \/ RegOkOf(ans, p)
                    \/ Head(req).t = "reg" /\ ok /\ NoDereg(Tail(req))
               /\ NoDereg(req) => NoDereg(Tail(req)) /\ Head(req).t # "dereg"
<1>1. PICK r, h, b : r = Tail(req) /\ h = Head(req) /\ b = [t |-> h.t, pid |-> h.pid, ok |-> ok]
  OBVIOUS
<1>2. /\ r \in Seq(SwxReq) /\ Len(r) = Len(req) - 1 /\ Len(req) \in Nat \ {0}
      /\ h = req[1] /\ h \in SwxReq
      /\ \A k \in 1..Len(r) : r[k] = req[k + 1] /\ k + 1 \in 1..Len(req)
  BY <1>1, TailIs
<1>3. b \in SwxAns /\ b.t = h.t /\ b.pid = h.pid /\ b.ok = ok
  BY <1>1, <1>2 DEF SwxReq, SwxAns
<1>4. 1 \in 1..Len(req) /\ \A k \in 1..Len(r) : k + 1 = Len(req) => k = Len(r)
  BY <1>2
<1>5. /\ h.pid \in 1..last
      /\ p # 0 /\ h.pid = p => Len(req) = 1 /\ \A a \in ans : a.pid # p
  BY <1>2, <1>4 DEF OutstandingOf
<1>6. p # 0 /\ h.pid = p => \A k \in 1..Len(r) : FALSE
  BY <1>2, <1>5
<1>7. ASSUME NEW k \in 1..Len(r)
      PROVE  /\ r[k].pid \in 1..last
             /\ p # 0 /\ r[k].pid = p => k = Len(r) /\ \A a \in ans \cup {b} : a.pid # p
  <2>1. r[k] = req[k + 1] /\ k + 1 \in 1..Len(req)
    BY <1>2
  <2>2. ASSUME p # 0, r[k].pid = p PROVE k = Len(r) /\ \A a \in ans : a.pid # p
    BY <1>4, <2>1, <2>2 DEF OutstandingOf
  <2>3. p # 0 => b.pid # p
    BY <1>3, <1>6
  <2> QED
    BY <2>1, <2>2, <2>3 DEF OutstandingOf
<1>8. \A a \in ans \cup {b} : a.pid \in 1..last
  BY <1>3, <1>5 DEF OutstandingOf
<1>9. \A x, y \in ans \cup {b} : p # 0 /\ x.pid = p /\ y.pid = p => x = y
  BY <1>3, <1>5 DEF OutstandingOf
<1>10. OutstandingOf(r, ans \cup {b}, p, last)
  BY <1>7, <1>8, <1>9 DEF OutstandingOf
<1>11. \A t : PendOf(r, ans \cup {b}, p, t) => PendOf(req, ans, p, t)
  BY <1>2, <1>3, <1>4 DEF PendOf
<1>12. RegOkOf(ans \cup {b}, p) => RegOkOf(ans, p) \/ (h.t = "reg" /\ ok /\ NoDereg(r))
  BY <1>3, <1>6 DEF RegOkOf, NoDereg
<1>13. NoDereg(req) => NoDereg(r) /\ h.t # "dereg"
  BY <1>2, <1>4 DEF NoDereg
<1>14. ans \cup {b} \subseteq SwxAns
  BY <1>3
<1> QED
  BY <1>1, <1>2, <1>10, <1>11, <1>12, <1>13, <1>14

(***************************************************************************)
(* What a step keeps of the invariant.                                     *)
(***************************************************************************)
\* Outside the wait states, and in a call, the FSM waits for no SWx answer.
LEMMA NothingPends ==
    ASSUME IInv, state \notin WaitStates \/ call # NoCall
    PROVE  (\A t \in SwxType : ~Pend(t)) /\ ~RegOk
<1>1. \A t \in SwxType : ~Pend(t)
  BY DEF IInv, Expected, SwxType, AnswerState, WaitStates
<1>2. RegOk => Pend("reg")
  BY DEF RegOk, RegOkOf, Pend, PendOf
<1> QED
  BY <1>1, <1>2 DEF SwxType

\* The FSM goes on as it was, and what it waits for stays.
LEMMA FsmSame ==
    ASSUME IInv, UNCHANGED fsmVars, \A t \in SwxType : Pend(t)' => Pend(t),
           RegOk' => RegOk \/ Registered', Registered => Registered',
           \A i \in S6bProcs : s6b[i] \in {"aar_wait", "str_wait"} => s6b'[i] = s6b[i]
    PROVE  Lives' /\ CallState' /\ Expected' /\ StaysRegistered'
<1> USE DEF fsmVars
<1>1. Lives' /\ CallState'
  BY DEF IInv, Lives, CallState, Alive
<1>2. \A t \in SwxType : Pend(t)' => state' = AnswerState(t) /\ call' = NoCall
  BY DEF IInv, Expected
<1>3. data'.resp # 0 => data.resp \in S6bProcs
  BY DEF IInv, Types, S6bProcs
<1>4. Pend("pgw")' => data'.resp # 0 /\ s6b'[data'.resp] = "aar_wait"
  <2>1. Pend("pgw")' => Pend("pgw")
    BY DEF SwxType
  <2> QED
    BY <1>3, <2>1 DEF IInv, Expected
<1>5. Pend("dereg")' => /\ data'.resp = 0 \/ s6b'[data'.resp] = "str_wait"
                        /\ ~(data'.epdg /\ data'.pgw)
  <2>1. Pend("dereg")' => Pend("dereg")
    BY DEF SwxType
  <2> QED
    BY <1>3, <2>1 DEF IInv, Expected
<1>6. Expected'
  BY <1>2, <1>4, <1>5 DEF IInv, Expected
<1>7. StaysRegistered'
  BY DEF IInv, StaysRegistered, SwxType
<1> QED
  BY <1>1, <1>6, <1>7

\* The FSM ends.
LEMMA FsmDies ==
    ASSUME Terminate, lastPid \in Nat
    PROVE  Lives' /\ CallState' /\ Expected' /\ StaysRegistered'
<1>1. \A t : ~Pend(t)'
  BY DEF Terminate, Pend, PendOf
<1>2. ~RegOk'
  BY DEF Terminate, RegOk, RegOkOf
<1>3. Lives' /\ CallState'
  BY DEF Terminate, Lives, CallState, Alive, InitData, NoCall
<1>4. Expected'
  BY <1>1 DEF Terminate, Expected, InitData, SwxType
<1>5. StaysRegistered'
  BY <1>1, <1>2 DEF Terminate, StaysRegistered, NoCall
<1> QED
  BY <1>3, <1>4, <1>5

\* The FSM moves on and waits for no SWx answer.
LEMMA FsmMoves ==
    ASSUME lastPid' \in Nat, pid' = lastPid', pid' # 0, state' \in States, CallState',
           \A t \in SwxType : ~Pend(t)', ~RegOk',
           data'.resp # 0 => state' = "authenticated_wait_swx_saa",
           state' = "authenticated" => data'.epdg \/ data'.pgw,
           state' = "authenticated" \/ (call'.t = "deac" /\ call'.ok) => Registered'
    PROVE  Lives' /\ Expected' /\ StaysRegistered'
<1>1. Lives'
  BY DEF Lives, Alive
<1>2. ~Pend("pgw")' /\ ~Pend("dereg")'
  BY DEF SwxType
<1>3. Expected'
  BY <1>2 DEF Expected
<1>4. StaysRegistered'
  BY <1>2 DEF StaysRegistered
<1> QED
  BY <1>1, <1>3, <1>4

\* The FSM moves on and waits for the answer to its SWx request t0.
LEMMA FsmSends ==
    ASSUME lastPid' \in Nat, pid' = lastPid', pid' # 0, state' \in WaitStates, call' = NoCall,
           NEW t0 \in SwxType, \A t \in SwxType : Pend(t)' => t = t0, ~RegOk',
           state' = AnswerState(t0),
           t0 = "pgw" => data'.resp # 0 /\ s6b'[data'.resp] = "aar_wait" /\ Registered',
           t0 = "dereg" => /\ data'.resp = 0 \/ s6b'[data'.resp] = "str_wait"
                           /\ ~(data'.epdg /\ data'.pgw),
           data'.resp # 0 => state' = "authenticated_wait_swx_saa"
    PROVE  Lives' /\ CallState' /\ Expected' /\ StaysRegistered'
<1>1. Lives' /\ CallState'
  BY DEF Lives, Alive, CallState, NoCall, States, CrashStates
<1>2. (Pend("pgw")' => t0 = "pgw") /\ (Pend("dereg")' => t0 = "dereg")
  BY DEF SwxType
<1>3. state' # "authenticated"
  BY DEF WaitStates
<1>4. Expected'
  BY <1>2, <1>3 DEF Expected
<1>5. StaysRegistered'
  BY <1>2, <1>3 DEF StaysRegistered, NoCall
<1> QED
  BY <1>1, <1>4, <1>5

\* A step in which the FSM goes on as it was or ends; messages are only taken.
LEMMA QuietStep ==
    ASSUME IInv,
           \/ UNCHANGED fsmVars /\ (hssReg \/ rtr # "no" => hssReg' \/ rtr' # "no")
           \/ Terminate,
           swmQ' = swmQ \/ (swmQ # <<>> /\ Head(swmQ).t \in Casts /\ swmQ' = Tail(swmQ)),
           hssReq' = hssReq \/ (hssReq # <<>> /\ hssReq' = Tail(hssReq)),
           hssAns' \subseteq hssAns,
           \A i \in S6bProcs : s6b[i] \in {"aar_wait", "str_wait"} => s6b'[i] = s6b[i],
           Rest'
    PROVE  IInv'
<1>1. /\ lastPid \in Nat /\ swmQ \in Seq(SwmMsg) /\ hssReq \in Seq(SwxReq) /\ hssAns \subseteq SwxAns
      /\ MailboxOf(swmQ, pid, lastPid, call) /\ OutstandingOf(hssReq, hssAns, pid, lastPid)
      /\ call # NoCall => pid # 0
  BY DEF IInv, Lives, Alive, Types, Mailbox, Outstanding
<1>2. /\ lastPid' = lastPid
      /\ \/ pid' = 0 /\ data' = InitData /\ call' = NoCall
         \/ pid' = pid /\ data' = data /\ call' = call
  <2>1. CASE UNCHANGED fsmVars
    BY <2>1 DEF fsmVars
  <2>2. CASE Terminate
    BY <2>2 DEF Terminate
  <2> QED
    BY <2>1, <2>2
<1>3. swmQ' \in Seq(SwmMsg) /\ MailboxOf(swmQ', pid, lastPid, call)
  <2>1. CASE swmQ' = swmQ
    BY <1>1, <2>1
  <2>2. CASE swmQ # <<>> /\ Head(swmQ).t \in Casts /\ swmQ' = Tail(swmQ)
    BY <1>1, <2>2, TailIs, MailboxTake
  <2> QED
    BY <2>1, <2>2
<1>4. MailboxOf(swmQ', 0, lastPid, NoCall)
  BY <1>1, <1>3, MailboxSame
<1>5. Mailbox'
  BY <1>2, <1>3, <1>4 DEF Mailbox
<1>6. /\ hssReq' \in Seq(SwxReq)
      /\ OutstandingOf(hssReq', hssAns', pid, lastPid) /\ OutstandingOf(hssReq', hssAns', 0, lastPid)
      /\ \A t : PendOf(hssReq', hssAns', pid, t) => PendOf(hssReq, hssAns, pid, t)
      /\ RegOkOf(hssAns', pid) => RegOkOf(hssAns, pid)
      /\ NoDereg(hssReq) => NoDereg(hssReq')
  BY <1>1, OutstandingFewer
<1>7. Outstanding'
  BY <1>2, <1>6 DEF Outstanding
<1>8. Lives' /\ CallState' /\ Expected' /\ StaysRegistered'
  <2>1. CASE UNCHANGED fsmVars /\ (hssReg \/ rtr # "no" => hssReg' \/ rtr' # "no")
    <3>1. \A t \in SwxType : Pend(t)' => Pend(t)
      BY <1>6, <2>1 DEF fsmVars, Pend
    <3>2. RegOk' => RegOk
      BY <1>6, <2>1 DEF fsmVars, RegOk
    <3>3. Registered => Registered'
      BY <1>6, <2>1 DEF Registered
    <3> QED
      BY <2>1, <3>1, <3>2, <3>3, FsmSame
  <2>2. CASE Terminate
    BY <1>1, <2>2, FsmDies
  <2> QED
    BY <2>1, <2>2
<1>9. Types'
  <2>1. InitData \in [epdg : BOOLEAN, pgw : BOOLEAN, nai : BOOLEAN, resp : 0..MaxS6b]
    BY AaaBoundsAssumption DEF InitData
  <2>2. data' \in [epdg : BOOLEAN, pgw : BOOLEAN, nai : BOOLEAN, resp : 0..MaxS6b]
    BY <1>2, <2>1 DEF IInv, Types
  <2>3. call' \in [t : {"none"} \cup SwmCalls, ok : BOOLEAN] /\ (call'.t = "none" => call' = NoCall)
    <3>1. NoCall \in [t : {"none"} \cup SwmCalls, ok : BOOLEAN]
      BY DEF NoCall
    <3> QED
      BY <1>2, <3>1 DEF IInv, Types
  <2> QED
    BY <1>1, <1>3, <1>6, <2>2, <2>3 DEF Types
<1> QED
  BY <1>5, <1>7, <1>8, <1>9 DEF IInv

\* Changing the entry of one S6b process that does not wait for the FSM.
LEMMA S6bKept ==
    ASSUME s6b \in [S6bProcs -> S6bStates], NEW i \in S6bProcs, NEW st \in S6bStates, S6bBecomes(i, st)
    PROVE  /\ s6b' \in [S6bProcs -> S6bStates] /\ s6b'[i] = st
           /\ \A j \in S6bProcs : j # i => s6b'[j] = s6b[j]
           /\ s6b[i] \notin {"aar_wait", "str_wait"} =>
                \A j \in S6bProcs : s6b[j] \in {"aar_wait", "str_wait"} => s6b'[j] = s6b[j]
  BY DEF S6bBecomes

(***************************************************************************)
(* The steps of aaa_diameter_swm.                                          *)
(***************************************************************************)
LEMMA SwmBlocksKeeps == IInv /\ SwmBlocks => IInv'
<1> SUFFICES ASSUME IInv, SwmBlocks PROVE IInv'
  OBVIOUS
<1>1. Rest'
  BY DEF IInv, Types, Rest, Lives, SwmBlocks, fsmVars, swxVars, s6bVars, envVars
<1> QED
  BY <1>1, QuietStep DEF SwmBlocks, swxVars, s6bVars

\* Taking a cast leaves the rest well typed.
LEMMA RxSwmRest ==
    ASSUME IInv, NEW t, RxSwm(t), epdg' = epdg, lastPid' \in Nat, lastPid' >= lastPid
    PROVE  Rest'
  BY DEF IInv, Types, Rest, Lives, RxSwm, s6bVars

LEMMA RxReauthAnswerKeeps == IInv /\ RxReauthAnswer => IInv'
<1> SUFFICES ASSUME IInv, RxReauthAnswer PROVE IInv'
  OBVIOUS
<1>1. PICK t \in Casts : RxSwm(t)
  BY DEF RxReauthAnswer, Casts
<1>2. UNCHANGED fsmVars \/ Terminate
  BY DEF RxReauthAnswer, Unexpected
<1>3. Rest'
  BY <1>1, <1>2, RxSwmRest DEF RxReauthAnswer, IInv, Lives, fsmVars, Terminate
<1> QED
  BY <1>1, <1>2, <1>3, QuietStep DEF RxReauthAnswer, RxSwm, s6bVars

LEMMA RxAbortSessionAnswerKeeps == IInv /\ RxAbortSessionAnswer => IInv'
<1> SUFFICES ASSUME IInv, RxAbortSessionAnswer PROVE IInv'
  OBVIOUS
<1>1. RxSwm("asa") /\ "asa" \in Casts
  BY DEF RxAbortSessionAnswer, Casts
<1>2. UNCHANGED fsmVars \/ Terminate
  BY DEF RxAbortSessionAnswer
<1>3. Rest'
  BY <1>1, <1>2, RxSwmRest DEF RxAbortSessionAnswer, IInv, Lives, fsmVars, Terminate
<1> QED
  BY <1>1, <1>2, <1>3, QuietStep DEF RxAbortSessionAnswer, RxSwm, s6bVars

\* In the states S, none of which waits for an answer, the FSM runs and no SWx
\* request of it is outstanding.
LEMMA FsmIdle ==
    ASSUME IInv, NEW S, In(S), \A s \in S : s \notin WaitStates
    PROVE  /\ pid \in 1..lastPid /\ pid = lastPid /\ pid # 0 /\ lastPid \in Nat /\ call = NoCall
           /\ \A t \in SwxType : ~PendOf(hssReq, hssAns, pid, t)
           /\ \A t \in SwxType : ~Pend(t)
           /\ ~RegOk /\ ~RegOkOf(hssAns, pid)
<1>1. pid = lastPid /\ pid # 0 /\ lastPid \in Nat /\ call = NoCall /\ state \notin WaitStates
  BY DEF IInv, Lives, In, Alive
<1>2. pid \in 1..lastPid
  BY <1>1
<1>3. (\A t \in SwxType : ~Pend(t)) /\ ~RegOk
  BY <1>1, NothingPends
<1> QED
  BY <1>1, <1>2, <1>3 DEF Pend, RegOk

\* Taking a cast from the mailbox, while the FSM stays out of any call.
LEMMA RxSwmMailbox ==
    ASSUME IInv, NEW t \in Casts, RxSwm(t)
    PROVE  swmQ' \in Seq(SwmMsg) /\ MailboxOf(swmQ', pid, lastPid, call)
<1>1. /\ lastPid \in Nat /\ swmQ \in Seq(SwmMsg) /\ MailboxOf(swmQ, pid, lastPid, call)
      /\ call # NoCall => pid # 0
  BY DEF IInv, Lives, Alive, Types, Mailbox
<1>2. swmQ # <<>> /\ Head(swmQ).t \in Casts /\ swmQ' = Tail(swmQ)
  BY DEF RxSwm
<1> QED
  BY <1>1, <1>2, TailIs, MailboxTake

\* The FSM, which waits for nothing, sends the SWx request t0.
LEMMA SendSwxKeeps ==
    ASSUME IInv, NEW S, In(S), \A s \in S : s \notin WaitStates, NEW t0 \in SwxType,
           SendSwx(t0, pid), hssAns' = hssAns, pid' = pid, lastPid' = lastPid
    PROVE  /\ hssReq' \in Seq(SwxReq) /\ Outstanding'
           /\ \A t \in SwxType : Pend(t)' => t = t0
           /\ ~RegOk'
           /\ NoDereg(hssReq) /\ t0 # "dereg" => NoDereg(hssReq')
<1>1. /\ pid \in 1..lastPid /\ lastPid \in Nat /\ hssReq \in Seq(SwxReq)
      /\ hssAns \in SUBSET SwxAns /\ OutstandingOf(hssReq, hssAns, pid, lastPid)
      /\ \A t \in SwxType : ~PendOf(hssReq, hssAns, pid, t)
  BY FsmIdle DEF IInv, Types, Outstanding
<1>2. PICK r : r = Append(hssReq, [t |-> t0, pid |-> pid])
  OBVIOUS
<1>3. /\ r \in Seq(SwxReq) /\ OutstandingOf(r, hssAns, pid, lastPid)
      /\ \A t \in SwxType : PendOf(r, hssAns, pid, t) => t = t0
      /\ ~RegOkOf(hssAns, pid)
      /\ NoDereg(hssReq) /\ t0 # "dereg" => NoDereg(r)
  BY <1>1, <1>2, OutstandingSend
<1>4. hssReq' = r
  BY <1>2 DEF SendSwx
<1> QED
  BY <1>3, <1>4 DEF Outstanding, Pend, RegOk

\* A request for authentication.
LEMMA RxDerAuthRequestKeeps == IInv /\ RxDerAuthRequest => IInv'
<1> SUFFICES ASSUME IInv, RxDerAuthRequest PROVE IInv'
  OBVIOUS
<1>1. RxSwm("der") /\ "der" \in Casts /\ epdg' = epdg
  BY DEF RxDerAuthRequest, Casts
<1>2. /\ swmQ' \in Seq(SwmMsg) /\ MailboxOf(swmQ', pid, lastPid, call)
      /\ hssAns' = hssAns /\ hssReg' = hssReg /\ rtr' = rtr /\ s6b' = s6b /\ hssReq \in Seq(SwxReq)
      /\ hssAns \in SUBSET SwxAns /\ OutstandingOf(hssReq, hssAns, pid, lastPid) /\ lastPid \in Nat
  BY <1>1, RxSwmMailbox DEF RxSwm, s6bVars, IInv, Types, Outstanding, Lives
<1>3. CASE (UNCHANGED fsmVars \/ Terminate) /\ UNCHANGED hssReq
  <2>1. Rest'
    BY <1>1, <1>3, RxSwmRest DEF IInv, Lives, fsmVars, Terminate
  <2> QED
    BY <1>1, <1>2, <1>3, <2>1, QuietStep DEF RxSwm
<1>4. CASE /\ NotFound /\ pid' = lastPid + 1 /\ lastPid' = lastPid + 1
           /\ data' = InitData /\ UNCHANGED call
           /\ \/ state' = "wait_swx_maa" /\ SendSwx("mar", pid')
              \/ state' = "new" /\ UNCHANGED hssReq
  <2>1. call' = NoCall /\ lastPid' \in Nat /\ pid' # 0 /\ pid' = lastPid'
    BY <1>2, <1>4 DEF NotFound, IInv, Lives
  <2>2. PICK n : n = lastPid + 1
    OBVIOUS
  <2>3. n \in Nat /\ n \in 1..n /\ pid' = n /\ lastPid' = n
    BY <1>2, <1>4, <2>2
  <2>4. Mailbox'
    BY <1>2, <1>4, <2>1, MailboxSame DEF Mailbox
  <2>5. /\ OutstandingOf(hssReq, hssAns, n, n) /\ ~RegOkOf(hssAns, n)
        /\ \A t : ~PendOf(hssReq, hssAns, n, t)
    BY <1>2, <2>2, OutstandingBirth
  <2>6. Rest'
    BY <1>1, <1>2, <1>4, RxSwmRest
  <2>7. /\ data' \in [epdg : BOOLEAN, pgw : BOOLEAN, nai : BOOLEAN, resp : 0..MaxS6b]
        /\ data'.resp = 0
    BY <1>4, AaaBoundsAssumption DEF InitData
  <2>8. CallState'
    BY <2>1 DEF CallState, NoCall
  <2>9. CASE state' = "new" /\ UNCHANGED hssReq
    <3>1. Outstanding' /\ ~RegOk' /\ \A t \in SwxType : ~Pend(t)'
      BY <1>2, <2>3, <2>5, <2>9 DEF Outstanding, RegOk, Pend
    <3>2. state' \in States /\ call'.t # "deac"
      BY <2>1, <2>9 DEF States, CrashStates, NoCall
    <3>3. Lives' /\ Expected' /\ StaysRegistered'
      BY <2>1, <2>7, <2>8, <2>9, <3>1, <3>2, FsmMoves
    <3>4. Types'
      BY <1>2, <2>1, <2>6, <2>7, <2>9 DEF Types, IInv, NoCall
    <3> QED
      BY <2>4, <2>8, <3>1, <3>3, <3>4 DEF IInv
  <2>10. CASE state' = "wait_swx_maa" /\ SendSwx("mar", pid')
    <3>1. PICK r : r = Append(hssReq, [t |-> "mar", pid |-> n])
      OBVIOUS
    <3>2. "mar" \in SwxType
      BY DEF SwxType
    <3>3. /\ r \in Seq(SwxReq) /\ OutstandingOf(r, hssAns, n, n)
          /\ \A t \in SwxType : PendOf(r, hssAns, n, t) => t = "mar"
      BY <1>2, <2>3, <2>5, <3>1, <3>2, OutstandingSend
    <3>4. hssReq' = r
      BY <2>3, <2>10, <3>1 DEF SendSwx
    <3>5. Outstanding' /\ ~RegOk' /\ \A t \in SwxType : Pend(t)' => t = "mar"
      BY <1>2, <2>3, <2>5, <3>3, <3>4 DEF Outstanding, RegOk, Pend
    <3>6. state' \in WaitStates /\ state' = AnswerState("mar")
      BY <2>10 DEF WaitStates, AnswerState
    <3>7. Lives' /\ Expected' /\ StaysRegistered'
      BY <2>1, <2>7, <3>2, <3>5, <3>6, FsmSends
    <3>8. Types'
      BY <1>2, <2>1, <2>6, <2>7, <3>3, <3>4 DEF Types, IInv, NoCall
    <3> QED
      BY <2>4, <2>8, <3>5, <3>7, <3>8 DEF IInv
  <2> QED
    BY <1>4, <2>9, <2>10
<1>5. CASE In({"new", "authenticated"}) /\ Become("new", data) /\ UNCHANGED hssReq
  <2>1. /\ pid = lastPid /\ pid # 0 /\ call = NoCall /\ ~RegOk /\ \A t \in SwxType : ~Pend(t)
    BY <1>5, FsmIdle DEF WaitStates
  <2>2. /\ pid' = pid /\ lastPid' = lastPid /\ call' = NoCall /\ data' = data /\ state' = "new"
    BY <1>5, <2>1 DEF Become
  <2>3. ~RegOk' /\ (\A t \in SwxType : ~Pend(t)') /\ Outstanding' /\ Mailbox'
    BY <1>2, <1>5, <2>1, <2>2 DEF RegOk, Pend, Outstanding, Mailbox
  <2>4. CallState' /\ state' \in States /\ call'.t # "deac"
    BY <2>2 DEF CallState, NoCall, States, CrashStates
  <2>5. data'.resp = 0
    BY <1>5, <2>2 DEF IInv, Expected, In
  <2>6. Lives' /\ Expected' /\ StaysRegistered'
    BY <1>2, <2>1, <2>2, <2>3, <2>4, <2>5, FsmMoves
  <2>7. Rest'
    BY <1>1, <1>2, <2>2, RxSwmRest
  <2>8. Types'
    BY <1>2, <1>5, <2>1, <2>2, <2>7 DEF Types, IInv
  <2> QED
    BY <2>3, <2>4, <2>6, <2>8 DEF IInv
<1>6. CASE /\ In({"new", "authenticated"})
           /\ Become("wait_swx_maa", data) /\ SendSwx("mar", pid)
  <2>1. pid = lastPid /\ pid # 0 /\ call = NoCall
    BY <1>6, FsmIdle DEF WaitStates
  <2>2. pid' = pid /\ lastPid' = lastPid /\ call' = NoCall /\ data' = data /\ state' = "wait_swx_maa"
    BY <1>6, <2>1 DEF Become
  <2>3. "mar" \in SwxType /\ \A s \in {"new", "authenticated"} : s \notin WaitStates
    BY DEF SwxType, WaitStates
  <2>4. /\ hssReq' \in Seq(SwxReq) /\ Outstanding' /\ ~RegOk'
        /\ \A t \in SwxType : Pend(t)' => t = "mar"
    BY <1>2, <1>6, <2>2, <2>3, SendSwxKeeps
  <2>5. state' \in WaitStates /\ state' = AnswerState("mar")
    BY <2>2 DEF WaitStates, AnswerState
  <2>6. data'.resp = 0
    BY <1>6, <2>2 DEF IInv, Expected, In
  <2>7. Lives' /\ CallState' /\ Expected' /\ StaysRegistered'
    BY <1>2, <2>1, <2>2, <2>3, <2>4, <2>5, <2>6, FsmSends
  <2>8. Rest'
    BY <1>1, <1>2, <2>2, RxSwmRest
  <2>9. Types' /\ Mailbox'
    BY <1>2, <2>1, <2>2, <2>4, <2>8 DEF Types, IInv, Mailbox
  <2> QED
    BY <2>4, <2>7, <2>9 DEF IInv
<1> QED
  BY <1>3, <1>4, <1>5, <1>6 DEF RxDerAuthRequest

DataType == [epdg : BOOLEAN, pgw : BOOLEAN, nai : BOOLEAN, resp : 0..MaxS6b]

\* A step in which the idle FSM sends the SWx request t0 and waits for its answer.
LEMMA SendStep ==
    ASSUME IInv, NEW S, In(S), \A s \in S : s \notin WaitStates,
           NEW t0 \in SwxType, SendSwx(t0, pid), UNCHANGED <<hssAns, hssReg, rtr>>,
           NEW s \in WaitStates, s = AnswerState(t0), NEW d \in DataType, Become(s, d),
           swmQ' \in Seq(SwmMsg), MailboxOf(swmQ', pid, lastPid, call), Rest',
           t0 = "pgw" => state = "authenticated" /\ d.resp # 0 /\ s6b'[d.resp] = "aar_wait",
           t0 = "dereg" => /\ d.resp = 0 \/ s6b'[d.resp] = "str_wait"
                           /\ ~(d.epdg /\ d.pgw),
           d.resp # 0 => s = "authenticated_wait_swx_saa"
    PROVE  IInv'
<1>1. pid = lastPid /\ pid # 0 /\ lastPid \in Nat /\ call = NoCall
  BY FsmIdle
<1>2. pid' = pid /\ lastPid' = lastPid /\ call' = NoCall /\ data' = d /\ state' = s
  BY <1>1 DEF Become
<1>3. /\ hssReq' \in Seq(SwxReq) /\ Outstanding' /\ ~RegOk'
      /\ \A t \in SwxType : Pend(t)' => t = t0
      /\ NoDereg(hssReq) /\ t0 # "dereg" => NoDereg(hssReq')
  BY <1>2, SendSwxKeeps
<1>4. t0 = "pgw" => Registered'
  BY <1>3 DEF IInv, StaysRegistered, Registered
<1>5. Lives' /\ CallState' /\ Expected' /\ StaysRegistered'
  BY <1>1, <1>2, <1>3, <1>4, FsmSends
<1>6. Types' /\ Mailbox'
  BY <1>1, <1>2, <1>3 DEF Types, IInv, Mailbox, DataType
<1> QED
  BY <1>3, <1>5, <1>6 DEF IInv

\* A step in which the FSM moves on and no SWx request is left outstanding.
LEMMA MoveStep ==
    ASSUME IInv, Alive, pid' = pid, lastPid' = lastPid,
           hssReq' = hssReq, hssAns' \subseteq hssAns, Outstanding',
           \A t \in SwxType : ~Pend(t)', ~RegOk',
           swmQ' \in Seq(SwmMsg), Mailbox', Rest', data' \in DataType, state' \in States,
           call' \in [t : {"none"} \cup SwmCalls, ok : BOOLEAN], call'.t = "none" => call' = NoCall,
           CallState',
           data'.resp # 0 => state' = "authenticated_wait_swx_saa",
           state' = "authenticated" => data'.epdg \/ data'.pgw,
           state' = "authenticated" \/ (call'.t = "deac" /\ call'.ok) => Registered'
    PROVE  IInv'
<1>1. pid' = lastPid' /\ pid' # 0 /\ lastPid' \in Nat
  BY DEF IInv, Lives, Alive
<1>2. Lives' /\ Expected' /\ StaysRegistered'
  BY <1>1, FsmMoves
<1>3. Types'
  BY DEF Types, IInv, DataType
<1> QED
  BY <1>2, <1>3 DEF IInv

\* A step in which the idle FSM takes on new data or another idle state.
LEMMA IdleStep ==
    ASSUME IInv, NEW S, In(S), \A s \in S : s \notin WaitStates,
           UNCHANGED <<hssReq, hssAns>>, NEW s, s \in States, NEW d \in DataType, Become(s, d),
           swmQ' \in Seq(SwmMsg), MailboxOf(swmQ', pid, lastPid, call), Rest',
           d.resp = 0, s = "authenticated" => (d.epdg \/ d.pgw) /\ Registered'
    PROVE  IInv'
<1>1. /\ pid = lastPid /\ pid # 0 /\ call = NoCall /\ Alive
      /\ ~RegOk /\ \A t \in SwxType : ~Pend(t)
  BY FsmIdle DEF Alive
<1>2. pid' = pid /\ lastPid' = lastPid /\ call' = NoCall /\ data' = d /\ state' = s
  BY <1>1 DEF Become
<1>3. ~RegOk' /\ (\A t \in SwxType : ~Pend(t)') /\ Outstanding' /\ Mailbox'
  BY <1>1, <1>2 DEF RegOk, Pend, Outstanding, Mailbox, IInv
<1>4. CallState' /\ call'.t = "none"
  BY <1>2 DEF CallState, NoCall
<1>5. call' \in [t : {"none"} \cup SwmCalls, ok : BOOLEAN]
  BY <1>2 DEF NoCall
<1> QED
  BY <1>1, <1>2, <1>3, <1>4, <1>5, MoveStep

LEMMA RxDerAuthComplRequestKeeps == IInv /\ RxDerAuthComplRequest => IInv'
<1> SUFFICES ASSUME IInv, RxDerAuthComplRequest PROVE IInv'
  OBVIOUS
<1>1. RxSwm("derc") /\ "derc" \in Casts /\ epdg' = epdg
  BY DEF RxDerAuthComplRequest, Casts
<1>2. /\ swmQ' \in Seq(SwmMsg) /\ MailboxOf(swmQ', pid, lastPid, call)
      /\ hssAns' = hssAns /\ hssReg' = hssReg /\ rtr' = rtr /\ s6b' = s6b
  BY <1>1, RxSwmMailbox DEF RxSwm, s6bVars
<1>3. CASE (UNCHANGED fsmVars \/ Terminate) /\ UNCHANGED hssReq
  <2>1. Rest'
    BY <1>1, <1>3, RxSwmRest DEF IInv, Lives, fsmVars, Terminate
  <2> QED
    BY <1>1, <1>2, <1>3, <2>1, QuietStep DEF RxSwm
<1>4. CASE In({"new"}) /\ Become("wait_swx_saa", data) /\ SendSwx("reg", pid)
  <2>1. /\ "reg" \in SwxType /\ "new" \notin WaitStates
        /\ "wait_swx_saa" \in WaitStates /\ "wait_swx_saa" = AnswerState("reg")
    BY DEF SwxType, WaitStates, AnswerState
  <2>2. Rest'
    BY <1>1, <1>4, RxSwmRest DEF IInv, Lives, Become
  <2>3. data \in DataType /\ data.resp = 0
    BY <1>4 DEF IInv, Types, DataType, Expected, In
  <2> QED
    BY <1>2, <1>4, <2>1, <2>2, <2>3, SendStep
<1> QED
  BY <1>3, <1>4 DEF RxDerAuthComplRequest

LEMMA RxSessionTerminationRequestKeeps == IInv /\ RxSessionTerminationRequest => IInv'
<1> SUFFICES ASSUME IInv, RxSessionTerminationRequest PROVE IInv'
  OBVIOUS
<1>1. RxSwm("str") /\ "str" \in Casts /\ epdg' = epdg
  BY DEF RxSessionTerminationRequest, Casts
<1>2. /\ swmQ' \in Seq(SwmMsg) /\ MailboxOf(swmQ', pid, lastPid, call)
      /\ hssAns' = hssAns /\ hssReg' = hssReg /\ rtr' = rtr /\ s6b' = s6b
      /\ data \in DataType /\ "authenticated" \notin WaitStates
  BY <1>1, RxSwmMailbox DEF RxSwm, s6bVars, IInv, Types, DataType, WaitStates
<1>3. CASE (UNCHANGED fsmVars \/ Terminate) /\ UNCHANGED hssReq
  <2>1. Rest'
    BY <1>1, <1>3, RxSwmRest DEF IInv, Lives, fsmVars, Terminate
  <2> QED
    BY <1>1, <1>2, <1>3, <2>1, QuietStep DEF RxSwm
<1>4. CASE /\ In({"authenticated"}) /\ data.epdg /\ data.pgw
           /\ Become(state, [data EXCEPT !.epdg = FALSE]) /\ UNCHANGED hssReq
  <2>1. Rest'
    BY <1>1, <1>4, RxSwmRest DEF IInv, Lives, Become
  <2>2. PICK d : d = [data EXCEPT !.epdg = FALSE]
    OBVIOUS
  <2>3. d \in DataType /\ d.resp = data.resp /\ d.pgw = data.pgw
    BY <1>2, <2>2 DEF DataType
  <2>4. state = "authenticated" /\ state \in States /\ data.resp = 0 /\ Registered
    BY <1>4 DEF In, IInv, Expected, StaysRegistered, States
  <2>5. Registered'
    BY <1>2, <1>4, <2>4 DEF Registered
  <2> QED
    BY <1>2, <1>4, <2>1, <2>2, <2>3, <2>4, <2>5, IdleStep
<1>5. CASE /\ In({"authenticated"}) /\ data.epdg /\ ~data.pgw
           /\ Become("authenticated_wait_swx_saa", data) /\ SendSwx("dereg", pid)
  <2>1. /\ "dereg" \in SwxType /\ "authenticated_wait_swx_saa" \in WaitStates
        /\ "authenticated_wait_swx_saa" = AnswerState("dereg")
    BY DEF SwxType, WaitStates, AnswerState
  <2>2. Rest'
    BY <1>1, <1>5, RxSwmRest DEF IInv, Lives, Become
  <2>3. data.resp = 0
    BY <1>5 DEF IInv, Expected, In
  <2> QED
    BY <1>2, <1>5, <2>1, <2>2, <2>3, SendStep
<1> QED
  BY <1>3, <1>4, <1>5 DEF RxSessionTerminationRequest

\* aaa_diameter_swm sends the message of a call; if its FSM still runs, it goes on.
LEMMA TxSwmKeeps == IInv /\ TxSwm => IInv'
<1> SUFFICES ASSUME IInv, TxSwm PROVE IInv'
  OBVIOUS
<1>1. PICK m : m = Head(swmQ)
  OBVIOUS
<1>2. /\ swmQ # <<>> /\ m.t \notin Casts /\ swmQ' = Tail(swmQ) /\ swmQ \in Seq(SwmMsg)
      /\ MailboxOf(swmQ, pid, lastPid, call) /\ lastPid \in Nat /\ (call # NoCall => pid # 0)
  BY <1>1 DEF TxSwm, IInv, Types, Mailbox, Lives, Alive
<1>3. m \in SwmMsg /\ swmQ' \in Seq(SwmMsg)
  BY <1>1, <1>2, TailIs
<1>4. m.t \in SwmCalls /\ m.ok \in BOOLEAN
  BY <1>2, <1>3 DEF SwmMsg
<1>5. /\ m.pid \in 1..lastPid
      /\ pid # 0 /\ m.pid = pid => /\ call = [t |-> m.t, ok |-> m.ok]
                                   /\ MailboxOf(swmQ', pid, lastPid, NoCall)
      /\ m.pid # pid => MailboxOf(swmQ', pid, lastPid, call)
  BY <1>1, <1>2, MailboxServe
<1>6. /\ hssReq' = hssReq /\ hssAns' = hssAns /\ hssReg' = hssReg /\ ppr' = ppr /\ rtr' = rtr
      /\ s6b' = s6b /\ swmWait' = swmWait /\ reqs' = reqs /\ nets' = nets
  BY DEF TxSwm, swxVars
<1>7. epdg' \subseteq SwmCalls
  <2>1. epdg' = epdg \cup {m.t} \/ epdg' = epdg
    BY <1>1 DEF TxSwm
  <2> QED
    BY <1>4, <2>1 DEF IInv, Types, Rest
<1>8. CASE m.pid = pid /\ Resume(m.t, m.ok) /\ call' = NoCall /\ UNCHANGED <<pid, lastPid>>
  <2>1. pid # 0 /\ Alive
    BY <1>5, <1>8 DEF Alive
  <2>2. call = [t |-> m.t, ok |-> m.ok] /\ MailboxOf(swmQ', pid, lastPid, NoCall)
    BY <1>5, <1>8, <2>1
  <2>3. call.t = m.t /\ call.ok = m.ok /\ call # NoCall
    BY <1>4, <2>2 DEF NoCall, SwmCalls
  <2>4. (\A t \in SwxType : ~Pend(t)) /\ ~RegOk
    BY <2>3, NothingPends
  <2>5. (\A t \in SwxType : ~Pend(t)') /\ ~RegOk' /\ Outstanding' /\ Mailbox'
    BY <1>6, <1>8, <2>2, <2>4 DEF Pend, RegOk, Outstanding, Mailbox, IInv
  <2>6. s6bAns' \subseteq {"raa", "asa"}
    BY <1>8 DEF Resume, SendS6b, IInv, Types, Rest
  <2>7. Rest'
    BY <1>6, <1>7, <1>8, <2>6 DEF IInv, Types, Rest
  <2>8. CallState' /\ call'.t = "none" /\ call' \in [t : {"none"} \cup SwmCalls, ok : BOOLEAN]
    BY <1>8 DEF CallState, NoCall
  <2>9. data \in DataType /\ (data.resp # 0 => state = "authenticated_wait_swx_saa")
    BY DEF IInv, Types, DataType, Expected
  <2>10. /\ state' \in States /\ data' \in DataType
         /\ data'.resp # 0 => state' = "authenticated_wait_swx_saa"
         /\ state' = "authenticated" => (data'.epdg \/ data'.pgw) /\ Registered'
    <3>1. CASE m.t = "dea"
      <4>1. state = "wait_swx_maa" /\ state' = "new" /\ data' = data
        BY <1>8, <2>3, <3>1 DEF Resume, IInv, CallState
      <4> QED
        BY <2>9, <4>1 DEF States, CrashStates
    <3>2. CASE m.t = "deac" /\ m.ok
      <4>1. state = "wait_swx_saa" /\ Registered
        BY <2>3, <3>2 DEF IInv, CallState, StaysRegistered
      <4>2. state' = "authenticated" /\ data' = [data EXCEPT !.epdg = TRUE]
        BY <1>8, <3>2 DEF Resume, Entered
      <4>3. Registered'
        BY <1>6, <4>1 DEF Registered
      <4>4. data' \in DataType /\ data'.resp = data.resp /\ data'.epdg
        BY <2>9, <4>2 DEF DataType
      <4> QED
        BY <2>9, <4>1, <4>2, <4>3, <4>4 DEF States
    <3>3. CASE m.t = "deac" /\ ~m.ok
      <4>1. state = "wait_swx_saa"
        BY <2>3, <3>3 DEF IInv, CallState
      <4>2. state' = "new" /\ data' = data
        BY <1>8, <3>3 DEF Resume, Entered
      <4> QED
        BY <2>9, <4>1, <4>2 DEF States, CrashStates
    <3>4. CASE m.t = "sta"
      <4>1. data.resp = 0
        BY <2>3, <3>4 DEF IInv, CallState
      <4>2. state' = "new" /\ data' = [data EXCEPT !.epdg = FALSE]
        BY <1>8, <3>4 DEF Resume
      <4>3. data' \in DataType /\ data'.resp = data.resp
        BY <2>9, <4>2 DEF DataType
      <4> QED
        BY <4>1, <4>2, <4>3 DEF States, CrashStates
    <3>5. CASE m.t = "rar" \/ m.t = "asr"
      <4>1. state' = state /\ data' = data
        BY <1>8, <3>5 DEF Resume
      <4>2. Registered => Registered'
        BY <1>6 DEF Registered
      <4> QED
        BY <2>1, <2>9, <4>1, <4>2 DEF IInv, Lives, Expected, StaysRegistered
    <3> QED
      BY <1>4, <3>1, <3>2, <3>3, <3>4, <3>5 DEF SwmCalls
  <2> QED
    BY <1>3, <1>6, <1>8, <2>1, <2>5, <2>7, <2>8, <2>10, MoveStep
<1>9. CASE m.pid # pid /\ UNCHANGED <<fsmVars, s6bAns>>
  <2>1. Rest'
    BY <1>6, <1>7, <1>9 DEF IInv, Types, Rest, fsmVars
  <2>2. Mailbox' /\ Outstanding'
    BY <1>5, <1>6, <1>9 DEF Mailbox, Outstanding, IInv, fsmVars
  <2>3. (\A t \in SwxType : Pend(t)' => Pend(t)) /\ (RegOk' => RegOk) /\ (Registered => Registered')
    BY <1>6, <1>9 DEF Pend, RegOk, Registered, fsmVars
  <2>4. Lives' /\ CallState' /\ Expected' /\ StaysRegistered'
    BY <1>6, <1>9, <2>3, FsmSame
  <2>5. Types'
    BY <1>3, <1>6, <1>9, <2>1 DEF Types, IInv, fsmVars
  <2> QED
    BY <2>2, <2>4, <2>5 DEF IInv
<1> QED
  BY <1>1, <1>8, <1>9 DEF TxSwm

LEMMA SwmStepKeeps == IInv /\ SwmStep => IInv'
  BY SwmBlocksKeeps, RxDerAuthRequestKeeps, RxDerAuthComplRequestKeeps, RxReauthAnswerKeeps,
     RxSessionTerminationRequestKeeps, RxAbortSessionAnswerKeeps, TxSwmKeeps DEF SwmStep

(***************************************************************************)
(* The answers and the requests of the HSS.                                *)
(***************************************************************************)
\* The answer to the request of the running FSM is taken; in its state, and with
\* no other request outstanding, the FSM calls aaa_diameter_swm.
LEMMA AnswerTaken ==
    ASSUME IInv, NEW a \in hssAns, a.pid = pid, Alive, RxSwx(a), pid' = pid, lastPid' = lastPid
    PROVE  /\ (\A t \in SwxType : ~Pend(t)') /\ ~RegOk' /\ Outstanding' /\ Pend(a.t)
           /\ hssReq' = hssReq /\ hssAns' \subseteq hssAns /\ a \in SwxAns
           /\ pid \in 1..lastPid /\ lastPid \in Nat /\ (Registered => Registered')
<1>1. /\ lastPid \in Nat /\ hssReq \in Seq(SwxReq) /\ OutstandingOf(hssReq, hssAns, pid, lastPid)
      /\ pid # 0 /\ pid = lastPid /\ a \in SwxAns
  BY DEF IInv, Lives, Alive, Types, Outstanding
<1>2. hssAns' = hssAns \ {a} /\ hssReq' = hssReq /\ hssReg' = hssReg /\ rtr' = rtr
  BY DEF RxSwx
<1>3. /\ OutstandingOf(hssReq, hssAns \ {a}, pid, lastPid)
      /\ \A t : ~PendOf(hssReq, hssAns \ {a}, pid, t)
      /\ ~RegOkOf(hssAns \ {a}, pid)
  BY <1>1, OutstandingAnswered
<1>4. (\A t \in SwxType : ~Pend(t)') /\ ~RegOk' /\ Outstanding'
  BY <1>2, <1>3 DEF Pend, RegOk, Outstanding
<1>5. Pend(a.t)
  BY <1>1 DEF Pend, PendOf
<1>6. pid \in 1..lastPid
  BY <1>1
<1> QED
  BY <1>1, <1>2, <1>4, <1>5, <1>6 DEF Registered

\* The FSM calls aaa_diameter_swm, out of a state in which it may make that call.
LEMMA CallStep ==
    ASSUME IInv, Alive, call = NoCall, hssReq' = hssReq, hssAns' \subseteq hssAns, Outstanding',
           \A t \in SwxType : ~Pend(t)', ~RegOk',
           NEW t0 \in SwmCalls, NEW ok \in BOOLEAN, CallSwm(t0, ok), data' = data, Rest',
           state' \in States, CallState', data.resp # 0 => state' = "authenticated_wait_swx_saa",
           state' = "authenticated" => data.epdg \/ data.pgw,
           state' = "authenticated" \/ (t0 = "deac" /\ ok) => Registered'
    PROVE  IInv'
<1>1. /\ pid = lastPid /\ pid # 0 /\ lastPid \in Nat /\ swmQ \in Seq(SwmMsg)
      /\ MailboxOf(swmQ, pid, lastPid, NoCall) /\ data \in DataType
  BY DEF IInv, Lives, Alive, Types, Mailbox, DataType
<1>2. pid \in 1..lastPid
  BY <1>1
<1>3. PICK q, c : q = Append(swmQ, [t |-> t0, pid |-> pid, ok |-> ok]) /\ c = [t |-> t0, ok |-> ok]
  OBVIOUS
<1>4. q \in Seq(SwmMsg) /\ MailboxOf(q, pid, lastPid, c)
  BY <1>1, <1>2, <1>3, MailboxCall
<1>5. swmQ' = q /\ call' = c /\ pid' = pid /\ lastPid' = lastPid
  BY <1>3 DEF CallSwm
<1>6. swmQ' \in Seq(SwmMsg) /\ Mailbox'
  BY <1>4, <1>5 DEF Mailbox
<1>7. /\ call' \in [t : {"none"} \cup SwmCalls, ok : BOOLEAN]
      /\ call'.t = t0 /\ call'.ok = ok /\ call'.t # "none"
  BY <1>3, <1>5 DEF SwmCalls
<1> QED
  BY <1>1, <1>5, <1>6, <1>7, MoveStep

LEMMA RxMaaKeeps == ASSUME IInv, NEW a \in hssAns, RxMaa(a) PROVE IInv'
<1>1. /\ a.pid = pid /\ RxSwx(a) /\ Alive /\ call = NoCall /\ state = "wait_swx_maa"
      /\ CallSwm("dea", a.ok) /\ state' = state /\ data' = data /\ pid' = pid /\ lastPid' = lastPid
      /\ call' = [t |-> "dea", ok |-> a.ok]
  BY DEF RxMaa, In, CallSwm
<1>2. /\ (\A t \in SwxType : ~Pend(t)') /\ ~RegOk' /\ Outstanding'
      /\ hssReq' = hssReq /\ hssAns' \subseteq hssAns /\ a \in SwxAns
  BY <1>1, AnswerTaken
<1>3. Rest'
  BY <1>1 DEF RxMaa, RxSwx, IInv, Types, Rest, s6bVars, envVars
<1>4. CallState' /\ a.ok \in BOOLEAN /\ "dea" \in SwmCalls /\ state \in States
  BY <1>1, <1>2 DEF CallState, SwxAns, SwmCalls, States, CrashStates, WaitStates
<1>5. data.resp = 0
  BY <1>1 DEF IInv, Expected
<1> QED
  BY <1>1, <1>2, <1>3, <1>4, <1>5, CallStep

LEMMA RxSaaRegistrationKeeps == ASSUME IInv, NEW a \in hssAns, RxSaaRegistration(a) PROVE IInv'
<1>1. /\ a.pid = pid /\ RxSwx(a) /\ Alive /\ call = NoCall /\ state = "wait_swx_saa" /\ a.t = "reg"
      /\ CallSwm("deac", a.ok) /\ state' = state /\ data' = data /\ pid' = pid /\ lastPid' = lastPid
      /\ call' = [t |-> "deac", ok |-> a.ok]
  BY DEF RxSaaRegistration, In, CallSwm
<1>2. /\ (\A t \in SwxType : ~Pend(t)') /\ ~RegOk' /\ Outstanding'
      /\ hssReq' = hssReq /\ hssAns' \subseteq hssAns /\ a \in SwxAns /\ (Registered => Registered')
  BY <1>1, AnswerTaken
<1>3. Rest'
  BY <1>1 DEF RxSaaRegistration, RxSwx, IInv, Types, Rest, s6bVars, envVars
<1>4. CallState' /\ a.ok \in BOOLEAN /\ "deac" \in SwmCalls /\ state \in States
  BY <1>1, <1>2 DEF CallState, SwxAns, SwmCalls, States, CrashStates, WaitStates
<1>5. data.resp = 0
  BY <1>1 DEF IInv, Expected
<1>6. a.ok => Registered'
  <2>1. a.ok => RegOk
    BY <1>1 DEF RegOk, RegOkOf, Alive
  <2> QED
    BY <1>2, <2>1 DEF IInv, StaysRegistered
<1> QED
  BY <1>1, <1>2, <1>3, <1>4, <1>5, <1>6, CallStep

LEMMA RxSaaPgwUpdateKeeps == ASSUME IInv, NEW a \in hssAns, RxSaaPgwUpdate(a) PROVE IInv'
<1>1. PICK d : d = Entered("authenticated", [data EXCEPT !.pgw = TRUE, !.resp = 0])
  OBVIOUS
<1>2. /\ a.pid = pid /\ RxSwx(a) /\ Alive /\ call = NoCall /\ a.t = "pgw"
      /\ state = "authenticated_wait_swx_saa" /\ state' = "authenticated" /\ data' = d
      /\ pid' = pid /\ lastPid' = lastPid /\ call' = NoCall /\ swmQ' = swmQ
      /\ S6bBecomes(data.resp, "done")
  BY <1>1 DEF RxSaaPgwUpdate, In, Become, swmVars
<1>3. /\ (\A t \in SwxType : ~Pend(t)') /\ ~RegOk' /\ Outstanding' /\ Pend("pgw")
      /\ hssReq' = hssReq /\ hssAns' \subseteq hssAns /\ (Registered => Registered')
  BY <1>2, AnswerTaken
<1>4. data \in DataType
  BY DEF IInv, Types, DataType
<1>5. d \in DataType /\ d.resp = 0 /\ d.pgw = TRUE
  <2>1. 0 \in 0..MaxS6b
    BY AaaBoundsAssumption
  <2>2. d = [epdg |-> TRUE, pgw |-> TRUE, nai |-> data.nai, resp |-> 0]
    BY <1>1, <1>4 DEF DataType, Entered
  <2> QED
    BY <1>4, <2>1, <2>2 DEF DataType
<1>6. Registered'
  BY <1>3 DEF IInv, StaysRegistered
<1>7. data.resp \in S6bProcs
  BY <1>3, <1>4 DEF IInv, Expected, DataType, S6bProcs
<1>8. s6b' \in [S6bProcs -> S6bStates]
  BY <1>2, <1>7, S6bKept DEF IInv, Types, Rest, S6bStates
<1>9. Rest'
  BY <1>2, <1>8 DEF RxSaaPgwUpdate, RxSwx, IInv, Types, Rest, swmVars, envVars
<1>10. CallState' /\ call'.t = "none" /\ call' \in [t : {"none"} \cup SwmCalls, ok : BOOLEAN]
  BY <1>2 DEF CallState, NoCall
<1>11. swmQ' \in Seq(SwmMsg) /\ Mailbox' /\ state' \in States
  BY <1>2 DEF IInv, Types, Mailbox, States
<1> QED
  BY <1>2, <1>3, <1>5, <1>6, <1>9, <1>10, <1>11, MoveStep

LEMMA RxSaaDeregistrationKeeps ==
    ASSUME IInv, NEW a \in hssAns, RxSaaDeregistration(a) PROVE IInv'
<1>1. /\ a.pid = pid /\ RxSwx(a) /\ Alive /\ call = NoCall
      /\ state = "authenticated_wait_swx_saa" /\ pid' = pid /\ lastPid' = lastPid
  BY DEF RxSaaDeregistration, In, CallSwm, Become
<1>2. /\ (\A t \in SwxType : ~Pend(t)') /\ ~RegOk' /\ Outstanding'
      /\ hssReq' = hssReq /\ hssAns' \subseteq hssAns /\ a \in SwxAns
  BY <1>1, AnswerTaken
<1>3. data \in DataType
  BY DEF IInv, Types, DataType
<1>4. CASE data.resp = 0 /\ CallSwm("sta", a.ok) /\ UNCHANGED <<state, data, swmWait, s6bVars>>
  <2>1. Rest'
    BY <1>1, <1>4 DEF RxSwx, IInv, Types, Rest, s6bVars, envVars
  <2>2. CallState' /\ a.ok \in BOOLEAN /\ "sta" \in SwmCalls /\ state \in States
    BY <1>1, <1>2, <1>4
       DEF CallState, CallSwm, SwxAns, SwmCalls, States, CrashStates, WaitStates
  <2> QED
    BY <1>1, <1>2, <1>4, <2>1, <2>2, CallStep
<1>5. CASE /\ data.resp # 0 /\ S6bBecomes(data.resp, "done")
           /\ Become("new", [data EXCEPT !.pgw = FALSE, !.resp = 0])
           /\ UNCHANGED <<swmVars, s6bAns>>
  <2>1. PICK d : d = [data EXCEPT !.pgw = FALSE, !.resp = 0]
    OBVIOUS
  <2>2. d \in DataType /\ d.resp = 0
    <3>1. 0 \in 0..MaxS6b
      BY AaaBoundsAssumption
    <3>2. d = [epdg |-> data.epdg, pgw |-> FALSE, nai |-> data.nai, resp |-> 0]
      BY <1>3, <2>1 DEF DataType
    <3> QED
      BY <1>3, <3>1, <3>2 DEF DataType
  <2>3. state' = "new" /\ data' = d /\ call' = NoCall
    BY <1>1, <1>5, <2>1 DEF Become
  <2>4. data.resp \in S6bProcs
    BY <1>3, <1>5 DEF DataType, S6bProcs
  <2>5. s6b' \in [S6bProcs -> S6bStates]
    BY <1>5, <2>4, S6bKept DEF IInv, Types, Rest, S6bStates
  <2>6. Rest'
    BY <1>1, <1>5, <2>5 DEF RxSwx, IInv, Types, Rest, swmVars, envVars
  <2>7. CallState' /\ call'.t = "none" /\ call' \in [t : {"none"} \cup SwmCalls, ok : BOOLEAN]
    BY <2>3 DEF CallState, NoCall
  <2>8. swmQ' \in Seq(SwmMsg) /\ Mailbox' /\ state' \in States
    BY <1>1, <1>5, <2>3 DEF IInv, Types, Mailbox, States, CrashStates, swmVars
  <2> QED
    BY <1>1, <1>2, <2>2, <2>3, <2>6, <2>7, <2>8, MoveStep
<1> QED
  BY <1>4, <1>5 DEF RxSaaDeregistration

LEMMA RxLateSwxKeeps == ASSUME IInv, NEW a \in hssAns, RxLateSwx(a) PROVE IInv'
<1>1. Rest'
  BY DEF RxLateSwx, RxSwx, IInv, Types, Rest, fsmVars, swmVars, s6bVars, envVars
<1>2. hssAns' \subseteq hssAns /\ hssReq' = hssReq /\ hssReg' = hssReg /\ rtr' = rtr
  BY DEF RxLateSwx, RxSwx
<1> QED
  BY <1>1, <1>2, QuietStep DEF RxLateSwx, swmVars, s6bVars

LEMMA RxPprKeeps == IInv /\ RxPpr => IInv'
<1> SUFFICES ASSUME IInv, RxPpr PROVE IInv'
  OBVIOUS
<1>1. /\ hssReq' = hssReq /\ hssAns' = hssAns /\ hssReg' = hssReg /\ rtr' = rtr /\ ppr' = FALSE
      /\ s6b' = s6b /\ s6bAns' = s6bAns /\ epdg' = epdg /\ reqs' = reqs /\ nets' = nets
  BY DEF RxPpr, s6bVars, envVars
<1>2. CASE In({"authenticated"}) /\ CallSwm("rar", TRUE) /\ UNCHANGED <<state, data, swmWait>>
  <2>1. /\ ~RegOk /\ (\A t \in SwxType : ~Pend(t)) /\ state = "authenticated" /\ Alive
        /\ call = NoCall /\ Registered /\ data.resp = 0 /\ (data.epdg \/ data.pgw)
    <3>1. ~RegOk /\ \A t \in SwxType : ~Pend(t)
      BY <1>2, FsmIdle DEF WaitStates
    <3>2. state = "authenticated" /\ Alive /\ call = NoCall
      BY <1>2 DEF In
    <3> QED
      BY <3>1, <3>2 DEF IInv, StaysRegistered, Expected
  <2>2. pid' = pid /\ lastPid' = lastPid /\ call' = [t |-> "rar", ok |-> TRUE]
    BY <1>2 DEF CallSwm
  <2>3. (\A t \in SwxType : ~Pend(t)') /\ ~RegOk' /\ Outstanding' /\ Registered'
    BY <1>1, <2>1, <2>2 DEF RegOk, Pend, Outstanding, IInv, Registered
  <2>4. Rest'
    BY <1>1, <1>2, <2>2 DEF IInv, Types, Rest
  <2>5. CallState' /\ "rar" \in SwmCalls /\ state \in States
    BY <1>2, <2>1, <2>2 DEF CallState, SwmCalls, States
  <2> QED
    BY <1>1, <1>2, <2>1, <2>3, <2>4, <2>5, CallStep
<1>3. CASE (UNCHANGED fsmVars \/ Terminate) /\ UNCHANGED swmVars
  <2>1. lastPid' = lastPid
    BY <1>3 DEF fsmVars, Terminate
  <2>2. Rest'
    BY <1>1, <1>3, <2>1 DEF IInv, Types, Rest, swmVars
  <2> QED
    BY <1>1, <1>3, <2>2, QuietStep DEF swmVars
<1> QED
  BY <1>2, <1>3 DEF RxPpr, Unexpected

LEMMA RxRtrKeeps == IInv /\ RxRtr => IInv'
<1> SUFFICES ASSUME IInv, RxRtr PROVE IInv'
  OBVIOUS
<1>1. /\ hssReq' = hssReq /\ hssAns' = hssAns /\ hssReg' = hssReg /\ rtr' = "no" /\ ppr' = ppr
      /\ s6b' = s6b /\ epdg' = epdg /\ reqs' = reqs /\ nets' = nets
      /\ swmQ' = swmQ /\ swmWait' = swmWait
      /\ swmQ \in Seq(SwmMsg) /\ MailboxOf(swmQ, pid, lastPid, call) /\ data \in DataType
  BY DEF RxRtr, envVars, swmVars, IInv, Types, Mailbox, DataType
<1>2. ASSUME s6bAns' \subseteq {"raa", "asa"}, lastPid' = lastPid PROVE Rest'
  BY <1>1, <1>2 DEF IInv, Types, Rest
<1>3. CASE Terminate /\ UNCHANGED s6bAns
  <2>1. Rest'
    BY <1>2, <1>3 DEF IInv, Types, Rest, Terminate
  <2> QED
    BY <1>1, <1>3, <2>1, QuietStep
<1>4. CASE /\ In({"authenticated"}) /\ Become("dereg_net_initiated_wait_s6b_asa", data)
           /\ SendS6b("asa")
  <2>1. Rest'
    BY <1>2, <1>4 DEF IInv, Types, Rest, Become, SendS6b
  <2>2. "authenticated" \notin WaitStates /\ "dereg_net_initiated_wait_s6b_asa" \in States
    BY DEF WaitStates, States, DeregStates
  <2>3. data.resp = 0
    BY <1>4 DEF In, IInv, Expected
  <2> QED
    BY <1>1, <1>4, <2>1, <2>2, <2>3, IdleStep
<1>5. CASE In(DeregStates) /\ UNCHANGED fsmVars /\ UNCHANGED s6bAns
  <2>1. Rest'
    BY <1>2, <1>5 DEF IInv, Types, Rest, fsmVars
  <2>2. /\ \A s \in DeregStates : s \notin WaitStates
        /\ state \in DeregStates /\ state \in States /\ state # "authenticated"
    BY <1>5 DEF In, WaitStates, States, DeregStates
  <2>3. data.resp = 0
    BY <2>2 DEF IInv, Expected, DeregStates
  <2>4. Become(state, data)
    BY <1>5 DEF Become, fsmVars
  <2> QED
    BY <1>1, <1>5, <2>1, <2>2, <2>3, <2>4, IdleStep
<1>6. CASE ~Alive /\ UNCHANGED <<fsmVars, s6bAns>>
  <2>1. Terminate
    BY <1>6 DEF IInv, Lives, Alive, Terminate, fsmVars
  <2> QED
    BY <1>3, <1>6, <2>1
<1>7. In(CrashStates \cup DeregStates) /\ Unexpected => Terminate \/ (In(DeregStates) /\ UNCHANGED fsmVars)
  BY DEF In, Unexpected, CrashStates, DeregStates, WaitStates
<1> QED
  BY <1>3, <1>4, <1>5, <1>6, <1>7 DEF RxRtr

LEMMA SwxStepKeeps == IInv /\ SwxStep => IInv'
  BY RxMaaKeeps, RxSaaPgwUpdateKeeps, RxSaaDeregistrationKeeps, RxSaaRegistrationKeeps,
     RxLateSwxKeeps, RxPprKeeps, RxRtrKeeps DEF SwxStep

(***************************************************************************)
(* The requests and the answers of the PGW, and the timers.                *)
(***************************************************************************)
\* What a request of the PGW leaves alone, and what it does to its process.
LEMMA S6bReqRest ==
    ASSUME IInv, NEW i \in S6bProcs, NEW st \in {"aar", "str", "str_nai"}, S6bReq(i, st),
           NEW st2 \in S6bStates, S6bBecomes(i, st2), lastPid' = lastPid
    PROVE  /\ Rest' /\ s6b'[i] = st2
           /\ \A j \in S6bProcs : s6b[j] \in {"aar_wait", "str_wait"} => s6b'[j] = s6b[j]
           /\ hssAns' = hssAns /\ hssReg' = hssReg /\ rtr' = rtr /\ swmQ' = swmQ
           /\ swmQ \in Seq(SwmMsg) /\ MailboxOf(swmQ, pid, lastPid, call) /\ data \in DataType
<1>1. /\ s6b[i] \notin {"aar_wait", "str_wait"} /\ hssAns' = hssAns /\ hssReg' = hssReg /\ rtr' = rtr
      /\ swmQ' = swmQ /\ swmWait' = swmWait /\ ppr' = ppr /\ s6bAns' = s6bAns /\ epdg' = epdg
      /\ reqs' = reqs /\ nets' = nets
  BY DEF S6bReq, swmVars, envVars
<1>2. s6b \in [S6bProcs -> S6bStates] /\ Rest
  BY DEF IInv, Types, Rest
<1>3. /\ s6b' \in [S6bProcs -> S6bStates] /\ s6b'[i] = st2
      /\ \A j \in S6bProcs : s6b[j] \in {"aar_wait", "str_wait"} => s6b'[j] = s6b[j]
  BY <1>1, <1>2, S6bKept
<1>4. Rest'
  BY <1>1, <1>2, <1>3 DEF Rest
<1> QED
  BY <1>1, <1>3, <1>4 DEF IInv, Types, Mailbox, DataType

\* A request of the PGW that changes the FSM at most by its end.
LEMMA S6bQuiet ==
    ASSUME IInv, NEW i \in S6bProcs, NEW st \in {"aar", "str", "str_nai"}, S6bReq(i, st),
           NEW st2 \in S6bStates, S6bBecomes(i, st2), UNCHANGED fsmVars \/ Terminate, hssReq' = hssReq
    PROVE  IInv'
<1>1. lastPid' = lastPid
  BY DEF fsmVars, Terminate
<1>2. /\ Rest' /\ hssAns' = hssAns /\ hssReg' = hssReg /\ rtr' = rtr /\ swmQ' = swmQ
      /\ \A j \in S6bProcs : s6b[j] \in {"aar_wait", "str_wait"} => s6b'[j] = s6b[j]
  BY <1>1, S6bReqRest
<1> QED
  BY <1>2, QuietStep

LEMMA RxAarKeeps == ASSUME IInv, NEW i \in S6bProcs, RxAar(i) PROVE IInv'
<1>1. S6bReq(i, "aar") /\ "aar" \in {"aar", "str", "str_nai"}
  BY DEF RxAar
<1>2. {"aar_wait", "dead", "done"} \subseteq S6bStates
  BY DEF S6bStates
<1>3. CASE /\ UNCHANGED fsmVars \/ Terminate
           /\ hssReq' = hssReq
           /\ S6bBecomes(i, "aar_wait") \/ S6bBecomes(i, "dead") \/ S6bBecomes(i, "done")
  BY <1>1, <1>2, <1>3, S6bQuiet
<1>4. CASE /\ In({"authenticated"})
           /\ Become("authenticated_wait_swx_saa", [data EXCEPT !.resp = i, !.nai = TRUE])
           /\ SendSwx("pgw", pid) /\ S6bBecomes(i, "aar_wait")
  <2>1. lastPid' = lastPid
    BY <1>4 DEF Become
  <2>2. /\ Rest' /\ s6b'[i] = "aar_wait"
        /\ hssAns' = hssAns /\ hssReg' = hssReg /\ rtr' = rtr /\ swmQ' = swmQ
        /\ swmQ \in Seq(SwmMsg) /\ MailboxOf(swmQ, pid, lastPid, call) /\ data \in DataType
    BY <1>1, <1>2, <1>4, <2>1, S6bReqRest
  <2>3. PICK d : d = [data EXCEPT !.resp = i, !.nai = TRUE]
    OBVIOUS
  <2>4. d = [epdg |-> data.epdg, pgw |-> data.pgw, nai |-> TRUE, resp |-> i]
    BY <2>2, <2>3 DEF DataType
  <2>5. i \in 0..MaxS6b /\ i # 0
    BY DEF S6bProcs
  <2>6. d \in DataType /\ d.resp = i
    BY <2>2, <2>4, <2>5 DEF DataType
  <2>7. /\ "pgw" \in SwxType /\ "authenticated" \notin WaitStates
        /\ "authenticated_wait_swx_saa" \in WaitStates
        /\ "authenticated_wait_swx_saa" = AnswerState("pgw")
    BY DEF SwxType, WaitStates, AnswerState
  <2>8. state = "authenticated"
    BY <1>4 DEF In
  <2> QED
    BY <1>4, <2>2, <2>3, <2>5, <2>6, <2>7, <2>8, SendStep
<1> QED
  BY <1>3, <1>4 DEF RxAar

LEMMA RxStrKeeps == ASSUME IInv, NEW i \in S6bProcs, RxStr(i) PROVE IInv'
<1>1. S6bReq(i, "str") /\ "str" \in {"aar", "str", "str_nai"}
  BY DEF RxStr
<1>2. {"str_wait", "done"} \subseteq S6bStates /\ "authenticated" \notin WaitStates
  BY DEF S6bStates, WaitStates
<1>3. CASE /\ UNCHANGED fsmVars \/ Terminate
           /\ hssReq' = hssReq
           /\ S6bBecomes(i, "str_wait") \/ S6bBecomes(i, "done")
  BY <1>1, <1>2, <1>3, S6bQuiet
<1>4. CASE /\ In({"authenticated"}) /\ data.pgw /\ data.epdg
           /\ Become(state, [data EXCEPT !.pgw = FALSE])
           /\ S6bBecomes(i, "done") /\ hssReq' = hssReq
  <2>1. lastPid' = lastPid
    BY <1>4 DEF Become
  <2>2. /\ Rest' /\ hssAns' = hssAns /\ hssReg' = hssReg /\ rtr' = rtr /\ swmQ' = swmQ
        /\ swmQ \in Seq(SwmMsg) /\ MailboxOf(swmQ, pid, lastPid, call) /\ data \in DataType
    BY <1>1, <1>2, <1>4, <2>1, S6bReqRest
  <2>3. PICK d : d = [data EXCEPT !.pgw = FALSE]
    OBVIOUS
  <2>4. d \in DataType /\ d.resp = data.resp /\ d.epdg = data.epdg
    BY <2>2, <2>3 DEF DataType
  <2>5. state = "authenticated" /\ state \in States /\ data.resp = 0 /\ Registered
    BY <1>4 DEF In, IInv, Expected, StaysRegistered, States
  <2>6. Registered'
    BY <1>4, <2>2, <2>5 DEF Registered
  <2> QED
    BY <1>2, <1>4, <2>2, <2>3, <2>4, <2>5, <2>6, IdleStep
<1>5. CASE /\ In({"authenticated"}) /\ data.pgw /\ ~data.epdg
           /\ Become("authenticated_wait_swx_saa", [data EXCEPT !.resp = i])
           /\ SendSwx("dereg", pid) /\ S6bBecomes(i, "str_wait")
  <2>1. lastPid' = lastPid
    BY <1>5 DEF Become
  <2>2. /\ Rest' /\ s6b'[i] = "str_wait"
        /\ hssAns' = hssAns /\ hssReg' = hssReg /\ rtr' = rtr /\ swmQ' = swmQ
        /\ swmQ \in Seq(SwmMsg) /\ MailboxOf(swmQ, pid, lastPid, call) /\ data \in DataType
    BY <1>1, <1>2, <1>5, <2>1, S6bReqRest
  <2>3. PICK d : d = [data EXCEPT !.resp = i]
    OBVIOUS
  <2>4. i \in 0..MaxS6b /\ i # 0
    BY DEF S6bProcs
  <2>5. d \in DataType /\ d.resp = i /\ d.epdg = data.epdg
    BY <2>2, <2>3, <2>4 DEF DataType
  <2>6. /\ "dereg" \in SwxType /\ "authenticated_wait_swx_saa" \in WaitStates
        /\ "authenticated_wait_swx_saa" = AnswerState("dereg")
    BY DEF SwxType, WaitStates, AnswerState
  <2> QED
    BY <1>2, <1>5, <2>2, <2>3, <2>5, <2>6, SendStep
<1> QED
  BY <1>3, <1>4, <1>5 DEF RxStr

LEMMA RxStrOfNaiKeeps == ASSUME IInv, NEW i \in S6bProcs, RxStrOfNai(i) PROVE IInv'
  BY S6bQuiet DEF RxStrOfNai, S6bStates

\* Sending the SWm ASR.
LEMMA EnterWaitSwmAsaKeeps ==
    ASSUME IInv, In({"dereg_net_initiated_wait_s6b_asa"}), EnterWaitSwmAsa,
           UNCHANGED <<swxVars, s6b, envVars>>, s6bAns' \subseteq s6bAns
    PROVE  IInv'
<1>1. /\ Alive /\ call = NoCall /\ ~RegOk /\ (\A t \in SwxType : ~Pend(t)) /\ data.resp = 0
  <2>1. Alive /\ call = NoCall /\ state = "dereg_net_initiated_wait_s6b_asa"
    BY DEF In
  <2>2. ~RegOk /\ \A t \in SwxType : ~Pend(t)
    BY FsmIdle DEF WaitStates
  <2> QED
    BY <2>1, <2>2 DEF IInv, Expected
<1>2. /\ CallSwm("asr", TRUE) /\ data' = data /\ state' = "dereg_net_initiated_wait_swm_asa"
      /\ pid' = pid /\ lastPid' = lastPid /\ call' = [t |-> "asr", ok |-> TRUE]
      /\ hssReq' = hssReq /\ hssAns' = hssAns
  BY DEF EnterWaitSwmAsa, CallSwm, swxVars
<1>3. (\A t \in SwxType : ~Pend(t)') /\ ~RegOk' /\ Outstanding'
  BY <1>1, <1>2 DEF Pend, RegOk, Outstanding, IInv
<1>4. Rest'
  BY <1>2 DEF EnterWaitSwmAsa, IInv, Types, Rest, swxVars, envVars
<1>5. CallState' /\ state' \in States /\ "asr" \in SwmCalls
  BY <1>2 DEF CallState, States, DeregStates, SwmCalls
<1> QED
  BY <1>1, <1>2, <1>3, <1>4, <1>5, CallStep

\* A step that changes the FSM at most by its end and only takes an answer of the PGW.
LEMMA AnswerQuiet ==
    ASSUME IInv, UNCHANGED fsmVars \/ Terminate, UNCHANGED <<swmVars, swxVars, s6b, envVars>>,
           s6bAns' \subseteq s6bAns
    PROVE  IInv'
<1>1. lastPid' = lastPid
  BY DEF fsmVars, Terminate
<1>2. Rest'
  BY <1>1 DEF IInv, Types, Rest, swmVars, swxVars, envVars
<1> QED
  BY <1>2, QuietStep DEF swmVars, swxVars

LEMMA RxRaaKeeps == IInv /\ RxRaa => IInv'
  BY AnswerQuiet DEF RxRaa, RxS6bAnswer, Unexpected

LEMMA RxAsaKeeps == IInv /\ RxAsa => IInv'
  BY AnswerQuiet, EnterWaitSwmAsaKeeps DEF RxAsa, RxS6bAnswer, Unexpected

LEMMA S6bStepKeeps == IInv /\ S6bStep => IInv'
  BY RxAarKeeps, RxStrKeeps, RxStrOfNaiKeeps, RxRaaKeeps, RxAsaKeeps DEF S6bStep

LEMMA TimerStepKeeps == IInv /\ TimerStep => IInv'
<1>1. IInv /\ S6bAsaTimeout => IInv'
  BY EnterWaitSwmAsaKeeps DEF S6bAsaTimeout, s6bVars
<1>2. IInv /\ SwmAsaTimeout => IInv'
  BY AnswerQuiet DEF SwmAsaTimeout, s6bVars
<1>3. IInv /\ CallTimeout => IInv'
  BY AnswerQuiet DEF CallTimeout, s6bVars
<1> QED
  BY <1>1, <1>2, <1>3 DEF TimerStep

(***************************************************************************)
(* The environment.                                                        *)
(***************************************************************************)
\* The ePDG sends messages; nothing else moves.
LEMMA CastStep ==
    ASSUME IInv, UNCHANGED <<fsmVars, swmWait, swxVars, s6bVars, nets>>,
           swmQ' \in Seq(SwmMsg), MailboxOf(swmQ', pid, lastPid, call),
           epdg' \subseteq epdg, reqs' \in 0..MaxReq
    PROVE  IInv'
<1>1. /\ pid' = pid /\ lastPid' = lastPid /\ call' = call /\ data' = data /\ hssReq' = hssReq
      /\ hssAns' = hssAns /\ hssReg' = hssReg /\ rtr' = rtr /\ s6b' = s6b
  BY DEF fsmVars, swxVars, s6bVars
<1>2. Rest'
  BY <1>1 DEF IInv, Types, Rest, swxVars, s6bVars
<1>3. (\A t \in SwxType : Pend(t)' => Pend(t)) /\ (RegOk' => RegOk) /\ (Registered => Registered')
  BY <1>1 DEF Pend, RegOk, Registered
<1>4. Lives' /\ CallState' /\ Expected' /\ StaysRegistered'
  BY <1>1, <1>3, FsmSame
<1>5. Types' /\ Mailbox' /\ Outstanding'
  BY <1>1, <1>2 DEF Types, Mailbox, Outstanding, IInv
<1> QED
  BY <1>4, <1>5 DEF IInv

LEMMA EpdgRequestKeeps == IInv /\ EpdgRequest => IInv'
<1> SUFFICES ASSUME IInv, EpdgRequest PROVE IInv'
  OBVIOUS
<1>1. PICK t \in Casts : swmQ' = Append(swmQ, SwmCast(t))
  BY DEF EpdgRequest, Casts
<1>2. lastPid \in Nat /\ swmQ \in Seq(SwmMsg) /\ MailboxOf(swmQ, pid, lastPid, call)
  BY DEF IInv, Lives, Types, Mailbox
<1>3. swmQ' \in Seq(SwmMsg) /\ MailboxOf(swmQ', pid, lastPid, call)
  BY <1>1, <1>2, MailboxCast
<1>4. reqs' \in 0..MaxReq
  BY AaaBoundsAssumption DEF EpdgRequest, IInv, Types, Rest
<1> QED
  BY <1>3, <1>4, CastStep DEF EpdgRequest

LEMMA EpdgAnswerKeeps == IInv /\ EpdgAnswer => IInv'
<1> SUFFICES ASSUME IInv, EpdgAnswer PROVE IInv'
  OBVIOUS
<1>1. /\ lastPid \in Nat /\ swmQ \in Seq(SwmMsg) /\ MailboxOf(swmQ, pid, lastPid, call)
      /\ reqs \in 0..MaxReq
  BY DEF IInv, Lives, Types, Rest, Mailbox
<1>2. \A t \in Casts : /\ Append(swmQ, SwmCast(t)) \in Seq(SwmMsg)
                       /\ MailboxOf(Append(swmQ, SwmCast(t)), pid, lastPid, call)
  BY <1>1, MailboxCast
<1>3. PICK q1, q2 : q1 = Append(swmQ, SwmCast("raa")) /\ q2 = Append(q1, SwmCast("aar"))
  OBVIOUS
<1>4. q1 \in Seq(SwmMsg) /\ MailboxOf(q1, pid, lastPid, call)
  BY <1>2, <1>3 DEF Casts
<1>5. q2 \in Seq(SwmMsg) /\ MailboxOf(q2, pid, lastPid, call)
  BY <1>1, <1>3, <1>4, MailboxCast DEF Casts
<1>6. SwmCast("raa") \in SwmMsg /\ SwmCast("aar") \in SwmMsg
  BY DEF SwmCast, SwmMsg, Casts
<1>7. swmQ \o <<SwmCast("raa"), SwmCast("aar")>> = q2
  <2>1. PICK x, y : x = SwmCast("raa") /\ y = SwmCast("aar")
    OBVIOUS
  <2>2. swmQ \o <<x, y>> = Append(Append(swmQ, x), y)
    BY <1>1, <1>6, <2>1
  <2> QED
    BY <1>3, <2>1, <2>2
<1>8. swmQ' \in Seq(SwmMsg) /\ MailboxOf(swmQ', pid, lastPid, call)
  <2>1. swmQ' \in {q1, q2, Append(swmQ, SwmCast("asa"))}
    BY <1>3, <1>7 DEF EpdgAnswer
  <2> QED
    BY <1>2, <1>4, <1>5, <2>1 DEF Casts
<1>9. epdg' \subseteq epdg
  BY DEF EpdgAnswer
<1> QED
  BY <1>1, <1>8, <1>9, CastStep DEF EpdgAnswer

LEMMA HssServeKeeps == IInv /\ HssServe => IInv'
<1> SUFFICES ASSUME IInv, HssServe PROVE IInv'
  OBVIOUS
<1>1. PICK h : h = Head(hssReq)
  OBVIOUS
<1>2. PICK ok \in BOOLEAN :
         /\ hssReg' = IF ok /\ h.t \in {"reg", "dereg"} THEN h.t = "reg" ELSE hssReg
         /\ hssAns' = hssAns \cup {[t |-> h.t, pid |-> h.pid, ok |-> ok]}
  BY <1>1 DEF HssServe
<1>3. /\ hssReq # <<>> /\ hssReq' = Tail(hssReq) /\ UNCHANGED fsmVars /\ UNCHANGED swmVars
      /\ UNCHANGED <<ppr, rtr>> /\ UNCHANGED s6bVars /\ UNCHANGED envVars
  BY DEF HssServe
<1>4. /\ hssReq \in Seq(SwxReq) /\ hssAns \in SUBSET SwxAns /\ lastPid \in Nat
      /\ OutstandingOf(hssReq, hssAns, pid, lastPid)
  BY DEF IInv, Types, Lives, Outstanding
<1>5. PICK ans : ans = hssAns \cup {[t |-> h.t, pid |-> h.pid, ok |-> ok]}
  OBVIOUS
<1>6. /\ Tail(hssReq) \in Seq(SwxReq) /\ ans \subseteq SwxAns
      /\ OutstandingOf(Tail(hssReq), ans, pid, lastPid)
      /\ \A t : PendOf(Tail(hssReq), ans, pid, t) => PendOf(hssReq, hssAns, pid, t)
      /\ RegOkOf(ans, pid) => RegOkOf(hssAns, pid) \/ (h.t = "reg" /\ ok /\ NoDereg(Tail(hssReq)))
      /\ NoDereg(hssReq) => NoDereg(Tail(hssReq)) /\ h.t # "dereg"
  BY <1>1, <1>3, <1>4, <1>5, OutstandingServed
<1>7. hssAns' = ans /\ pid' = pid /\ lastPid' = lastPid /\ s6b' = s6b /\ rtr' = rtr
  BY <1>2, <1>3, <1>5 DEF fsmVars, s6bVars
<1>8. \A t \in SwxType : Pend(t)' => Pend(t)
  BY <1>3, <1>6, <1>7 DEF Pend
<1>9. h.t = "reg" /\ ok => hssReg'
  BY <1>2
<1>10. RegOk' => RegOk \/ Registered'
  BY <1>3, <1>6, <1>7, <1>9 DEF RegOk, Registered
<1>11. Registered => Registered'
  BY <1>2, <1>3, <1>6, <1>7 DEF Registered
<1>12. Lives' /\ CallState' /\ Expected' /\ StaysRegistered'
  BY <1>3, <1>7, <1>8, <1>10, <1>11, FsmSame
<1>13. hssReg' \in BOOLEAN
  BY <1>2 DEF IInv, Types, Rest
<1>14. Rest'
  BY <1>3, <1>7, <1>13 DEF IInv, Types, Rest, swmVars, s6bVars, envVars
<1>15. Types' /\ Mailbox' /\ Outstanding'
  BY <1>3, <1>6, <1>7, <1>14 DEF Types, Mailbox, Outstanding, IInv, fsmVars, swmVars
<1> QED
  BY <1>12, <1>15 DEF IInv

LEMMA SwxLossKeeps == IInv /\ SwxLoss => IInv'
<1> SUFFICES ASSUME IInv, SwxLoss PROVE IInv'
  OBVIOUS
<1>1. /\ hssReq' = hssReq \/ (hssReq # <<>> /\ hssReq' = Tail(hssReq))
      /\ hssAns' \subseteq hssAns /\ UNCHANGED fsmVars /\ UNCHANGED swmVars
      /\ UNCHANGED <<hssReg, ppr, rtr>> /\ UNCHANGED s6bVars /\ UNCHANGED envVars
  BY DEF SwxLoss
<1>2. Rest'
  BY <1>1 DEF IInv, Types, Rest, fsmVars, swmVars, s6bVars, envVars
<1> QED
  BY <1>1, <1>2, QuietStep DEF swmVars, s6bVars

LEMMA HssPushKeeps == IInv /\ HssPush => IInv'
<1> SUFFICES ASSUME IInv, HssPush PROVE IInv'
  OBVIOUS
<1>1. /\ UNCHANGED fsmVars /\ UNCHANGED swmVars /\ UNCHANGED <<hssReq, hssAns, epdg, reqs>>
      /\ UNCHANGED s6bVars /\ nets' \in 0..MaxNet
  BY AaaBoundsAssumption DEF HssPush, IInv, Types, Rest
<1>2. /\ hssReg' \/ rtr' # "no"
      /\ hssReg' \in BOOLEAN /\ ppr' \in BOOLEAN /\ rtr' \in {"no", "permanent", "other"}
  BY DEF HssPush, IInv, Types, Rest
<1>3. Rest'
  BY <1>1, <1>2 DEF IInv, Types, Rest, fsmVars, swmVars, s6bVars
<1> QED
  BY <1>1, <1>2, <1>3, QuietStep DEF swmVars, s6bVars

LEMMA PgwRequestKeeps == IInv /\ PgwRequest => IInv'
<1> SUFFICES ASSUME IInv, PgwRequest PROVE IInv'
  OBVIOUS
<1>1. PICK i \in S6bProcs, st \in {"aar", "str", "str_nai"} : s6b[i] = "free" /\ S6bBecomes(i, st)
  BY DEF PgwRequest
<1>2. st \in S6bStates /\ s6b \in [S6bProcs -> S6bStates]
  BY DEF S6bStates, IInv, Types, Rest
<1>3. /\ s6b' \in [S6bProcs -> S6bStates]
      /\ \A j \in S6bProcs : s6b[j] \in {"aar_wait", "str_wait"} => s6b'[j] = s6b[j]
  BY <1>1, <1>2, S6bKept
<1>4. /\ UNCHANGED fsmVars /\ UNCHANGED swmVars /\ UNCHANGED swxVars /\ UNCHANGED s6bAns
      /\ UNCHANGED envVars
  BY DEF PgwRequest
<1>5. Rest'
  BY <1>3, <1>4 DEF IInv, Types, Rest, fsmVars, swmVars, swxVars, envVars
<1> QED
  BY <1>3, <1>4, <1>5, QuietStep DEF swmVars, swxVars

LEMMA S6bLossKeeps == IInv /\ S6bLoss => IInv'
<1> SUFFICES ASSUME IInv, S6bLoss PROVE IInv'
  OBVIOUS
<1>1. s6bAns' \subseteq s6bAns
  BY DEF S6bLoss
<1> QED
  BY <1>1, AnswerQuiet DEF S6bLoss

LEMMA EnvStepKeeps == IInv /\ EnvStep => IInv'
  BY EpdgRequestKeeps, EpdgAnswerKeeps, HssServeKeeps, SwxLossKeeps, HssPushKeeps,
     PgwRequestKeeps, S6bLossKeeps DEF EnvStep

(***************************************************************************)
(* The theorems.                                                           *)
(***************************************************************************)
LEMMA InitIInv == Init => IInv
<1> SUFFICES ASSUME Init PROVE IInv
  OBVIOUS
<1>1. \A t : ~Pend(t)
  BY DEF Init, Pend, PendOf
<1>2. Lives /\ Mailbox /\ CallState /\ Outstanding
  BY DEF Init, Lives, Alive, Mailbox, MailboxOf, CallState, Outstanding, OutstandingOf, NoCall
<1>3. Expected
  BY <1>1 DEF Init, Expected, InitData
<1>4. StaysRegistered
  BY <1>1 DEF Init, StaysRegistered, NoCall, RegOk, RegOkOf
<1>5. Rest
  <2>1. s6b \in [S6bProcs -> S6bStates]
    BY DEF Init, S6bStates
  <2>2. swmWait \in 0..lastPid /\ reqs \in 0..MaxReq /\ nets \in 0..MaxNet
    BY AaaBoundsAssumption DEF Init
  <2> QED
    BY <2>1, <2>2 DEF Init, Rest
<1>6. data \in [epdg : BOOLEAN, pgw : BOOLEAN, nai : BOOLEAN, resp : 0..MaxS6b]
  BY AaaBoundsAssumption DEF Init, InitData
<1>7. call \in [t : {"none"} \cup SwmCalls, ok : BOOLEAN] /\ call = NoCall
  BY DEF Init, NoCall
<1>8. Types
  BY <1>5, <1>6, <1>7 DEF Init, Types
<1> QED
  BY <1>2, <1>3, <1>4, <1>8 DEF IInv

LEMMA NextIInv == IInv /\ [Next]_vars => IInv'
<1> SUFFICES ASSUME IInv, [Next]_vars PROVE IInv'
  OBVIOUS
<1>1. CASE UNCHANGED vars
  BY <1>1, AnswerQuiet DEF vars, s6bVars
<1>2. CASE Next
  BY <1>2, SwmStepKeeps, SwxStepKeeps, S6bStepKeeps, TimerStepKeeps, EnvStepKeeps DEF Next
<1> QED
  BY <1>1, <1>2

\* The inductive invariant holds in every reachable state: the FSM, its message
\* to aaa_diameter_swm, its outstanding SWx request and the registration at the
\* HSS stay in step, whatever is lost, late or crossing.
THEOREM Invariance == Spec => []IInv
  BY InitIInv, NextIInv, PTL DEF Spec

\* aaa_ue_fsm exists exactly in the states of gen_statem and is the incarnation
\* started last, and a call into aaa_diameter_swm has its message in the mailbox.
THEOREM TypeCorrect == Spec => []TypeOK
<1>1. IInv => TypeOK
  <2> SUFFICES ASSUME IInv PROVE TypeOK
    OBVIOUS
  <2>1. /\ lastPid \in Nat /\ pid \in {0, lastPid}
        /\ state \in IF Alive THEN States ELSE {"none"}
    BY DEF IInv, Lives
  <2>2. swmQ \in Seq([t : Casts \cup {"dea", "deac", "sta", "rar", "asr"},
                      pid : Pids, ok : BOOLEAN])
    <3>1. swmQ \in Seq(SwmMsg) /\ \A k \in 1..Len(swmQ) : swmQ[k].pid \in Pids
      BY DEF IInv, Types, Mailbox, MailboxOf, Pids
    <3>2. \A k \in 1..Len(swmQ) : swmQ[k] \in [t : Casts \cup {"dea", "deac", "sta", "rar", "asr"},
                                               pid : Pids, ok : BOOLEAN]
      <4> SUFFICES ASSUME NEW k \in 1..Len(swmQ)
                   PROVE  swmQ[k] \in [t : Casts \cup {"dea", "deac", "sta", "rar", "asr"},
                                       pid : Pids, ok : BOOLEAN]
        OBVIOUS
      <4>1. swmQ[k] \in SwmMsg
        BY <3>1
      <4> QED
        BY <3>1, <4>1 DEF SwmMsg, SwmCalls
    <3> QED
      BY <3>1, <3>2, SeqOfOthers
  <2>3. hssReq \in Seq(SwxMsgs)
    <3>1. hssReq \in Seq(SwxReq) /\ \A k \in 1..Len(hssReq) : hssReq[k].pid \in Pids
      BY <2>1 DEF IInv, Types, Outstanding, OutstandingOf, Pids
    <3>2. \A k \in 1..Len(hssReq) : hssReq[k] \in SwxMsgs
      <4> SUFFICES ASSUME NEW k \in 1..Len(hssReq) PROVE hssReq[k] \in SwxMsgs
        OBVIOUS
      <4>1. hssReq[k] \in SwxReq
        BY <3>1
      <4> QED
        BY <3>1, <4>1 DEF SwxReq, SwxType, SwxMsgs
    <3> QED
      BY <3>1, <3>2
  <2>4. \A a \in hssAns : a.ok \in BOOLEAN /\ [t |-> a.t, pid |-> a.pid] \in SwxMsgs
    <3> SUFFICES ASSUME NEW a \in hssAns
                 PROVE  a.ok \in BOOLEAN /\ [t |-> a.t, pid |-> a.pid] \in SwxMsgs
      OBVIOUS
    <3>1. a \in SwxAns /\ a.pid \in Pids
      BY <2>1 DEF IInv, Types, Outstanding, OutstandingOf, Pids
    <3> QED
      BY <3>1 DEF SwxAns, SwxType, SwxMsgs
  <2>5. call # NoCall =>
          /\ Alive
          /\ \E k \in 1..Len(swmQ) : swmQ[k] = [t |-> call.t, pid |-> pid, ok |-> call.ok]
    BY DEF IInv, Lives, Mailbox, MailboxOf
  <2>6. call \in [t : {"none", "dea", "deac", "sta", "rar", "asr"}, ok : BOOLEAN]
    BY DEF IInv, Types, SwmCalls
  <2> QED
    BY <2>1, <2>2, <2>3, <2>4, <2>5, <2>6 DEF IInv, Types, Rest, SwmCalls, S6bStates, TypeOK, Pids
<1> QED
  BY <1>1, Invariance, PTL

\* A message m is a SWx request or answer of the running FSM.
LEMMA PendsFor ==
    ASSUME IInv, pid # 0, NEW m \in hssAns \cup {hssReq[k] : k \in 1..Len(hssReq)}, m.pid = pid
    PROVE  m.t \in SwxType /\ Pend(m.t)
<1>1. CASE m \in hssAns
  BY <1>1 DEF IInv, Types, SwxAns, Pend, PendOf
<1>2. CASE \E k \in 1..Len(hssReq) : m = hssReq[k]
  <2>1. PICK k \in 1..Len(hssReq) : m = hssReq[k]
    BY <1>2
  <2>2. m \in SwxReq
    BY <2>1 DEF IInv, Types
  <2> QED
    BY <2>1, <2>2 DEF SwxReq, Pend, PendOf
<1> QED
  BY <1>1, <1>2

\* handle_answer of aaa_diameter_swx_cb: whatever SWx request of the running FSM
\* is outstanding, its answer meets the FSM in the one state that has a clause for
\* it, out of any call, with the S6b process it is for still waiting.
THEOREM AnswerSafety == Spec => []AnswerExpected
<1>1. IInv => AnswerExpected
  <2> SUFFICES ASSUME IInv PROVE AnswerExpected
    OBVIOUS
  <2>1. ASSUME NEW m \in hssAns \cup {hssReq[k] : k \in 1..Len(hssReq)}, m.pid = pid, Alive
        PROVE  /\ state = AnswerState(m.t) /\ call = NoCall
               /\ m.t = "pgw" => data.resp # 0 /\ s6b[data.resp] = "aar_wait"
               /\ m.t = "dereg" => data.resp = 0 \/ s6b[data.resp] = "str_wait"
    <3>1. m.t \in SwxType /\ Pend(m.t)
      BY <2>1, PendsFor DEF Alive
    <3> QED
      BY <3>1 DEF IInv, Expected
  <2> QED
    BY <2>1 DEF AnswerExpected, IInv, Expected
<1> QED
  BY <1>1, Invariance, PTL

\* An STR of the ePDG or of the PGW deregisters the user only when the other side
\* has no session left, and state_authenticated always has a session.
THEOREM LastSessionSafety == Spec => []LastSessionDeregisters
<1>1. IInv => LastSessionDeregisters
  <2> SUFFICES ASSUME IInv PROVE LastSessionDeregisters
    OBVIOUS
  <2>1. ASSUME NEW m \in hssAns \cup {hssReq[k] : k \in 1..Len(hssReq)}, m.t = "dereg", m.pid = pid
        PROVE  ~(data.epdg /\ data.pgw)
    <3>1. CASE pid = 0
      BY <3>1 DEF IInv, Lives, Alive, InitData
    <3>2. CASE pid # 0
      <4>1. Pend("dereg")
        BY <2>1, <3>2, PendsFor
      <4> QED
        BY <4>1 DEF IInv, Expected
    <3> QED
      BY <3>1, <3>2
  <2> QED
    BY <2>1 DEF LastSessionDeregisters, IInv, Expected
<1> QED
  BY <1>1, Invariance, PTL

\* state_authenticated is left or never entered when the HSS ends the registration:
\* while an FSM serves the user, the HSS has him registered or an RTR is under way.
THEOREM ServedSafety == Spec => []ServedOnlyIfRegistered
<1>1. IInv => ServedOnlyIfRegistered
  BY DEF IInv, StaysRegistered, Registered, ServedOnlyIfRegistered
<1> QED
  BY <1>1, Invariance, PTL

=============================================================================
