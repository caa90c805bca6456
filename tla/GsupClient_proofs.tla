-------------------------- MODULE GsupClient_proofs --------------------------
(***************************************************************************)
(* Proofs about GsupClient, for any number of calls, of any IMSIs and      *)
(* procedures: the reference counts are exact, the lists keep away from a  *)
(* request its requester has taken back, and the three threads together    *)
(* implement the blocking call of GsupCall.                                *)
(***************************************************************************)
EXTENDS GsupClient, CommonLemmas, TLAPS

\* remove and remove_pending: the request is out of the list.
LEMMA WithoutFacts ==
    ASSUME NEW S, NEW q \in Seq(S), NEW r
    PROVE  /\ Without(q, r) \in Seq(S)
           /\ Distinct(q) => Distinct(Without(q, r)) /\ ToSet(Without(q, r)) = ToSet(q) \ {r}
<1>1. CASE r \in ToSet(q)
  <2> DEFINE k == CHOOSE i \in DOMAIN q : q[i] = r
  <2>1. k \in 1..Len(q) /\ q[k] = r
    BY <1>1 DEF ToSet
  <2>2. Without(q, r) = RemoveAt(q, k)
    BY <1>1 DEF Without
  <2> HIDE DEF k
  <2> QED
    BY <2>1, <2>2, RemoveAtFacts
<1>2. CASE r \notin ToSet(q)
  BY <1>2 DEF Without
<1> QED
  BY <1>1, <1>2

\* get_pending finds the first pending request of the answer's IMSI and
\* procedure, if there is one.
LEMMA FirstMatchFacts ==
    ASSUME NEW a, Matches(a) # {}, pending \in Seq(Req)
    PROVE  /\ FirstMatch(a) \in 1..Len(pending)
           /\ pending[FirstMatch(a)] \in ToSet(pending) \cap Req
           /\ KeyOf[pending[FirstMatch(a)]] = KeyOf[a]
<1>1. Matches(a) \subseteq Nat
  BY DEF Matches
<1>2. FirstMatch(a) \in Matches(a)
  BY <1>1, FirstExists DEF FirstMatch
<1> QED
  BY <1>2 DEF Matches, ToSet

(***************************************************************************)
(* The inductive invariant behind the reference counts.                    *)
(***************************************************************************)
\* TypeOK, with integers for the reference counts and without timedout.
Types ==
    /\ pc \in [Req -> PcStates]
    /\ ref \in [Req -> Int]
    /\ lock \in [Req -> Holders]
    /\ resp \in [Req -> Req \cup {Null}]
    /\ result \in [Req -> Req \cup {Null}]
    /\ inqueue \in Seq(Req) /\ pending \in Seq(Req)
    /\ worker \in [st : WorkerStates, req : Req \cup {Null}]
    /\ receiver \in [st : ReceiverStates, req : Req \cup {Null}, pdu : Req \cup {Null}]
    /\ sent \subseteq Req /\ answered \subseteq Req
    /\ answers \in Seq(Req \cup {Insert, Stray})
    /\ pushes \in 0..MaxPush

\* A request is in one list, once.
Lists == Distinct(inqueue) /\ Distinct(pending) /\ ToSet(inqueue) \cap ToSet(pending) = {}

\* The sender has a request between dequeue and unlock, and until add_pending
\* no list has it too.
WorkerHas ==
    /\ worker.req = Null <=> worker.st \in {"dequeue", "ended"}
    /\ worker.st # "unlock" => worker.req \notin ToSet(inqueue) \cup ToSet(pending)

\* The receiver has a request that is in no list and not with the sender.
ReceiverHas ==
    /\ receiver.req = Null <=> receiver.st = "read"
    /\ receiver.pdu = Null <=> receiver.st # "signal"
    /\ receiver.req \notin ToSet(inqueue) \cup ToSet(pending)
    /\ receiver.req # Null => receiver.req # worker.req

\* Nobody knows a request before enqueue().
Unknown == \A r \in Req : pc[r] = "idle" =>
    /\ r \notin ToSet(inqueue) \cup ToSet(pending) \cup sent
    /\ worker.req # r /\ receiver.req # r
    /\ lock[r] = "none"

\* Who holds the rwlock of a request.  The requester has it until the end.
Locked == \A r \in Req :
    /\ lock[r] = "worker" <=> worker.req = r /\ worker.st \in {"send", "add_pending", "unlock"}
    /\ lock[r] = "receiver" <=> receiver.req = r
    /\ pc[r] \in {"inqueue", "pending", "return"} => lock[r] = "requester"
    /\ lock[r] = "requester" => pc[r] \in {"inqueue", "pending", "return", "done"}

IInv == Types /\ Lists /\ WorkerHas /\ ReceiverHas /\ Unknown /\ Locked /\ RefsAccounted

\* No call has been made.
LEMMA InitIInv == Init => IInv
<1> SUFFICES ASSUME Init PROVE IInv
  OBVIOUS
<1>1. inqueue = <<>> /\ pending = <<>> /\ answers = <<>>
  BY DEF Init
<1>2. /\ ToSet(inqueue) = {} /\ ToSet(pending) = {}
      /\ Distinct(inqueue) /\ Distinct(pending)
  BY <1>1 DEF ToSet, Distinct
<1>3. Types
  BY ReqAssumption, PushAssumption
  DEF Init, Types, At, PcStates, WorkerStates, ReceiverStates, Holders
<1>4. Lists /\ WorkerHas /\ ReceiverHas /\ Unknown /\ Locked /\ RefsAccounted
  BY <1>2, ReqAssumption
  DEF Init, Lists, WorkerHas, ReceiverHas, Unknown, Locked, RefsAccounted, Held, At
<1> QED
  BY <1>3, <1>4 DEF IInv

\* Every step of the requesters, the sender, the receiver and the server
\* preserves the invariant.
LEMMA NextIInv == IInv /\ [Next]_vars => IInv'
<1> SUFFICES ASSUME IInv, [Next]_vars PROVE IInv'
  OBVIOUS
<1>0. ToSet(inqueue) \cup ToSet(pending) \subseteq Req
  BY DEF IInv, Types, ToSet
<1> USE ReqAssumption, PushAssumption
    DEF IInv, Types, Lists, WorkerHas, ReceiverHas, Unknown, Locked, RefsAccounted, Held, At,
        PcStates, WorkerStates, ReceiverStates, Holders, Put, requester, queues, server
<1>1. ASSUME NEW r \in Req, Refuse(r) PROVE IInv'
  BY <1>1 DEF Refuse
<1>2. ASSUME NEW r \in Req, Enqueue(r) PROVE IInv'
  <2>1. /\ inqueue' \in Seq(Req) /\ ToSet(inqueue') = ToSet(inqueue) \cup {r}
        /\ Distinct(inqueue')
    BY <1>2, AppendFacts DEF Enqueue
  <2>2. /\ pc[r] = "idle" /\ pc' = [pc EXCEPT ![r] = "wait"]
        /\ ref' = [ref EXCEPT ![r] = 2]
        /\ UNCHANGED <<lock, timedout, resp, result, pending, worker, receiver, server>>
    BY <1>2 DEF Enqueue
  <2> QED
    BY <2>1, <2>2
<1>3. ASSUME NEW r \in Req, Expire(r) PROVE IInv'
  BY <1>3 DEF Expire
<1>4. ASSUME NEW r \in Req, SpuriousWakeup(r) PROVE IInv'
  BY <1>4 DEF SpuriousWakeup
<1>5. ASSUME NEW r \in Req, WaitReturns(r) PROVE IInv'
  <2>1. /\ pc[r] \in {"woken", "expired"} /\ pc' = [pc EXCEPT ![r] = "locking"]
        /\ UNCHANGED <<ref, lock, resp, result, queues, worker, receiver, server>>
    BY <1>5 DEF WaitReturns
  <2> QED
    BY <2>1
<1>6. ASSUME NEW r \in Req, TakeOwnership(r) PROVE IInv'
  <2>1. PICK to \in {"inqueue", "return"} :
        /\ pc[r] = "locking" /\ pc' = [pc EXCEPT ![r] = to]
        /\ lock[r] = "none" /\ lock' = [lock EXCEPT ![r] = "requester"]
        /\ UNCHANGED <<ref, resp, result, queues, worker, receiver, server>>
    BY <1>6 DEF TakeOwnership
  <2> QED
    BY <2>1
<1>7. ASSUME NEW r \in Req, LeaveInqueue(r) PROVE IInv'
  <2>1. /\ inqueue' \in Seq(Req) /\ ToSet(inqueue') = ToSet(inqueue) \ {r} /\ Distinct(inqueue')
    BY <1>7, WithoutFacts DEF LeaveInqueue
  <2>2. /\ pc[r] = "inqueue" /\ UNCHANGED <<lock, resp, result, pending, worker, receiver, server>>
    BY <1>7 DEF LeaveInqueue
  <2>3. CASE r \in ToSet(inqueue)
    <3>1. pc' = [pc EXCEPT ![r] = "return"] /\ ref' = [ref EXCEPT ![r] = @ - 1]
      BY <1>7, <2>3 DEF LeaveInqueue
    <3> QED
      BY <2>1, <2>2, <2>3, <3>1
  <2>4. CASE r \notin ToSet(inqueue)
    <3>1. pc' = [pc EXCEPT ![r] = "pending"] /\ ref' = ref
      BY <1>7, <2>4 DEF LeaveInqueue
    <3> QED
      BY <2>1, <2>2, <2>4, <3>1
  <2> QED
    BY <2>3, <2>4
<1>8. ASSUME NEW r \in Req, LeavePending(r) PROVE IInv'
  <2>1. /\ pending' \in Seq(Req) /\ ToSet(pending') = ToSet(pending) \ {r} /\ Distinct(pending')
    BY <1>8, WithoutFacts DEF LeavePending
  <2>2. /\ pc[r] = "pending" /\ pc' = [pc EXCEPT ![r] = "return"]
        /\ UNCHANGED <<lock, resp, result, inqueue, worker, receiver, server>>
    BY <1>8 DEF LeavePending
  <2>3. CASE r \in ToSet(pending)
    <3>1. ref' = [ref EXCEPT ![r] = @ - 1]
      BY <1>8, <2>3 DEF LeavePending
    <3> QED
      BY <2>1, <2>2, <2>3, <3>1
  <2>4. CASE r \notin ToSet(pending)
    <3>1. ref' = ref
      BY <1>8, <2>4 DEF LeavePending
    <3> QED
      BY <2>1, <2>2, <2>4, <3>1
  <2> QED
    BY <2>3, <2>4
<1>9. ASSUME NEW r \in Req, Return(r) PROVE IInv'
  <2>1. /\ pc[r] = "return" /\ pc' = [pc EXCEPT ![r] = "done"]
        /\ ref' = [ref EXCEPT ![r] = @ - 1]
        /\ result' \in [Req -> Req \cup {Null}]
        /\ UNCHANGED <<lock, resp, queues, worker, receiver, server>>
    BY <1>9 DEF Return
  <2> QED
    BY <2>1
<1>10. CASE Dequeue
  <2>1. /\ Head(inqueue) \in Req /\ inqueue' \in Seq(Req)
        /\ ToSet(inqueue) = ToSet(inqueue') \cup {Head(inqueue)}
        /\ Distinct(inqueue') /\ Head(inqueue) \notin ToSet(inqueue')
    BY <1>10, TailFacts DEF Dequeue
  <2>2. /\ worker.st = "dequeue" /\ worker' = At("try_lock", Head(inqueue))
        /\ UNCHANGED <<requester, ref, lock, resp, pending, receiver, server>>
    BY <1>10 DEF Dequeue
  <2> QED
    BY <2>1, <2>2
<1>11. CASE WorkerTryLock
  <2>1. PICK r \in Req : r = worker.req /\ worker.st = "try_lock"
    BY <1>11 DEF WorkerTryLock
  <2>2. UNCHANGED <<requester, resp, queues, receiver, server>>
    BY <1>11 DEF WorkerTryLock
  <2>3. CASE lock[r] = "none"
    <3>1. /\ worker' = [st |-> "send", req |-> r] /\ ref' = ref
          /\ lock' = [lock EXCEPT ![r] = "worker"]
      BY <1>11, <2>1, <2>3 DEF WorkerTryLock
    <3>2. worker'.st = "send" /\ worker'.req = r
      BY <3>1
    <3> QED
      BY <2>1, <2>2, <2>3, <3>1, <3>2
  <2>4. CASE lock[r] # "none"
    <3>1. /\ worker' = [st |-> "ended", req |-> Null] /\ lock' = lock
          /\ ref' = [ref EXCEPT ![r] = @ - 1]
      BY <1>11, <2>1, <2>4 DEF WorkerTryLock
    <3>2. worker'.st = "ended" /\ worker'.req = Null
      BY <3>1
    <3>3. Types' /\ Lists'
      BY <2>1, <2>2, <2>4, <3>1, <3>2
    <3>4. WorkerHas' /\ ReceiverHas'
      BY <1>0, <2>1, <2>2, <2>4, <3>1, <3>2
    <3>5. Unknown'
      BY <2>1, <2>2, <2>4, <3>1, <3>2
    <3>6. Locked'
      BY <2>1, <2>2, <2>4, <3>1, <3>2
    <3>7. RefsAccounted'
      BY <2>1, <2>2, <2>4, <3>1, <3>2
    <3> QED
      BY <3>3, <3>4, <3>5, <3>6, <3>7
  <2> QED
    BY <2>3, <2>4
<1>12. CASE Send
  <2>1. PICK r \in Req : r = worker.req /\ worker.st = "send"
    BY <1>12 DEF Send
  <2>2. UNCHANGED <<requester, ref, resp, queues, receiver, answers, answered, pushes>>
    BY <1>12 DEF Send
  <2>3. CASE sent' = sent \cup {r} /\ worker' = At("add_pending", r) /\ UNCHANGED lock
    <3>1. worker'.st = "add_pending" /\ worker'.req = r
      BY <2>3
    <3> QED
      BY <2>1, <2>2, <2>3, <3>1
  <2>4. CASE /\ lock' = [lock EXCEPT ![r] = "none"]
             /\ worker' = At("signal", r) /\ UNCHANGED sent
    <3>1. worker'.st = "signal" /\ worker'.req = r
      BY <2>4
    <3> QED
      BY <2>1, <2>2, <2>4, <3>1
  <2> QED
    BY <1>12, <2>1, <2>3, <2>4 DEF Send
<1>13. CASE AddPending
  <2>1. PICK r \in Req : r = worker.req /\ worker.st = "add_pending"
    BY <1>13 DEF AddPending
  <2>2. /\ pending' \in Seq(Req) /\ ToSet(pending') = ToSet(pending) \cup {r}
        /\ Distinct(pending')
    BY <1>13, <2>1, AppendFacts DEF AddPending
  <2>3. /\ worker' = [worker EXCEPT !.st = "unlock"]
        /\ UNCHANGED <<requester, ref, lock, resp, inqueue, receiver, server>>
    BY <1>13 DEF AddPending
  <2>4. /\ worker'.st = "unlock" /\ worker'.req = r
        /\ worker' \in [st : WorkerStates, req : Req \cup {Null}]
    BY <2>1, <2>3
  <2>5. Types' /\ Lists'
    BY <2>1, <2>2, <2>3, <2>4
  <2>6. WorkerHas' /\ ReceiverHas'
    BY <2>1, <2>2, <2>3, <2>4
  <2>7. Unknown'
    BY <2>1, <2>2, <2>3, <2>4
  <2>8. Locked'
    BY <2>1, <2>2, <2>3, <2>4
  <2>9. RefsAccounted'
    BY <2>1, <2>2, <2>3, <2>4
  <2> QED
    BY <2>5, <2>6, <2>7, <2>8, <2>9
<1>14. CASE WorkerUnlock
  <2>1. PICK r \in Req : r = worker.req /\ worker.st = "unlock"
    BY <1>14 DEF WorkerUnlock
  <2>2. /\ lock' = [lock EXCEPT ![r] = "none"] /\ worker' = [st |-> "dequeue", req |-> Null]
        /\ UNCHANGED <<requester, ref, resp, queues, receiver, server>>
    BY <1>14, <2>1 DEF WorkerUnlock
  <2>3. worker'.st = "dequeue" /\ worker'.req = Null
    BY <2>2
  <2>4. Types' /\ Lists'
    BY <2>1, <2>2, <2>3
  <2>5. WorkerHas' /\ ReceiverHas'
    BY <1>0, <2>1, <2>2, <2>3
  <2>6. Unknown'
    BY <2>1, <2>2, <2>3
  <2>7. Locked'
    BY <2>1, <2>2, <2>3
  <2>8. RefsAccounted'
    BY <2>1, <2>2, <2>3
  <2> QED
    BY <2>4, <2>5, <2>6, <2>7, <2>8
<1>15. CASE WorkerSignal
  <2>1. PICK r \in Req : r = worker.req /\ worker.st = "signal"
    BY <1>15 DEF WorkerSignal
  <2>2. /\ worker' = [st |-> "dequeue", req |-> Null]
        /\ ref' = [ref EXCEPT ![r] = @ - 1]
        /\ UNCHANGED <<lock, timedout, result, queues, receiver, server>>
    BY <1>15, <2>1 DEF WorkerSignal
  <2>3. worker'.st = "dequeue" /\ worker'.req = Null
    BY <2>2
  <2>4. PICK to \in PcStates :
        /\ pc[r] \in {"wait", "woken", "expired"} /\ pc' = [pc EXCEPT ![r] = to]
        /\ to \in {"woken", "expired"}
        /\ resp' = [resp EXCEPT ![r] = Null]
    BY <1>15, <2>1 DEF WorkerSignal, Signal, MutexFree
  <2>5. Types' /\ Lists'
    BY <2>1, <2>2, <2>3, <2>4
  <2>6. WorkerHas' /\ ReceiverHas'
    BY <1>0, <2>1, <2>2, <2>3, <2>4
  <2>7. Unknown'
    BY <2>1, <2>2, <2>3, <2>4
  <2>8. Locked'
    BY <2>1, <2>2, <2>3, <2>4
  <2>9. RefsAccounted'
    BY <2>1, <2>2, <2>3, <2>4
  <2> QED
    BY <2>5, <2>6, <2>7, <2>8, <2>9
<1>16. CASE ReceiveInsert
  BY <1>16, TailFacts DEF ReceiveInsert
<1>17. CASE ReceiveAnswer
  <2>1. /\ receiver.st = "read" /\ answers' \in Seq(Req \cup {Insert, Stray})
        /\ UNCHANGED <<requester, resp, inqueue, worker, sent, answered, pushes>>
    BY <1>17, TailFacts DEF ReceiveAnswer
  <2>2. CASE Matches(Head(answers)) = {}
    BY <1>17, <2>1, <2>2 DEF ReceiveAnswer
  <2>3. CASE Matches(Head(answers)) # {}
    <3>1. PICK a, k : a = Head(answers) /\ k = FirstMatch(a)
      OBVIOUS
    <3>2. k \in 1..Len(pending) /\ pending[k] \in ToSet(pending) \cap Req /\ KeyOf[pending[k]] = KeyOf[a]
      BY <2>3, <3>1, FirstMatchFacts
    <3>3. a \in Req
      <4>1. a \in Req \cup {Insert, Stray} /\ a # Insert
        BY <1>17, <3>1, TailFacts DEF ReceiveAnswer
      <4> QED
        BY <3>2, <4>1, KeyAssumption
    <3>4. PICK r \in Req : r = pending[k] /\ r \in ToSet(pending)
      BY <3>2
    <3>5. pending' = RemoveAt(pending, k)
      BY <1>17, <2>3, <3>1 DEF ReceiveAnswer
    <3>6. /\ pending' \in Seq(Req) /\ ToSet(pending') = ToSet(pending) \ {r}
          /\ Distinct(pending')
      BY <3>2, <3>4, <3>5, RemoveAtFacts
    <3>7. CASE lock[r] = "none"
      <4>1. /\ lock' = [lock EXCEPT ![r] = "receiver"] /\ ref' = ref
            /\ receiver' = [st |-> "signal", req |-> r, pdu |-> a]
        BY <1>17, <2>3, <3>1, <3>4, <3>7 DEF ReceiveAnswer
      <4>2. receiver'.st = "signal" /\ receiver'.req = r /\ receiver'.pdu = a
        BY <4>1
      <4>3. Types' /\ Lists'
        BY <2>1, <3>3, <3>4, <3>6, <3>7, <4>1, <4>2
      <4>4. WorkerHas' /\ ReceiverHas'
        BY <2>1, <3>3, <3>4, <3>6, <3>7, <4>1, <4>2
      <4>5. Unknown'
        BY <2>1, <3>3, <3>4, <3>6, <3>7, <4>1, <4>2
      <4>6. Locked'
        BY <2>1, <3>3, <3>4, <3>6, <3>7, <4>1, <4>2
      <4>7. RefsAccounted'
        BY <2>1, <3>3, <3>4, <3>6, <3>7, <4>1, <4>2
      <4> QED
        BY <4>3, <4>4, <4>5, <4>6, <4>7
    <3>8. CASE lock[r] # "none"
      <4>1. UNCHANGED <<lock, receiver>> /\ ref' = [ref EXCEPT ![r] = @ - 1]
        BY <1>17, <2>3, <3>1, <3>4, <3>8 DEF ReceiveAnswer
      <4>2. Types' /\ Lists'
        BY <2>1, <3>4, <3>6, <3>8, <4>1
      <4>3. WorkerHas' /\ ReceiverHas'
        BY <2>1, <3>4, <3>6, <3>8, <4>1
      <4>4. Unknown'
        BY <2>1, <3>4, <3>6, <3>8, <4>1
      <4>5. Locked'
        BY <2>1, <3>4, <3>6, <3>8, <4>1
      <4>6. RefsAccounted'
        BY <2>1, <3>4, <3>6, <3>8, <4>1
      <4> QED
        BY <4>2, <4>3, <4>4, <4>5, <4>6
    <3> QED
      BY <3>7, <3>8
  <2> QED
    BY <2>2, <2>3
<1>18. CASE ReceiverSignal
  <2>1. PICK r \in Req : r = receiver.req /\ receiver.st = "signal"
    BY <1>18 DEF ReceiverSignal
  <2>2. /\ receiver' = [receiver EXCEPT !.st = "unlock", !.pdu = Null]
        /\ UNCHANGED <<ref, lock, timedout, result, queues, worker, server>>
    BY <1>18 DEF ReceiverSignal
  <2>3. /\ receiver'.st = "unlock" /\ receiver'.req = r /\ receiver'.pdu = Null
        /\ receiver' \in [st : ReceiverStates, req : Req \cup {Null}, pdu : Req \cup {Null}]
    BY <2>1, <2>2
  <2>4. PICK to \in PcStates :
        /\ pc[r] \in {"wait", "woken", "expired"} /\ pc' = [pc EXCEPT ![r] = to]
        /\ to \in {"woken", "expired"}
        /\ resp' = [resp EXCEPT ![r] = receiver.pdu]
    BY <1>18, <2>1 DEF ReceiverSignal, Signal, MutexFree
  <2>5. UNCHANGED <<ref, lock, result, queues, worker, server>>
    BY <2>2
  <2> QED
    BY <2>1, <2>3, <2>4, <2>5
<1>19. CASE ReceiverUnlock
  <2>1. PICK r \in Req : r = receiver.req /\ receiver.st = "unlock"
    BY <1>19 DEF ReceiverUnlock
  <2>2. /\ lock' = [lock EXCEPT ![r] = "none"] /\ ref' = [ref EXCEPT ![r] = @ - 1]
        /\ receiver' = [st |-> "read", req |-> Null, pdu |-> Null]
        /\ UNCHANGED <<requester, resp, queues, worker, server>>
    BY <1>19, <2>1 DEF ReceiverUnlock
  <2>3. receiver'.st = "read" /\ receiver'.req = Null /\ receiver'.pdu = Null
    BY <2>2
  <2>4. Types' /\ Lists'
    BY <2>1, <2>2, <2>3
  <2>5. WorkerHas' /\ ReceiverHas'
    BY <1>0, <2>1, <2>2, <2>3
  <2>6. Unknown'
    BY <2>1, <2>2, <2>3
  <2>7. Locked'
    BY <2>1, <2>2, <2>3
  <2>8. RefsAccounted'
    BY <2>1, <2>2, <2>3
  <2> QED
    BY <2>4, <2>5, <2>6, <2>7, <2>8
<1>20. ASSUME NEW r \in Req, ServerAnswer(r) PROVE IInv'
  BY <1>20, AppendFacts DEF ServerAnswer
<1>21. CASE ServerPush
  BY <1>21, AppendFacts DEF ServerPush
<1>22. CASE ConnectionLost
  BY <1>22 DEF ConnectionLost
<1>23. CASE UNCHANGED vars
  BY <1>23 DEF vars
<1> QED
  BY <1>1, <1>2, <1>3, <1>4, <1>5, <1>6, <1>7, <1>8, <1>9, <1>10, <1>11, <1>12, <1>13, <1>14,
     <1>15, <1>16, <1>17, <1>18, <1>19, <1>20, <1>21, <1>22, <1>23
  DEF Next, RequesterStep, WorkerStep, ReceiverStep

\* The invariant holds in every reachable state of the GSUP client.
THEOREM Invariance == Spec => []IInv
  BY InitIInv, NextIInv, PTL DEF Spec

\* gsup_request_put() frees a request exactly when its last owner lets go: no
\* leak, no second free, no use after the free, for any number of calls.
THEOREM RefSafety == Spec => []RefsAccounted
<1>1. IInv => RefsAccounted
  BY DEF IInv
<1> QED
  BY <1>1, Invariance, PTL

\* What timed_wait returned is TRUE or FALSE.
LEMMA TimedoutType == Spec => [](timedout \in [Req -> BOOLEAN])
<1>1. Init => timedout \in [Req -> BOOLEAN]
  BY DEF Init
<1>2. timedout \in [Req -> BOOLEAN] /\ [Next]_vars => (timedout \in [Req -> BOOLEAN])'
  <2> SUFFICES ASSUME timedout \in [Req -> BOOLEAN], [Next]_vars
               PROVE  timedout' \in [Req -> BOOLEAN]
    OBVIOUS
  <2>1. ASSUME NEW r \in Req, WaitReturns(r) PROVE timedout' \in [Req -> BOOLEAN]
    BY <2>1 DEF WaitReturns
  <2>2. CASE UNCHANGED timedout
    BY <2>2
  <2>3. (\E r \in Req : WaitReturns(r)) \/ UNCHANGED timedout
    BY DEF Next, RequesterStep, WorkerStep, ReceiverStep, Refuse, Enqueue, Expire,
           SpuriousWakeup, TakeOwnership, LeaveInqueue, LeavePending, Return, Dequeue,
           WorkerTryLock, Send, AddPending, WorkerUnlock, WorkerSignal, ReceiveInsert,
           ReceiveAnswer, ReceiverSignal, ReceiverUnlock, ServerAnswer, ServerPush,
           ConnectionLost, vars, requester
  <2> QED
    BY <2>1, <2>2, <2>3
<1> QED
  BY <1>1, <1>2, PTL DEF Spec

\* Every variable keeps its type, and a request never has more than two
\* owners.
THEOREM TypeCorrect == Spec => []TypeOK
<1>1. IInv /\ timedout \in [Req -> BOOLEAN] => TypeOK
  <2> SUFFICES ASSUME IInv, timedout \in [Req -> BOOLEAN] PROVE TypeOK
    OBVIOUS
  <2>1. ASSUME NEW r \in Req PROVE ref[r] \in 0..2
    BY ReqAssumption DEF IInv, RefsAccounted, Held, Lists, WorkerHas, ReceiverHas
  <2>2. ref \in [Req -> 0..2]
    BY <2>1 DEF IInv, Types
  <2> QED
    BY <2>2 DEF IInv, Types, TypeOK
<1> QED
  BY <1>1, Invariance, TimedoutType, PTL

\* "After this lock is taken by enqueue(), the rx/tx gsup won't add it anymore
\* to pending list": neither thread puts a request back that its requester
\* owns.
THEOREM OwnedSafety == Spec => OwnedStaysOut
<1> DEFINE A == \A r \in Req :
              lock[r] = "requester" /\ r \notin ToSet(inqueue) \cup ToSet(pending)
                  => r \notin ToSet(inqueue') \cup ToSet(pending')
<1>1. IInv /\ [Next]_vars => [A]_vars
  <2> SUFFICES ASSUME IInv, Next, NEW r \in Req, lock[r] = "requester",
                      r \notin ToSet(inqueue) \cup ToSet(pending)
               PROVE  r \notin ToSet(inqueue') \cup ToSet(pending')
    OBVIOUS
  <2> USE DEF IInv, Types, Lists, Unknown, Locked
  <2>1. ASSUME NEW q \in Req, Enqueue(q) PROVE r \notin ToSet(inqueue') \cup ToSet(pending')
    BY <2>1, AppendFacts DEF Enqueue
  <2>2. ASSUME NEW q \in Req, LeaveInqueue(q) PROVE r \notin ToSet(inqueue') \cup ToSet(pending')
    BY <2>2, WithoutFacts DEF LeaveInqueue
  <2>3. ASSUME NEW q \in Req, LeavePending(q) PROVE r \notin ToSet(inqueue') \cup ToSet(pending')
    BY <2>3, WithoutFacts DEF LeavePending
  <2>4. CASE Dequeue
    BY <2>4, TailFacts DEF Dequeue
  <2>5. CASE AddPending
    <3>1. worker.req \in Req /\ worker.req # r
      BY <2>5 DEF AddPending, WorkerHas
    <3> QED
      BY <2>5, <3>1, AppendFacts DEF AddPending
  <2>6. CASE ReceiveAnswer
    <3>1. CASE Matches(Head(answers)) = {}
      BY <2>6, <3>1 DEF ReceiveAnswer
    <3>2. CASE Matches(Head(answers)) # {}
      <4>1. PICK k : k = FirstMatch(Head(answers))
        OBVIOUS
      <4>2. k \in 1..Len(pending)
        BY <3>2, <4>1, FirstMatchFacts
      <4>3. pending' = RemoveAt(pending, k) /\ inqueue' = inqueue
        BY <2>6, <3>2, <4>1 DEF ReceiveAnswer
      <4> QED
        BY <4>2, <4>3, RemoveAtFacts
    <3> QED
      BY <3>1, <3>2
  <2>7. CASE UNCHANGED queues
    BY <2>7 DEF queues
  <2>8. \/ \E q \in Req : Enqueue(q) \/ LeaveInqueue(q) \/ LeavePending(q)
        \/ Dequeue \/ AddPending \/ ReceiveAnswer \/ UNCHANGED queues
    BY DEF Next, RequesterStep, WorkerStep, ReceiverStep, Refuse, Expire, SpuriousWakeup,
           WaitReturns, TakeOwnership, Return, WorkerTryLock, Send, WorkerUnlock, WorkerSignal,
           ReceiveInsert, ReceiverSignal, ReceiverUnlock, ServerAnswer, ServerPush,
           ConnectionLost, queues
  <2> QED
    BY <2>1, <2>2, <2>3, <2>4, <2>5, <2>6, <2>7, <2>8
<1> QED
  BY <1>1, Invariance, PTL DEF Spec, OwnedStaysOut

(***************************************************************************)
(* The way of an answer, and the refinement of GsupCall.                   *)
(***************************************************************************)
\* An answer is on its way once.
Single(q) == \A i, j \in 1..Len(q) : q[i] \in Req /\ q[i] = q[j] => i = j

\* A request that has not been sent has no answer, and the server answers once.
SentOnce ==
    /\ sent \cap answered = {}
    /\ \A r \in Req :
        \/ pc[r] = "idle"
        \/ r \in ToSet(inqueue)
        \/ worker.req = r /\ worker.st \in {"try_lock", "send"}
        => r \notin sent \cup answered

\* An answer is on the wire, with the receiver or with one requester, of the
\* same IMSI and procedure.
OnWire ==
    /\ Single(answers)
    /\ \A a \in ToSet(answers) \cap Req :
        a \in answered /\ receiver.pdu # a /\ \A q \in Req : resp[q] # a
AtReceiver == receiver.pdu # Null =>
    /\ receiver.pdu \in answered
    /\ KeyOf[receiver.pdu] = KeyOf[receiver.req]
    /\ \A q \in Req : resp[q] # receiver.pdu
AtRequester == \A r \in Req : resp[r] # Null =>
    /\ resp[r] \in answered
    /\ KeyOf[resp[r]] = KeyOf[r]
    /\ \A q \in Req : resp[q] = resp[r] => q = r

\* A call returns what it was given, and nobody gives it anything afterwards.
Returned == \A r \in Req : result[r] # Null => pc[r] = "done" /\ result[r] = resp[r]

AInv == SentOnce /\ OnWire /\ AtReceiver /\ AtRequester /\ Returned

\* An answer that is not on the wire yet is put there once.
LEMMA AppendSingle ==
    ASSUME NEW S, NEW q \in Seq(S), NEW a \in S, Single(q), a \in Req => a \notin ToSet(q)
    PROVE  Single(Append(q, a)) /\ ToSet(Append(q, a)) = ToSet(q) \cup {a}
<1>1. ToSet(Append(q, a)) = ToSet(q) \cup {a}
  BY AppendFacts
<1>2. Single(Append(q, a))
  BY DEF Single, ToSet
<1> QED
  BY <1>1, <1>2

\* An answer that is read is not on the wire any more.
LEMMA TailSingle ==
    ASSUME NEW S, NEW q \in Seq(S), q # <<>>, Single(q)
    PROVE  /\ Single(Tail(q)) /\ ToSet(Tail(q)) \subseteq ToSet(q) /\ Head(q) \in ToSet(q)
           /\ Head(q) \in Req => Head(q) \notin ToSet(Tail(q))
<1>1. ToSet(Tail(q)) \subseteq ToSet(q) /\ Head(q) \in ToSet(q)
  BY TailFacts
<1>2. /\ Head(q) = q[1]
      /\ Len(q) \in Nat \ {0} /\ Len(Tail(q)) = Len(q) - 1
      /\ \A i \in 1..Len(Tail(q)) : Tail(q)[i] = q[i + 1]
  OBVIOUS
<1> DEFINE p == Tail(q)
<1>3. p \in Seq(S) /\ Len(p) = Len(q) - 1 /\ \A i \in 1..Len(p) : p[i] = q[i + 1]
  BY <1>2
<1> HIDE DEF p
<1>4. Single(p)
  BY <1>2, <1>3 DEF Single
<1>5. Head(q) \in Req => Head(q) \notin ToSet(p)
  BY <1>2, <1>3 DEF Single, ToSet
<1> QED
  BY <1>1, <1>4, <1>5 DEF p

\* No answer exists.
LEMMA InitAInv == Init => AInv
<1> SUFFICES ASSUME Init PROVE AInv
  OBVIOUS
<1>1. ToSet(answers) = {} /\ Single(answers)
  BY DEF Init, ToSet, Single
<1> QED
  BY <1>1 DEF Init, AInv, SentOnce, OnWire, AtReceiver, AtRequester, Returned, At

\* No step makes a second copy of an answer, or gives it to a request of
\* another IMSI or procedure.
LEMMA NextAInv == IInv /\ AInv /\ [Next]_vars => AInv'
<1> SUFFICES ASSUME IInv, AInv, [Next]_vars PROVE AInv'
  OBVIOUS
<1> USE ReqAssumption
    DEF AInv, SentOnce, OnWire, AtReceiver, AtRequester, Returned, requester, queues, server
<1>0. /\ pc \in [Req -> PcStates] /\ resp \in [Req -> Req \cup {Null}]
      /\ result \in [Req -> Req \cup {Null}]
      /\ sent \subseteq Req /\ answered \subseteq Req
      /\ inqueue \in Seq(Req) /\ pending \in Seq(Req)
      /\ answers \in Seq(Req \cup {Insert, Stray})
      /\ worker \in [st : WorkerStates, req : Req \cup {Null}]
      /\ receiver \in [st : ReceiverStates, req : Req \cup {Null}, pdu : Req \cup {Null}]
      /\ Distinct(inqueue)
  BY DEF IInv, Types, Lists
<1>1. ASSUME NEW r \in Req, Refuse(r) PROVE AInv'
  BY <1>0, <1>1 DEF Refuse
<1>2. ASSUME NEW r \in Req, Enqueue(r) PROVE AInv'
  <2>1. ToSet(inqueue') = ToSet(inqueue) \cup {r}
    BY <1>0, <1>2, AppendFacts DEF Enqueue
  <2>2. /\ pc[r] = "idle" /\ pc' = [pc EXCEPT ![r] = "wait"]
        /\ UNCHANGED <<resp, result, worker, receiver, server>>
    BY <1>2 DEF Enqueue
  <2> QED
    BY <1>0, <2>1, <2>2
<1>3. ASSUME NEW r \in Req, Expire(r) PROVE AInv'
  BY <1>0, <1>3 DEF Expire
<1>4. ASSUME NEW r \in Req, SpuriousWakeup(r) PROVE AInv'
  BY <1>0, <1>4 DEF SpuriousWakeup
<1>5. ASSUME NEW r \in Req, WaitReturns(r) PROVE AInv'
  <2>1. /\ pc[r] \in {"woken", "expired"} /\ pc' = [pc EXCEPT ![r] = "locking"]
        /\ UNCHANGED <<resp, result, queues, worker, receiver, server>>
    BY <1>5 DEF WaitReturns
  <2> QED
    BY <1>0, <2>1
<1>6. ASSUME NEW r \in Req, TakeOwnership(r) PROVE AInv'
  <2>1. PICK to \in {"inqueue", "return"} :
        /\ pc[r] = "locking" /\ pc' = [pc EXCEPT ![r] = to]
        /\ UNCHANGED <<resp, result, queues, worker, receiver, server>>
    BY <1>6 DEF TakeOwnership
  <2> QED
    BY <1>0, <2>1
<1>7. ASSUME NEW r \in Req, LeaveInqueue(r) PROVE AInv'
  <2>1. ToSet(inqueue') \subseteq ToSet(inqueue)
    BY <1>0, <1>7, WithoutFacts DEF LeaveInqueue
  <2>2. PICK to \in {"return", "pending"} :
        /\ pc[r] = "inqueue" /\ pc' = [pc EXCEPT ![r] = to]
        /\ UNCHANGED <<resp, result, worker, receiver, server>>
    BY <1>7 DEF LeaveInqueue
  <2> QED
    BY <1>0, <2>1, <2>2
<1>8. ASSUME NEW r \in Req, LeavePending(r) PROVE AInv'
  <2>1. /\ pc[r] = "pending" /\ pc' = [pc EXCEPT ![r] = "return"]
        /\ UNCHANGED <<resp, result, inqueue, worker, receiver, server>>
    BY <1>8 DEF LeavePending
  <2> QED
    BY <1>0, <2>1
<1>9. ASSUME NEW r \in Req, Return(r) PROVE AInv'
  <2>1. PICK a \in {Null, resp[r]} :
        /\ pc[r] = "return" /\ pc' = [pc EXCEPT ![r] = "done"]
        /\ result' = [result EXCEPT ![r] = a]
        /\ UNCHANGED <<resp, queues, worker, receiver, server>>
    BY <1>9 DEF Return
  <2> QED
    BY <1>0, <2>1
<1>10. CASE Dequeue
  <2>1. /\ Head(inqueue) \in Req
        /\ ToSet(inqueue) = ToSet(inqueue') \cup {Head(inqueue)}
    BY <1>0, <1>10, TailFacts DEF Dequeue
  <2>2. /\ worker'.st = "try_lock" /\ worker'.req = Head(inqueue)
        /\ UNCHANGED <<requester, resp, pending, receiver, server>>
    BY <1>10 DEF Dequeue, At
  <2> QED
    BY <1>0, <2>1, <2>2
<1>11. CASE WorkerTryLock
  <2>1. /\ worker.st = "try_lock"
        /\ worker'.req # Null => worker'.req = worker.req
        /\ UNCHANGED <<requester, resp, queues, receiver, server>>
    BY <1>11 DEF WorkerTryLock, At
  <2> QED
    BY <1>0, <2>1
<1>12. CASE Send
  <2>1. PICK r \in Req : r = worker.req /\ worker.st = "send"
    BY <1>12 DEF Send, IInv, WorkerHas, Types
  <2>2. /\ worker'.req = r /\ worker'.st \in {"add_pending", "signal"}
        /\ sent' \subseteq sent \cup {r} /\ r \notin answered /\ r \notin ToSet(inqueue) /\ pc[r] # "idle"
        /\ UNCHANGED <<requester, resp, queues, receiver, answers, answered, pushes>>
    BY <1>12, <2>1 DEF Send, At, IInv, WorkerHas, Unknown
  <2> QED
    BY <1>0, <2>1, <2>2
<1>13. CASE AddPending
  <2>1. /\ worker'.st = "unlock" /\ UNCHANGED <<requester, resp, inqueue, receiver, server>>
    BY <1>0, <1>13 DEF AddPending
  <2> QED
    BY <1>0, <2>1
<1>14. CASE WorkerUnlock
  BY <1>0, <1>14 DEF WorkerUnlock, At
<1>15. CASE WorkerSignal
  <2>1. PICK r \in Req : r = worker.req /\ worker.st = "signal"
    BY <1>15 DEF WorkerSignal, IInv, Types, WorkerHas
  <2>2. /\ worker'.st = "dequeue" /\ UNCHANGED <<result, queues, receiver, server>>
        /\ resp' = [resp EXCEPT ![r] = Null]
    BY <1>15, <2>1 DEF WorkerSignal, At, Signal
  <2>3. PICK to \in {"woken", "expired"} :
        pc[r] \in {"wait", "woken", "expired"} /\ pc' = [pc EXCEPT ![r] = to]
    BY <1>15, <2>1 DEF WorkerSignal, Signal, MutexFree
  <2> QED
    BY <1>0, <2>1, <2>2, <2>3
<1>16. CASE ReceiveInsert
  <2>1. Single(answers') /\ ToSet(answers') \subseteq ToSet(answers)
    BY <1>0, <1>16, TailSingle DEF ReceiveInsert
  <2>2. UNCHANGED <<requester, resp, queues, worker, receiver, sent, answered>>
    BY <1>16 DEF ReceiveInsert
  <2> QED
    BY <1>0, <2>1, <2>2
<1>17. CASE ReceiveAnswer
  <2>1. PICK a : a = Head(answers) /\ answers # <<>> /\ answers' = Tail(answers)
    BY <1>17 DEF ReceiveAnswer
  <2>2. /\ Single(answers') /\ ToSet(answers') \subseteq ToSet(answers) /\ a \in ToSet(answers)
        /\ a \in Req => a \notin ToSet(answers')
    BY <1>0, <2>1, TailSingle
  <2>3. UNCHANGED <<requester, resp, inqueue, worker, sent, answered>>
    BY <1>17 DEF ReceiveAnswer
  <2>4. CASE receiver' = receiver
    BY <1>0, <2>2, <2>3, <2>4
  <2>5. CASE receiver' # receiver
    <3>1. Matches(a) # {} /\ receiver' = [st |-> "signal", req |-> pending[FirstMatch(a)], pdu |-> a]
      BY <1>17, <2>1, <2>5 DEF ReceiveAnswer
    <3>2. KeyOf[pending[FirstMatch(a)]] = KeyOf[a] /\ pending[FirstMatch(a)] \in Req
      BY <1>0, <3>1, FirstMatchFacts
    <3>3. a \in Req
      <4>1. a \in Req \cup {Insert, Stray} /\ a # Insert
        BY <1>0, <1>17, <2>1, TailFacts DEF ReceiveAnswer
      <4> QED
        BY <3>2, <4>1, KeyAssumption
    <3>4. receiver'.pdu = a /\ KeyOf[receiver'.req] = KeyOf[a]
      BY <3>1, <3>2
    <3> QED
      BY <1>0, <2>2, <2>3, <3>3, <3>4
  <2> QED
    BY <2>4, <2>5
<1>18. CASE ReceiverSignal
  <2>1. PICK r \in Req : r = receiver.req /\ receiver.pdu # Null
    BY <1>18 DEF ReceiverSignal, IInv, Types, ReceiverHas
  <2>2. /\ receiver'.pdu = Null /\ UNCHANGED <<result, queues, worker, server>>
        /\ resp' = [resp EXCEPT ![r] = receiver.pdu]
    BY <1>0, <1>18, <2>1 DEF ReceiverSignal, Signal
  <2>3. PICK to \in {"woken", "expired"} :
        pc[r] \in {"wait", "woken", "expired"} /\ pc' = [pc EXCEPT ![r] = to]
    BY <1>18, <2>1 DEF ReceiverSignal, Signal, MutexFree
  <2> QED
    BY <1>0, <2>1, <2>2, <2>3
<1>19. CASE ReceiverUnlock
  BY <1>0, <1>19 DEF ReceiverUnlock
<1>20. ASSUME NEW r \in Req, ServerAnswer(r) PROVE AInv'
  <2>1. /\ r \in sent /\ sent' = sent \ {r} /\ answered' = answered \cup {r}
        /\ UNCHANGED <<requester, resp, queues, worker, receiver>>
    BY <1>20 DEF ServerAnswer
  <2>2. Single(answers') /\ ToSet(answers') = ToSet(answers) \cup {r}
    BY <1>0, <1>20, AppendSingle DEF ServerAnswer
  <2> QED
    BY <1>0, <2>1, <2>2
<1>21. CASE ServerPush
  <2>1. PICK p \in {Insert, Stray} : answers' = Append(answers, p)
    BY <1>21 DEF ServerPush
  <2>2. Single(answers') /\ ToSet(answers') = ToSet(answers) \cup {p}
    BY <1>0, <2>1, AppendSingle
  <2>3. UNCHANGED <<requester, resp, queues, worker, receiver, sent, answered>>
    BY <1>21 DEF ServerPush
  <2> QED
    BY <1>0, <2>2, <2>3
<1>22. CASE ConnectionLost
  <2>1. sent' = {} /\ answers' = <<>>
    BY <1>22 DEF ConnectionLost
  <2>2. ToSet(answers') = {} /\ Single(answers')
    BY <2>1 DEF ToSet, Single
  <2>3. UNCHANGED <<requester, resp, queues, worker, receiver, answered>>
    BY <1>22 DEF ConnectionLost
  <2> QED
    BY <1>0, <2>1, <2>2, <2>3
<1>23. CASE UNCHANGED vars
  BY <1>23 DEF vars
<1> QED
  BY <1>1, <1>2, <1>3, <1>4, <1>5, <1>6, <1>7, <1>8, <1>9, <1>10, <1>11, <1>12, <1>13, <1>14,
     <1>15, <1>16, <1>17, <1>18, <1>19, <1>20, <1>21, <1>22, <1>23
  DEF Next, RequesterStep, WorkerStep, ReceiverStep

\* Every answer exists once, in the hands of one party, at all times.
THEOREM AnswerInvariance == Spec => [](IInv /\ AInv)
  BY InitIInv, NextIInv, InitAInv, NextAInv, PTL DEF Spec

\* The threads together implement one blocking call: it returns once, with
\* NULL or with an answer of its own IMSI and procedure that no other call gets.
THEOREM CallRefinement == Spec => ImplementsCall
<1>1. Init => Call!Init
  BY DEF Init, Call!Init, callState
<1>2. IInv /\ AInv /\ [Next]_vars => [Call!Next]_Call!vars
  <2> SUFFICES ASSUME IInv, AInv, [Next]_vars PROVE Call!Next \/ UNCHANGED Call!vars
    OBVIOUS
  <2>a. ASSUME NEW r \in Req, NEW to, pc' = [pc EXCEPT ![r] = to],
               pc[r] \notin {"idle", "done"}, to \notin {"idle", "done"},
               UNCHANGED <<answered, result>>
        PROVE  UNCHANGED Call!vars
    BY <2>a DEF Call!vars, callState, IInv, Types
  <2>b. ASSUME UNCHANGED <<pc, answered, result>> PROVE UNCHANGED Call!vars
    BY <2>b DEF Call!vars, callState
  <2>1. ASSUME NEW r \in Req, Refuse(r) PROVE Call!Next
    <3>1. pc[r] = "idle" /\ pc' = [pc EXCEPT ![r] = "done"] /\ UNCHANGED <<answered, result>>
      BY <2>1 DEF Refuse, server
    <3>2. callState[r] = "idle" /\ callState' = [callState EXCEPT ![r] = "returned"]
      BY <3>1 DEF callState, IInv, Types
    <3>3. Call!Refuse(r)
      BY <3>1, <3>2 DEF Call!Refuse
    <3> QED
      BY <3>3 DEF Call!Next
  <2>2. ASSUME NEW r \in Req, Enqueue(r) PROVE Call!Next
    <3>1. pc[r] = "idle" /\ pc' = [pc EXCEPT ![r] = "wait"] /\ UNCHANGED <<answered, result>>
      BY <2>2 DEF Enqueue, server
    <3>2. callState[r] = "idle" /\ callState' = [callState EXCEPT ![r] = "open"]
      BY <3>1 DEF callState, IInv, Types
    <3>3. Call!Call(r)
      BY <3>1, <3>2 DEF Call!Call
    <3> QED
      BY <3>3 DEF Call!Next
  <2>3. ASSUME NEW r \in Req, Return(r) PROVE Call!Next
    <3>1. PICK a \in {Null, resp[r]} :
          /\ pc[r] = "return" /\ pc' = [pc EXCEPT ![r] = "done"]
          /\ result' = [result EXCEPT ![r] = a] /\ answered' = answered
      BY <2>3 DEF Return, server
    <3>2. callState[r] = "open" /\ callState' = [callState EXCEPT ![r] = "returned"]
      BY <3>1 DEF callState, IInv, Types
    <3>3. a \in Req \cup {Null}
      BY <3>1 DEF IInv, Types
    <3>4. ASSUME a # Null
          PROVE  a \in answered /\ KeyOf[a] = KeyOf[r] /\ \A q \in Req : result[q] # a
      <4>1. a = resp[r] /\ a \in answered /\ KeyOf[a] = KeyOf[r]
        BY <3>1, <3>4 DEF AInv, AtRequester
      <4>2. ASSUME NEW q \in Req, result[q] = a PROVE FALSE
        <5>1. pc[q] = "done" /\ resp[q] = resp[r]
          BY <3>4, <4>1, <4>2 DEF AInv, Returned
        <5> QED
          BY <3>1, <3>4, <4>1, <5>1 DEF AInv, AtRequester
      <4> QED
        BY <4>1, <4>2
    <3>5. Call!Return(r, a)
      BY <3>1, <3>2, <3>4 DEF Call!Return
    <3> QED
      BY <3>3, <3>5 DEF Call!Next
  <2>4. ASSUME NEW r \in Req, ServerAnswer(r) PROVE Call!Next
    <3>1. answered' = answered \cup {r} /\ UNCHANGED <<pc, result>> /\ r \in sent
      BY <2>4 DEF ServerAnswer, requester
    <3>2. callState' = callState /\ callState[r] # "idle"
      BY <3>1 DEF callState, IInv, Unknown
    <3>3. Call!Answer(r)
      BY <3>1, <3>2 DEF Call!Answer
    <3> QED
      BY <3>3 DEF Call!Next
  <2>5. ASSUME NEW r \in Req, Expire(r) \/ SpuriousWakeup(r) PROVE UNCHANGED Call!vars
    BY <2>5, <2>a DEF Expire, SpuriousWakeup, server
  <2>6. ASSUME NEW r \in Req, WaitReturns(r) PROVE UNCHANGED Call!vars
    BY <2>6, <2>a DEF WaitReturns, server
  <2>7. ASSUME NEW r \in Req, TakeOwnership(r) PROVE UNCHANGED Call!vars
    <3>1. PICK to \in {"inqueue", "return"} :
          /\ pc[r] = "locking" /\ pc' = [pc EXCEPT ![r] = to]
          /\ UNCHANGED <<answered, result>>
      BY <2>7 DEF TakeOwnership, server
    <3> QED
      BY <2>a, <3>1
  <2>8. ASSUME NEW r \in Req, LeaveInqueue(r) \/ LeavePending(r) PROVE UNCHANGED Call!vars
    BY <2>8, <2>a DEF LeaveInqueue, LeavePending, server
  <2>9. CASE WorkerSignal
    <3>1. PICK r \in Req : r = worker.req
      BY <2>9 DEF WorkerSignal, IInv, Types, WorkerHas
    <3>2. PICK to \in {"woken", "expired"} :
          /\ pc[r] \in {"wait", "woken", "expired"} /\ pc' = [pc EXCEPT ![r] = to]
          /\ UNCHANGED <<answered, result>>
      BY <2>9, <3>1 DEF WorkerSignal, Signal, MutexFree, server
    <3> QED
      BY <2>a, <3>2
  <2>10. CASE ReceiverSignal
    <3>1. PICK r \in Req : r = receiver.req
      BY <2>10 DEF ReceiverSignal, IInv, Types, ReceiverHas
    <3>2. PICK to \in {"woken", "expired"} :
          /\ pc[r] \in {"wait", "woken", "expired"} /\ pc' = [pc EXCEPT ![r] = to]
          /\ UNCHANGED <<answered, result>>
      BY <2>10, <3>1 DEF ReceiverSignal, Signal, MutexFree, server
    <3> QED
      BY <2>a, <3>2
  <2>11. \/ \E r \in Req : \/ Refuse(r) \/ Enqueue(r) \/ Expire(r) \/ SpuriousWakeup(r)
                           \/ WaitReturns(r) \/ TakeOwnership(r) \/ LeaveInqueue(r)
                           \/ LeavePending(r) \/ Return(r) \/ ServerAnswer(r)
         \/ WorkerSignal \/ ReceiverSignal
         \/ UNCHANGED <<pc, answered, result>>
    BY DEF Next, RequesterStep, WorkerStep, ReceiverStep, Dequeue, WorkerTryLock, Send, AddPending,
           WorkerUnlock, ReceiveInsert, ReceiveAnswer, ReceiverUnlock, ServerPush, ConnectionLost,
           vars, requester, server
  <2> QED
    BY <2>1, <2>2, <2>3, <2>4, <2>5, <2>6, <2>7, <2>8, <2>9, <2>10, <2>11, <2>b
<1> QED
  BY <1>1, <1>2, AnswerInvariance, PTL DEF Spec, ImplementsCall, Call!Spec
=============================================================================
