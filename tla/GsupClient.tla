----------------------------- MODULE GsupClient -----------------------------
(***************************************************************************)
(* gsup_client.c of strongSwan's osmo_epdg plugin: blocking GSUP calls     *)
(* made by IKE threads, one sender job (queue_worker) and one receiver     *)
(* (on_recv_pdu, called by the IPA client for each PDU).                   *)
(*                                                                         *)
(* A request is shared by three threads and guarded by a mutex with its    *)
(* condition variable, by a rwlock that marks who may work with it, and by *)
(* a reference count.  The requester keeps the mutex from the moment its   *)
(* wait is over, and the rwlock from the moment it gets it: enqueue()      *)
(* releases neither.  A step of a thread ends before the next point where  *)
(* it may block or where another thread may see a difference.              *)
(***************************************************************************)
EXTENDS Integers, Sequences, SequencesExt

CONSTANTS
    Req,    \* requests: one call of send_auth_request, update_location or tunnel_request
    KeyOf,  \* IMSI and message type of a request
    Null,   \* no request, no response
    Insert, \* an INSERT_DATA_REQUEST, which the server sends unasked
    Stray,  \* an answer to a request this client has not made
    MaxPush \* bound: PDUs the server sends unasked

ASSUME ReqAssumption == {Null, Insert, Stray} \cap Req = {} /\ Insert # Stray
ASSUME KeyAssumption ==
    /\ KeyOf \in [Req \cup {Stray} -> STRING]
    /\ \A r \in Req : KeyOf[r] # KeyOf[Stray]
ASSUME PushAssumption == MaxPush \in Nat

VARIABLES
    pc,       \* where the requester of a request is
    ref,      \* refcount; 0 before gsup_request_create and after the free
    lock,     \* holder of the rwlock
    timedout, \* what timed_wait returned
    resp,     \* req->resp: the request the received answer was given to
    result,   \* what the call has returned
    inqueue,  \* requests for the sender, the oldest first
    pending,  \* requests sent and not answered
    worker,   \* the sender job and the request it works on
    receiver, \* the receiver, its request and the PDU it has decoded
    sent,     \* requests the server has not answered yet
    answers,  \* PDUs on their way back
    answered, \* history: requests the server has answered
    pushes    \* PDUs the server has sent unasked

requester == <<pc, timedout, result>>
queues == <<inqueue, pending>>
server == <<sent, answers, answered, pushes>>
vars == <<requester, ref, lock, resp, queues, worker, receiver, server>>

PcStates == {"idle", "wait", "woken", "expired", "locking", "inqueue", "pending", "return", "done"}
WorkerStates == {"dequeue", "try_lock", "send", "add_pending", "unlock", "signal", "ended"}
ReceiverStates == {"read", "signal", "unlock"}
Holders == {"none", "requester", "worker", "receiver"}

\* Thread state and the request the thread holds a pointer to.
At(s, r) == [st |-> s, req |-> r]

Init ==
    /\ pc = [r \in Req |-> "idle"]
    /\ ref = [r \in Req |-> 0]
    /\ lock = [r \in Req |-> "none"]
    /\ timedout = [r \in Req |-> FALSE]
    /\ resp = [r \in Req |-> Null]
    /\ result = [r \in Req |-> Null]
    /\ inqueue = <<>> /\ pending = <<>>
    /\ worker = At("dequeue", Null)
    /\ receiver = [st |-> "read", req |-> Null, pdu |-> Null]
    /\ sent = {} /\ answers = <<>> /\ answered = {} /\ pushes = 0

(***************************************************************************)
(* Primitives.                                                             *)
(***************************************************************************)
\* gsup_request_put: give a reference back; the last one frees the request.
Put(r) == ref' = [ref EXCEPT ![r] = @ - 1]

\* The mutex of a request is free while its requester sleeps in timed_wait or
\* has not got it back yet, and never again after that.
MutexFree(r) == pc[r] \in {"wait", "woken", "expired"}

\* signal_request: store the response and wake the requester.  A requester
\* whose time is up no longer waits on the condition variable.
Signal(r, a) ==
    /\ MutexFree(r)
    /\ resp' = [resp EXCEPT ![r] = a]
    /\ pc' = [pc EXCEPT ![r] = IF @ = "wait" THEN "woken" ELSE @]

\* Mutant of Matches: get_pending looks at neither IMSI nor message type.
MatchesAnything(a) == 1..Len(pending)

\* get_pending: positions of the requests an answer to a can belong to.
Matches(a) == {i \in 1..Len(pending) : KeyOf[pending[i]] = KeyOf[a]}
FirstMatch(a) == CHOOSE i \in Matches(a) : \A j \in Matches(a) : i <= j

(***************************************************************************)
(* Requesters: send_auth_request, update_location and tunnel_request, all  *)
(* of which build a message and pass through enqueue().                    *)
(***************************************************************************)
\* Invalid arguments, or a message that cannot be encoded: NULL at once.
Refuse(r) ==
    /\ pc[r] = "idle"
    /\ pc' = [pc EXCEPT ![r] = "done"]
    /\ UNCHANGED <<ref, lock, timedout, resp, result, queues, worker, receiver, server>>

\* Mutant of Enqueue: no reference is taken for the queues.
EnqueueWithoutGet(r) ==
    /\ pc[r] = "idle"
    /\ pc' = [pc EXCEPT ![r] = "wait"]
    /\ ref' = [ref EXCEPT ![r] = 1]
    /\ inqueue' = Append(inqueue, r)
    /\ UNCHANGED <<lock, timedout, resp, result, pending, worker, receiver, server>>

\* gsup_request_create, then enqueue() up to the wait.
Enqueue(r) ==
    /\ pc[r] = "idle"
    /\ pc' = [pc EXCEPT ![r] = "wait"]
    /\ ref' = [ref EXCEPT ![r] = 2]
    /\ inqueue' = Append(inqueue, r)
    /\ UNCHANGED <<lock, timedout, resp, result, pending, worker, receiver, server>>

\* The 5 seconds are over.
Expire(r) ==
    /\ pc[r] = "wait"
    /\ pc' = [pc EXCEPT ![r] = "expired"]
    /\ UNCHANGED <<ref, lock, timedout, resp, result, queues, worker, receiver, server>>

\* pthread_cond_timedwait may return without a signal, and enqueue() does not
\* wait in a loop.
SpuriousWakeup(r) ==
    /\ pc[r] = "wait"
    /\ pc' = [pc EXCEPT ![r] = "woken"]
    /\ UNCHANGED <<ref, lock, timedout, resp, result, queues, worker, receiver, server>>

\* timed_wait returns with the mutex.
WaitReturns(r) ==
    /\ pc[r] \in {"woken", "expired"}
    /\ timedout' = [timedout EXCEPT ![r] = pc[r] = "expired"]
    /\ pc' = [pc EXCEPT ![r] = "locking"]
    /\ UNCHANGED <<ref, lock, resp, result, queues, worker, receiver, server>>

\* write_lock: take the request away from sender and receiver, for good.
TakeOwnership(r) ==
    /\ pc[r] = "locking"
    /\ lock[r] = "none"
    /\ lock' = [lock EXCEPT ![r] = "requester"]
    /\ pc' = [pc EXCEPT ![r] = IF timedout[r] THEN "inqueue" ELSE "return"]
    /\ UNCHANGED <<ref, timedout, resp, result, queues, worker, receiver, server>>

\* remove and remove_pending: a list without the request, which is in it once
\* at most.
Without(q, r) == IF r \in ToSet(q) THEN RemoveAt(q, CHOOSE i \in DOMAIN q : q[i] = r) ELSE q

\* After a timeout: give back the reference of the in-queue ...
LeaveInqueue(r) ==
    /\ pc[r] = "inqueue"
    /\ inqueue' = Without(inqueue, r)
    /\ IF r \in ToSet(inqueue)
       THEN Put(r) /\ pc' = [pc EXCEPT ![r] = "return"]
       ELSE pc' = [pc EXCEPT ![r] = "pending"] /\ UNCHANGED ref
    /\ UNCHANGED <<lock, timedout, resp, result, pending, worker, receiver, server>>

\* ... or of the pending list.
LeavePending(r) ==
    /\ pc[r] = "pending"
    /\ pending' = Without(pending, r)
    /\ IF r \in ToSet(pending) THEN Put(r) ELSE UNCHANGED ref
    /\ pc' = [pc EXCEPT ![r] = "return"]
    /\ UNCHANGED <<lock, timedout, resp, result, inqueue, worker, receiver, server>>

\* The call returns: NULL after a timeout, req->resp otherwise.
Return(r) ==
    /\ pc[r] = "return"
    /\ pc' = [pc EXCEPT ![r] = "done"]
    /\ Put(r)
    /\ result' = [result EXCEPT ![r] = IF timedout[r] THEN Null ELSE resp[r]]
    /\ UNCHANGED <<lock, timedout, resp, queues, worker, receiver, server>>

(***************************************************************************)
(* The sender: queue_worker.                                               *)
(***************************************************************************)
Dequeue ==
    /\ worker.st = "dequeue"
    /\ inqueue # <<>>
    /\ worker' = At("try_lock", Head(inqueue))
    /\ inqueue' = Tail(inqueue)
    /\ UNCHANGED <<requester, ref, lock, resp, pending, receiver, server>>

\* Mutant of WorkerTryLock: the reference is not given back.
WorkerTryLockWithoutPut ==
    LET r == worker.req IN
    /\ worker.st = "try_lock"
    /\ IF lock[r] = "none"
       THEN lock' = [lock EXCEPT ![r] = "worker"] /\ worker' = At("send", r)
       ELSE worker' = At("ended", Null) /\ UNCHANGED lock
    /\ UNCHANGED <<requester, ref, resp, queues, receiver, server>>

\* A request whose requester has taken it back ends the job: it returns
\* JOB_REQUEUE_NONE and nobody queues it again.
WorkerTryLock ==
    LET r == worker.req IN
    /\ worker.st = "try_lock"
    /\ IF lock[r] = "none"
       THEN /\ lock' = [lock EXCEPT ![r] = "worker"]
            /\ worker' = At("send", r)
            /\ UNCHANGED ref
       ELSE Put(r) /\ worker' = At("ended", Null) /\ UNCHANGED lock
    /\ UNCHANGED <<requester, resp, queues, receiver, server>>

\* Mutant of Send: the lock is released before add_pending.
SendThenUnlock ==
    LET r == worker.req IN
    /\ worker.st = "send"
    /\ lock' = [lock EXCEPT ![r] = "none"]
    /\ \/ sent' = sent \cup {r} /\ worker' = At("add_pending", r)
       \/ worker' = At("signal", r) /\ UNCHANGED sent
    /\ UNCHANGED <<requester, ref, resp, queues, receiver, answers, answered, pushes>>

\* ipa->send: the server has the request, or the write failed.
Send ==
    LET r == worker.req IN
    /\ worker.st = "send"
    /\ \/ sent' = sent \cup {r} /\ worker' = At("add_pending", r) /\ UNCHANGED lock
       \/ /\ lock' = [lock EXCEPT ![r] = "none"]
          /\ worker' = At("signal", r)
          /\ UNCHANGED sent
    /\ UNCHANGED <<requester, ref, resp, queues, receiver, answers, answered, pushes>>

\* add_pending: the reference of the in-queue goes to the pending list.
AddPending ==
    /\ worker.st = "add_pending"
    /\ pending' = Append(pending, worker.req)
    /\ worker' = [worker EXCEPT !.st = "unlock"]
    /\ UNCHANGED <<requester, ref, lock, resp, inqueue, receiver, server>>

WorkerUnlock ==
    /\ worker.st = "unlock"
    /\ lock' = [lock EXCEPT ![worker.req] = "none"]
    /\ worker' = At("dequeue", Null)
    /\ UNCHANGED <<requester, ref, resp, queues, receiver, server>>

\* A failed send wakes the requester without a response.
WorkerSignal ==
    /\ worker.st = "signal"
    /\ Signal(worker.req, Null)
    /\ Put(worker.req)
    /\ worker' = At("dequeue", Null)
    /\ UNCHANGED <<lock, timedout, result, queues, receiver, server>>

(***************************************************************************)
(* The receiver: on_recv_pdu.                                              *)
(***************************************************************************)
\* An INSERT_DATA_REQUEST is answered on the spot (tx_insert_data_result).
ReceiveInsert ==
    /\ receiver.st = "read" /\ answers # <<>>
    /\ Head(answers) = Insert
    /\ answers' = Tail(answers)
    /\ UNCHANGED <<requester, ref, lock, resp, queues, worker, receiver, sent, answered, pushes>>

\* An answer: find its request and lock it.  Without a request, or with one
\* that is locked ("Response too late"), the PDU is dropped.
ReceiveAnswer ==
    LET a == Head(answers)
        r == pending[FirstMatch(a)]
    IN
    /\ receiver.st = "read" /\ answers # <<>>
    /\ a # Insert
    /\ answers' = Tail(answers)
    /\ IF Matches(a) = {}
       THEN UNCHANGED <<pending, lock, ref, receiver>>
       ELSE /\ pending' = RemoveAt(pending, FirstMatch(a))
            /\ IF lock[r] = "none"
               THEN /\ lock' = [lock EXCEPT ![r] = "receiver"]
                    /\ receiver' = [st |-> "signal", req |-> r, pdu |-> a]
                    /\ UNCHANGED ref
               ELSE Put(r) /\ UNCHANGED <<lock, receiver>>
    /\ UNCHANGED <<requester, resp, inqueue, worker, sent, answered, pushes>>

ReceiverSignal ==
    /\ receiver.st = "signal"
    /\ Signal(receiver.req, receiver.pdu)
    /\ receiver' = [receiver EXCEPT !.st = "unlock", !.pdu = Null]
    /\ UNCHANGED <<ref, lock, timedout, result, queues, worker, server>>

\* Mutant of ReceiverUnlock: the rwlock is not given back.
ReceiverKeepsLock ==
    /\ receiver.st = "unlock"
    /\ Put(receiver.req)
    /\ receiver' = [st |-> "read", req |-> Null, pdu |-> Null]
    /\ UNCHANGED <<requester, lock, resp, queues, worker, server>>

ReceiverUnlock ==
    /\ receiver.st = "unlock"
    /\ lock' = [lock EXCEPT ![receiver.req] = "none"]
    /\ Put(receiver.req)
    /\ receiver' = [st |-> "read", req |-> Null, pdu |-> Null]
    /\ UNCHANGED <<requester, resp, queues, worker, server>>

(***************************************************************************)
(* The GSUP server and the connection (external).                          *)
(***************************************************************************)
ServerAnswer(r) ==
    /\ r \in sent
    /\ sent' = sent \ {r}
    /\ answered' = answered \cup {r}
    /\ answers' = Append(answers, r)
    /\ UNCHANGED <<requester, ref, lock, resp, queues, worker, receiver, pushes>>

ServerPush ==
    /\ pushes < MaxPush
    /\ pushes' = pushes + 1
    /\ \E p \in {Insert, Stray} : answers' = Append(answers, p)
    /\ UNCHANGED <<requester, ref, lock, resp, queues, worker, receiver, sent, answered>>

ConnectionLost ==
    /\ sent # {} \/ answers # <<>>
    /\ sent' = {} /\ answers' = <<>>
    /\ UNCHANGED <<requester, ref, lock, resp, queues, worker, receiver, answered, pushes>>

-----------------------------------------------------------------------------
RequesterStep(r) ==
    \/ WaitReturns(r) \/ TakeOwnership(r) \/ LeaveInqueue(r) \/ LeavePending(r) \/ Return(r)

WorkerStep == Dequeue \/ WorkerTryLock \/ Send \/ AddPending \/ WorkerUnlock \/ WorkerSignal

ReceiverStep == ReceiveInsert \/ ReceiveAnswer \/ ReceiverSignal \/ ReceiverUnlock

Next ==
    \/ \E r \in Req :
        Refuse(r) \/ Enqueue(r) \/ Expire(r) \/ SpuriousWakeup(r) \/ RequesterStep(r) \/ ServerAnswer(r)
    \/ WorkerStep
    \/ ReceiverStep
    \/ ServerPush
    \/ ConnectionLost

Spec == Init /\ [][Next]_vars

\* Threads run and timers fire; nothing is assumed of the server.
FairSpec ==
    /\ Spec
    /\ \A r \in Req : WF_vars(RequesterStep(r)) /\ WF_vars(Expire(r))
    /\ WF_vars(WorkerStep)
    /\ WF_vars(ReceiverStep)

-----------------------------------------------------------------------------
TypeOK ==
    /\ pc \in [Req -> PcStates]
    /\ ref \in [Req -> 0..2]
    /\ lock \in [Req -> Holders]
    /\ timedout \in [Req -> BOOLEAN]
    /\ resp \in [Req -> Req \cup {Null}]
    /\ result \in [Req -> Req \cup {Null}]
    /\ inqueue \in Seq(Req) /\ pending \in Seq(Req)
    /\ worker \in [st : WorkerStates, req : Req \cup {Null}]
    /\ receiver \in [st : ReceiverStates, req : Req \cup {Null}, pdu : Req \cup {Null}]
    /\ sent \subseteq Req /\ answered \subseteq Req
    /\ answers \in Seq(Req \cup {Insert, Stray})
    /\ pushes \in 0..MaxPush

Held(b) == IF b THEN 1 ELSE 0

(***************************************************************************)
(* The reference count of a request is the number of its owners: the       *)
(* requester until it returns, the list the request is in, the sender      *)
(* before it has passed the request on, the receiver that has taken it     *)
(* from the pending list.  So gsup_request_put() frees a request exactly   *)
(* when the last owner lets go: none is leaked, freed twice or used after  *)
(* the free, whatever the order of timeout, send and answer.               *)
(***************************************************************************)
RefsAccounted == \A r \in Req :
    ref[r] = Held(pc[r] \notin {"idle", "done"})
           + Held(r \in ToSet(inqueue)) + Held(r \in ToSet(pending))
           + Held(worker.req = r /\ worker.st # "unlock")
           + Held(receiver.req = r)

(***************************************************************************)
(* gsup_client.c:80 "After this lock is taken by enqueue(), the rx/tx gsup *)
(* won't add it anymore to pending list": no step of the sender puts a     *)
(* request back into a list once its requester owns it, so that the        *)
(* requester's search of the two lists misses nothing.                     *)
(***************************************************************************)
OwnedStaysOut == [][\A r \in Req :
    lock[r] = "requester" /\ r \notin ToSet(inqueue) \cup ToSet(pending)
        => r \notin ToSet(inqueue') \cup ToSet(pending')]_vars

\* How far a call has got, seen from outside.
callState == [r \in Req |-> CASE pc[r] = "idle" -> "idle"
                              [] pc[r] = "done" -> "returned"
                              [] OTHER -> "open"]

(***************************************************************************)
(* The threads together implement one blocking call (GsupCall): a call     *)
(* returns once, with NULL or with an answer to the same IMSI and          *)
(* procedure that no other call has got.                                   *)
(***************************************************************************)
Call == INSTANCE GsupCall WITH call <- callState

ImplementsCall == Call!Spec

(***************************************************************************)
(* An answer handed over before the timeout is returned by the call: the   *)
(* requester gets past the rwlock, because the receiver that woke it gives *)
(* it back without needing the mutex again, and nothing overwrites resp.   *)
(***************************************************************************)
AnswerReturned == \A r \in Req :
    (pc[r] = "woken" /\ resp[r] # Null) ~> (pc[r] = "done" /\ result[r] # Null)

(***************************************************************************)
(* gsup_client.c:44 "A request will block until it handled by the gsup or  *)
(* timeout. So all tx function will block with a timeout of 5 seconds."    *)
(* Every call returns, whatever the server does.                           *)
(***************************************************************************)
CallReturns == \A r \in Req : (pc[r] = "wait") ~> (pc[r] = "done")
=============================================================================
