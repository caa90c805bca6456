# Verification of the WiFi calling path of docker_open5gs

`docker_open5gs` deploys a 4G/5G core with IMS from containers. Most of the repository
is configuration and start scripts of third-party network functions. The program code it
carries is the WiFi calling path: **osmo-epdg** (Erlang, `src/osmoepdg/osmo-epdg-src/src`),
which is an ePDG control plane and a 3GPP AAA server in one virtual machine, and the
**osmo_epdg plugin** of a vendored strongSwan (C), the IKE end of the UE's tunnel. This
directory holds TLA+ models of osmo-epdg, of the plugin and of the part of libstrongswan its
threads run on, the TLC runs that check them on small instances, and TLAPS proofs.

## 1. Inventory

```
 strongSwan --GSUP--> gsup_server --+                 +--> aaa_diameter_swx --SWx--> HSS
 (plugin)                           |                 |
                              epdg_ue_fsm         aaa_ue_fsm
                                |    |                |  |
       PGW <--GTPv2-C-- epdg_gtpc_s2b|                |  +--> aaa_diameter_s6b --S6b--> PGW
       kernel <-------- gtp_u_tun    |                |
                                epdg_diameter_swm <-> aaa_diameter_swm   (casts, "SWm")

 inside strongSwan:
   listener, provider --calls--> gsup_client --PDUs--> ipa_client --GSUP--> gsup_server
        |                                                 |
    UE objects, db                       watcher (callbacks), scheduler (reconnect job)
                                                          |
                                               processor (threads of all of them)
```

| component | state | operations | what makes it correct |
|---|---|---|---|
| `epdg_ue_fsm` | one process per IMSI, registered by name, not supervised; `#ue_fsm_data{}` with the tunnel and four teardown flags | requests of the UE, answers and requests of the AAA server and the PGW, five timers | every tunnel has an owner; a teardown ends; every request gets at most one answer |
| `gsup_server` | the GSUP connection, a mailbox of requests and casts | five requests, five casts; calls the FSM | answers match requests and say what is true |
| `epdg_gtpc_s2b` | sessions (pid, TEIs, bearers), next TEIs, sequence number | create/delete calls of the FSM, datagrams of the PGW; calls the FSM | answers reach the FSM that asked; the session fits the tunnel |
| `gtp_u_tun` | PDP contexts in the kernel | create, delete | nothing is left behind |
| `epdg_diameter_swm`, `aaa_diameter_swm` | none but their mailboxes | casts between the two halves; the AAA half calls its FSM and is called by it | no message is misread; no endless mutual wait |
| `aaa_ue_fsm` | one process per IMSI; flags for the ePDG's and the PGW's session, the S6b process to answer | SWm, SWx and S6b events, two timers | serves only users the HSS has registered; deregisters after the last session |
| `aaa_diameter_swx(_cb)` | Diameter peer | MAR, SAR; PPR, RTR from the HSS | an answer goes to the FSM that asked |
| `aaa_diameter_s6b(_cb)` | one process per request of the PGW | AAR, STR; RAR, ASR | a process gets the answer it waits for |
| `osmo_epdg_sup` | six servers, `one_for_all` | restart | a restart leaves no tunnel behind |
| plugin: `gsup_client` | requests in a queue or a pending list, each with mutex, condition variable, rwlock and reference count | three blocking calls with a 5 s timeout, a sender job, a receiver | a call returns, with its own kind of answer; a request is freed once |
| plugin: `ipa_client` | the connection, `reconnecting`, the backoff | connect, read, reconnect job | a lost connection is noticed and made again, by one job |
| plugin: `osmo_epdg_ue`, `_db`, `_listener`, `_provider` | UE objects by IMSI, with reference count and rwlock | `eap_authorize`, `authorize`, vectors, addresses, attributes | an IKE_SA gets what belongs to its subscriber; UE objects live as long as they are used |
| libstrongswan `watcher` | registered descriptors, callbacks in progress | `add`, `remove`, poll, dispatch | no callback after `remove`, no descriptor forgotten |
| libstrongswan `processor`, `scheduler` | job queues by priority, threads and their counters; a heap of timed events | queue, execute, schedule, requeue, cancel | no lost wakeup, reserved threads stay free, events fire in order |

What is hard here: the FSMs are unsupervised and outlive a restart of the servers; two
pairs of processes call each other (`epdg_ue_fsm` with `epdg_gtpc_s2b`, `aaa_ue_fsm` with
`aaa_diameter_swm`) and are separated only by the 5 s default of `gen_server:call`; three
networks start procedures against one subscriber at the same time; in the plugin a
request, a UE object or a stream is shared by three threads under locks taken in different
orders and held across waits; an event that a state
does not name crashes the process in some states, is answered `ok` in others and
`{error, _}` in a third group. `PROJECT.json` lists the hazards at their lines.

## 2. Modules

| module | what it is |
|---|---|
| `EpdgUeFsm` | the ePDG half for one IMSI: `epdg_ue_fsm`, `gsup_server`, `epdg_diameter_swm`, `epdg_gtpc_s2b`, `gtp_u_tun`, the supervisor; properties and mutants |
| `MCEpdgUeFsm` | the client kinds and the constraint TLC uses |
| `CommonLemmas` | lemmas the proofs share: removal from a list, cardinalities of the places where something is held, how many members of a queue are of a kind |
| `EpdgUeFsm_proofs` | theorems about `EpdgUeFsm` |
| `AaaUeFsm`, `MCAaaUeFsm`, `AaaUeFsm_proofs` | the AAA half for one IMSI: `aaa_ue_fsm`, `aaa_diameter_swm`, SWx, S6b |
| `GsupCall` | abstract: what a blocking call of the GSUP client promises |
| `GsupClient`, `MCGsupClient`, `GsupClient_proofs` | `gsup_client.c`; shown to implement `GsupCall` |
| `EpdgSubscribers`, `MCEpdgSubscribers`, `EpdgSubscribers_proofs` | the UE objects, the registry, listener and provider, on top of the contract of `GsupCall` |
| `IpaClient`, `MCIpaClient`, `IpaClient_proofs` | `ipa_client.c` with what it uses of streams and watcher |
| `Watcher`, `MCWatcher`, `Watcher_proofs` | `watcher.c` |
| `TimerQueue` | abstract: what the scheduler promises |
| `Scheduler` | the heap of `scheduler.c`, as operators |
| `Processor`, `MCProcessor`, `Processor_proofs` | `processor.c`, the timer job of `scheduler.c`, `callback_job.c`; shown to implement `TimerQueue` |

### 2.1 `EpdgUeFsm`

*State.* `pid` is the incarnation registered for the IMSI (0: none; incarnations are
numbered), `state` and `data` its gen_statem state and record, `blocked` the call into the
S2b server it is waiting for. `sess` and `nextTei` are the S2b server's session of this
IMSI, `s2bCalls` its queued calls, `s2bWait` the call into the FSM it is blocked in.
`mbox` is gsup_server's mailbox, `swmTx`/`swmRx` the casts to and from the AAA half,
`gtp` the datagrams in flight (a set: they are lost and reordered), `kmod` the kernel's
contexts. `owed` is a history variable: requests minus responses per kind.

*Actions.* One per handler: `RxAuthRequest` .. `RxCancelLocationRes` are the clauses of
`rx_gsup`, with what the FSM does in each group of states and what gsup_server does with
the FSM's reply; `TxResponse`, `TxPurgeMsResponse`, `TxCancelLocationRequest` are its casts;
`RxDeaAuthResponse` .. `RxAbortSessionRequest` those of the SWm stub; `CreateSessionReq`,
`DeleteSessionReq` the S2b server's calls; `RxCreateSessionResponse`,
`RxDeleteSessionResponse`, `RxDeleteBearerRequest` its datagrams up to the call into the
FSM, and `Fsm...` the FSM's half of that call together with what the server stores
afterwards. `StateTimeout` and `CallTimeout` are the timers. A crash is `Terminate`,
including the clean-up of `terminate/3`; a crash of the S2b server is `Restart`.

*Granularity.* A call into an idle FSM and the caller's reaction are one step: the caller
does nothing else meanwhile, and the FSM handles one event at a time. The two calls that
can cross (FSM to S2b server and back) are split, which is where the mutual wait, late
service of dead callers and answers to dead FSMs come from.

*Assumptions.* TEIs are fresh numbers (2^32 of them, searched for unused ones). A GTP
datagram is not duplicated. The calls into the kernel module succeed. The supervisor's
restart intensity is not exceeded. The AAA half handles requests in order. The IKE daemon
has one request outstanding; it may send purges and answer a Cancel Location (the CEAI
interface allows both) though the plugin in this repository does neither: `PluginKinds`
is the plugin's own behaviour.

### 2.2 `AaaUeFsm`

*State.* `pid`, `state`, `data`, `call` as above; `swmQ` is the mailbox of
`aaa_diameter_swm`, which holds both the ePDG's casts and the FSM's calls, `swmWait` the
incarnation that server is blocked on. `hssReq`, `hssAns`, `ppr`, `rtr` are SWx messages in flight and
`hssReg` the HSS's view; `s6b` gives the state of each process that handles a PGW request.

*Actions.* The clauses of `handle_cast` and `handle_call` of `aaa_diameter_swm`, of
`handle_request` and `handle_answer` of the two Diameter callbacks, and the timers; `Resume`
is what the FSM does when its call into `aaa_diameter_swm` returns. `Unexpected` is an event
without a clause: a crash or an `ok`, depending on the state. A SWx answer is only given an
action in the state that understands it; `AnswerExpected` shows that there is no other case.

*Assumptions.* The HSS serves requests in order, one PPR and one RTR are in flight at a
time, and a push is not lost (Diameter runs over a reliable transport). Requests and answers
on SWx, and answers on S6b, may be lost or refused. The PGW may name the user by NAI or by IMSI.
A restart of all servers, which only the ePDG half can cause, is not part of this module.

### 2.3 `GsupClient` and `GsupCall`

*State.* Per request `pc` says where its requester is in `enqueue()`, `ref` is the reference
count, `lock` the holder of the rwlock, `resp` the response stored in it. The mutex needs no
variable: it is free exactly while the requester sleeps or tries to get it back (`MutexFree`),
since `enqueue()` never releases it afterwards. `worker` and `receiver` are the two other
threads with the request they point to. `answered` is a history variable.

*Actions.* One per stretch of code between two points where a thread may block or another
may notice: `Enqueue`, `Expire`, `SpuriousWakeup`, `WaitReturns`, `TakeOwnership`,
`LeaveInqueue`, `LeavePending`, `Return` for the requester; `Dequeue` .. `WorkerSignal` for
`queue_worker`; `ReceiveInsert` .. `ReceiverUnlock` for `on_recv_pdu`. A sender that meets a
request its requester has taken back ends for good (`ended`), as the job returns
`JOB_REQUEUE_NONE`. The three calls differ only in the message they build.

*Refinement.* `GsupCall` has calls that are made, answered and returned; the mapping reads the
state of a call off `pc`. An answer carries no transaction identifier, so the abstract
specification lets a call return the answer to an earlier one of the same IMSI and procedure.

### 2.4 `EpdgSubscribers`

One thread per IKE_SA goes through vectors, location update, tunnel request, address and
attributes; `pc` is how far it is, `holds` the UE object it has a reference to. A UE object is
named by the IKE_SA it was made for, an address or attribute by the IKE_SA whose tunnel request
brought it, so that `OwnSubscriberOnly` can tell where it came from. `readers` counts read
locks: `get_attributes` returns before its unlock, so they only grow. GSUP calls return any
outcome `GsupCall` allows. `CreateSubscriber` has three outcomes: nothing can be read from the
identities, the UE is created, or it is refused after the registered one was dropped. The IKE identity and the EAP identity are assumed to be the same
(swanctl.conf sets no `eap_id`). An ill-formed IMSI is never created.

### 2.5 `Watcher`

`fds` is the list of entries, `inCb` their `in_callback`, `watcher` the watch job with its poll
set and what poll returned, `jobs`/`active` the callbacks to start and started, `pipe` the notify
pipe, `remover` the threads in `remove()`, with the `prev` pointer they keep while they wait.
Everything under the watcher's mutex is one step; poll, the execution of callbacks (by another
thread or by the watch job itself) and the wait in `remove()` lie between steps. Entries 2 and
3 of the instances have the same descriptor: a stream and the stream of the next connection.
Exceptions on a descriptor (POLLERR), and with them their precedence over the other events, are left out.

### 2.6 `IpaClient`

Three threads (`create`, `job`, `callback`), each with the connection it was given. `mutex` is
held by the reconnect job from its start to its end; `reconnecting`, `timers` and `backoff` are
its bookkeeping. Bytes are parts, a header or a body. `registered` is the stream's entry in the
watcher: `Disconnect` waits while it is `active`, which is what `watcher->remove` does. Reads of
a destroyed stream by the creating thread (`Dangling`) may fail, find nothing or read from the
new connection. After `recv()` has returned 0, `ReadHeader` and `ReadEnd` are both possible: `errno`
is what an earlier call left there. A header that arrives in pieces is one part, and a failing
`chunk_alloc` is left out.

### 2.7 `Scheduler`, `Processor` and `TimerQueue`

`Scheduler` gives the heap's two operations by the path an event takes: the positions above or
below and the first one where it may stop. `Processor` has the job queues by priority, the
state of each thread, the counters `working`, `total`, `desired` that decide who may take a
job, the heap, the clock and the timer job. The daemon's use is `phase`: created, running,
`set_threads(0)`, `cancel()` with its wait for one thread at a time, flush. A signal wakes one
waiting thread, any of them. The mutex is released and taken again inside `process_job` and
`restart` without another decision being made there, so both are one step. `TimerQueue` is the
abstract timer: a set of events, the due one with the earliest time is fired. Of the jobs only the timer job is
cancelable, as it is the one that waits without end; others that are canceled while they run may
here be requeued where `process_job` destroys them.

## 3. Runs

| run | bounds | shows |
|---|---|---|
| `epdg_safety` | any 4 requests with 2 network procedures; 6 where the first FSM is gone and no procedure has started (`RequestBound`) | `TypeOK`, `NoTunnelLeak`, `NoUnsolicitedResponse`, `FlagsOnlyInTeardown`, `TunnelHasItsSession`, `TeardownIsFinal`, `AsaAfterRelease`; 4.3 million states |
| `epdg_liveness` | any 3 requests, 2 procedures, fair | `DeregTerminates`, `MutualWaitEnds` |
| `aaa_safety` | 3 SWm requests, 2 HSS pushes, 2 S6b requests, fair | `TypeOK`, `ServedOnlyIfRegistered`, `LastSessionDeregisters`, `AnswerExpected`, `DeregTerminates`, `MutualWaitEnds`; 320 thousand states |
| `gsup_safety` | 2 calls of one IMSI and procedure, 1 unasked PDU, fair | `TypeOK`, `RefsAccounted`, `OwnedStaysOut`, `ImplementsCall` (refinement), `AnswerReturned`; 119 thousand states |
| `subs_safety` | 4 IKE_SAs of 3 IMSIs, one refused | `TypeOK`, `RefsAccounted`, `OwnSubscriberOnly`, `ReadyHasAddress`, `BlockedBySibling`; 418 thousand states |
| `watcher_safety` | 3 entries on 2 descriptors, one of which stays, one remover, fair | `TypeOK`, `CallbacksCounted`, `NobodyForgotten`, `ReadyIsServed`, `RemoveReturns`; 91 thousand states |
| `ipa_safety` | 3 connections, 4 parts on each | `TypeOK`, `OneReconnect`, `NoLostReconnect`; 27 thousand states |
| `jobs_safety` | 3 threads (2 reserved), 4 jobs and the timer job, 2 ticks, fair | `TypeOK`, `WorkingCounted`, `NoLostWakeup`, `ReserveKept`, `ImplementsTimerQueue` (refinement), `CancelReturns`; 829 thousand states |

*Why the bounds are enough to be interesting.* An attach takes three GSUP requests, so four
reach an active UE that is then purged or authenticated again, and two network procedures
are what a crossing takes (an ASR with a Delete Bearer, an RAR with an ASR). Six requests
are two attaches, which a stale session needs; the constraint `RequestBound` gives the last two
only to the successor of a first FSM, where the network has started nothing, since six requests
crossed with everything else are out of TLC's reach. On the AAA side two SWm requests attach a
user, the third is an STR or a re-authentication, and the two S6b requests open and close
the PGW's session. Two GSUP calls are what it takes to confuse the answers of one with those of
the other, and every race inside one call has three threads already. Two IKE_SAs of one IMSI
disturb each other, the third one shows that they disturb no one else. A third entry gives
the watcher a descriptor whose number is used again; the other entry of `watcher_safety` stays,
because once `remove()` has used a stale `prev` (`watcher_prev`) the list holds freed memory, and
what the watcher does from there on is undefined. Three connections let a reconnect follow
a reconnect. With four jobs the heap has a node with two children and jobs of both priorities
compete for the unreserved thread. Runs end when the bounds are used up, hence `CHECK_DEADLOCK FALSE`: a
system with no subscriber activity is at rest. Symmetry is not used: incarnations and connections are numbered in order, and the runs
with interchangeable threads check liveness as well, for which it is not sound.

*Fairness.* Weak fairness of the steps of each Erlang process and of the timers: the
scheduler runs every process with a message, and a state_timeout or call timeout fires when
nothing cancels it. Nothing is assumed of strongSwan, the PGW, the AAA half (in `EpdgUeFsm`),
the ePDG half (in `AaaUeFsm`), the HSS or the network. In the plugin and libstrongswan, weak
fairness of each thread that can run, of expired waits and of jobs and callbacks that must
return; nothing of the GSUP server. `EpdgSubscribers` has no fairness: a blocking GSUP call need
not return (`gsup_blocks`), and neither does a wait for a UE object's lock. `IpaClient` needs strong fairness of taking the
mutex, which the job gives back between its attempts (a pthread mutex is not fair by contract,
but a waiter is woken at each release and the job then pauses for its backoff), and weak fairness
of the peer closing a connection, else a read of a body could wait for ever. That a read finds a connection closed is not assumed: `errno`
decides, which belongs to the thread and keeps its value until another call of the thread fails.

### Disagreements between the code and its own comments

Each run checks one statement of the source and TLC shows a behaviour that contradicts it. In
`watcher_prev` entry 1 is a connection that comes and goes beside the IPA stream, as the VICI
connections of `swanctl --load-all` (osmoepdg_init.sh:74) do: `on_read` of vici_socket.c returns
FALSE when the client has left.

| run | statement | what happens |
|---|---|---|
| `epdg_bearer_race` | epdg_gtpc_s2b.erl:96 a session has a default bearer | a Delete Bearer that crosses an ASR removes it; the Delete Session Request crashes the server and all servers restart |
| `gsup_blocks` | gsup_client.c:44-45 "all tx function will block with a timeout of 5 seconds" | the receiver has the rwlock and waits for the mutex, the requester whose time is up has the mutex and waits for the rwlock |
| `watcher_prev` | watcher.h:94-95 "blocks until any active callback for this FD returns. All callbacks registered for that FD get unregistered." | the entry `prev` is freed while `remove()` waits; the removed entry stays linked, is freed, and its callback is started later |
| `ipa_reconnect` | ipa_client.c:131 "Reconnecting" | the job has the mutex and waits for the stream's callback, the callback waits for the mutex to ask for a reconnect |

Further disagreements were met while modelling; the models contain the behaviour, without a
run of its own:

- epdg_ue_fsm.erl:572 reads a record field from an STA result that aaa_diameter_swm.erl:162-168
  sends as a bare integer; the FSM crashes and the purge (:72 "need to send GSUP PurgeMSResp
  after STR+STA?") stays unanswered.
- epdg_gtpc_s2b.erl:256 reuses a session of a dead FSM with its pid; the PGW's answer does not
  reach the FSM that asked.
- gsup_server.erl:151 reports a tunnel by a cast; an ASR may have removed it by then
  (:352 "everything must be ready for the UE traffic").
- epdg_ue_fsm.erl:511 waits for a GTP answer without the timer of :63.
- aaa_ue_fsm.erl:449 answers `ok` to an STR in a deregistration, which aaa_diameter_swm.erl:160
  reads as "Answering delayed"; no answer follows.
- gsup_client.c:686 ends the sender for good when it meets a request that has timed out.
- watcher.c:433 stops its dispatch loop at the first entry with an active callback, so later
  descriptors wait for it, against the intent of the comment at :262.
- processor.c:411 counts as idle a thread that was already woken for another queued job; a second
  job is then queued instead of being run by the caller, as processor.h promises if no thread
  is idle.
- osmo_epdg_ue.c:160 returns before the unlock of :161, so `get_attributes` keeps its read lock; a
  second IKE_SA of the IMSI that works on the same UE object waits in its next `set_...` for ever.
  `BlockedBySibling` bounds the damage: nobody else waits.
- ipa_client.c:298 decides by `errno` also when `recv()` has returned 0, where stream.h:60-61 speaks
  of a read that "returns -1 and sets errno to EWOULDBLOCK". The thread's `errno` may be an
  EWOULDBLOCK that watcher.c:414-417 has left, and then a closed connection is not noticed. So no
  property says that a loss is noticed; `NoLostReconnect` begins where an error is seen.
- ipa_client.c:394-395 registers the callback and then reads itself: two threads can read parts
  of one PDU. ipa_client.c:112 writes to `this->stream` without the mutex (writing is not
  modelled).

## 4. Proofs

`EpdgUeFsm_proofs` proves, for every set of client request kinds and all bounds, and from
the two assumptions of `EpdgUeFsm` only (the bounds are naturals, the client sends GSUP
requests): `TypeCorrect`, `TunnelSafety`, `FlagSafety`, `SessionSafety`, `TeardownSafety`,
`AsaSafety` and `ResponseSafety`.

The inductive invariant `IInv` is the type invariant's parts and

- `CallsOfTheLiving`: of the calls queued at the S2b server only the last can be of the
  registered FSM, which is then in that call; all others are of dead incarnations;
- `NoQueuedCreate`: an FSM that waits for the PGW or is active has no Create Session
  call left in the queue;
- `WaitIsAboutSession`: while the S2b server is blocked, its session is the one whose FSM
  it calls, and what it stores afterwards is that session or none;
- `NoTunnelLeak`, `FlagsOnlyInTeardown`, `TunnelHasItsSession`.

The first three are needed for the last. `TunnelHasItsSession` alone is not inductive: a
late Create Session call could replace the session of an active UE, and a server that
returns from a call could store a session of somebody else. The argument is that an FSM
makes its calls one at a time and waits, so by the time it leaves `authenticated` the queue
holds no older create; and a session keeps its TEI and pid while it exists.

The step lemmas take one conjunct each (`FsmTypeStep`, `CallsStep`, `LeakStep`, `FlagsStep`,
`WaitStep`, `TunnelStep`, ...), with one proof step per action, on top of lemmas on the
pieces the actions share (`Terminate`, `Become`, queueing a call). `TeardownIsFinal` and
`AsaAfterRelease` are action properties and follow from `IInv` step by step.

`ResponseSafety` (`NoUnsolicitedResponse`: no response without its request) has an invariant of
its own, `OwedInv`: for each kind, the requests not yet answered are at least as many as the
requests and casts of that kind in gsup_server's mailbox, plus what the FSM has due (a wait, a
call into the S2b server, `gsupNeeded`), plus the location updates at the AAA half. It is
an inequality because a crash or a restart drops requests without an answer. Each step is shown
to lower `owed` by no more than it takes out of these places; the members of a queue are counted
by `HowMany` of `CommonLemmas`, a cardinality, which avoids an induction over sequences.

`IpaClient_proofs` proves `TypeCorrect`, `ReconnectIsOne` (`OneReconnect`) and
`ReconnectNotLost` (`NoLostReconnect`) for every backoff and any bounds, from the assumptions
that the initial backoff is positive and not above the limit and that the bounds are naturals.
`OneReconnect` is inductive with the types. `NoLostReconnect` is not: the job clears the flag
when it has connected, and the callback of the new stream may have met an error by then. The
argument is that such a callback must get the mutex before it gives up the registration, and
the job holds the mutex until the flag is cleared. `JobHoldsMutex`, `EntryOfStream`,
`ConnectorKnows` and `ErrorReported` say so: a callback that has reported its error is met by a
job no further than the destruction of the old stream, where the job waits for it.

`EpdgSubscribers_proofs` proves `SubscriberSafety` (`OwnSubscriberOnly`) and `ReadySafety`
(`ReadyHasAddress`) for any set of IKE_SAs, subscribers and refused IMSIs. The invariant
follows the data: registry, references, addresses, attributes and assigned addresses each stay
within one IMSI (`DbOwn` .. `VipOwn`), the handlers have a UE object where they use one
(`HoldsUe`), and past `set_address` that object has an address (`AddressSet`), which nothing
takes away again. `SiblingSafety` (`BlockedBySibling`) adds `LockInv`: who has left a read lock on
a UE object is an IKE_SA of its IMSI past `get_attributes`, where it writes to no UE object any more.
`RefSafety` (`RefsAccounted`) and `TypeCorrect` rest on `RefInv`: the count is
the number of registry entries and of users, both as cardinalities; a handler without a UE object
holds none (`Unheld`), and nobody knows one before it is made (`Fresh`), so that a new object
starts with the count its creator gives it.

`GsupClient_proofs` proves `RefSafety` (`RefsAccounted`), `TypeCorrect`, `OwnedSafety`
(`OwnedStaysOut`) and `CallRefinement` (`ImplementsCall`) for any number of calls and unasked
PDUs, from the assumptions that requests differ from the markers used beside them and that an
unasked PDU matches no request. The reference counts are inductive only together with ownership:
a request is in one list once (`Lists`), the sender has it only while no list has it
(`WorkerHas`), the receiver has one that neither a list nor the sender has (`ReceiverHas`),
nobody knows it before `enqueue()` (`Unknown`), and the rwlock is held by the thread that has it
(`Locked`). For the refinement `AInv` follows the answers: each exists once, on the wire, at the
receiver or at one requester, and has the key of the request it was given to. So a call returns
an answer of its own IMSI and procedure that no other call gets. The steps map to `Call`,
`Answer`, `Return` and `Refuse` of `GsupCall`, all others to stuttering.

`AaaUeFsm_proofs` proves `TypeCorrect`, `AnswerSafety` (`AnswerExpected`), `LastSessionSafety`
(`LastSessionDeregisters`) and `ServedSafety` (`ServedOnlyIfRegistered`) for all bounds. The
invariant has three layers. `Mailbox` and `CallState`: the call the FSM is in has exactly one
message in the mailbox of `aaa_diameter_swm`, and the state tells which call it can be.
`Outstanding` and `Expected`: of the running FSM at most one SWx request is outstanding, it is
the last in the HSS's queue, and the FSM is in the state that reads its answer and in no
call. `StaysRegistered`: from the positive answer to the registration on, the HSS has the user
registered or its RTR is under way, and no deregistration is queued. The last part is what a
request of a dead incarnation could break: the HSS serves requests in order, so by the time
a registration is answered, every deregistration queued before it has been served.

`Watcher_proofs` proves `TypeCorrect` and `CountSafety` (`CallbacksCounted`) for any entries,
descriptors and threads in `remove()`. A descriptor is in the list once (`OneFd`, what `add()`'s
callers keep), callbacks are handed out before the watch job goes on (`Handed`), a callback has
its entry in the list and the event still wanted (`Attached`), and `in_callback` is the number of
callbacks queued or active (`Counted`). `NoCallbackAfterRemove` does not hold in
general: `remove()` keeps `prev` across its wait, and if the callback of that entry ends
meanwhile, `prev` is freed (run `watcher_prev`). `RemoveSafety` states what is left of watcher.h's
promise: it holds in every behaviour in which the remembered entry stays registered
(`[]PrevStays`), for any number of removers and descriptors. The other theorems hold with and
without that premise; without it, they are about a list whose freed members keep their contents.

`WatchSafety` proves the state part of `ReadyIsServed` and `RemoveReturns`, `NobodyForgotten`: there
is a watch job while anything is registered; a watch job that polls with an empty notify pipe polls
every entry that has no callback (`Polled`), because whoever adds an entry or ends a callback
writes to the pipe under the same mutex; and a thread that waits in `remove()` has a callback of its
descriptor queued or active (`Awaited`), whose end broadcasts. What is left to fairness is only
that the jobs run and the callbacks return.

`Processor_proofs` proves, for any number of threads, priorities, jobs, delays and any reserve,
`TypeCorrect`, `CountSafety` (`WorkingCounted`), `ReserveSafety` (`ReserveKept`),
`WakeupSafety` (`NoLostWakeup`), `CancelSafety` and `TimerRefinement` (`ImplementsTimerQueue`).
The counters need `OneJob` (a thread at work has a job), `QueuedByPrio` and `BusyCounted` (the sum of `working_threads` is the number of busy
threads); `SumOver` and `Reserved` are cardinalities of sets of pairs, so that sums over
priorities are computed with the theorems on finite sets. `ReserveSafety` compares the sum over
the priorities from p down with the idle threads and the reserve left.

`WakeupSafety` needs an invariant that counts by priority, `WInv`. `Announced` says, for every
priority k, that the jobs queued at k and above are at most as many as the awake threads, or that
the waiting threads are at most as many as the reserve above k which is neither at work nor claimed
by a queued job (`Unclaimed`). `Leaving` says that nobody waits while `set_threads` has asked
threads to go. A job that is queued raises the first count by one, or lowers the reserve by one, and
its signal wakes a thread; a job that is taken leaves work and queue of its priority together
unchanged; a job that ends only adds to the reserve; and a thread goes to sleep only when nothing
is queued or when `get_job` keeps the idle threads for the reserve, which is the second case. When
no thread is awake, the second case at the priority `get_job` would serve says that it delays the
job, so no thread sleeps on one it could have. The signal itself is the reason the invariant cannot
be simpler: `queue_job` wakes one thread for every job, also for one that `get_job` will delay,
and the thread that is woken may take another job than the one it was woken for.

`CancelSafety` proves the state part of `CancelReturns`: while `cancel()` waits for
`thread_terminated`, a thread is left to signal it, none sleeps (`Leaving`), and the timer job, the
one job that may wait without end, has been canceled. It needs that no thread takes a job once
`set_threads(0)` was called (`CInv`): otherwise the timer job could start after `cancel()` looked
for it.

The refinement needs `EInv`: the heap is sorted, and a job is in one place only (heap, queue or thread). The two heap
operations are proved to keep `Sorted` and to add or take exactly one event, by the path the
event takes, and the root of a sorted heap to be the earliest.

*Only model-checked:* the liveness properties (`DeregTerminates`, `MutualWaitEnds`,
`AnswerReturned`, `ReadyIsServed`, `RemoveReturns`, `CancelReturns`),
because fairness and `ENABLED` are beyond the prover (`WatchSafety`, `CancelSafety` and
`CallRefinement` prove what four of them rest on in every state); and the counterexamples of the
four violation runs, which are behaviours.

## 5. Not modelled

`conv`, `gtp_utils`, `misc` (tables; the failures they can cause are in the callers'
actions), the contents of messages (APN, PCO, EAP, AVPs), connection set-up, Create Bearer
(changes no state), TEI allocation and sequence numbers, the PyHSS copies and Python helpers at
the top of the repository, and the configuration of the other network functions. Of strongSwan,
a vendored third-party daemon of half a million lines, only what the plugin's threads run on is
modelled: its IKE, TLS, EAP, crypto and kernel code is not this repository's own logic, and
covering a sizeable share of it would need models that say little about each part. In the
modelled C files, allocation failures, destructors, thread cancellation inside the watcher and
the replies to IPA's own messages are left out. `PROJECT.json` gives the reason for each.

## 6. Plan

1. `EpdgUeFsm` with its runs and proofs, `AaaUeFsm` with its runs: done.
2. `GsupClient` with `GsupCall`, `EpdgSubscribers`, `IpaClient`, `Watcher`, `Processor` with
   `Scheduler` and `TimerQueue`, with their runs: done.
3. Proofs: every safety invariant, action property and refinement of the passing runs is a theorem
   for every value of the constants (section 4); `NoCallbackAfterRemove`, which the code breaks, has
   the condition under which it keeps it; and so are the states that the liveness properties
   of watcher, processor and GSUP client rest on: done.
4. Worth adding after that: the two halves of osmo-epdg composed, each in place of the other's
   environment, and the tables of several subscribers in `epdg_gtpc_s2b` with the wrap of TEIs.
