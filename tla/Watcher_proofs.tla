--------------------------- MODULE Watcher_proofs ---------------------------
(***************************************************************************)
(* Proofs about Watcher, for any registrations, any threads in remove()    *)
(* and any events: in_callback counts the callbacks of an entry, and no    *)
(* callback is left for a freed entry as long as the entry that remove()   *)
(* remembers while it waits stays registered; and neither a descriptor nor *)
(* a thread in remove() is forgotten.                                      *)
(***************************************************************************)
EXTENDS Watcher, CommonLemmas, TLAPS

(***************************************************************************)
(* The inductive invariant.                                                *)
(***************************************************************************)
\* The callbacks in J of the entry e.
CallbacksOf(J, e) == {c \in J : c.e = e}

\* A descriptor is in the list once.
OneFdOf(q) == \A i, j \in 1..Len(q) : FdOf[q[i]] = FdOf[q[j]] => i = j
OneFd == OneFdOf(fds)

\* The watch job ends only when there is nothing left to watch.
Stopped == state = "STOPPED" => fds = <<>>

\* Jobs are queued by the watch job and handed out before it goes on.
Handed == (jobs # {} => watcher.st \in {"execute", "inline"}) /\ jobs \cap active = {}

\* A callback in J has its entry in the list q, and the entry, with the events
\* ev, still waits for its event.
AttachedTo(q, ev, J) == \A c \in J : c.e \in ToSet(q) /\ c.ev \in ev[c.e]
Attached == AttachedTo(fds, events, jobs \cup active)

Known == \A e \in Entry : events[e] \subseteq EventsOf[e]

CountedOf(q, cb, J) == \A e \in ToSet(q) : cb[e] = Cardinality(CallbacksOf(J, e))
Counted == CountedOf(fds, inCb, jobs \cup active)

\* An entry that has not been registered yet is not in a callback.
FreshOf(q, fr, cb) == \A e \in Entry : e \notin ToSet(q) \cup fr => cb[e] = 0
Fresh == FreshOf(fds, freed, inCb)

IInv ==
    /\ TypeOK /\ OneFd /\ Stopped /\ Handed /\ Attached /\ Known /\ Counted /\ Fresh

(***************************************************************************)
(* The list of entries.                                                    *)
(***************************************************************************)
LEMMA OneFdDistinct == ASSUME NEW q, OneFdOf(q) PROVE Distinct(q)
  BY DEF OneFdOf, Distinct

\* remove_entry.
LEMMA UnlinkFacts ==
    ASSUME NEW q \in Seq(Entry), OneFdOf(q), NEW k \in 1..Len(q)
    PROVE  /\ RemoveAt(q, k) \in Seq(Entry) /\ OneFdOf(RemoveAt(q, k))
           /\ ToSet(RemoveAt(q, k)) = ToSet(q) \ {q[k]}
           /\ \A i, j \in 1..Len(RemoveAt(q, k)), i0, j0 \in 1..Len(q) :
                RemoveAt(q, k)[i] = q[i0] /\ RemoveAt(q, k)[j] = q[j0] /\ i0 < j0 => i < j
           /\ \A i \in 1..Len(RemoveAt(q, k)) : \E i0 \in 1..Len(q) : RemoveAt(q, k)[i] = q[i0]
<1>1. PICK p : p = RemoveAt(q, k)
  OBVIOUS
<1>2. /\ p \in Seq(Entry) /\ Len(p) = Len(q) - 1 /\ Len(q) \in Nat
      /\ \A i \in 1..Len(p) : p[i] = IF i < k THEN q[i] ELSE q[i + 1]
  <2>1. /\ p \in Seq(Entry) /\ Len(p) = Len(q) - 1
        /\ \A i \in 1..(Len(q) - 1) : p[i] = IF i < k THEN q[i] ELSE q[i + 1]
    BY <1>1, RemoveAtIs
  <2> QED
    BY <2>1
<1>3. Distinct(q)
  BY OneFdDistinct
<1>4. ToSet(p) = ToSet(q) \ {q[k]}
  BY <1>1, <1>3, RemoveAtFacts
<1>5. ASSUME NEW i \in 1..Len(p)
      PROVE  \E i0 \in 1..Len(q) : p[i] = q[i0] /\ i0 = IF i < k THEN i ELSE i + 1
  <2>1. CASE i < k
    BY <1>2, <2>1
  <2>2. CASE i >= k
    <3>1. i + 1 \in 1..Len(q) /\ ~(i < k)
      BY <1>2, <2>2
    <3> QED
      BY <1>2, <3>1
  <2> QED
    BY <1>2, <2>1, <2>2
<1>6. OneFdOf(p)
  <2> SUFFICES ASSUME NEW i \in 1..Len(p), NEW j \in 1..Len(p), FdOf[p[i]] = FdOf[p[j]]
               PROVE  i = j
    BY DEF OneFdOf
  <2>1. PICK i0 \in 1..Len(q) : p[i] = q[i0] /\ i0 = IF i < k THEN i ELSE i + 1
    BY <1>5
  <2>2. PICK j0 \in 1..Len(q) : p[j] = q[j0] /\ j0 = IF j < k THEN j ELSE j + 1
    BY <1>5
  <2>3. i0 = j0
    BY <2>1, <2>2 DEF OneFdOf
  <2> QED
    BY <1>2, <2>1, <2>2, <2>3
<1>7. ASSUME NEW i \in 1..Len(p), NEW j \in 1..Len(p), NEW i0 \in 1..Len(q), NEW j0 \in 1..Len(q),
             p[i] = q[i0], p[j] = q[j0], i0 < j0
      PROVE  i < j
  <2>1. PICK i1 \in 1..Len(q) : p[i] = q[i1] /\ i1 = IF i < k THEN i ELSE i + 1
    BY <1>5
  <2>2. PICK j1 \in 1..Len(q) : p[j] = q[j1] /\ j1 = IF j < k THEN j ELSE j + 1
    BY <1>5
  <2>3. i1 = i0 /\ j1 = j0
    BY <1>3, <1>7, <2>1, <2>2 DEF Distinct
  <2> QED
    BY <1>2, <1>7, <2>1, <2>2, <2>3
<1> QED
  BY <1>1, <1>2, <1>4, <1>5, <1>6, <1>7

(***************************************************************************)
(* Counting callbacks.                                                     *)
(***************************************************************************)
\* An entry has at most one callback per event.
LEMMA CallbacksFinite ==
    ASSUME NEW J \in SUBSET Callback, NEW e \in Entry, \A c \in J : c.ev \in EventsOf[c.e]
    PROVE  IsFiniteSet(CallbacksOf(J, e)) /\ Cardinality(CallbacksOf(J, e)) \in Nat
<1>1. PICK E : E = EventsOf[e]
  OBVIOUS
<1>2. IsFiniteSet(E)
  BY <1>1, EntryAssumption
<1>3. PICK S : S = {[e |-> e, ev |-> v] : v \in E}
  OBVIOUS
<1>4. IsFiniteSet(S)
  <2>1. PICK f : f = [v \in E |-> [e |-> e, ev |-> v]]
    OBVIOUS
  <2>2. f \in Surjection(E, S)
    BY <1>3, <2>1 DEF Surjection
  <2> QED
    BY <1>2, <2>2, FS_Surjection
<1>5. CallbacksOf(J, e) \subseteq S
  BY <1>1, <1>3 DEF CallbacksOf, Callback
<1> QED
  BY <1>4, <1>5, FS_Subset, FS_CardinalityType

\* No callback is there when none is counted.
LEMMA NoneCounted ==
    ASSUME NEW J \in SUBSET Callback, NEW e \in Entry, \A c \in J : c.ev \in EventsOf[c.e]
    PROVE  Cardinality(CallbacksOf(J, e)) = 0 <=> \A c \in J : c.e # e
<1>1. PICK K : K = CallbacksOf(J, e)
  OBVIOUS
<1>2. IsFiniteSet(K)
  BY <1>1, CallbacksFinite
<1>3. Cardinality(K) = 0 <=> K = {}
  BY <1>2, FS_EmptySet
<1> QED
  BY <1>1, <1>3 DEF CallbacksOf

\* A callback returns.
LEMMA OneLess ==
    ASSUME NEW J \in SUBSET Callback, \A c \in J : c.ev \in EventsOf[c.e], NEW b \in J
    PROVE  /\ Cardinality(CallbacksOf(J \ {b}, b.e)) = Cardinality(CallbacksOf(J, b.e)) - 1
           /\ Cardinality(CallbacksOf(J, b.e)) \in Nat \ {0}
           /\ \A e : e # b.e => CallbacksOf(J \ {b}, e) = CallbacksOf(J, e)
<1>1. b.e \in Entry
  BY DEF Callback
<1>2. PICK K : K = CallbacksOf(J, b.e)
  OBVIOUS
<1>3. IsFiniteSet(K) /\ Cardinality(K) \in Nat /\ b \in K /\ CallbacksOf(J \ {b}, b.e) = K \ {b}
  BY <1>1, <1>2, CallbacksFinite DEF CallbacksOf
<1>4. Cardinality(K \ {b}) = Cardinality(K) - 1
  BY <1>3, FS_RemoveElement
<1>5. Cardinality(K) # 0
  BY <1>3, FS_EmptySet
<1> QED
  BY <1>2, <1>3, <1>4, <1>5 DEF CallbacksOf

\* Callbacks N are started beside those in J, for entries that have none.
LEMMA Started ==
    ASSUME NEW J \in SUBSET Callback, \A c \in J : c.ev \in EventsOf[c.e],
           NEW N \in SUBSET Callback, \A c \in N : c.ev \in EventsOf[c.e],
           \A c \in N, d \in J : c.e # d.e, NEW e \in Entry
    PROVE  /\ Cardinality(CallbacksOf(N, e)) \in Nat
           /\ Cardinality(CallbacksOf(N \cup J, e)) =
                Cardinality(CallbacksOf(J, e)) + Cardinality(CallbacksOf(N, e))
<1>1. /\ Cardinality(CallbacksOf(J, e)) \in Nat /\ Cardinality(CallbacksOf(N, e)) \in Nat
  BY CallbacksFinite
<1>2. CASE \E c \in N : c.e = e
  <2>1. CallbacksOf(N \cup J, e) = CallbacksOf(N, e) /\ \A d \in J : d.e # e
    BY <1>2 DEF CallbacksOf
  <2>2. Cardinality(CallbacksOf(J, e)) = 0
    BY <2>1, NoneCounted
  <2> QED
    BY <1>1, <2>1, <2>2
<1>3. CASE \A c \in N : c.e # e
  <2>1. CallbacksOf(N \cup J, e) = CallbacksOf(J, e)
    BY <1>3 DEF CallbacksOf
  <2>2. Cardinality(CallbacksOf(N, e)) = 0
    BY <1>3, NoneCounted
  <2> QED
    BY <1>1, <2>1, <2>2
<1> QED
  BY <1>2, <1>3

(***************************************************************************)
(* The steps.                                                              *)
(***************************************************************************)
WatcherType == [st : WatchStates, pfd : SUBSET Fd, revents : SUBSET (Fd \X Event),
                own : SUBSET Callback]
RemoverType == [st : {"idle", "scan", "wait"}, fd : Fd \cup {NoEntry}, prev : Entry \cup {NoEntry}]

\* What the invariant says of the callbacks J that are queued or active.
LEMMA CallbackTypes ==
    ASSUME IInv
    PROVE  /\ jobs \cup active \in SUBSET Callback
           /\ \A c \in jobs \cup active : c.e \in Entry /\ c.ev \in EventsOf[c.e]
<1>1. jobs \cup active \in SUBSET Callback
  BY DEF IInv, TypeOK
<1>2. \A c \in jobs \cup active : c.e \in Entry
  BY <1>1 DEF Callback
<1> QED
  BY <1>1, <1>2 DEF IInv, Attached, AttachedTo, Known

\* A step that leaves the entries and the set of unfinished callbacks alone.
LEMMA EntriesSame ==
    ASSUME IInv, UNCHANGED <<fds, freed, events, inCb>>, jobs' \cup active' = jobs \cup active,
           TypeOK', Stopped', Handed'
    PROVE  IInv'
<1>1. jobs' \cup active' = jobs \cup active
  OBVIOUS
<1> QED
  BY <1>1 DEF IInv, OneFd, Attached, Known, Counted, Fresh

LEMMA BuildKeeps == IInv /\ Build => IInv'
<1> SUFFICES ASSUME IInv, Build PROVE IInv'
  OBVIOUS
<1>1. watcher.st = "build" /\ jobs = {}
  BY DEF Build, IInv, Handed
<1>2. PICK P : P = {FdOf[fds[i]] : i \in 1..Len(fds) \ InCallback}
  OBVIOUS
<1>3. P \subseteq Fd
  BY <1>2 DEF IInv, TypeOK, Fd
<1>4. \/ watcher' = Idle /\ state' = "STOPPED" /\ fds = <<>>
      \/ watcher' = [Idle EXCEPT !.st = "poll", !.pfd = P] /\ state' = "RUNNING"
  BY <1>2 DEF Build
<1>5. Idle \in WatcherType
  BY DEF Idle, WatcherType, WatchStates
<1>6. watcher' \in WatcherType
  <2>1. CASE watcher' = Idle
    BY <1>5, <2>1
  <2>2. CASE watcher' = [Idle EXCEPT !.st = "poll", !.pfd = P]
    <3>1. watcher' = [st |-> "poll", pfd |-> P, revents |-> {}, own |-> {}]
      BY <2>2 DEF Idle
    <3> QED
      BY <1>3, <3>1 DEF WatcherType, WatchStates
  <2> QED
    BY <1>4, <2>1, <2>2
<1>7. TypeOK'
  BY <1>4, <1>6 DEF IInv, TypeOK, Build, WatcherType
<1>8. Stopped' /\ Handed'
  BY <1>1, <1>4 DEF Build, IInv, Stopped, Handed
<1> QED
  BY <1>7, <1>8, EntriesSame DEF Build

LEMMA PollKeeps == IInv /\ Poll => IInv'
<1> SUFFICES ASSUME IInv, Poll PROVE IInv'
  OBVIOUS
<1>1. watcher.st = "poll" /\ jobs = {} /\ watcher \in WatcherType
  BY DEF Poll, IInv, Handed, TypeOK, WatcherType
<1>2. PICK R : R = {p \in ready : p[1] \in watcher.pfd}
  OBVIOUS
<1>3. R \subseteq Fd \X Event
  BY <1>2 DEF IInv, TypeOK
<1>4. \/ watcher' = [watcher EXCEPT !.st = "build"]
      \/ watcher' = [watcher EXCEPT !.st = "dispatch", !.revents = R]
  BY <1>2 DEF Poll
<1>5. watcher' \in WatcherType
  <2>1. CASE watcher' = [watcher EXCEPT !.st = "build"]
    BY <1>1, <2>1 DEF WatcherType, WatchStates
  <2>2. CASE watcher' = [watcher EXCEPT !.st = "dispatch", !.revents = R]
    <3>1. watcher' = [st |-> "dispatch", pfd |-> watcher.pfd, revents |-> R, own |-> watcher.own]
      BY <1>1, <2>2 DEF WatcherType
    <3> QED
      BY <1>1, <1>3, <3>1 DEF WatcherType, WatchStates
  <2> QED
    BY <1>4, <2>1, <2>2
<1>6. pipe' \in BOOLEAN
  BY DEF Poll, IInv, TypeOK
<1>7. TypeOK'
  BY <1>5, <1>6 DEF IInv, TypeOK, Poll, WatcherType
<1>8. Stopped' /\ Handed'
  BY <1>1 DEF Poll, IInv, Stopped, Handed
<1> QED
  BY <1>7, <1>8, EntriesSame DEF Poll

LEMMA ExecuteKeeps == IInv /\ Execute => IInv'
<1> SUFFICES ASSUME IInv, Execute PROVE IInv'
  OBVIOUS
<1>1. watcher \in WatcherType /\ jobs \subseteq Callback /\ active \subseteq Callback
  BY DEF IInv, TypeOK, WatcherType
<1>2. Stopped' /\ UNCHANGED <<fds, freed, events, inCb, state, pipe, ready, remover>>
  BY DEF Execute, IInv, Stopped
<1>3. ASSUME NEW c \in jobs, jobs' = jobs \ {c}, active' = active \cup {c},
             \/ UNCHANGED watcher
             \/ watcher' = [watcher EXCEPT !.st = "inline", !.own = {c}]
      PROVE  IInv'
  <2>1. watcher' \in WatcherType /\ watcher'.st \in {"execute", "inline"}
    <3>1. CASE UNCHANGED watcher
      BY <1>1, <3>1 DEF Execute
    <3>2. CASE watcher' = [watcher EXCEPT !.st = "inline", !.own = {c}]
      <4>1. watcher' = [st |-> "inline", pfd |-> watcher.pfd, revents |-> watcher.revents, own |-> {c}]
        BY <1>1, <3>2 DEF WatcherType
      <4>2. {c} \subseteq Callback
        BY <1>1
      <4> QED
        BY <1>1, <4>1, <4>2 DEF WatcherType, WatchStates
    <3> QED
      BY <1>3, <3>1, <3>2
  <2>2. TypeOK'
    BY <1>1, <1>2, <1>3, <2>1 DEF IInv, TypeOK, WatcherType
  <2>3. Handed' /\ jobs' \cup active' = jobs \cup active
    BY <1>3, <2>1 DEF IInv, Handed
  <2> QED
    BY <1>2, <2>2, <2>3, EntriesSame
<1>4. ASSUME jobs = {}, watcher' = [Idle EXCEPT !.st = "build"], UNCHANGED <<jobs, active>>
      PROVE  IInv'
  <2>1. watcher' = [st |-> "build", pfd |-> {}, revents |-> {}, own |-> {}]
    BY <1>4 DEF Idle
  <2>2. watcher' \in WatcherType
    BY <2>1 DEF WatcherType, WatchStates
  <2>3. TypeOK'
    BY <1>2, <1>4, <2>2 DEF IInv, TypeOK, WatcherType
  <2>4. Handed' /\ jobs' \cup active' = jobs \cup active
    BY <1>4 DEF Handed
  <2> QED
    BY <1>2, <2>3, <2>4, EntriesSame
<1> QED
  BY <1>3, <1>4 DEF Execute

LEMMA InlineDoneKeeps == IInv /\ InlineDone => IInv'
<1> SUFFICES ASSUME IInv, InlineDone PROVE IInv'
  OBVIOUS
<1>1. watcher \in WatcherType /\ watcher' = [watcher EXCEPT !.st = "execute", !.own = {}]
  BY DEF IInv, TypeOK, WatcherType, InlineDone
<1>2. watcher' = [st |-> "execute", pfd |-> watcher.pfd, revents |-> watcher.revents, own |-> {}]
  BY <1>1 DEF WatcherType
<1>3. watcher' \in WatcherType /\ watcher'.st = "execute"
  BY <1>1, <1>2 DEF WatcherType, WatchStates
<1>4. TypeOK'
  BY <1>3 DEF IInv, TypeOK, WatcherType, InlineDone
<1>5. Stopped' /\ Handed' /\ jobs' \cup active' = jobs \cup active
  BY <1>3 DEF IInv, Stopped, Handed, InlineDone
<1> QED
  BY <1>4, <1>5, EntriesSame DEF InlineDone

LEMMA BecomeReadyKeeps ==
    ASSUME IInv, NEW fd \in Fd, NEW ev \in Event, BecomeReady(fd, ev) PROVE IInv'
<1>1. TypeOK'
  BY DEF IInv, TypeOK, BecomeReady
<1>2. Stopped' /\ Handed' /\ jobs' \cup active' = jobs \cup active
  BY DEF IInv, Stopped, Handed, BecomeReady
<1> QED
  BY <1>1, <1>2, EntriesSame DEF BecomeReady

LEMMA RemoveCallKeeps ==
    ASSUME IInv, NEW t \in Remover, NEW fd \in Removable, RemoveCall(t, fd) PROVE IInv'
<1>1. [st |-> "scan", fd |-> fd, prev |-> NoEntry] \in RemoverType
  BY EntryAssumption DEF RemoverType
<1>2. remover' \in [Remover -> RemoverType]
  BY <1>1 DEF IInv, TypeOK, RemoverType, RemoveCall
<1>3. TypeOK'
  BY <1>2 DEF IInv, TypeOK, RemoverType, RemoveCall
<1>4. Stopped' /\ Handed' /\ jobs' \cup active' = jobs \cup active
  BY DEF IInv, Stopped, Handed, RemoveCall
<1> QED
  BY <1>3, <1>4, EntriesSame DEF RemoveCall

LEMMA AddKeeps == ASSUME IInv, NEW e \in Entry, Add(e) PROVE IInv'
<1>1. PICK q : q = Append(fds, e)
  OBVIOUS
<1>2. /\ fds \in Seq(Entry) /\ fds' = q /\ UNCHANGED <<freed, events, inCb, jobs, active, ready, remover>>
      /\ e \notin ToSet(fds) /\ e \notin freed
  BY <1>1 DEF IInv, TypeOK, Add
<1>3. q \in Seq(Entry) /\ ToSet(q) = ToSet(fds) \cup {e} /\ q # <<>>
  BY <1>1, <1>2, AppendFacts
<1>4. /\ Len(q) = Len(fds) + 1 /\ Len(fds) \in Nat /\ q[Len(fds) + 1] = e
      /\ \A i \in 1..Len(fds) : q[i] = fds[i]
  BY <1>1, <1>2
<1>5. OneFdOf(q)
  <2>1. \A i \in 1..Len(fds) : FdOf[fds[i]] # FdOf[e]
    BY DEF Add
  <2>2. \A i \in 1..Len(q) : i \in 1..Len(fds) \/ i = Len(fds) + 1
    BY <1>4
  <2> QED
    BY <1>4, <2>1, <2>2 DEF OneFdOf, IInv, OneFd
<1>6. /\ jobs \cup active \in SUBSET Callback
      /\ \A c \in jobs \cup active : c.ev \in EventsOf[c.e] /\ c.e \in ToSet(fds)
  BY CallbackTypes DEF IInv, Attached, AttachedTo
<1>7. Cardinality(CallbacksOf(jobs \cup active, e)) = 0 /\ inCb[e] = 0
  <2>1. \A c \in jobs \cup active : c.e # e
    BY <1>2, <1>6
  <2>2. Cardinality(CallbacksOf(jobs \cup active, e)) = 0
    BY <1>6, <2>1, NoneCounted
  <2> QED
    BY <1>2, <2>2 DEF IInv, Fresh, FreshOf
<1>8. OneFd' /\ Attached' /\ Known' /\ Counted' /\ Fresh'
  <2>1. OneFd'
    BY <1>2, <1>5 DEF OneFd
  <2>2. Attached' /\ Known'
    BY <1>2, <1>3 DEF IInv, Attached, AttachedTo, Known
  <2>3. Counted'
    BY <1>2, <1>3, <1>7 DEF IInv, Counted, CountedOf
  <2>4. Fresh'
    BY <1>2, <1>3 DEF IInv, Fresh, FreshOf
  <2> QED
    BY <2>1, <2>2, <2>3, <2>4
<1>9. CASE state = "STOPPED"
  <2>1. state' = "QUEUED" /\ watcher' = [watcher EXCEPT !.st = "build"] /\ pipe' = pipe
    BY <1>9 DEF Add
  <2>2. jobs = {}
    BY <1>6, <1>9 DEF IInv, Stopped, ToSet
  <2>3. watcher' \in WatcherType
    BY <2>1 DEF IInv, TypeOK, WatcherType, WatchStates
  <2>4. TypeOK'
    BY <1>2, <1>3, <2>1, <2>3 DEF IInv, TypeOK, WatcherType
  <2>5. Stopped' /\ Handed'
    BY <1>2, <2>1, <2>2 DEF IInv, Stopped, Handed
  <2> QED
    BY <1>8, <2>4, <2>5 DEF IInv
<1>10. CASE state # "STOPPED"
  <2>1. state' = state /\ watcher' = watcher /\ pipe' = TRUE
    BY <1>10 DEF Add, Update
  <2>2. TypeOK'
    BY <1>2, <1>3, <2>1 DEF IInv, TypeOK
  <2>3. Stopped' /\ Handed'
    BY <1>2, <1>10, <2>1 DEF IInv, Stopped, Handed
  <2> QED
    BY <1>8, <2>2, <2>3 DEF IInv
<1> QED
  BY <1>9, <1>10

LEMMA DispatchKeeps == IInv /\ Dispatch => IInv'
<1> SUFFICES ASSUME IInv, Dispatch PROVE IInv'
  OBVIOUS
<1>1. PICK N : N = Notified
  OBVIOUS
<1>2. /\ jobs' = N /\ inCb' = [e \in Entry |-> inCb[e] + Cardinality(CallbacksOf(N, e))]
      /\ UNCHANGED <<fds, freed, events, state, pipe, active, ready, remover>>
      /\ jobs = {} /\ jobs \cup active = active
  BY <1>1 DEF Dispatch, CallbacksOf, IInv, Handed
<1>3. N \in SUBSET Callback
  BY <1>1 DEF Notified
<1>4. ASSUME NEW c \in N
      PROVE  /\ c.e \in Entry /\ c.e \in ToSet(fds) /\ c.ev \in events[c.e] /\ inCb[c.e] = 0
             /\ c.ev \in EventsOf[c.e]
  <2>1. PICK i \in Before(InCallback) : fds[i] = c.e /\ c.ev \in events[c.e]
    BY <1>1 DEF Notified
  <2>2. i \in 1..Len(fds) /\ i \notin InCallback
    BY DEF Before
  <2>3. inCb[c.e] = 0 /\ c.e \in ToSet(fds)
    BY <2>1, <2>2 DEF InCallback, ToSet, IInv, TypeOK
  <2>4. c.e \in Entry
    BY <1>3 DEF Callback
  <2> QED
    BY <2>1, <2>3, <2>4 DEF IInv, Known
<1>5. /\ active \in SUBSET Callback
      /\ \A c \in active : c.e \in Entry /\ c.ev \in EventsOf[c.e] /\ c.e \in ToSet(fds)
  BY <1>2, CallbackTypes DEF IInv, Attached, AttachedTo
<1>6. \A e \in ToSet(fds) : inCb[e] = Cardinality(CallbacksOf(active, e))
  BY <1>2 DEF IInv, Counted, CountedOf
<1>7. \A c \in N, d \in active : c.e # d.e
  <2> SUFFICES ASSUME NEW c \in N, NEW d \in active, c.e = d.e PROVE FALSE
    OBVIOUS
  <2>1. Cardinality(CallbacksOf(active, c.e)) = 0 /\ c.e \in Entry
    BY <1>4, <1>6
  <2>2. \A b \in active : b.e # c.e
    BY <1>5, <2>1, NoneCounted
  <2> QED
    BY <2>2
<1>8. \A e \in Entry :
        /\ Cardinality(CallbacksOf(N, e)) \in Nat
        /\ Cardinality(CallbacksOf(N \cup active, e)) =
             Cardinality(CallbacksOf(active, e)) + Cardinality(CallbacksOf(N, e))
  BY <1>3, <1>4, <1>5, <1>7, Started
<1>9. watcher' \in WatcherType /\ (N # {} => watcher'.st = "execute")
  <2>1. watcher \in WatcherType
    BY DEF IInv, TypeOK, WatcherType
  <2>2. \E s \in WatchStates : watcher' = [watcher EXCEPT !.st = s] /\ (N # {} => s = "execute")
    BY <1>1 DEF Dispatch, WatchStates
  <2> QED
    BY <2>1, <2>2 DEF WatcherType
<1>10. inCb' \in [Entry -> Nat]
  BY <1>2, <1>8 DEF IInv, TypeOK
<1>11. TypeOK'
  BY <1>2, <1>3, <1>9, <1>10 DEF IInv, TypeOK, WatcherType
<1>12. OneFd' /\ Stopped' /\ Known'
  BY <1>2 DEF IInv, OneFd, Stopped, Known
<1>13. Handed'
  BY <1>2, <1>7, <1>9 DEF Handed
<1>14. Attached'
  BY <1>2, <1>4 DEF IInv, Attached, AttachedTo
<1>15. Counted'
  <2> SUFFICES ASSUME NEW e \in ToSet(fds)
               PROVE  inCb'[e] = Cardinality(CallbacksOf(N \cup active, e))
    BY <1>2 DEF Counted, CountedOf
  <2>1. e \in Entry
    BY DEF IInv, TypeOK, ToSet
  <2> QED
    BY <1>2, <1>6, <1>8, <2>1
<1>16. Fresh'
  <2> SUFFICES ASSUME NEW e \in Entry, e \notin ToSet(fds) \cup freed PROVE inCb'[e] = 0
    BY <1>2 DEF Fresh, FreshOf
  <2>1. \A c \in N : c.e # e /\ c.ev \in EventsOf[c.e]
    BY <1>4
  <2>2. Cardinality(CallbacksOf(N, e)) = 0
    BY <1>3, <2>1, NoneCounted
  <2>3. inCb[e] = 0
    BY DEF IInv, Fresh, FreshOf
  <2> QED
    BY <1>2, <2>2, <2>3
<1> QED
  BY <1>11, <1>12, <1>13, <1>14, <1>15, <1>16 DEF IInv

LEMMA BroadcastType == ASSUME TypeOK PROVE Broadcast \in [Remover -> RemoverType]
<1> SUFFICES ASSUME NEW t \in Remover
             PROVE  (IF remover[t].st = "wait" THEN [remover[t] EXCEPT !.st = "scan"]
                     ELSE remover[t]) \in RemoverType
  BY DEF Broadcast
<1>1. remover[t] \in RemoverType
  BY DEF TypeOK, RemoverType
<1> QED
  BY <1>1 DEF RemoverType

\* The entry of an active callback is found by its descriptor.
LEMMA CallbackEntry ==
    ASSUME IInv, NEW c \in active
    PROVE  \E k \in 1..Len(fds) :
             /\ fds[k] = c.e
             /\ {i \in 1..Len(fds) : FdOf[fds[i]] = FdOf[c.e]} = {k}
             /\ k = CHOOSE m \in {i \in 1..Len(fds) : FdOf[fds[i]] = FdOf[c.e]} :
                      \A j \in {i \in 1..Len(fds) : FdOf[fds[i]] = FdOf[c.e]} : m <= j
<1>1. c.e \in ToSet(fds) /\ fds \in Seq(Entry)
  BY DEF IInv, Attached, AttachedTo, TypeOK
<1>2. PICK k \in 1..Len(fds) : fds[k] = c.e
  BY <1>1 DEF ToSet
<1>3. PICK S : S = {i \in 1..Len(fds) : FdOf[fds[i]] = FdOf[c.e]}
  OBVIOUS
<1>4. S = {k}
  BY <1>2, <1>3 DEF IInv, OneFd, OneFdOf
<1>5. k = CHOOSE i \in S : \A j \in S : i <= j
  BY <1>4
<1> QED
  BY <1>2, <1>3, <1>4, <1>5

LEMMA CallbackEndsKeeps ==
    ASSUME IInv, NEW c \in Callback, NEW keep \in BOOLEAN, CallbackEnds(c, keep) PROVE IInv'
<1>1. c \in active
  BY DEF CallbackEnds
<1>2. PICK S : S = {i \in 1..Len(fds) : FdOf[fds[i]] = FdOf[c.e]}
  OBVIOUS
<1>3. PICK k \in 1..Len(fds) : fds[k] = c.e /\ S = {k} /\ k = CHOOSE i \in S : \A j \in S : i <= j
  BY <1>1, <1>2, CallbackEntry
<1>4. PICK e : e = c.e
  OBVIOUS
<1>5. /\ active' = active \ {c} /\ ready' \in {ready, ready \ {<<FdOf[c.e], c.ev>>}} /\ pipe' = TRUE
      /\ remover' = Broadcast /\ UNCHANGED <<state, watcher, jobs>>
      /\ events' = IF keep THEN events ELSE [events EXCEPT ![e] = @ \ {c.ev}]
      /\ \/ events'[e] = {} /\ fds' = RemoveAt(fds, k) /\ freed' = freed \cup {e} /\ UNCHANGED inCb
         \/ events'[e] # {} /\ inCb' = [inCb EXCEPT ![e] = @ - 1] /\ UNCHANGED <<fds, freed>>
  BY <1>2, <1>3, <1>4 DEF CallbackEnds, Update
<1>6. PICK J : J = jobs \cup active
  OBVIOUS
<1>7. /\ J \in SUBSET Callback /\ \A d \in J : d.e \in Entry /\ d.ev \in EventsOf[d.e]
      /\ c \in J /\ e \in Entry /\ c.ev \in events[e] /\ e \in ToSet(fds)
      /\ AttachedTo(fds, events, J) /\ CountedOf(fds, inCb, J) /\ fds \in Seq(Entry)
  BY <1>1, <1>4, <1>6, CallbackTypes DEF IInv, Attached, AttachedTo, Counted, TypeOK
<1>8. jobs' \cup active' = J \ {c} /\ Handed'
  BY <1>1, <1>5, <1>6 DEF IInv, Handed
<1>9. /\ Cardinality(CallbacksOf(J \ {c}, e)) = Cardinality(CallbacksOf(J, e)) - 1
      /\ Cardinality(CallbacksOf(J, e)) \in Nat \ {0}
      /\ \A d : d # e => CallbacksOf(J \ {c}, d) = CallbacksOf(J, d)
  BY <1>4, <1>7, OneLess
<1>10. events' \in [Entry -> SUBSET Event] /\ \A d \in Entry :
         /\ events'[d] \subseteq events[d]
         /\ d # e => events'[d] = events[d]
         /\ events[d] \ {c.ev} \subseteq events'[d]
  <2>1. events \in [Entry -> SUBSET Event]
    BY DEF IInv, TypeOK
  <2>2. CASE keep
    BY <1>5, <2>1, <2>2
  <2>3. CASE ~keep
    <3>1. events' = [events EXCEPT ![e] = @ \ {c.ev}]
      BY <1>5, <2>3
    <3> QED
      BY <1>7, <2>1, <3>1
  <2> QED
    BY <2>2, <2>3
<1>11. Known'
  BY <1>10 DEF IInv, Known
<1>12. \A d \in J \ {c} : d.ev \in events'[d.e]
  <2> SUFFICES ASSUME NEW d \in J \ {c} PROVE d.ev \in events'[d.e]
    OBVIOUS
  <2>1. d.e \in Entry /\ d.ev \in events[d.e] /\ d \in Callback
    BY <1>7 DEF AttachedTo
  <2>2. d.e # e \/ d.ev # c.ev
    BY <1>4, <2>1 DEF Callback
  <2> QED
    BY <1>10, <2>1, <2>2
<1>13. ready' \subseteq Fd \X Event /\ remover' \in [Remover -> RemoverType]
  BY <1>5, BroadcastType DEF IInv, TypeOK
<1>14. CASE events'[e] = {} /\ fds' = RemoveAt(fds, k) /\ freed' = freed \cup {e} /\ UNCHANGED inCb
  <2>1. /\ fds' \in Seq(Entry) /\ OneFdOf(fds') /\ ToSet(fds') = ToSet(fds) \ {e}
    BY <1>3, <1>4, <1>7, <1>14, UnlinkFacts DEF IInv, OneFd
  <2>2. \A d \in J \ {c} : d.e # e
    BY <1>12, <1>14
  <2>3. TypeOK'
    BY <1>5, <1>7, <1>10, <1>13, <1>14, <2>1 DEF IInv, TypeOK, RemoverType
  <2>4. OneFd' /\ Attached'
    BY <1>7, <1>8, <1>12, <2>1, <2>2 DEF OneFd, Attached, AttachedTo
  <2>5. Counted'
    BY <1>7, <1>8, <1>9, <1>14, <2>1 DEF Counted, CountedOf
  <2>6. Fresh'
    BY <1>14, <2>1 DEF IInv, Fresh, FreshOf
  <2>7. Stopped'
    BY <1>5, <1>7 DEF IInv, Stopped, ToSet
  <2> QED
    BY <1>8, <1>11, <2>3, <2>4, <2>5, <2>6, <2>7 DEF IInv
<1>15. CASE events'[e] # {} /\ inCb' = [inCb EXCEPT ![e] = @ - 1] /\ UNCHANGED <<fds, freed>>
  <2>1. inCb \in [Entry -> Nat] /\ inCb[e] = Cardinality(CallbacksOf(J, e))
    BY <1>7 DEF IInv, TypeOK, CountedOf
  <2>2. inCb' \in [Entry -> Nat] /\ inCb'[e] = inCb[e] - 1 /\ \A d \in Entry : d # e => inCb'[d] = inCb[d]
    BY <1>7, <1>9, <1>15, <2>1
  <2>3. TypeOK'
    BY <1>5, <1>10, <1>13, <1>15, <2>2 DEF IInv, TypeOK, RemoverType
  <2>4. OneFd' /\ Stopped' /\ Attached'
    BY <1>5, <1>7, <1>8, <1>12, <1>15 DEF IInv, OneFd, Stopped, Attached, AttachedTo
  <2>5. Counted'
    <3> SUFFICES ASSUME NEW d \in ToSet(fds) PROVE inCb'[d] = Cardinality(CallbacksOf(J \ {c}, d))
      BY <1>8, <1>15 DEF Counted, CountedOf
    <3>1. d \in Entry
      BY <1>7 DEF ToSet
    <3>2. CASE d = e
      BY <1>9, <2>1, <2>2, <3>2
    <3>3. CASE d # e
      BY <1>7, <1>9, <2>2, <3>1, <3>3 DEF CountedOf
    <3> QED
      BY <3>2, <3>3
  <2>6. Fresh'
    BY <1>7, <1>15, <2>2 DEF IInv, Fresh, FreshOf
  <2> QED
    BY <1>8, <1>11, <2>3, <2>4, <2>5, <2>6 DEF IInv
<1> QED
  BY <1>5, <1>14, <1>15

\* A set of positions that is not empty has a last one.
LEMMA LastExists ==
    ASSUME NEW n \in Nat, NEW T, T \subseteq 1..n, T # {}
    PROVE  \E i \in T : \A j \in T : j <= i
<1>1. PICK R : R = {n - i : i \in T}
  OBVIOUS
<1>2. R \subseteq Nat /\ R # {}
  <2>1. \A i \in T : n - i \in Nat
    OBVIOUS
  <2> QED
    BY <1>1, <2>1
<1>3. PICK r \in R : \A s \in R : r <= s
  BY <1>2, FirstExists
<1>4. PICK i \in T : r = n - i
  BY <1>1
<1>5. ASSUME NEW j \in T PROVE j <= i
  <2>1. n - j \in R /\ i \in 1..n /\ j \in 1..n
    BY <1>1
  <2>2. n - i <= n - j
    BY <1>3, <1>4, <2>1
  <2> QED
    BY <2>1, <2>2
<1> QED
  BY <1>5

\* What one pass of remove() sees: the entries it frees have no callback, and one
\* of them at most is taken out of the list.
ScanFound(t) == {i \in Before(Busy(remover[t].fd)) : FdOf[fds[i]] = remover[t].fd}
ScanOther(t) == Before(Busy(remover[t].fd)) \ ScanFound(t)
ScanUnlinked(t) ==
    {i \in ScanFound(t) : remover[t].prev = NoEntry \/ \E j \in ScanOther(t) : j < i}
ScanPrev(t) == IF ScanOther(t) = {} THEN remover[t].prev
               ELSE fds[CHOOSE j \in ScanOther(t) : \A k \in ScanOther(t) : k <= j]

LEMMA ScanIs ==
    ASSUME IInv, NEW t \in Remover, Scan(t)
    PROVE  /\ ScanFound(t) \subseteq 1..Len(fds) /\ ScanOther(t) \subseteq 1..Len(fds)
           /\ \A i \in ScanFound(t) : /\ FdOf[fds[i]] = remover[t].fd /\ fds[i] \in Entry
                                      /\ \A c \in jobs \cup active : c.e # fds[i]
           /\ freed' = freed \cup {fds[i] : i \in ScanFound(t)}
           /\ \/ ScanUnlinked(t) = {} /\ fds' = fds
              \/ \E k \in ScanUnlinked(t) : fds' = RemoveAt(fds, k)
           /\ \/ /\ Busy(remover[t].fd) # {} /\ pipe' = pipe
                 /\ remover' = [remover EXCEPT ![t].st = "wait", ![t].prev = ScanPrev(t)]
              \/ /\ remover' = [remover EXCEPT ![t] = [st |-> "idle", fd |-> NoEntry, prev |-> NoEntry]]
                 /\ pipe' \in {TRUE, pipe}
           /\ UNCHANGED <<events, inCb, state, watcher, jobs, active, ready>>
           /\ remover[t].st = "scan"
<1>1. PICK found, other, unlinked, prev :
        /\ found = ScanFound(t) /\ other = ScanOther(t) /\ unlinked = ScanUnlinked(t)
        /\ prev = ScanPrev(t)
  OBVIOUS
<1>2. /\ freed' = freed \cup {fds[i] : i \in found}
      /\ fds' = IF unlinked = {} THEN fds ELSE RemoveAt(fds, CHOOSE i \in unlinked : TRUE)
  BY <1>1 DEF Scan, ScanFound, ScanOther, ScanUnlinked
<1>3. \/ /\ Busy(remover[t].fd) # {} /\ pipe' = pipe
         /\ remover' = [remover EXCEPT ![t].st = "wait", ![t].prev = prev]
      \/ /\ remover' = [remover EXCEPT ![t] = [st |-> "idle", fd |-> NoEntry, prev |-> NoEntry]]
         /\ pipe' \in {TRUE, pipe}
  BY <1>1 DEF Scan, ScanFound, ScanOther, ScanPrev, Update
<1>4. (unlinked = {} /\ fds' = fds) \/ \E k \in unlinked : fds' = RemoveAt(fds, k)
  BY <1>2
<1>5. found \subseteq 1..Len(fds) /\ other \subseteq 1..Len(fds)
  BY <1>1 DEF ScanFound, ScanOther, Before
<1>6. ASSUME NEW i \in found
      PROVE  FdOf[fds[i]] = remover[t].fd /\ fds[i] \in Entry /\ \A c \in jobs \cup active : c.e # fds[i]
  <2>1. FdOf[fds[i]] = remover[t].fd /\ i \in 1..Len(fds) /\ i \notin Busy(remover[t].fd)
    BY <1>1 DEF ScanFound, Before, Busy
  <2>2. fds \in Seq(Entry) /\ state # "STOPPED"
    BY <2>1 DEF IInv, TypeOK, Stopped
  <2>3. fds[i] \in Entry /\ fds[i] \in ToSet(fds)
    BY <2>1, <2>2 DEF ToSet
  <2>4. inCb[fds[i]] = 0
    BY <2>1, <2>2 DEF Busy, InCallback
  <2>5. Cardinality(CallbacksOf(jobs \cup active, fds[i])) = 0
    BY <2>3, <2>4 DEF IInv, Counted, CountedOf
  <2>6. \A c \in jobs \cup active : c.e # fds[i]
    BY <2>3, <2>5, CallbackTypes, NoneCounted
  <2> QED
    BY <2>1, <2>3, <2>6
<1> QED
  BY <1>1, <1>2, <1>3, <1>4, <1>5, <1>6 DEF Scan

\* The last entry that is seen before the busy one.
LEMMA ScanPrevIs ==
    ASSUME IInv, NEW t \in Remover, ScanOther(t) \subseteq 1..Len(fds)
    PROVE  /\ ScanPrev(t) \in Entry \cup {NoEntry}
           /\ \/ ScanOther(t) = {} /\ ScanPrev(t) = remover[t].prev
              \/ \E j \in ScanOther(t) : ScanPrev(t) = fds[j]
<1>1. PICK T : T = ScanOther(t)
  OBVIOUS
<1>2. fds \in Seq(Entry) /\ remover[t].prev \in Entry \cup {NoEntry}
  BY DEF IInv, TypeOK
<1>3. CASE T = {}
  BY <1>1, <1>2, <1>3 DEF ScanPrev
<1>4. CASE T # {}
  <2>1. \E i \in T : \A j \in T : j <= i
    BY <1>1, <1>2, <1>4, LastExists
  <2>2. PICK j : j = CHOOSE i \in T : \A k \in T : k <= i
    OBVIOUS
  <2>3. j \in T
    BY <2>1, <2>2
  <2>4. ScanPrev(t) = fds[j]
    BY <1>1, <1>4, <2>2 DEF ScanPrev
  <2> QED
    BY <1>1, <1>2, <2>3, <2>4
<1> QED
  BY <1>3, <1>4

LEMMA ScanKeeps == ASSUME IInv, NEW t \in Remover, Scan(t) PROVE IInv'
<1>1. PICK F : F = {fds[i] : i \in ScanFound(t)}
  OBVIOUS
<1>2. /\ ScanFound(t) \subseteq 1..Len(fds) /\ ScanOther(t) \subseteq 1..Len(fds)
      /\ \A e \in F : e \in Entry /\ \A c \in jobs \cup active : c.e # e
      /\ freed' = freed \cup F
      /\ fds' = fds \/ \E k \in ScanFound(t) : fds' = RemoveAt(fds, k)
      /\ UNCHANGED <<events, inCb, state, watcher, jobs, active, ready>>
      /\ pipe' \in {TRUE, pipe}
  <2>1. PICK found, unlinked, other : /\ found = ScanFound(t) /\ unlinked = ScanUnlinked(t)
                                      /\ other = ScanOther(t)
    OBVIOUS
  <2>2. /\ found \subseteq 1..Len(fds) /\ other \subseteq 1..Len(fds)
        /\ \A i \in found : fds[i] \in Entry /\ \A c \in jobs \cup active : c.e # fds[i]
        /\ freed' = freed \cup {fds[i] : i \in found}
        /\ fds' = fds \/ \E k \in unlinked : fds' = RemoveAt(fds, k)
        /\ UNCHANGED <<events, inCb, state, watcher, jobs, active, ready>>
    BY <2>1, ScanIs
  <2>3. pipe' \in {TRUE, pipe}
    BY ScanIs
  <2>4. unlinked \subseteq found
    BY <2>1 DEF ScanUnlinked
  <2>5. \A e \in F : e \in Entry /\ \A c \in jobs \cup active : c.e # e
    BY <1>1, <2>1, <2>2
  <2> QED
    BY <1>1, <2>1, <2>2, <2>3, <2>4, <2>5
<1>3. remover' \in [Remover -> RemoverType]
  <2>1. remover \in [Remover -> RemoverType] /\ remover[t] \in RemoverType
    BY DEF IInv, TypeOK, RemoverType
  <2>2. PICK p : p = ScanPrev(t)
    OBVIOUS
  <2>3. p \in Entry \cup {NoEntry}
    BY <1>2, <2>2, ScanPrevIs
  <2>4. \/ remover' = [remover EXCEPT ![t].st = "wait", ![t].prev = p]
        \/ remover' = [remover EXCEPT ![t] = [st |-> "idle", fd |-> NoEntry, prev |-> NoEntry]]
    BY <2>2, ScanIs
  <2>5. CASE remover' = [remover EXCEPT ![t].st = "wait", ![t].prev = p]
    <3>1. /\ remover' = [r \in Remover |-> remover'[r]]
          /\ \A r \in Remover : r # t => remover'[r] = remover[r]
          /\ remover'[t] = [remover[t] EXCEPT !.st = "wait", !.prev = p]
      BY <2>1, <2>5
    <3>2. remover'[t] = [st |-> "wait", fd |-> remover[t].fd, prev |-> p]
      BY <2>1, <3>1 DEF RemoverType
    <3>3. remover'[t] \in RemoverType
      BY <2>1, <2>3, <3>2 DEF RemoverType
    <3> QED
      BY <2>1, <3>1, <3>3
  <2>6. CASE remover' = [remover EXCEPT ![t] = [st |-> "idle", fd |-> NoEntry, prev |-> NoEntry]]
    <3>1. [st |-> "idle", fd |-> NoEntry, prev |-> NoEntry] \in RemoverType
      BY DEF RemoverType
    <3> QED
      BY <2>1, <2>6, <3>1
  <2> QED
    BY <2>4, <2>5, <2>6
<1>4. /\ fds' \in Seq(Entry) /\ OneFdOf(fds') /\ ToSet(fds') \subseteq ToSet(fds)
      /\ ToSet(fds) \ F \subseteq ToSet(fds') /\ (fds = <<>> => fds' = <<>>)
  <2>1. fds \in Seq(Entry) /\ OneFdOf(fds)
    BY DEF IInv, TypeOK, OneFd
  <2>2. CASE fds' = fds
    BY <2>1, <2>2
  <2>3. CASE \E k \in ScanFound(t) : fds' = RemoveAt(fds, k)
    <3>1. PICK k \in ScanFound(t) : fds' = RemoveAt(fds, k)
      BY <2>3
    <3>2. k \in 1..Len(fds) /\ fds[k] \in F
      BY <1>1, <1>2
    <3>3. fds' \in Seq(Entry) /\ OneFdOf(fds') /\ ToSet(fds') = ToSet(fds) \ {fds[k]}
      BY <2>1, <3>1, <3>2, UnlinkFacts
    <3>4. fds # <<>>
      BY <3>2
    <3> QED
      BY <3>2, <3>3, <3>4
  <2> QED
    BY <1>2, <2>2, <2>3
<1>5. TypeOK'
  <2>1. pipe' \in BOOLEAN
    BY <1>2 DEF IInv, TypeOK
  <2> QED
    BY <1>2, <1>3, <1>4, <2>1 DEF IInv, TypeOK, RemoverType
<1>6. OneFd' /\ Stopped' /\ Handed' /\ Known'
  BY <1>2, <1>4 DEF IInv, OneFd, Stopped, Handed, Known
<1>7. Attached'
  BY <1>2, <1>4 DEF IInv, Attached, AttachedTo
<1>8. Counted'
  BY <1>2, <1>4 DEF IInv, Counted, CountedOf
<1>9. Fresh'
  BY <1>2, <1>4 DEF IInv, Fresh, FreshOf
<1> QED
  BY <1>5, <1>6, <1>7, <1>8, <1>9 DEF IInv

LEMMA InitIInv == Init => IInv
<1> SUFFICES ASSUME Init PROVE IInv
  OBVIOUS
<1>1. Idle \in WatcherType /\ [st |-> "idle", fd |-> NoEntry, prev |-> NoEntry] \in RemoverType
  BY DEF Idle, WatcherType, WatchStates, RemoverType
<1>2. TypeOK
  <2>1. watcher \in WatcherType /\ remover \in [Remover -> RemoverType]
    BY <1>1 DEF Init
  <2>2. events \in [Entry -> SUBSET Event] /\ inCb \in [Entry -> Nat]
    BY EntryAssumption DEF Init
  <2>3. fds \in Seq(Entry) /\ freed \subseteq Entry /\ state \in {"STOPPED", "QUEUED", "RUNNING"}
    BY DEF Init
  <2>4. /\ pipe \in BOOLEAN /\ jobs \subseteq Callback /\ active \subseteq Callback
        /\ ready \subseteq Fd \X Event
    BY DEF Init
  <2> QED
    BY <2>1, <2>2, <2>3, <2>4 DEF TypeOK, WatcherType, RemoverType
<1>3. ToSet(fds) = {} /\ jobs \cup active = {}
  BY DEF Init, ToSet
<1> QED
  BY <1>2, <1>3 DEF Init, IInv, OneFd, OneFdOf, Stopped, Handed, Attached, AttachedTo, Known,
     Counted, CountedOf, Fresh, FreshOf

LEMMA NextIInv == IInv /\ [Next]_vars => IInv'
<1> SUFFICES ASSUME IInv, [Next]_vars PROVE IInv'
  OBVIOUS
<1>1. CASE UNCHANGED vars
  <2>1. TypeOK' /\ Stopped' /\ Handed' /\ jobs' \cup active' = jobs \cup active
    BY <1>1 DEF vars, IInv, TypeOK, Stopped, Handed
  <2> QED
    BY <1>1, <2>1, EntriesSame DEF vars
<1>2. CASE Next
  BY <1>2, AddKeeps, BuildKeeps, PollKeeps, DispatchKeeps, ExecuteKeeps, InlineDoneKeeps,
     CallbackEndsKeeps, ScanKeeps, RemoveCallKeeps, BecomeReadyKeeps
     DEF Next, WatchStep, CallbackStep
<1> QED
  BY <1>1, <1>2

(***************************************************************************)
(* The theorems that hold whatever is registered and removed.              *)
(***************************************************************************)
\* The inductive invariant holds in every reachable state of the watcher.
THEOREM Invariance == Spec => []IInv
  BY InitIInv, NextIInv, PTL DEF Spec

\* The fields of watcher_t, entry_t and of the threads in remove() have their types.
THEOREM TypeCorrect == Spec => []TypeOK
<1>1. IInv => TypeOK
  BY DEF IInv
<1> QED
  BY <1>1, Invariance, PTL

\* notify and notify_end keep in_callback: it is the number of callbacks of the
\* entry that are queued or active, so no callback is started twice and no entry
\* stays deactivated.
THEOREM CountSafety == Spec => []CallbacksCounted
<1>1. IInv => CallbacksCounted
  <2> SUFFICES ASSUME IInv, NEW i \in 1..Len(fds)
               PROVE  inCb[fds[i]] = Cardinality({c \in jobs \cup active : c.e = fds[i]})
    BY DEF CallbacksCounted
  <2>1. fds[i] \in ToSet(fds)
    BY DEF IInv, TypeOK, ToSet
  <2> QED
    BY <2>1 DEF IInv, Counted, CountedOf, CallbacksOf
<1> QED
  BY <1>1, Invariance, PTL

(***************************************************************************)
(* remove() and the entry it remembers.                                    *)
(***************************************************************************)
\* The entry that a thread in remove() remembers while it waits is registered.
PrevStays == \A t \in Remover : remover[t].prev # NoEntry => remover[t].prev \in ToSet(fds)

\* It is another entry than those of fd, and comes before them in the list q.
PrevFirstOf(q, p, fd) ==
    /\ FdOf[p] # fd
    /\ \A i, j \in 1..Len(q) : q[j] = p /\ FdOf[q[i]] = fd => j < i
PrevFirst == \A t \in Remover :
    remover[t].prev # NoEntry => PrevFirstOf(fds, remover[t].prev, remover[t].fd)

\* What is freed is out of the list.
NotFreed == ToSet(fds) \cap freed = {}

RInv == IInv /\ PrevFirst /\ NotFreed

LEMMA OrderKept ==
    ASSUME NEW q \in Seq(Entry), OneFdOf(q), NEW k \in 1..Len(q), NEW p, NEW fd, PrevFirstOf(q, p, fd)
    PROVE  PrevFirstOf(RemoveAt(q, k), p, fd)
<1>1. \A i, j \in 1..Len(RemoveAt(q, k)), i0, j0 \in 1..Len(q) :
        RemoveAt(q, k)[i] = q[i0] /\ RemoveAt(q, k)[j] = q[j0] /\ i0 < j0 => i < j
  BY UnlinkFacts
<1>2. \A i \in 1..Len(RemoveAt(q, k)) : \E i0 \in 1..Len(q) : RemoveAt(q, k)[i] = q[i0]
  BY UnlinkFacts
<1>3. PICK r : r = RemoveAt(q, k)
  OBVIOUS
<1>4. ASSUME NEW i \in 1..Len(r), NEW j \in 1..Len(r), r[j] = p, FdOf[r[i]] = fd PROVE j < i
  <2>1. PICK i0 \in 1..Len(q) : r[i] = q[i0]
    BY <1>2, <1>3
  <2>2. PICK j0 \in 1..Len(q) : r[j] = q[j0]
    BY <1>2, <1>3
  <2>3. j0 < i0
    BY <1>4, <2>1, <2>2 DEF PrevFirstOf
  <2> QED
    BY <1>1, <1>3, <2>1, <2>2, <2>3
<1> QED
  BY <1>3, <1>4 DEF PrevFirstOf

\* Steps that change neither the list nor what the threads in remove() remember.
LEMMA PrevSame ==
    ASSUME RInv, UNCHANGED <<fds, freed>>,
           \A t \in Remover : remover'[t].prev # NoEntry =>
             remover'[t].prev = remover[t].prev /\ remover'[t].fd = remover[t].fd
    PROVE  PrevFirst' /\ NotFreed'
  BY DEF RInv, PrevFirst, NotFreed

LEMMA BroadcastKeeps ==
    ASSUME TypeOK, remover' = Broadcast, NEW t \in Remover
    PROVE  remover'[t].prev = remover[t].prev /\ remover'[t].fd = remover[t].fd
<1>1. remover[t] \in RemoverType
  BY DEF TypeOK, RemoverType
<1>2. remover'[t] = remover[t] \/ remover'[t] = [remover[t] EXCEPT !.st = "scan"]
  BY DEF Broadcast
<1> QED
  BY <1>1, <1>2 DEF RemoverType

LEMMA AddPrev == ASSUME RInv, PrevStays, NEW e \in Entry, Add(e) PROVE PrevFirst' /\ NotFreed'
<1>1. PICK q : q = Append(fds, e)
  OBVIOUS
<1>2. /\ fds \in Seq(Entry) /\ fds' = q /\ freed' = freed /\ remover' = remover
      /\ e \notin ToSet(fds) /\ e \notin freed /\ \A t \in Remover : remover[t].fd # FdOf[e]
  BY <1>1 DEF RInv, IInv, TypeOK, Add
<1>3. ToSet(q) = ToSet(fds) \cup {e}
  BY <1>1, <1>2, AppendFacts
<1>4. /\ Len(q) = Len(fds) + 1 /\ Len(fds) \in Nat /\ q[Len(fds) + 1] = e
      /\ \A i \in 1..Len(fds) : q[i] = fds[i]
  BY <1>1, <1>2
<1>5. \A i \in 1..Len(q) : i \in 1..Len(fds) \/ i = Len(fds) + 1
  BY <1>4
<1>6. ASSUME NEW t \in Remover, remover[t].prev # NoEntry
      PROVE  PrevFirstOf(q, remover[t].prev, remover[t].fd)
  <2>1. PrevFirstOf(fds, remover[t].prev, remover[t].fd) /\ remover[t].prev # e
    BY <1>2, <1>6 DEF RInv, PrevFirst, PrevStays
  <2>2. remover[t].fd # FdOf[e]
    BY <1>2
  <2> QED
    BY <1>4, <1>5, <2>1, <2>2 DEF PrevFirstOf
<1> QED
  BY <1>2, <1>3, <1>6 DEF RInv, PrevFirst, NotFreed

LEMMA CallbackEndsPrev ==
    ASSUME RInv, NEW c \in Callback, NEW keep \in BOOLEAN, CallbackEnds(c, keep)
    PROVE  PrevFirst' /\ NotFreed'
<1>1. c \in active /\ IInv /\ TypeOK /\ fds \in Seq(Entry) /\ OneFdOf(fds)
  BY DEF CallbackEnds, RInv, IInv, TypeOK, OneFd
<1>2. PICK S : S = {i \in 1..Len(fds) : FdOf[fds[i]] = FdOf[c.e]}
  OBVIOUS
<1>3. PICK k \in 1..Len(fds) : fds[k] = c.e /\ S = {k} /\ k = CHOOSE i \in S : \A j \in S : i <= j
  BY <1>1, <1>2, CallbackEntry
<1>4. /\ remover' = Broadcast
      /\ \/ fds' = RemoveAt(fds, k) /\ freed' = freed \cup {fds[k]}
         \/ UNCHANGED <<fds, freed>>
  BY <1>2, <1>3 DEF CallbackEnds
<1>5. \A t \in Remover : remover'[t].prev = remover[t].prev /\ remover'[t].fd = remover[t].fd
  BY <1>1, <1>4, BroadcastKeeps
<1>6. CASE UNCHANGED <<fds, freed>>
  BY <1>5, <1>6, PrevSame
<1>7. CASE fds' = RemoveAt(fds, k) /\ freed' = freed \cup {fds[k]}
  <2>1. ToSet(fds') = ToSet(fds) \ {fds[k]}
    BY <1>1, <1>7, UnlinkFacts
  <2>2. \A t \in Remover : remover[t].prev # NoEntry =>
          PrevFirstOf(fds', remover[t].prev, remover[t].fd)
    BY <1>1, <1>7, OrderKept DEF RInv, PrevFirst
  <2> QED
    BY <1>5, <1>7, <2>1, <2>2 DEF RInv, PrevFirst, NotFreed
<1> QED
  BY <1>4, <1>6, <1>7

\* With the remembered entry registered, all that a pass frees is unlinked.
LEMMA AllUnlinked ==
    ASSUME RInv, PrevStays, NEW t \in Remover
    PROVE  ScanFound(t) \subseteq ScanUnlinked(t)
<1> SUFFICES ASSUME NEW i \in ScanFound(t), remover[t].prev # NoEntry
             PROVE  \E j \in ScanOther(t) : j < i
  BY DEF ScanUnlinked
<1>1. PICK fd : fd = remover[t].fd
  OBVIOUS
<1>2. i \in 1..Len(fds) /\ FdOf[fds[i]] = fd /\ \A b \in Busy(fd) : i < b
  BY <1>1 DEF ScanFound, Before
<1>3. PICK j \in 1..Len(fds) : fds[j] = remover[t].prev
  BY DEF PrevStays, ToSet, RInv, IInv, TypeOK
<1>4. PrevFirstOf(fds, remover[t].prev, fd)
  BY <1>1 DEF RInv, PrevFirst
<1>5. j < i /\ FdOf[fds[j]] # fd
  BY <1>2, <1>3, <1>4 DEF PrevFirstOf
<1>6. Busy(fd) \subseteq 1..Len(fds)
  BY DEF Busy, InCallback
<1>7. \A b \in Busy(fd) : j < b
  BY <1>2, <1>5, <1>6
<1>8. j \in ScanOther(t)
  BY <1>1, <1>5, <1>7 DEF ScanOther, ScanFound, Before
<1> QED
  BY <1>5, <1>8

\* What a pass leaves: the list without the freed entry, if there is one.
LEMMA ScanLeaves ==
    ASSUME RInv, PrevStays, NEW t \in Remover, Scan(t)
    PROVE  /\ \/ fds' = fds /\ freed' = freed /\ ScanFound(t) = {}
              \/ \E k \in 1..Len(fds) : /\ ScanFound(t) = {k} /\ freed' = freed \cup {fds[k]}
                                        /\ fds' = RemoveAt(fds, k)
                                        /\ FdOf[fds[k]] = remover[t].fd
<1>1. IInv /\ OneFdOf(fds)
  BY DEF RInv, IInv, OneFd
<1>2. PICK found, unlinked : found = ScanFound(t) /\ unlinked = ScanUnlinked(t)
  OBVIOUS
<1>3. /\ found \subseteq 1..Len(fds) /\ \A i \in found : FdOf[fds[i]] = remover[t].fd
      /\ freed' = freed \cup {fds[i] : i \in found}
      /\ (unlinked = {} /\ fds' = fds) \/ \E k \in unlinked : fds' = RemoveAt(fds, k)
  BY <1>1, <1>2, ScanIs
<1>4. found = unlinked
  BY <1>2, AllUnlinked DEF ScanUnlinked
<1>5. CASE unlinked = {} /\ fds' = fds
  BY <1>2, <1>3, <1>4, <1>5
<1>6. CASE \E k \in unlinked : fds' = RemoveAt(fds, k)
  <2>1. PICK k \in unlinked : fds' = RemoveAt(fds, k)
    BY <1>6
  <2>2. k \in 1..Len(fds) /\ FdOf[fds[k]] = remover[t].fd
    BY <1>3, <1>4
  <2>3. found = {k}
    BY <1>1, <1>3, <1>4, <2>2 DEF OneFdOf
  <2>4. freed' = freed \cup {fds[k]}
    BY <1>3, <2>3
  <2> QED
    BY <1>2, <2>1, <2>2, <2>3, <2>4
<1> QED
  BY <1>3, <1>5, <1>6

\* The threads in remove() after a pass of t.
LEMMA ScanRemover ==
    ASSUME IInv, NEW t \in Remover, Scan(t)
    PROVE  /\ \A r \in Remover : r # t => remover'[r] = remover[r]
           /\ \/ remover'[t].prev = NoEntry /\ remover'[t].st = "idle"
              \/ /\ remover'[t].prev = ScanPrev(t) /\ remover'[t].fd = remover[t].fd
                 /\ Busy(remover[t].fd) # {}
<1>1. PICK p, B : p = ScanPrev(t) /\ B = Busy(remover[t].fd)
  OBVIOUS
<1>2. \/ B # {} /\ remover' = [remover EXCEPT ![t].st = "wait", ![t].prev = p]
      \/ remover' = [remover EXCEPT ![t] = [st |-> "idle", fd |-> NoEntry, prev |-> NoEntry]]
  BY <1>1, ScanIs
<1>3. remover \in [Remover -> RemoverType] /\ remover[t] \in RemoverType
  BY DEF IInv, TypeOK, RemoverType
<1>4. CASE B # {} /\ remover' = [remover EXCEPT ![t].st = "wait", ![t].prev = p]
  <2>1. /\ \A r \in Remover : r # t => remover'[r] = remover[r]
        /\ remover'[t] = [remover[t] EXCEPT !.st = "wait", !.prev = p]
    BY <1>3, <1>4
  <2>2. remover'[t].prev = p /\ remover'[t].fd = remover[t].fd
    BY <1>3, <2>1 DEF RemoverType
  <2> QED
    BY <1>1, <1>4, <2>1, <2>2
<1>5. CASE remover' = [remover EXCEPT ![t] = [st |-> "idle", fd |-> NoEntry, prev |-> NoEntry]]
  BY <1>3, <1>5
<1> QED
  BY <1>2, <1>4, <1>5

LEMMA ScanPrevFirst ==
    ASSUME RInv, PrevStays, NEW t \in Remover, Scan(t) PROVE PrevFirst' /\ NotFreed'
<1>1. IInv /\ fds \in Seq(Entry) /\ OneFdOf(fds)
  BY DEF RInv, IInv, OneFd, TypeOK
<1>2. \/ fds' = fds /\ freed' = freed /\ ScanFound(t) = {}
      \/ \E k \in 1..Len(fds) : /\ ScanFound(t) = {k} /\ freed' = freed \cup {fds[k]}
                                /\ fds' = RemoveAt(fds, k) /\ FdOf[fds[k]] = remover[t].fd
  BY ScanLeaves
<1>3. NotFreed'
  <2>1. CASE fds' = fds /\ freed' = freed
    BY <2>1 DEF RInv, NotFreed
  <2>2. ASSUME NEW k \in 1..Len(fds), fds' = RemoveAt(fds, k), freed' = freed \cup {fds[k]}
        PROVE  NotFreed'
    <3>1. ToSet(fds') = ToSet(fds) \ {fds[k]}
      BY <1>1, <2>2, UnlinkFacts
    <3> QED
      BY <2>2, <3>1 DEF RInv, NotFreed
  <2> QED
    BY <1>2, <2>1, <2>2
<1>4. \A p, fd : PrevFirstOf(fds, p, fd) => PrevFirstOf(fds', p, fd)
  <2>1. CASE fds' = fds
    BY <2>1
  <2>2. ASSUME NEW k \in 1..Len(fds), fds' = RemoveAt(fds, k)
        PROVE  \A p, fd : PrevFirstOf(fds, p, fd) => PrevFirstOf(fds', p, fd)
    BY <1>1, <2>2, OrderKept
  <2> QED
    BY <1>2, <2>1, <2>2
<1>5. \A r \in Remover : r # t /\ remover'[r].prev # NoEntry =>
        PrevFirstOf(fds', remover'[r].prev, remover'[r].fd)
  BY <1>1, <1>4, ScanRemover DEF RInv, PrevFirst
<1>6. ASSUME remover'[t].prev # NoEntry
      PROVE  PrevFirstOf(fds', remover'[t].prev, remover'[t].fd)
  <2>1. PICK p, fd : p = remover'[t].prev /\ fd = remover[t].fd
    OBVIOUS
  <2>2. p = ScanPrev(t) /\ remover'[t].fd = fd /\ p # NoEntry
    BY <1>1, <1>6, <2>1, ScanRemover
  <2>3. ScanOther(t) \subseteq 1..Len(fds)
    BY <1>1, ScanIs
  <2>4. \/ p = remover[t].prev
        \/ \E j \in ScanOther(t) : p = fds[j]
    BY <1>1, <2>2, <2>3, ScanPrevIs
  <2>5. CASE p = remover[t].prev
    BY <1>4, <2>1, <2>2, <2>5 DEF RInv, PrevFirst
  <2>6. ASSUME NEW j \in ScanOther(t), p = fds[j] PROVE PrevFirstOf(fds', p, fd)
    <3>1. /\ j \in 1..Len(fds) /\ FdOf[fds[j]] # fd /\ \A b \in Busy(fd) : j < b
      BY <2>1, <2>6 DEF ScanOther, ScanFound, Before
    <3>2. Busy(fd) \subseteq 1..Len(fds)
      BY DEF Busy, InCallback
    <3>3. ASSUME NEW i \in 1..Len(fds), FdOf[fds[i]] = fd, i \notin ScanFound(t) PROVE j < i
      <4>1. i \notin Before(Busy(fd))
        BY <2>1, <3>3 DEF ScanFound
      <4>2. PICK b \in Busy(fd) : ~(i < b)
        BY <3>3, <4>1 DEF Before
      <4>3. j < b /\ b \in 1..Len(fds)
        BY <3>1, <3>2
      <4> QED
        BY <3>1, <3>3, <4>2, <4>3
    <3>4. CASE fds' = fds /\ ScanFound(t) = {}
      <4>1. \A i, l \in 1..Len(fds) : fds[l] = p /\ FdOf[fds[i]] = fd => l < i
        <5> SUFFICES ASSUME NEW i \in 1..Len(fds), NEW l \in 1..Len(fds), fds[l] = p, FdOf[fds[i]] = fd
                     PROVE  l < i
          OBVIOUS
        <5>1. l = j
          BY <1>1, <2>6, <3>1 DEF OneFdOf
        <5> QED
          BY <3>3, <3>4, <5>1
      <4> QED
        BY <2>6, <3>1, <3>4, <4>1 DEF PrevFirstOf
    <3>5. ASSUME NEW k \in 1..Len(fds), ScanFound(t) = {k}, fds' = RemoveAt(fds, k)
          PROVE  PrevFirstOf(fds', p, fd)
      <4>1. PICK q : q = fds'
        OBVIOUS
      <4>2. /\ ToSet(q) = ToSet(fds) \ {fds[k]} /\ q \in Seq(Entry)
            /\ \A i, l \in 1..Len(q), i0, j0 \in 1..Len(fds) :
                 q[i] = fds[i0] /\ q[l] = fds[j0] /\ i0 < j0 => i < l
            /\ \A i \in 1..Len(q) : \E i0 \in 1..Len(fds) : q[i] = fds[i0]
        BY <1>1, <3>5, <4>1, UnlinkFacts
      <4>3. ASSUME NEW i \in 1..Len(q), NEW l \in 1..Len(q), q[l] = p, FdOf[q[i]] = fd PROVE l < i
        <5>1. PICK i0 \in 1..Len(fds) : q[i] = fds[i0]
          BY <4>2
        <5>2. i0 # k
          BY <4>2, <5>1 DEF ToSet
        <5>3. j < i0
          BY <3>3, <3>5, <4>3, <5>1, <5>2
        <5> QED
          BY <2>6, <3>1, <4>2, <4>3, <5>1, <5>3
      <4> QED
        BY <2>6, <3>1, <4>1, <4>3 DEF PrevFirstOf
    <3> QED
      BY <1>2, <3>4, <3>5
  <2> QED
    BY <2>1, <2>2, <2>4, <2>5, <2>6
<1>7. PrevFirst'
  BY <1>5, <1>6 DEF PrevFirst
<1> QED
  BY <1>3, <1>7

LEMMA RInvStep == RInv /\ PrevStays /\ [Next]_vars => RInv'
<1> SUFFICES ASSUME RInv, PrevStays, [Next]_vars PROVE RInv'
  OBVIOUS
<1>1. IInv'
  BY NextIInv DEF RInv
<1>2. CASE UNCHANGED <<fds, freed, remover>>
  BY <1>1, <1>2, PrevSame DEF RInv
<1>3. UNCHANGED vars \/ WatchStep => UNCHANGED <<fds, freed, remover>>
  BY DEF vars, WatchStep, Build, Poll, Dispatch, Execute, InlineDone
<1>4. ASSUME NEW fd, NEW ev, BecomeReady(fd, ev) PROVE UNCHANGED <<fds, freed, remover>>
  BY <1>4 DEF BecomeReady
<1>5. ASSUME NEW t \in Remover, NEW fd, RemoveCall(t, fd) PROVE RInv'
  <2>1. remover \in [Remover -> RemoverType] /\ UNCHANGED <<fds, freed>>
    BY <1>5 DEF RInv, IInv, TypeOK, RemoverType, RemoveCall
  <2>2. \A r \in Remover : remover'[r].prev # NoEntry => remover'[r] = remover[r]
    BY <1>5, <2>1 DEF RemoveCall
  <2> QED
    BY <1>1, <2>1, <2>2, PrevSame DEF RInv
<1>6. ASSUME NEW e \in Entry, Add(e) PROVE RInv'
  BY <1>1, <1>6, AddPrev DEF RInv
<1>7. ASSUME NEW c \in Callback, CallbackStep(c) PROVE RInv'
  BY <1>1, <1>7, CallbackEndsPrev DEF RInv, CallbackStep
<1>8. ASSUME NEW t \in Remover, Scan(t) PROVE RInv'
  BY <1>1, <1>8, ScanPrevFirst DEF RInv
<1> QED
  BY <1>2, <1>3, <1>4, <1>5, <1>6, <1>7, <1>8 DEF Next

LEMMA InitRInv == Init => RInv
<1> SUFFICES ASSUME Init PROVE RInv
  OBVIOUS
<1>1. NotFreed /\ PrevFirst
  BY DEF Init, NotFreed, PrevFirst
<1> QED
  BY <1>1, InitIInv DEF RInv

\* watcher.h:94 "blocks until any active callback for this FD returns": as long as the
\* entry that remove() remembers across its wait stays registered, no callback is
\* queued or active for an entry that has been freed, for any number of threads in
\* remove() and any descriptors.
THEOREM RemoveSafety == Spec /\ []PrevStays => []NoCallbackAfterRemove
<1>1. RInv => NoCallbackAfterRemove
  BY DEF RInv, IInv, Attached, AttachedTo, NotFreed, NoCallbackAfterRemove
<1> QED
  BY <1>1, InitRInv, RInvStep, PTL DEF Spec

(***************************************************************************)
(* Nobody is forgotten: what ReadyIsServed and RemoveReturns rest on, for  *)
(* any entries and threads.                                                *)
(***************************************************************************)
NInv == IInv /\ NobodyForgotten

\* Steps that leave the list, the threads in remove() and the callbacks alone.
LEMMA WatchingSame ==
    ASSUME NInv, UNCHANGED <<fds, remover>>, jobs' \cup active' = jobs \cup active
    PROVE  Awaited'
<1>1. jobs' \cup active' = jobs \cup active
  OBVIOUS
<1> QED
  BY <1>1 DEF NInv, NobodyForgotten, Awaited

LEMMA WatchingAdd == ASSUME NInv, NEW e \in Entry, Add(e) PROVE Awaited'
  BY DEF Add, NInv, NobodyForgotten, Awaited

LEMMA AddWatched == ASSUME NInv, NEW e \in Entry, Add(e) PROVE NobodyForgotten'
<1>1. watcher \in WatcherType
  BY DEF NInv, IInv, TypeOK, WatcherType
<1>2. CASE state = "STOPPED"
  <2>1. state' = "QUEUED" /\ watcher' = [watcher EXCEPT !.st = "build"]
    BY <1>2 DEF Add
  <2>2. watcher'.st = "build"
    BY <1>1, <2>1 DEF WatcherType
  <2> QED
    BY <2>1, <2>2, WatchingAdd DEF NobodyForgotten, Polled, PolledOf, WatchJob
<1>3. CASE state # "STOPPED"
  <2>1. pipe' = TRUE /\ UNCHANGED <<state, watcher>>
    BY <1>3 DEF Add, Update
  <2>2. watcher.st # "none"
    BY <1>3 DEF NInv, NobodyForgotten, WatchJob
  <2> QED
    BY <1>3, <2>1, <2>2, WatchingAdd DEF NobodyForgotten, Polled, PolledOf, WatchJob
<1> QED
  BY <1>2, <1>3

LEMMA BuildWatched == NInv /\ Build => NobodyForgotten'
<1> SUFFICES ASSUME NInv, Build PROVE NobodyForgotten'
  OBVIOUS
<1>1. Awaited'
  BY WatchingSame DEF Build
<1>2. PICK P : P = {FdOf[fds[i]] : i \in 1..Len(fds) \ InCallback}
  OBVIOUS
<1>3. CASE fds = <<>>
  <2>1. watcher'.st = "none" /\ state' = "STOPPED" /\ fds' = <<>>
    BY <1>3 DEF Build, Idle
  <2> QED
    BY <1>1, <2>1 DEF NobodyForgotten, Polled, PolledOf, WatchJob
<1>4. CASE fds # <<>>
  <2>1. watcher' = [Idle EXCEPT !.st = "poll", !.pfd = P] /\ state' = "RUNNING"
    BY <1>2, <1>4 DEF Build
  <2>2. watcher' = [st |-> "poll", pfd |-> P, revents |-> {}, own |-> {}]
    BY <2>1 DEF Idle
  <2>3. fds' = fds /\ inCb' = inCb
    BY DEF Build
  <2>4. ASSUME NEW e \in ToSet(fds), inCb[e] = 0 PROVE FdOf[e] \in P
    <3>1. PICK i \in 1..Len(fds) : fds[i] = e
      BY DEF ToSet
    <3>2. i \notin InCallback
      BY <2>4, <3>1 DEF InCallback
    <3> QED
      BY <1>2, <3>1, <3>2
  <2> QED
    BY <1>1, <2>1, <2>2, <2>3, <2>4 DEF NobodyForgotten, Polled, PolledOf, WatchJob
<1> QED
  BY <1>3, <1>4

LEMMA PollWatched == NInv /\ Poll => NobodyForgotten'
<1> SUFFICES ASSUME NInv, Poll PROVE NobodyForgotten'
  OBVIOUS
<1>1. Awaited'
  BY WatchingSame DEF Poll
<1>2. watcher \in WatcherType /\ watcher.st = "poll" /\ UNCHANGED <<fds, inCb, state>>
  BY DEF Poll, NInv, IInv, TypeOK, WatcherType
<1>3. \/ watcher'.st = "build"
      \/ watcher'.st = "dispatch" /\ watcher'.pfd = watcher.pfd /\ pipe' = pipe
  <2>1. PICK R : R = {p \in ready : p[1] \in watcher.pfd}
    OBVIOUS
  <2>2. \/ watcher' = [watcher EXCEPT !.st = "build"]
        \/ watcher' = [watcher EXCEPT !.st = "dispatch", !.revents = R] /\ pipe' = pipe
    BY <2>1 DEF Poll
  <2> QED
    BY <1>2, <2>2 DEF WatcherType
<1> QED
  BY <1>1, <1>2, <1>3 DEF NInv, NobodyForgotten, Polled, PolledOf, WatchJob

LEMMA DispatchWatched == NInv /\ Dispatch => NobodyForgotten'
<1> SUFFICES ASSUME NInv, Dispatch PROVE NobodyForgotten'
  OBVIOUS
<1>1. /\ watcher \in WatcherType /\ watcher.st = "dispatch" /\ jobs = {}
      /\ UNCHANGED <<fds, pipe, state, active, remover>>
  BY DEF Dispatch, NInv, IInv, TypeOK, WatcherType, Handed
<1>2. watcher'.pfd = watcher.pfd /\ watcher'.st \in {"execute", "build", "poll"}
  <2>1. PICK s : /\ s \in {"execute", "build", "poll"} /\ watcher' = [watcher EXCEPT !.st = s]
    BY DEF Dispatch
  <2> QED
    BY <1>1, <2>1 DEF WatcherType
<1>3. Awaited'
  BY <1>1 DEF NInv, NobodyForgotten, Awaited, WaitsFor
<1>4. watcher'.st = "poll" => inCb' = inCb
  <2> SUFFICES ASSUME watcher'.st = "poll" PROVE inCb' = inCb
    OBVIOUS
  <2>1. Notified = {}
    BY <1>1 DEF Dispatch, WatcherType
  <2>2. ASSUME NEW e \in Entry PROVE Cardinality({c \in Notified : c.e = e}) = 0
    BY <2>1, FS_EmptySet
  <2>3. inCb \in [Entry -> Nat]
    BY DEF NInv, IInv, TypeOK
  <2>4. inCb' = [e \in Entry |-> inCb[e] + Cardinality({c \in Notified : c.e = e})]
    BY DEF Dispatch
  <2> QED
    BY <2>2, <2>3, <2>4
<1> QED
  BY <1>1, <1>2, <1>3, <1>4 DEF NInv, NobodyForgotten, Polled, PolledOf, WatchJob

LEMMA ExecuteWatched == NInv /\ (Execute \/ InlineDone) => NobodyForgotten'
<1> SUFFICES ASSUME NInv, Execute \/ InlineDone PROVE NobodyForgotten'
  OBVIOUS
<1>1. /\ jobs' \cup active' = jobs \cup active /\ UNCHANGED <<fds, state, remover>>
      /\ watcher.st \in {"execute", "inline"}
  BY DEF Execute, InlineDone
<1>2. watcher \in WatcherType
  BY DEF NInv, IInv, TypeOK, WatcherType
<1>3. watcher'.st \in {"execute", "inline", "build"}
  <2>1. \/ watcher' = watcher
        \/ watcher' = [Idle EXCEPT !.st = "build"]
        \/ \E o : watcher' = [watcher EXCEPT !.st = "inline", !.own = o]
        \/ watcher' = [watcher EXCEPT !.st = "execute", !.own = {}]
    BY DEF Execute, InlineDone
  <2> QED
    BY <1>1, <1>2, <2>1 DEF WatcherType, Idle
<1> QED
  BY <1>1, <1>3, WatchingSame DEF NInv, NobodyForgotten, Polled, PolledOf, WatchJob

\* notify_end tells the watcher and wakes every thread in remove().
LEMMA CallbackEndsWatched ==
    ASSUME NInv, NEW c \in Callback, NEW keep \in BOOLEAN, CallbackEnds(c, keep)
    PROVE  NobodyForgotten'
<1>1. pipe' = TRUE /\ UNCHANGED <<state, watcher>> /\ remover' = Broadcast
  BY DEF CallbackEnds, Update
<1>2. \A t \in Remover : remover'[t].st # "wait"
  <2> SUFFICES ASSUME NEW t \in Remover PROVE remover'[t].st # "wait"
    OBVIOUS
  <2>1. remover[t] \in RemoverType
    BY DEF NInv, IInv, TypeOK, RemoverType
  <2>2. remover'[t] = IF remover[t].st = "wait" THEN [remover[t] EXCEPT !.st = "scan"] ELSE remover[t]
    BY <1>1 DEF Broadcast
  <2> QED
    BY <2>1, <2>2 DEF RemoverType
<1>3. watcher.st # "none"
  <2>1. c \in active
    BY DEF CallbackEnds
  <2>2. c.e \in ToSet(fds)
    BY <2>1 DEF NInv, IInv, Attached, AttachedTo
  <2> QED
    BY <2>2 DEF NInv, NobodyForgotten, WatchJob, ToSet
<1> QED
  BY <1>1, <1>2, <1>3 DEF NInv, NobodyForgotten, Polled, PolledOf, WatchJob, Awaited, WaitsFor

LEMMA ScanWatched == ASSUME NInv, NEW t \in Remover, Scan(t) PROVE NobodyForgotten'
<1>1. /\ IInv /\ fds \in Seq(Entry)
      /\ UNCHANGED <<inCb, state, watcher, jobs, active>> /\ pipe' \in {TRUE, pipe}
      /\ fds' = fds \/ \E k \in 1..Len(fds) : fds' = RemoveAt(fds, k)
  <2>1. /\ IInv /\ fds \in Seq(Entry)
        /\ UNCHANGED <<inCb, state, watcher, jobs, active>>
    BY DEF NInv, IInv, TypeOK, Scan
  <2>2. pipe' \in {TRUE, pipe}
    BY DEF Scan, Update
  <2>3. PICK F, U : F = ScanFound(t) /\ U = ScanUnlinked(t)
    OBVIOUS
  <2>4. U \subseteq F
    BY <2>3 DEF ScanUnlinked
  <2>5. F \subseteq 1..Len(fds) /\ (fds' = fds \/ \E k \in U : fds' = RemoveAt(fds, k))
    BY <2>1, <2>3, ScanIs
  <2> QED
    BY <2>1, <2>2, <2>4, <2>5
<1>2. ToSet(fds') \subseteq ToSet(fds)
  <2>1. ASSUME NEW k \in 1..Len(fds), fds' = RemoveAt(fds, k) PROVE ToSet(fds') \subseteq ToSet(fds)
    BY <1>1, <2>1, UnlinkFacts DEF IInv, OneFd
  <2> QED
    BY <1>1, <2>1
<1>3. Polled'
  <2> SUFFICES ASSUME watcher'.st \in {"poll", "dispatch"}, ~pipe',
                      NEW e \in ToSet(fds'), inCb'[e] = 0
               PROVE  FdOf[e] \in watcher'.pfd
    BY DEF Polled, PolledOf
  <2>1. ~pipe
    BY <1>1, Zenon
  <2>2. e \in ToSet(fds) /\ inCb[e] = 0 /\ watcher.st \in {"poll", "dispatch"}
    BY <1>1, <1>2
  <2>3. FdOf[e] \in watcher.pfd
    BY <2>1, <2>2 DEF NInv, NobodyForgotten, Polled, PolledOf
  <2> QED
    BY <1>1, <2>3
<1>4. WatchJob'
  <2> SUFFICES ASSUME watcher.st = "none" PROVE fds' = <<>>
    BY <1>1 DEF NInv, NobodyForgotten, WatchJob
  <2>1. fds = <<>>
    BY DEF NInv, NobodyForgotten, WatchJob
  <2> QED
    BY <1>1, <2>1
<1>5. Awaited'
  <2> SUFFICES ASSUME NEW r \in Remover PROVE WaitsFor(remover'[r], jobs \cup active)
    BY <1>1 DEF Awaited
  <2>1. CASE r # t
    BY <1>1, <2>1, ScanRemover DEF NInv, NobodyForgotten, Awaited
  <2>2. CASE r = t /\ remover'[t].st = "idle"
    BY <2>2 DEF WaitsFor
  <2>3. CASE r = t /\ remover'[t].fd = remover[t].fd /\ Busy(remover[t].fd) # {}
    <3>1. PICK i \in 1..Len(fds) : inCb[fds[i]] # 0 /\ FdOf[fds[i]] = remover[t].fd
      BY <2>3 DEF Busy, InCallback
    <3>2. fds[i] \in Entry /\ fds[i] \in ToSet(fds)
      BY <1>1, <3>1 DEF ToSet
    <3>3. Cardinality(CallbacksOf(jobs \cup active, fds[i])) # 0
      BY <1>1, <3>1, <3>2 DEF IInv, Counted, CountedOf
    <3>4. PICK c \in jobs \cup active : c.e = fds[i]
      BY <1>1, <3>2, <3>3, CallbackTypes, NoneCounted
    <3> QED
      BY <2>3, <3>1, <3>4 DEF WaitsFor
  <2> QED
    BY <1>1, <2>1, <2>2, <2>3, ScanRemover
<1> QED
  BY <1>3, <1>4, <1>5 DEF NobodyForgotten

LEMMA NInvStep == NInv /\ [Next]_vars => NInv'
<1> SUFFICES ASSUME NInv, [Next]_vars PROVE NobodyForgotten'
  BY NextIInv DEF NInv
<1>1. CASE UNCHANGED vars
  BY <1>1 DEF vars, NInv, NobodyForgotten, Polled, PolledOf, WatchJob, Awaited
<1>2. ASSUME NEW fd, NEW ev, BecomeReady(fd, ev) PROVE NobodyForgotten'
  BY <1>2 DEF BecomeReady, NInv, NobodyForgotten, Polled, PolledOf, WatchJob, Awaited
<1>3. ASSUME NEW t \in Remover, NEW fd, RemoveCall(t, fd) PROVE NobodyForgotten'
  <2>1. /\ remover \in [Remover -> RemoverType]
        /\ UNCHANGED <<fds, inCb, state, watcher, pipe, jobs, active>>
    BY <1>3 DEF NInv, IInv, TypeOK, RemoverType, RemoveCall
  <2>2. \A r \in Remover : remover'[r].st = "wait" => remover'[r] = remover[r]
    BY <1>3, <2>1 DEF RemoveCall
  <2>3. Awaited'
    BY <2>1, <2>2 DEF NInv, NobodyForgotten, Awaited, WaitsFor
  <2> QED
    BY <2>1, <2>3 DEF NInv, NobodyForgotten, Polled, PolledOf, WatchJob
<1> QED
  BY <1>1, <1>2, <1>3, AddWatched, BuildWatched, PollWatched, DispatchWatched, ExecuteWatched,
     CallbackEndsWatched, ScanWatched DEF Next, WatchStep, CallbackStep

\* No descriptor and no thread in remove() is forgotten, whatever callbacks,
\* registrations and removals cross the watcher's poll(): as long as an entry is
\* registered there is a watch job; when it goes into poll() with nothing in the
\* notify pipe, it polls every entry that has no callback; and a thread that waits
\* in remove() has a callback that will wake it.
THEOREM WatchSafety == Spec => []NobodyForgotten
<1>1. Init => NInv
  <2> SUFFICES ASSUME Init PROVE NobodyForgotten
    BY InitIInv DEF NInv
  <2> QED
    BY DEF Init, Idle, NobodyForgotten, Polled, PolledOf, WatchJob, Awaited, WaitsFor
<1>2. NInv => NobodyForgotten
  BY DEF NInv
<1> QED
  BY <1>1, <1>2, NInvStep, PTL DEF Spec

=============================================================================
