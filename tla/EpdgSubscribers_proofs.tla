----------------------- MODULE EpdgSubscribers_proofs -----------------------
(***************************************************************************)
(* Proofs about EpdgSubscribers, for any set of IKE_SAs and subscribers:   *)
(* an IKE_SA gets addresses and attributes of its own subscriber only, a   *)
(* UE object that is ready has an address, a thread that never gets the    *)
(* write lock of a UE object stands behind another IKE_SA of its IMSI, and *)
(* the reference count of a UE object is the number of its users.          *)
(***************************************************************************)
EXTENDS EpdgSubscribers, CommonLemmas, TLAPS

\* TypeOK but for the reference counts.
Types ==
    /\ pc \in [Sa -> PcStates]
    /\ holds \in [Sa -> Sa \cup {NoUe}]
    /\ db \in [Imsi -> Sa \cup {NoUe}]
    /\ ueState \in [Sa -> UeStates]
    /\ address \in [Sa -> Sa \cup {NoUe}]
    /\ readers \in [Sa -> Nat]
    /\ vip \in [Sa -> Sa \cup {NoUe}]
    /\ attrs \in [Sa -> SUBSET Sa]

\* Where the handlers and the enumerator hold a UE object.
Holding == {"update_location", "remove", "lu_failed", "lu_done", "set_wait", "tunnel",
            "set_address", "set_attributes", "set_ready", "t_failed", "attributes"}
HoldsUe == \A s \in Sa : pc[s] \in Holding => holds[s] # NoUe

\* The registry, the references, the addresses and the attributes stay within
\* one IMSI.
DbOwn == \A i \in Imsi : db[i] # NoUe => ImsiOf[db[i]] = i
HoldsOwn == \A s \in Sa : holds[s] # NoUe => ImsiOf[holds[s]] = ImsiOf[s]
AddressOwn == \A u \in Sa : address[u] # NoUe => ImsiOf[address[u]] = ImsiOf[u]
AttrsOwn == \A u \in Sa : \A t \in attrs[u] : ImsiOf[t] = ImsiOf[u]
VipOwn == \A s \in Sa : vip[s] # NoUe => ImsiOf[vip[s]] = ImsiOf[s]

\* Past set_address, the UE object at hand has an address.
AddressSet == \A s \in Sa :
    pc[s] \in {"set_attributes", "set_ready"} => address[holds[s]] # NoUe

IInv ==
    /\ Types /\ HoldsUe
    /\ DbOwn /\ HoldsOwn /\ AddressOwn /\ AttrsOwn /\ VipOwn
    /\ AddressSet /\ ReadyHasAddress

\* No IKE_SA has begun and no UE object exists.
LEMMA InitIInv == Init => IInv
  BY SaAssumption, ImsiAssumption
  DEF Init, IInv, Types, HoldsUe, Holding, DbOwn, HoldsOwn, AddressOwn, AttrsOwn, VipOwn, AddressSet,
      ReadyHasAddress, PcStates, UeStates

\* A UE object found by IMSI belongs to the IMSI of the IKE_SA that looks.
LEMMA SubscriberOwn ==
    ASSUME Types, DbOwn, NEW s \in Sa
    PROVE  /\ Subscriber(s) \in Sa \cup {NoUe}
           /\ Subscriber(s) # NoUe => ImsiOf[Subscriber(s)] = ImsiOf[s]
  BY ImsiAssumption DEF Types, DbOwn, Subscriber

\* Every step of an IKE_SA's setup and release preserves the invariant.
LEMMA NextIInv == IInv /\ [Next]_vars => IInv'
<1> SUFFICES ASSUME IInv, [Next]_vars PROVE IInv'
  OBVIOUS
<1> USE SaAssumption, ImsiAssumption
    DEF IInv, Types, HoldsUe, Holding, DbOwn, HoldsOwn, AddressOwn, AttrsOwn, VipOwn, AddressSet,
        ReadyHasAddress, Goto, PcStates, UeStates
<1>1. ASSUME NEW s \in Sa, GetQuintuplet(s) PROVE IInv'
  BY <1>1 DEF GetQuintuplet
<1>2. ASSUME NEW s \in Sa, CreateSubscriber(s) PROVE IInv'
  <2>1. UNCHANGED <<ueState, address, readers, vip, attrs>> /\ ImsiOf[s] \in Imsi
    BY <1>2 DEF CreateSubscriber
  <2>a. CASE Unidentified(s)
    BY <2>a, <2>1 DEF Unidentified
  <2>2. CASE Refused(s)
    <3>1. /\ pc' = [pc EXCEPT ![s] = "failed"]
          /\ db' = [db EXCEPT ![ImsiOf[s]] = NoUe]
          /\ UNCHANGED holds
      BY <2>2 DEF Refused
    <3> QED
      BY <2>1, <3>1
  <2>3. CASE Created(s)
    <3>1. /\ pc' = [pc EXCEPT ![s] = "update_location"]
          /\ db' = [db EXCEPT ![ImsiOf[s]] = s]
          /\ holds' = [holds EXCEPT ![s] = s]
      BY <2>3 DEF Created
    <3> QED
      BY <2>1, <3>1
  <2> QED
    BY <1>2, <2>a, <2>2, <2>3 DEF CreateSubscriber
<1>3. ASSUME NEW s \in Sa, UpdateLocation(s) PROVE IInv'
  BY <1>3 DEF UpdateLocation
<1>4. ASSUME NEW s \in Sa, RemoveSubscriber(s) PROVE IInv'
  BY <1>4 DEF RemoveSubscriber
<1>5. ASSUME NEW s \in Sa, EapAuthorizeFails(s) PROVE IInv'
  BY <1>5 DEF EapAuthorizeFails, Finish, SetState
<1>6. ASSUME NEW s \in Sa, EapAuthorizeSucceeds(s) PROVE IInv'
  BY <1>6 DEF EapAuthorizeSucceeds, Finish, SetState
<1>7. ASSUME NEW s \in Sa, FindSubscriber(s) PROVE IInv'
  BY <1>7, SubscriberOwn DEF FindSubscriber
<1>8. ASSUME NEW s \in Sa, SetWaitTunnel(s) PROVE IInv'
  BY <1>8 DEF SetWaitTunnel, SetState
<1>9. ASSUME NEW s \in Sa, TunnelRequest(s) PROVE IInv'
  BY <1>9 DEF TunnelRequest
<1>10. ASSUME NEW s \in Sa, SetAddress(s) PROVE IInv'
  BY <1>10 DEF SetAddress
<1>11. ASSUME NEW s \in Sa, SetAttributes(s) PROVE IInv'
  BY <1>11 DEF SetAttributes
<1>12. ASSUME NEW s \in Sa, AuthorizeFails(s) PROVE IInv'
  BY <1>12 DEF AuthorizeFails, Finish, SetState
<1>13. ASSUME NEW s \in Sa, AuthorizeSucceeds(s) PROVE IInv'
  BY <1>13 DEF AuthorizeSucceeds, Finish, SetState
<1>14. ASSUME NEW s \in Sa, AcquireAddress(s) PROVE IInv'
  BY <1>14, SubscriberOwn DEF AcquireAddress
<1>15. ASSUME NEW s \in Sa, CreateAttributeEnumerator(s) PROVE IInv'
  BY <1>15, SubscriberOwn DEF CreateAttributeEnumerator
<1>16. ASSUME NEW s \in Sa, DestroyEnumerator(s) PROVE IInv'
  BY <1>16 DEF DestroyEnumerator
<1>17. ASSUME NEW s \in Sa, ReleaseAddress(s) PROVE IInv'
  BY <1>17 DEF ReleaseAddress
<1>18. CASE UNCHANGED vars
  BY <1>18 DEF vars
<1> QED
  BY <1>1, <1>2, <1>3, <1>4, <1>5, <1>6, <1>7, <1>8, <1>9, <1>10, <1>11, <1>12, <1>13, <1>14,
     <1>15, <1>16, <1>17, <1>18
  DEF Next, SaStep

\* The invariant holds in every reachable state of the plugin's registry.
THEOREM Invariance == Spec => []IInv
  BY InitIInv, NextIInv, PTL DEF Spec

\* acquire_address and create_attribute_enumerator hand out what a tunnel
\* request of the same IMSI has brought.
THEOREM SubscriberSafety == Spec => []OwnSubscriberOnly
<1>1. IInv => OwnSubscriberOnly
  BY DEF IInv, Types, HoldsUe, Holding, HoldsOwn, AttrsOwn, VipOwn, OwnSubscriberOnly
<1> QED
  BY <1>1, Invariance, PTL

\* UE_TUNNEL_READY is never seen on a UE object without an address.
THEOREM ReadySafety == Spec => []ReadyHasAddress
<1>1. IInv => ReadyHasAddress
  BY DEF IInv
<1> QED
  BY <1>1, Invariance, PTL

-----------------------------------------------------------------------------
(***************************************************************************)
(* Read locks that are never given back.                                   *)
(***************************************************************************)
\* Who has left a read lock on a UE object is an IKE_SA of the object's IMSI
\* that has enumerated its attributes.
LockInv == \A u \in Sa : readers[u] # 0 =>
    \E t \in Sa : pc[t] \in Enumerated /\ ImsiOf[t] = ImsiOf[u]

\* get_attributes is the only one to leave a lock, on a UE object found by the
\* IMSI of the IKE_SA, which never writes to a UE object again.
LEMMA NextLockInv == IInv /\ LockInv /\ [Next]_vars => LockInv'
<1> SUFFICES ASSUME IInv, LockInv, [Next]_vars PROVE LockInv'
  OBVIOUS
<1>0. pc \in [Sa -> PcStates] /\ readers \in [Sa -> Nat] /\ Types /\ DbOwn
  BY DEF IInv, Types
<1>1. ASSUME NEW s \in Sa, CreateAttributeEnumerator(s), Subscriber(s) # NoUe PROVE LockInv'
  <2>1. Subscriber(s) \in Sa /\ ImsiOf[Subscriber(s)] = ImsiOf[s]
    BY <1>0, <1>1, SubscriberOwn
  <2>2. /\ pc' = [pc EXCEPT ![s] = "attributes"]
        /\ readers' = [readers EXCEPT ![Subscriber(s)] = @ + 1]
    BY <1>1 DEF CreateAttributeEnumerator, Goto
  <2>3. pc'[s] \in Enumerated
    BY <1>0, <2>2 DEF Enumerated
  <2>4. \A t \in Sa : pc[t] \in Enumerated => pc'[t] \in Enumerated
    BY <1>0, <2>2, <2>3
  <2>5. \A u \in Sa : u # Subscriber(s) => readers'[u] = readers[u]
    BY <1>0, <2>2
  <2> QED
    BY <2>1, <2>3, <2>4, <2>5 DEF LockInv
<1>2. ASSUME readers' = readers,
             \A t \in Sa : pc[t] \in Enumerated => pc'[t] \in Enumerated
      PROVE  LockInv'
  BY <1>2 DEF LockInv
<1>3. ASSUME NEW s \in Sa, NEW from \in PcStates \ Enumerated, NEW to, Goto(s, from, to),
             readers' = readers
      PROVE  LockInv'
  <2>1. \A t \in Sa : pc[t] \in Enumerated => pc'[t] \in Enumerated
    BY <1>0, <1>3 DEF Goto
  <2> QED
    BY <1>2, <1>3, <2>1
<1>4. ASSUME NEW s \in Sa, CreateAttributeEnumerator(s), Subscriber(s) = NoUe PROVE LockInv'
  BY <1>3, <1>4 DEF CreateAttributeEnumerator, PcStates, Enumerated
<1>5. ASSUME NEW s \in Sa, DestroyEnumerator(s) \/ ReleaseAddress(s) PROVE LockInv'
  <2>1. \A t \in Sa : pc[t] \in Enumerated => pc'[t] \in Enumerated
    BY <1>0, <1>5 DEF DestroyEnumerator, ReleaseAddress, Goto, Enumerated
  <2> QED
    BY <1>2, <1>5, <2>1 DEF DestroyEnumerator, ReleaseAddress
<1>6. ASSUME NEW s \in Sa, GetQuintuplet(s) \/ CreateSubscriber(s) \/ UpdateLocation(s)
                              \/ RemoveSubscriber(s)
      PROVE  LockInv'
  BY <1>3, <1>6
  DEF GetQuintuplet, CreateSubscriber, Unidentified, Refused, Created, UpdateLocation,
      RemoveSubscriber, PcStates, Enumerated
<1>7. ASSUME NEW s \in Sa, EapAuthorizeFails(s) \/ EapAuthorizeSucceeds(s) \/ AuthorizeFails(s)
                              \/ AuthorizeSucceeds(s)
      PROVE  LockInv'
  BY <1>3, <1>7
  DEF EapAuthorizeFails, EapAuthorizeSucceeds, AuthorizeFails, AuthorizeSucceeds, Finish, PcStates,
      Enumerated
<1>8. ASSUME NEW s \in Sa, FindSubscriber(s) \/ SetWaitTunnel(s) \/ TunnelRequest(s)
                              \/ SetAddress(s) \/ SetAttributes(s) \/ AcquireAddress(s)
      PROVE  LockInv'
  BY <1>3, <1>8
  DEF FindSubscriber, SetWaitTunnel, TunnelRequest, SetAddress, SetAttributes, AcquireAddress,
      PcStates, Enumerated
<1>9. CASE UNCHANGED vars
  BY <1>2, <1>9 DEF vars
<1> QED
  BY <1>1, <1>4, <1>5, <1>6, <1>7, <1>8, <1>9 DEF Next, SaStep

\* The read lock that get_attributes leaves behind stops nobody but another
\* IKE_SA of the same IMSI.
THEOREM SiblingSafety == Spec => []BlockedBySibling
<1>1. Init => LockInv
  BY DEF Init, LockInv
<1>2. IInv /\ LockInv => BlockedBySibling
  <2> SUFFICES ASSUME IInv, LockInv, NEW s \in Sa, pc[s] \in Writing, ~WriteLocked(holds[s])
               PROVE  \E t \in Sa \ {s} : ImsiOf[t] = ImsiOf[s] /\ pc[t] \in Enumerated
    BY DEF BlockedBySibling
  <2>1. holds[s] \in Sa /\ ImsiOf[holds[s]] = ImsiOf[s]
    BY DEF IInv, Types, HoldsUe, HoldsOwn, Holding, Writing
  <2>2. PICK t \in Sa : pc[t] \in Enumerated /\ ImsiOf[t] = ImsiOf[holds[s]]
    BY <2>1 DEF LockInv, WriteLocked
  <2>3. t # s
    BY <2>2 DEF Writing, Enumerated
  <2> QED
    BY <2>1, <2>2, <2>3
<1> QED
  BY <1>1, <1>2, InitIInv, NextIInv, NextLockInv, PTL DEF Spec

-----------------------------------------------------------------------------
(***************************************************************************)
(* Reference counts.                                                       *)
(***************************************************************************)
\* Outside the span between getting a UE object and putting it, none is held.
Without == {"auth", "authenticated", "eap_done", "authorized", "addressed", "up", "failed", "down"}
Unheld == \A s \in Sa : pc[s] \in Without => holds[s] = NoUe

\* Nobody knows a UE object before create_subscriber makes it.
Fresh == \A s \in Sa : pc[s] \in {"auth", "authenticated"} =>
    (\A i \in Imsi : db[i] # s) /\ (\A t \in Sa : holds[t] # s)

RefInv == ref \in [Sa -> Int] /\ Unheld /\ Fresh /\ RefsAccounted

\* A UE object is registered for one IMSI at most, and its users are finitely
\* many, so there is a number of them.
LEMMA UsersFinite ==
    ASSUME IInv, NEW u \in Sa
    PROVE  /\ IsFiniteSet(Places(Imsi, db, u)) /\ Cardinality(Places(Imsi, db, u)) \in Nat
           /\ IsFiniteSet(Places(Sa, holds, u)) /\ Cardinality(Places(Sa, holds, u)) \in Nat
<1>1. Places(Imsi, db, u) \subseteq {ImsiOf[u]}
  BY SaAssumption DEF IInv, DbOwn, Places
<1>2. IsFiniteSet(Places(Imsi, db, u)) /\ Cardinality(Places(Imsi, db, u)) \in Nat
  BY <1>1, FS_Singleton, FS_Subset, FS_CardinalityType
<1>3. IsFiniteSet(Places(Sa, holds, u)) /\ Cardinality(Places(Sa, holds, u)) \in Nat
  BY SaAssumption, CountFinite
<1> QED
  BY <1>2, <1>3

\* One reference more is held where none was: get_subscriber of the registry.
LEMMA TakeAccounted ==
    ASSUME IInv, RefsAccounted, NEW s \in Sa, NEW v \in Sa, holds[s] = NoUe, holds'[s] = v,
           OnlyAt(Sa, holds, holds', s),
           ref'[v] = ref[v] + 1, OnlyAt(Sa, ref, ref', v), db' = db
    PROVE  RefsAccounted'
<1> SUFFICES ASSUME NEW u \in Sa
             PROVE  ref'[u] = Cardinality(Places(Imsi, db, u)) + Cardinality(Places(Sa, holds', u))
  BY DEF RefsAccounted, Places
<1>0. /\ IsFiniteSet(Places(Imsi, db, u)) /\ Cardinality(Places(Imsi, db, u)) \in Nat
      /\ IsFiniteSet(Places(Sa, holds, u)) /\ Cardinality(Places(Sa, holds, u)) \in Nat
  BY UsersFinite
<1>1. ref[u] = Cardinality(Places(Imsi, db, u)) + Cardinality(Places(Sa, holds, u))
  BY DEF RefsAccounted, Places
<1>2. CASE u = v
  <2>1. Cardinality(Places(Sa, holds', u)) = Cardinality(Places(Sa, holds, u)) + 1
    BY <1>0, <1>2, SaAssumption, CountGain
  <2> QED
    BY <1>0, <1>1, <1>2, <2>1
<1>3. CASE u # v
  <2>1. Places(Sa, holds', u) = Places(Sa, holds, u)
    BY <1>3, SaAssumption, CountSame
  <2> QED
    BY <1>1, <1>3, <2>1 DEF OnlyAt
<1> QED
  BY <1>2, <1>3

\* The reference v that an IKE_SA holds is put.
LEMMA PutAccounted ==
    ASSUME IInv, RefsAccounted, NEW s \in Sa, NEW v \in Sa, holds[s] = v, holds'[s] = NoUe,
           OnlyAt(Sa, holds, holds', s),
           ref'[v] = ref[v] - 1, OnlyAt(Sa, ref, ref', v), db' = db
    PROVE  RefsAccounted'
<1> SUFFICES ASSUME NEW u \in Sa
             PROVE  ref'[u] = Cardinality(Places(Imsi, db, u)) + Cardinality(Places(Sa, holds', u))
  BY DEF RefsAccounted, Places
<1>0. /\ IsFiniteSet(Places(Imsi, db, u)) /\ Cardinality(Places(Imsi, db, u)) \in Nat
      /\ IsFiniteSet(Places(Sa, holds, u)) /\ Cardinality(Places(Sa, holds, u)) \in Nat
  BY UsersFinite
<1>1. ref[u] = Cardinality(Places(Imsi, db, u)) + Cardinality(Places(Sa, holds, u))
  BY DEF RefsAccounted, Places
<1>2. CASE u = v
  <2>1. Cardinality(Places(Sa, holds', u)) = Cardinality(Places(Sa, holds, u)) - 1
    BY <1>0, <1>2, SaAssumption, CountLoss
  <2> QED
    BY <1>0, <1>1, <1>2, <2>1
<1>3. CASE u # v
  <2>1. Places(Sa, holds', u) = Places(Sa, holds, u)
    BY <1>3, SaAssumption, CountSame
  <2> QED
    BY <1>1, <1>3, <2>1 DEF OnlyAt
<1> QED
  BY <1>2, <1>3

\* The registry gives up v, the UE object of an IMSI, and its reference, if
\* it has one.
LEMMA DropAccounted ==
    ASSUME IInv, RefsAccounted, NEW i \in Imsi, NEW v \in Sa \cup {NoUe}, db[i] = v, db'[i] = NoUe,
           OnlyAt(Imsi, db, db', i),
           v # NoUe => ref'[v] = ref[v] - 1, OnlyAt(Sa, ref, ref', v), holds' = holds
    PROVE  RefsAccounted'
<1> SUFFICES ASSUME NEW u \in Sa
             PROVE  ref'[u] = Cardinality(Places(Imsi, db', u)) + Cardinality(Places(Sa, holds, u))
  BY DEF RefsAccounted, Places
<1>0. /\ IsFiniteSet(Places(Imsi, db, u)) /\ Cardinality(Places(Imsi, db, u)) \in Nat
      /\ IsFiniteSet(Places(Sa, holds, u)) /\ Cardinality(Places(Sa, holds, u)) \in Nat
  BY UsersFinite
<1>1. ref[u] = Cardinality(Places(Imsi, db, u)) + Cardinality(Places(Sa, holds, u))
  BY DEF RefsAccounted, Places
<1>2. CASE u = v
  <2>1. Cardinality(Places(Imsi, db', u)) = Cardinality(Places(Imsi, db, u)) - 1
    BY <1>0, <1>2, SaAssumption, CountLoss
  <2>2. ref'[u] = ref[u] - 1
    BY <1>2, SaAssumption
  <2> QED
    BY <1>0, <1>1, <2>1, <2>2
<1>3. CASE u # v
  <2>1. Places(Imsi, db', u) = Places(Imsi, db, u)
    BY <1>3, SaAssumption, CountSame
  <2> QED
    BY <1>1, <1>3, <2>1 DEF OnlyAt
<1> QED
  BY <1>2, <1>3

\* create_subscriber: the old UE object v of the IMSI loses the registry's
\* reference, and the new one has two, the registry's and the caller's.
LEMMA CreateAccounted ==
    ASSUME IInv, RefsAccounted, NEW s \in Sa, NEW i \in Imsi, NEW v \in Sa \cup {NoUe},
           \A j \in Imsi : db[j] # s, \A t \in Sa : holds[t] # s,
           holds[s] = NoUe, holds'[s] = s, OnlyAt(Sa, holds, holds', s),
           db[i] = v, db'[i] = s, OnlyAt(Imsi, db, db', i),
           ref'[s] = 2, v # NoUe => ref'[v] = ref[v] - 1,
           \A u \in Sa \ {s, v} : ref'[u] = ref[u]
    PROVE  RefsAccounted'
<1> SUFFICES ASSUME NEW u \in Sa
             PROVE  ref'[u] = Cardinality(Places(Imsi, db', u)) + Cardinality(Places(Sa, holds', u))
  BY DEF RefsAccounted, Places
<1>0. /\ IsFiniteSet(Places(Imsi, db, u)) /\ Cardinality(Places(Imsi, db, u)) \in Nat
      /\ IsFiniteSet(Places(Sa, holds, u)) /\ Cardinality(Places(Sa, holds, u)) \in Nat
  BY UsersFinite
<1>1. ref[u] = Cardinality(Places(Imsi, db, u)) + Cardinality(Places(Sa, holds, u))
  BY DEF RefsAccounted, Places
<1>2. CASE u = s
  <2>1. Cardinality(Places(Imsi, db, u)) = 0 /\ Cardinality(Places(Sa, holds, u)) = 0
    BY <1>2, CountNone
  <2>2. Cardinality(Places(Imsi, db', u)) = Cardinality(Places(Imsi, db, u)) + 1
    BY <1>0, <1>2, CountGain
  <2>3. Cardinality(Places(Sa, holds', u)) = Cardinality(Places(Sa, holds, u)) + 1
    BY <1>0, <1>2, CountGain
  <2> QED
    BY <1>2, <2>1, <2>2, <2>3
<1>3. CASE u # s /\ u = v
  <2>1. Places(Sa, holds', u) = Places(Sa, holds, u)
    BY <1>3, SaAssumption, CountSame
  <2>2. Cardinality(Places(Imsi, db', u)) = Cardinality(Places(Imsi, db, u)) - 1
    BY <1>0, <1>3, CountLoss
  <2>3. ref'[u] = ref[u] - 1
    BY <1>3, SaAssumption
  <2> QED
    BY <1>0, <1>1, <2>1, <2>2, <2>3
<1>4. CASE u # s /\ u # v
  <2>1. Places(Sa, holds', u) = Places(Sa, holds, u)
    BY <1>4, SaAssumption, CountSame
  <2>2. Places(Imsi, db', u) = Places(Imsi, db, u)
    BY <1>4, CountSame
  <2> QED
    BY <1>1, <1>4, <2>1, <2>2
<1> QED
  BY <1>2, <1>3, <1>4

\* A count of users is a natural number.
LEMMA RefType == ASSUME IInv, RefsAccounted, NEW u \in Sa PROVE ref[u] \in Nat
<1>1. ref[u] = Cardinality(Places(Imsi, db, u)) + Cardinality(Places(Sa, holds, u))
  BY DEF RefsAccounted, Places
<1> QED
  BY <1>1, UsersFinite

\* No UE object exists and nobody uses one.
LEMMA InitRefInv == Init => RefInv
<1> SUFFICES ASSUME Init PROVE RefInv
  OBVIOUS
<1>1. ref \in [Sa -> Int] /\ Unheld /\ Fresh
  BY SaAssumption, ImsiAssumption DEF Init, Unheld, Fresh, Without
<1>2. ASSUME NEW u \in Sa
      PROVE  ref[u] = Cardinality(Places(Imsi, db, u)) + Cardinality(Places(Sa, holds, u))
  <2>1. (\A i \in Imsi : db[i] # u) /\ (\A t \in Sa : holds[t] # u) /\ ref[u] = 0
    BY SaAssumption DEF Init
  <2> QED
    BY <2>1, CountNone
<1>3. RefsAccounted
  BY <1>2 DEF RefsAccounted, Places
<1> QED
  BY <1>1, <1>3 DEF RefInv

\* Get and put agree with who holds a UE object, and a new object is used by
\* its maker and the registry only.
LEMMA NextRefInv == IInv /\ RefInv /\ [Next]_vars => RefInv'
<1> SUFFICES ASSUME IInv, RefInv, [Next]_vars PROVE RefInv'
  OBVIOUS
<1> USE SaAssumption, ImsiAssumption
<1>0. /\ ref \in [Sa -> Int]
      /\ pc \in [Sa -> PcStates] /\ holds \in [Sa -> Sa \cup {NoUe}]
      /\ db \in [Imsi -> Sa \cup {NoUe}]
      /\ HoldsUe /\ Unheld /\ Fresh /\ RefsAccounted
  BY DEF IInv, RefInv, Types
<1>a. ASSUME UNCHANGED <<holds, db, ref>>,
             NEW s \in Sa, NEW to, pc' = [pc EXCEPT ![s] = to],
             to \in Without => pc[s] \in Without,
             to \in {"auth", "authenticated"} => pc[s] \in {"auth", "authenticated"}
      PROVE  RefInv'
  BY <1>0, <1>a DEF RefInv, RefsAccounted, Unheld, Fresh
<1>b. ASSUME NEW s \in Sa, NEW from \in Holding, NEW to \in Without \ {"auth", "authenticated"},
             Goto(s, from, to),
             ref' = Put(holds[s]), holds' = [holds EXCEPT ![s] = NoUe], db' = db
      PROVE  RefInv'
  <2>1. pc[s] \in Holding /\ holds[s] \in Sa /\ pc' = [pc EXCEPT ![s] = to]
    BY <1>0, <1>b DEF Goto, HoldsUe
  <2>2. ref' = [ref EXCEPT ![holds[s]] = @ - 1]
    BY <1>b, <2>1 DEF Put
  <2>3. Unheld' /\ Fresh' /\ ref' \in [Sa -> Int]
    BY <1>0, <1>b, <2>1, <2>2 DEF Unheld, Fresh, Without
  <2>4. RefsAccounted'
    <3>1. /\ holds'[s] = NoUe /\ OnlyAt(Sa, holds, holds', s)
          /\ ref'[holds[s]] = ref[holds[s]] - 1 /\ OnlyAt(Sa, ref, ref', holds[s])
      BY <1>0, <1>b, <2>1, <2>2 DEF OnlyAt
    <3> QED
      BY <1>0, <1>b, <2>1, <3>1, PutAccounted
  <2> QED
    BY <2>3, <2>4 DEF RefInv
<1>c. ASSUME NEW s \in Sa, NEW u \in Sa, NEW to \in Holding,
             pc[s] \in Without \ {"auth", "authenticated"}, pc' = [pc EXCEPT ![s] = to],
             db[ImsiOf[s]] = u, ref' = [ref EXCEPT ![u] = @ + 1], holds' = [holds EXCEPT ![s] = u],
             db' = db
      PROVE  RefInv'
  <2>1. holds[s] = NoUe
    BY <1>0, <1>c DEF Unheld
  <2>2. Unheld' /\ Fresh' /\ ref' \in [Sa -> Int]
    BY <1>0, <1>c DEF Unheld, Fresh, Without, Holding
  <2>3. RefsAccounted'
    <3>1. /\ holds'[s] = u /\ OnlyAt(Sa, holds, holds', s)
          /\ ref'[u] = ref[u] + 1 /\ OnlyAt(Sa, ref, ref', u)
      BY <1>0, <1>c DEF OnlyAt
    <3> QED
      BY <1>0, <1>c, <2>1, <3>1, TakeAccounted
  <2> QED
    BY <2>2, <2>3 DEF RefInv
<1>1. ASSUME NEW s \in Sa, GetQuintuplet(s) PROVE RefInv'
  BY <1>1, <1>a DEF GetQuintuplet, Goto, Without
<1>2. ASSUME NEW s \in Sa, CreateSubscriber(s) PROVE RefInv'
  <2>1. /\ pc[s] = "authenticated" /\ holds[s] = NoUe
        /\ \A i \in Imsi : db[i] # s
        /\ \A t \in Sa : holds[t] # s
    BY <1>0, <1>2 DEF CreateSubscriber, Unidentified, Refused, Created, Goto, Unheld, Fresh, Without
  <2>a. CASE Unidentified(s)
    BY <2>a, <1>a DEF Unidentified, Goto, Without
  <2>2. CASE Refused(s)
    <3>1. /\ pc' = [pc EXCEPT ![s] = "failed"] /\ holds' = holds
          /\ db' = [db EXCEPT ![ImsiOf[s]] = NoUe] /\ ref' = Put(db[ImsiOf[s]])
      BY <2>2 DEF Refused, Subscriber, Goto
    <3>2. Unheld' /\ Fresh' /\ ref' \in [Sa -> Int]
      BY <1>0, <2>1, <3>1 DEF Unheld, Fresh, Put
    <3>3. RefsAccounted'
      <4>1. /\ db'[ImsiOf[s]] = NoUe /\ OnlyAt(Imsi, db, db', ImsiOf[s])
            /\ OnlyAt(Sa, ref, ref', db[ImsiOf[s]])
            /\ db[ImsiOf[s]] # NoUe => ref'[db[ImsiOf[s]]] = ref[db[ImsiOf[s]]] - 1
        BY <1>0, <3>1 DEF OnlyAt, Put
      <4> QED
        BY <1>0, <3>1, <4>1, DropAccounted
    <3> QED
      BY <3>2, <3>3 DEF RefInv
  <2>3. CASE Created(s)
    <3>1. /\ pc' = [pc EXCEPT ![s] = "update_location"] /\ holds' = [holds EXCEPT ![s] = s]
          /\ db' = [db EXCEPT ![ImsiOf[s]] = s] /\ ref' = [Put(db[ImsiOf[s]]) EXCEPT ![s] = 2]
      BY <2>3 DEF Created, Subscriber, Goto
    <3>2. Put(db[ImsiOf[s]]) \in [Sa -> Int]
      BY <1>0 DEF Put
    <3>3. ref' \in [Sa -> Int]
      BY <3>1, <3>2
    <3>4. Unheld' /\ Fresh'
      BY <1>0, <2>1, <3>1 DEF Unheld, Fresh, Without
    <3>5. RefsAccounted'
      <4>1. /\ db'[ImsiOf[s]] = s /\ OnlyAt(Imsi, db, db', ImsiOf[s])
            /\ holds'[s] = s /\ OnlyAt(Sa, holds, holds', s)
        BY <1>0, <3>1 DEF OnlyAt
      <4>2. /\ ref'[s] = 2
            /\ db[ImsiOf[s]] # NoUe => ref'[db[ImsiOf[s]]] = ref[db[ImsiOf[s]]] - 1
            /\ \A u \in Sa \ {s, db[ImsiOf[s]]} : ref'[u] = ref[u]
        BY <1>0, <2>1, <3>1, <3>2 DEF Put
      <4> QED
        BY <1>0, <2>1, <4>1, <4>2, CreateAccounted
    <3> QED
      BY <3>3, <3>4, <3>5 DEF RefInv
  <2> QED
    BY <1>2, <2>a, <2>2, <2>3 DEF CreateSubscriber
<1>3. ASSUME NEW s \in Sa, UpdateLocation(s) PROVE RefInv'
  BY <1>3, <1>a DEF UpdateLocation, Goto, Without
<1>4. ASSUME NEW s \in Sa, RemoveSubscriber(s) PROVE RefInv'
  <2>1. pc[s] = "remove" /\ pc' = [pc EXCEPT ![s] = "lu_failed"] /\ holds' = holds
    BY <1>4 DEF RemoveSubscriber, Goto
  <2>2. db' = [db EXCEPT ![ImsiOf[s]] = NoUe] /\ ref' = Put(db[ImsiOf[s]])
    BY <1>4 DEF RemoveSubscriber, Subscriber
  <2>3. Unheld' /\ Fresh' /\ ref' \in [Sa -> Int]
    BY <1>0, <2>1, <2>2 DEF Unheld, Fresh, Without, Put
  <2>4. RefsAccounted'
    <3>1. /\ db'[ImsiOf[s]] = NoUe /\ OnlyAt(Imsi, db, db', ImsiOf[s])
          /\ OnlyAt(Sa, ref, ref', db[ImsiOf[s]])
          /\ db[ImsiOf[s]] # NoUe => ref'[db[ImsiOf[s]]] = ref[db[ImsiOf[s]]] - 1
      BY <1>0, <2>2 DEF OnlyAt, Put
    <3> QED
      BY <1>0, <2>1, <3>1, DropAccounted
  <2> QED
    BY <2>3, <2>4 DEF RefInv
<1>5. ASSUME NEW s \in Sa, EapAuthorizeFails(s) PROVE RefInv'
  BY <1>5, <1>b DEF EapAuthorizeFails, Finish, Holding, Without
<1>6. ASSUME NEW s \in Sa, EapAuthorizeSucceeds(s) PROVE RefInv'
  BY <1>6, <1>b DEF EapAuthorizeSucceeds, Finish, Holding, Without
<1>7. ASSUME NEW s \in Sa, FindSubscriber(s) PROVE RefInv'
  <2>1. CASE Subscriber(s) = NoUe
    BY <1>7, <1>a, <2>1 DEF FindSubscriber, Goto, Without
  <2>2. CASE Subscriber(s) # NoUe
    <3>1. Subscriber(s) \in Sa /\ db[ImsiOf[s]] = Subscriber(s)
      BY <1>0, <2>2 DEF Subscriber
    <3>2. pc[s] = "eap_done" /\ pc' = [pc EXCEPT ![s] = "set_wait"] /\ db' = db
      BY <1>7, <2>2 DEF FindSubscriber, Goto
    <3>3. /\ ref' = [ref EXCEPT ![Subscriber(s)] = @ + 1]
          /\ holds' = [holds EXCEPT ![s] = Subscriber(s)]
      BY <1>7, <2>2 DEF FindSubscriber
    <3> QED
      BY <1>c, <3>1, <3>2, <3>3 DEF Without, Holding
  <2> QED
    BY <2>1, <2>2
<1>8. ASSUME NEW s \in Sa, SetWaitTunnel(s) PROVE RefInv'
  BY <1>8, <1>a DEF SetWaitTunnel, Goto, Without
<1>9. ASSUME NEW s \in Sa, TunnelRequest(s) PROVE RefInv'
  BY <1>9, <1>a DEF TunnelRequest, Goto, Without
<1>10. ASSUME NEW s \in Sa, SetAddress(s) PROVE RefInv'
  BY <1>10, <1>a DEF SetAddress, Goto, Without
<1>11. ASSUME NEW s \in Sa, SetAttributes(s) PROVE RefInv'
  BY <1>11, <1>a DEF SetAttributes, Goto, Without
<1>12. ASSUME NEW s \in Sa, AuthorizeFails(s) PROVE RefInv'
  BY <1>12, <1>b DEF AuthorizeFails, Finish, Holding, Without
<1>13. ASSUME NEW s \in Sa, AuthorizeSucceeds(s) PROVE RefInv'
  BY <1>13, <1>b DEF AuthorizeSucceeds, Finish, Holding, Without
<1>14. ASSUME NEW s \in Sa, AcquireAddress(s) PROVE RefInv'
  BY <1>14, <1>a DEF AcquireAddress, Goto, Without
<1>15. ASSUME NEW s \in Sa, CreateAttributeEnumerator(s) PROVE RefInv'
  <2>1. CASE Subscriber(s) = NoUe
    BY <1>15, <1>a, <2>1 DEF CreateAttributeEnumerator, Goto, Without
  <2>2. CASE Subscriber(s) # NoUe
    <3>1. Subscriber(s) \in Sa /\ db[ImsiOf[s]] = Subscriber(s)
      BY <1>0, <2>2 DEF Subscriber
    <3>2. pc[s] = "addressed" /\ pc' = [pc EXCEPT ![s] = "attributes"] /\ db' = db
      BY <1>15, <2>2 DEF CreateAttributeEnumerator, Goto
    <3>3. /\ ref' = [ref EXCEPT ![Subscriber(s)] = @ + 1]
          /\ holds' = [holds EXCEPT ![s] = Subscriber(s)]
      BY <1>15, <2>2 DEF CreateAttributeEnumerator
    <3> QED
      BY <1>c, <3>1, <3>2, <3>3 DEF Without, Holding
  <2> QED
    BY <2>1, <2>2
<1>16. ASSUME NEW s \in Sa, DestroyEnumerator(s) PROVE RefInv'
  BY <1>16, <1>b DEF DestroyEnumerator, Holding, Without
<1>17. ASSUME NEW s \in Sa, ReleaseAddress(s) PROVE RefInv'
  BY <1>17, <1>a DEF ReleaseAddress, Goto, Without
<1>18. CASE UNCHANGED vars
  BY <1>0, <1>18 DEF vars, RefInv, Unheld, Fresh, RefsAccounted
<1> QED
  BY <1>1, <1>2, <1>3, <1>4, <1>5, <1>6, <1>7, <1>8, <1>9, <1>10, <1>11, <1>12, <1>13, <1>14,
     <1>15, <1>16, <1>17, <1>18
  DEF Next, SaStep

\* get and put agree with the users of a UE object in every reachable state.
THEOREM RefInvariance == Spec => [](IInv /\ RefInv)
  BY InitIInv, NextIInv, InitRefInv, NextRefInv, PTL DEF Spec

\* The reference count of a UE object is the number of its users at all times:
\* none is freed while a handler or an enumerator still has it, and none is
\* left over when the last one puts it.
THEOREM RefSafety == Spec => []RefsAccounted
<1>1. IInv /\ RefInv => RefsAccounted
  BY DEF RefInv
<1> QED
  BY <1>1, RefInvariance, PTL

\* Every variable of the plugin's registry keeps its type; no count is negative.
THEOREM TypeCorrect == Spec => []TypeOK
<1>1. IInv /\ RefInv => TypeOK
  <2> SUFFICES ASSUME IInv, RefInv PROVE TypeOK
    OBVIOUS
  <2>1. ref \in [Sa -> Nat]
    BY RefType DEF RefInv
  <2> QED
    BY <2>1 DEF IInv, Types, TypeOK
<1> QED
  BY <1>1, RefInvariance, PTL
=============================================================================
