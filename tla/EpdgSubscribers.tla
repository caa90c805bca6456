--------------------------- MODULE EpdgSubscribers ---------------------------
(***************************************************************************)
(* The subscriber state of strongSwan's osmo_epdg plugin: the UE objects   *)
(* (osmo_epdg_ue.c), the registry that finds them by IMSI                  *)
(* (osmo_epdg_db.c), and the two users of both, the listener that charon   *)
(* calls while it authorises an IKE_SA (osmo_epdg_listener.c) and the      *)
(* provider that hands out vectors, addresses and attributes               *)
(* (osmo_epdg_provider.c).                                                 *)
(*                                                                         *)
(* Several IKE_SAs, also of the same IMSI, are set up at the same time by  *)
(* different threads; one IKE_SA is worked on by one thread at a time.     *)
(* The blocking calls of the GSUP client are seen through their contract   *)
(* (module GsupCall): each returns NULL or an answer, after any time.      *)
(***************************************************************************)
EXTENDS Integers, FiniteSets

CONSTANTS
    Sa,     \* IKE_SAs; also names the UE object made for each of them
    Imsi,   \* subscribers
    ImsiOf, \* IMSI in the identity of an IKE_SA, which is also its EAP identity
    Invalid, \* IMSIs that epdg_validate_imsi refuses (not 15 digits)
    NoUe    \* NULL

ASSUME SaAssumption == NoUe \notin Sa /\ IsFiniteSet(Sa)
ASSUME ImsiAssumption == ImsiOf \in [Sa -> Imsi] /\ Invalid \subseteq Imsi

VARIABLES
    pc,      \* how far the setup of an IKE_SA has got
    holds,   \* the UE object its thread or its enumerator has a reference to
    db,      \* subscribers_imsi
    ref,     \* refcount of a UE object; 0 before its creation and after the free
    ueState, \* its state
    address, \* its address: the IKE_SA whose tunnel request was answered with it
    readers, \* read locks held on it
    vip,     \* the address assigned to an IKE_SA
    attrs    \* the IKE_SAs whose tunnel answers filled the attributes of a UE

vars == <<pc, holds, db, ref, ueState, address, readers, vip, attrs>>

PcStates == {"auth", "authenticated", "update_location", "remove", "lu_failed", "lu_done",
             "eap_done", "set_wait", "tunnel", "set_address", "set_attributes", "set_ready",
             "t_failed", "authorized", "addressed", "attributes", "up", "failed", "down"}
\* Before a set_... or insert_... on the UE, which takes its write lock.
Writing == {"lu_failed", "lu_done", "set_wait", "set_address", "set_attributes", "set_ready",
            "t_failed"}
\* From get_attributes on.
Enumerated == {"attributes", "up", "down"}
UeStates == {"WAIT_LOCATION_UPDATE", "LOCATION_UPDATED", "WAIT_TUNNEL", "TUNNEL_READY", "FAIL"}

Init ==
    /\ pc = [s \in Sa |-> "auth"]
    /\ holds = [s \in Sa |-> NoUe]
    /\ db = [i \in Imsi |-> NoUe]
    /\ ref = [u \in Sa |-> 0]
    /\ ueState = [u \in Sa |-> "WAIT_LOCATION_UPDATE"]
    /\ address = [u \in Sa |-> NoUe]
    /\ readers = [u \in Sa |-> 0]
    /\ vip = [s \in Sa |-> NoUe]
    /\ attrs = [u \in Sa |-> {}]

(***************************************************************************)
(* UE objects and registry.                                                *)
(***************************************************************************)
Goto(s, from, to) == pc[s] = from /\ pc' = [pc EXCEPT ![s] = to]

\* ue->put of one reference to u, if there is one.
Put(u) == IF u = NoUe THEN ref ELSE [ref EXCEPT ![u] = @ - 1]

\* Mutant of Subscriber: the lookup does not compare the whole IMSI.
AnySubscriber(s) ==
    IF \E i \in Imsi : db[i] # NoUe THEN db[CHOOSE i \in Imsi : db[i] # NoUe] ELSE NoUe

\* db->get_subscriber and get_subscriber_ike: the UE registered for the IMSI.
Subscriber(s) == db[ImsiOf[s]]

\* write_lock, and the set_... that needs it.  The lock is given back, so a
\* writer waits only for readers.
WriteLocked(u) == readers[u] = 0
SetState(u, x) == WriteLocked(u) /\ ueState' = [ueState EXCEPT ![u] = x]

(***************************************************************************)
(* The provider's get_quintuplet.                                          *)
(***************************************************************************)
GetQuintuplet(s) ==
    /\ Goto(s, "auth", "authenticated") \/ Goto(s, "auth", "failed")
    /\ UNCHANGED <<holds, db, ref, ueState, address, readers, vip, attrs>>

(***************************************************************************)
(* The listener's eap_authorize.                                           *)
(***************************************************************************)
\* Mutant of CreateSubscriber: no reference is taken for the caller.
CreateSubscriberWithoutGet(s) ==
    /\ Goto(s, "authenticated", "update_location")
    /\ db' = [db EXCEPT ![ImsiOf[s]] = s]
    /\ ref' = [Put(Subscriber(s)) EXCEPT ![s] = 1]
    /\ holds' = [holds EXCEPT ![s] = s]
    /\ UNCHANGED <<ueState, address, readers, vip, attrs>>

\* No IMSI or no APN can be read from the IKE_SA.
Unidentified(s) ==
    /\ Goto(s, "authenticated", "failed")
    /\ UNCHANGED <<holds, db, ref>>

\* osmo_epdg_ue_create refuses the IMSI, or an empty APN: the UE that was
\* registered for the IMSI is dropped all the same.
Refused(s) ==
    /\ Goto(s, "authenticated", "failed")
    /\ db' = [db EXCEPT ![ImsiOf[s]] = NoUe]
    /\ ref' = Put(Subscriber(s))
    /\ UNCHANGED holds

\* The new UE takes the place of the registered one.
Created(s) ==
    /\ ImsiOf[s] \notin Invalid
    /\ Goto(s, "authenticated", "update_location")
    /\ db' = [db EXCEPT ![ImsiOf[s]] = s]
    /\ ref' = [Put(Subscriber(s)) EXCEPT ![s] = 2]
    /\ holds' = [holds EXCEPT ![s] = s]

\* db->create_subscriber.
CreateSubscriber(s) ==
    /\ Unidentified(s) \/ Refused(s) \/ Created(s)
    /\ UNCHANGED <<ueState, address, readers, vip, attrs>>

\* gsup->update_location returns NULL, UPDATE_LOCATION_ERROR or _RESULT.
UpdateLocation(s) ==
    /\ \/ Goto(s, "update_location", "remove")
       \/ Goto(s, "update_location", "lu_failed")
       \/ Goto(s, "update_location", "lu_done")
    /\ UNCHANGED <<holds, db, ref, ueState, address, readers, vip, attrs>>

\* db->remove_subscriber after a NULL: it removes the UE that is registered
\* by now, which need not be the one of this IKE_SA.
RemoveSubscriber(s) ==
    /\ Goto(s, "remove", "lu_failed")
    /\ db' = [db EXCEPT ![ImsiOf[s]] = NoUe]
    /\ ref' = Put(Subscriber(s))
    /\ UNCHANGED <<holds, ueState, address, readers, vip, attrs>>

\* Mutant of Finish: the reference is not dropped.
FinishWithoutPut(s, from, x, to) ==
    /\ Goto(s, from, to)
    /\ SetState(holds[s], x)
    /\ holds' = [holds EXCEPT ![s] = NoUe]
    /\ UNCHANGED <<db, ref, address, readers, vip, attrs>>

\* Set the UE's state and drop the reference: the end of both handlers.
Finish(s, from, x, to) ==
    /\ Goto(s, from, to)
    /\ SetState(holds[s], x)
    /\ ref' = Put(holds[s])
    /\ holds' = [holds EXCEPT ![s] = NoUe]
    /\ UNCHANGED <<db, address, readers, vip, attrs>>

EapAuthorizeFails(s) == Finish(s, "lu_failed", "FAIL", "failed")
EapAuthorizeSucceeds(s) == Finish(s, "lu_done", "LOCATION_UPDATED", "eap_done")

(***************************************************************************)
(* The listener's authorize, for the final authentication round.           *)
(***************************************************************************)
\* Mutant of FindSubscriber: the UE is left read-locked.
FindSubscriberReadLocked(s) ==
    LET u == Subscriber(s) IN
    /\ IF u = NoUe
       THEN Goto(s, "eap_done", "failed") /\ UNCHANGED <<ref, holds, readers>>
       ELSE /\ Goto(s, "eap_done", "set_wait")
            /\ ref' = [ref EXCEPT ![u] = @ + 1]
            /\ holds' = [holds EXCEPT ![s] = u]
            /\ readers' = [readers EXCEPT ![u] = @ + 1]
    /\ UNCHANGED <<db, ueState, address, vip, attrs>>

FindSubscriber(s) ==
    LET u == Subscriber(s) IN
    /\ IF u = NoUe
       THEN Goto(s, "eap_done", "failed") /\ UNCHANGED <<ref, holds>>
       ELSE /\ Goto(s, "eap_done", "set_wait")
            /\ ref' = [ref EXCEPT ![u] = @ + 1]
            /\ holds' = [holds EXCEPT ![s] = u]
    /\ UNCHANGED <<db, ueState, address, readers, vip, attrs>>

SetWaitTunnel(s) ==
    /\ Goto(s, "set_wait", "tunnel")
    /\ SetState(holds[s], "WAIT_TUNNEL")
    /\ UNCHANGED <<holds, db, ref, address, readers, vip, attrs>>

\* Mutant of TunnelRequest: an answer without address is accepted.
TunnelRequestWithoutAddress(s) ==
    /\ Goto(s, "tunnel", "t_failed") \/ Goto(s, "tunnel", "set_attributes")
    /\ UNCHANGED <<holds, db, ref, ueState, address, readers, vip, attrs>>

\* gsup->tunnel_request: NULL, an error or an unusable answer, or an address.
TunnelRequest(s) ==
    /\ Goto(s, "tunnel", "t_failed") \/ Goto(s, "tunnel", "set_address")
    /\ UNCHANGED <<holds, db, ref, ueState, address, readers, vip, attrs>>

SetAddress(s) ==
    /\ Goto(s, "set_address", "set_attributes")
    /\ WriteLocked(holds[s])
    /\ address' = [address EXCEPT ![holds[s]] = s]
    /\ UNCHANGED <<holds, db, ref, ueState, readers, vip, attrs>>

\* insert_attribute for each usable APCO container of the answer, if any.
SetAttributes(s) ==
    /\ Goto(s, "set_attributes", "set_ready")
    /\ \/ WriteLocked(holds[s]) /\ attrs' = [attrs EXCEPT ![holds[s]] = @ \cup {s}]
       \/ UNCHANGED attrs
    /\ UNCHANGED <<holds, db, ref, ueState, address, readers, vip>>

AuthorizeFails(s) == Finish(s, "t_failed", "FAIL", "failed")
AuthorizeSucceeds(s) == Finish(s, "set_ready", "TUNNEL_READY", "authorized")

(***************************************************************************)
(* The provider's attribute interface.                                     *)
(***************************************************************************)
\* acquire_address: a copy of the address of the UE registered by now, for a
\* peer that asks for an IPv4 address.
AcquireAddress(s) == \E ipv4 \in BOOLEAN :
    LET u == Subscriber(s)
        a == IF u = NoUe \/ ~ipv4 THEN NoUe ELSE address[u]
    IN
    /\ Goto(s, "authorized", IF a = NoUe THEN "failed" ELSE "addressed")
    /\ vip' = [vip EXCEPT ![s] = a]
    /\ UNCHANGED <<holds, db, ref, ueState, address, readers, attrs>>

\* create_attribute_enumerator: one reference goes to the enumerator.  The
\* read lock that get_attributes takes is never given back: its unlock stands
\* behind the return.
CreateAttributeEnumerator(s) ==
    LET u == Subscriber(s) IN
    /\ IF u = NoUe
       THEN Goto(s, "addressed", "up") /\ UNCHANGED <<ref, holds, readers>>
       ELSE /\ Goto(s, "addressed", "attributes")
            /\ ref' = [ref EXCEPT ![u] = @ + 1]
            /\ holds' = [holds EXCEPT ![s] = u]
            /\ readers' = [readers EXCEPT ![u] = @ + 1]
    /\ UNCHANGED <<db, ueState, address, vip, attrs>>

\* The enumerator is destroyed, with its reference.
DestroyEnumerator(s) ==
    /\ Goto(s, "attributes", "up")
    /\ ref' = Put(holds[s])
    /\ holds' = [holds EXCEPT ![s] = NoUe]
    /\ UNCHANGED <<db, ueState, address, readers, vip, attrs>>

\* The IKE_SA goes down: release_address only compares addresses and
\* ike_updown only logs; the UE stays registered.
ReleaseAddress(s) ==
    /\ Goto(s, "up", "down")
    /\ UNCHANGED <<holds, db, ref, ueState, address, readers, vip, attrs>>

-----------------------------------------------------------------------------
SaStep(s) ==
    \/ GetQuintuplet(s) \/ CreateSubscriber(s) \/ UpdateLocation(s) \/ RemoveSubscriber(s)
    \/ EapAuthorizeFails(s) \/ EapAuthorizeSucceeds(s) \/ FindSubscriber(s) \/ SetWaitTunnel(s)
    \/ TunnelRequest(s) \/ SetAddress(s) \/ SetAttributes(s) \/ AuthorizeFails(s)
    \/ AuthorizeSucceeds(s) \/ AcquireAddress(s) \/ CreateAttributeEnumerator(s)
    \/ DestroyEnumerator(s)

Next == \E s \in Sa : SaStep(s) \/ ReleaseAddress(s)

Spec == Init /\ [][Next]_vars

-----------------------------------------------------------------------------
TypeOK ==
    /\ pc \in [Sa -> PcStates]
    /\ holds \in [Sa -> Sa \cup {NoUe}]
    /\ db \in [Imsi -> Sa \cup {NoUe}]
    /\ ref \in [Sa -> Nat]
    /\ ueState \in [Sa -> UeStates]
    /\ address \in [Sa -> Sa \cup {NoUe}]
    /\ readers \in [Sa -> Nat]
    /\ vip \in [Sa -> Sa \cup {NoUe}]
    /\ attrs \in [Sa -> SUBSET Sa]

(***************************************************************************)
(* osmo_epdg_db.h: a UE returned by the registry "need to called put()     *)
(* when not used".  The reference count of a UE is the number of its       *)
(* users: the registry and the handlers and enumerators that hold it.  So  *)
(* a UE replaced by a second IKE_SA of its IMSI lives until the first one  *)
(* is done with it, and not longer.                                        *)
(***************************************************************************)
RefsAccounted == \A u \in Sa :
    ref[u] = Cardinality({i \in Imsi : db[i] = u}) + Cardinality({s \in Sa : holds[s] = u})

(***************************************************************************)
(* Whatever IKE_SAs of one IMSI do to each other, the address and the      *)
(* attributes that an IKE_SA gets come from a tunnel request of its own    *)
(* IMSI.                                                                   *)
(***************************************************************************)
OwnSubscriberOnly == \A s \in Sa :
    /\ vip[s] # NoUe => ImsiOf[vip[s]] = ImsiOf[s]
    /\ pc[s] = "attributes" => \A t \in attrs[holds[s]] : ImsiOf[t] = ImsiOf[s]

(***************************************************************************)
(* UE_TUNNEL_READY is set after the address, on the same object, also when *)
(* two IKE_SAs work on it at once: acquire_address finds an address in a   *)
(* UE that is ready.                                                       *)
(***************************************************************************)
ReadyHasAddress == \A u \in Sa : ueState[u] = "TUNNEL_READY" => address[u] # NoUe

(***************************************************************************)
(* get_attributes keeps its read lock (osmo_epdg_ue.c:160), so a thread    *)
(* may wait for the write lock for ever.  The damage stays within the      *)
(* IMSI: only a second IKE_SA of the same IMSI waits, after the first one  *)
(* has enumerated its attributes; an IKE_SA alone with its IMSI never      *)
(* does, nor does one wait for itself.                                     *)
(***************************************************************************)
BlockedBySibling == \A s \in Sa :
    pc[s] \in Writing /\ ~WriteLocked(holds[s]) =>
        \E t \in Sa \ {s} : ImsiOf[t] = ImsiOf[s] /\ pc[t] \in Enumerated
=============================================================================
