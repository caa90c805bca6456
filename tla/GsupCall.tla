------------------------------ MODULE GsupCall ------------------------------
(***************************************************************************)
(* What the GSUP client of strongSwan's osmo_epdg plugin promises to its   *)
(* callers (the EAP-AKA provider and the IKE listener), whatever happens   *)
(* between its threads: a call is made once and returns once, with NULL or *)
(* with an answer the server really gave, to a request for the same IMSI   *)
(* and procedure, and no answer is handed to two callers.  The answer may  *)
(* be that of an earlier call which has given up: GSUP as it is used here  *)
(* carries no transaction identifier.                                      *)
(***************************************************************************)
CONSTANTS
    Req,    \* calls
    KeyOf,  \* IMSI and procedure of a call
    Null    \* the NULL a call returns without an answer

VARIABLES
    call,     \* per call: not made, made, returned
    answered, \* calls the server has answered
    result    \* what a returned call got: NULL or the call that was answered

vars == <<call, answered, result>>

Init ==
    /\ call = [r \in Req |-> "idle"]
    /\ answered = {}
    /\ result = [r \in Req |-> Null]

Call(r) ==
    /\ call[r] = "idle"
    /\ call' = [call EXCEPT ![r] = "open"]
    /\ UNCHANGED <<answered, result>>

Answer(r) ==
    /\ call[r] # "idle"
    /\ answered' = answered \cup {r}
    /\ UNCHANGED <<call, result>>

Return(r, a) ==
    /\ call[r] = "open"
    /\ call' = [call EXCEPT ![r] = "returned"]
    /\ result' = [result EXCEPT ![r] = a]
    /\ a # Null => /\ a \in answered
                   /\ KeyOf[a] = KeyOf[r]
                   /\ \A q \in Req : result[q] # a
    /\ UNCHANGED answered

\* A call refused for its arguments returns at once.
Refuse(r) ==
    /\ call[r] = "idle"
    /\ call' = [call EXCEPT ![r] = "returned"]
    /\ UNCHANGED <<answered, result>>

Next == \E r \in Req :
    \/ Call(r)
    \/ Answer(r)
    \/ Refuse(r)
    \/ \E a \in Req \cup {Null} : Return(r, a)

Spec == Init /\ [][Next]_vars
=============================================================================
