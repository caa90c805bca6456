---------------------------- MODULE MCGsupClient ----------------------------
(* Instances of GsupClient for TLC.  The requests ask for the same         *)
(* procedure and IMSI, as those of a UE that tries again do.               *)
EXTENDS GsupClient

MCReq == 1..2
MCKeyOf == [r \in MCReq \cup {Stray} |-> IF r = Stray THEN "tunnel" ELSE "auth"]
=============================================================================
