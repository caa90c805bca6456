----------------------------- MODULE MCIpaClient -----------------------------
(* Instances of IpaClient for TLC. *)
EXTENDS IpaClient
=============================================================================
