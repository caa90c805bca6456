---------------------------- MODULE MCAaaUeFsm ----------------------------
(* Instances of AaaUeFsm for TLC: the bounds come from the .cfg files.     *)
EXTENDS AaaUeFsm
=============================================================================
