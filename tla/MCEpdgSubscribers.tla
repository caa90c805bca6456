-------------------------- MODULE MCEpdgSubscribers --------------------------
(* Instances of EpdgSubscribers for TLC: two IKE_SAs of one IMSI, one of   *)
(* another IMSI, and one whose IMSI is refused.                            *)
EXTENDS EpdgSubscribers

MCSa == 1..4
MCImsiOf == <<"i1", "i1", "i2", "i3">>
=============================================================================
