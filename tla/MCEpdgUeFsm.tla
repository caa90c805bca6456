---------------------------- MODULE MCEpdgUeFsm ----------------------------
(* Instances of EpdgUeFsm for TLC.                                         *)
EXTENDS EpdgUeFsm

AllKinds == {"auth", "lu", "tunnel", "purge"}
\* What strongSwan's osmo_epdg plugin sends: it never purges.
PluginKinds == {"auth", "lu", "tunnel"}

\* Any four requests meet any network procedures.  Where the first incarnation of
\* the FSM is gone and the network has started nothing, two more requests follow, so
\* that its successor can be attached in full.  They are the plugin's, which never
\* purges.
RequestBound == reqs <= 4 \/ (nets = 0 /\ pid # 1 /\ client # "purge")
=============================================================================
