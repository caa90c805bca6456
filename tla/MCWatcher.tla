------------------------------ MODULE MCWatcher ------------------------------
(* Instances of Watcher for TLC: entry 1 is a socket of charon beside the  *)
(* stream of entry 2, entry 3 the stream of a new connection with the same *)
(* number.  In one instance the socket stays, in the other it is a VICI    *)
(* connection, which is closed at some time.                               *)
EXTENDS Watcher

MCEntry == 1..3
MCFdOf == <<10, 20, 20>>
MCEventsOf == <<{"R"}, {"R", "W"}, {"R"}>>
=============================================================================
