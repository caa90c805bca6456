----------------------------- MODULE MCProcessor -----------------------------
(* Instances of Processor for TLC: the timer job and jobs "a" and "d" are  *)
(* critical, two of the three threads are reserved for such jobs.          *)
EXTENDS Processor

MCJob == {"timer", "a", "b", "c", "d"}
MCPrioOf == [j \in MCJob |-> IF j \in {"timer", "a", "d"} THEN 1 ELSE 2]
MCPrioThreads == <<2, 0>>
=============================================================================
