------------------------------ MODULE Scheduler ------------------------------
(***************************************************************************)
(* The heap of scheduler.c: events in a one-based array, the children of   *)
(* position n at 2n and 2n+1.  The loops that move an event up or down     *)
(* are given by the set of positions on its way and the one it ends at.    *)
(***************************************************************************)
EXTENDS Integers, Sequences, FiniteSetsExt

\* A position and those above it, which halving leads to.
Upwards(n) == {n} \cup {p \in 1..(n \div 2) : \A way \in SUBSET (1..(n \div 2)) :
    n \div 2 \in way /\ (\A q \in way : q > 1 => q \div 2 \in way) => p \in way}

\* schedule_job_tv: the event starts at the bottom and passes every parent
\* that fires later.
InsertEvent(heap, e) ==
    LET n == Len(heap) + 1
        way == Upwards(n)
        position == Min({p \in way : \A q \in way : p <= q /\ q < n => heap[q].time > e.time})
    IN  [i \in 1..n |-> IF i = position THEN e
                        ELSE IF i \in way /\ i > position THEN heap[i \div 2]
                        ELSE heap[i]]

\* Mutant of SmallerChild: always the left one.
LeftChild(heap, n, p) == 2 * p

SmallerChild(heap, n, p) ==
    IF 2 * p + 1 <= n /\ heap[2 * p + 1].time < heap[2 * p].time THEN 2 * p + 1 ELSE 2 * p

\* remove_event: the bottom event replaces the top one and passes every
\* smaller child that fires before it.
RemoveEvent(heap) ==
    LET n == Len(heap) - 1
        top == heap[n + 1]
        way == {p \in 1..n : \A q \in Upwards(p) \ {1} : q = SmallerChild(heap, n, q \div 2)}
        position == Max({p \in way :
                           \A q \in way : 1 < q /\ q <= p => heap[q].time < top.time})
    IN  IF n = 0 THEN <<>>
        ELSE [i \in 1..n |-> IF i = position THEN top
                             ELSE IF i \in way /\ i < position THEN heap[SmallerChild(heap, n, i)]
                             ELSE heap[i]]
=============================================================================
