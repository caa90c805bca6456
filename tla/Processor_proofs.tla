-------------------------- MODULE Processor_proofs --------------------------
(***************************************************************************)
(* Proofs about Processor, for any number of threads, jobs, priorities and *)
(* events: the heap of the scheduler is a priority queue, the counters     *)
(* that decide where a job runs are right, no wakeup is lost, cancel()     *)
(* does not wait in vain, and the scheduler implements the timer queue of  *)
(* TimerQueue.                                                             *)
(***************************************************************************)
EXTENDS Processor, CommonLemmas, TLAPS

(***************************************************************************)
(* Positions in the heap.                                                  *)
(***************************************************************************)
\* What halving a position does.
LEMMA HalfFacts ==
    ASSUME NEW q \in Nat \ {0}
    PROVE  /\ q \div 2 \in Nat /\ q \div 2 < q
           /\ q > 1 => q \div 2 >= 1
           /\ q = 2 * (q \div 2) \/ q = 2 * (q \div 2) + 1
  OBVIOUS
LEMMA HalfMonotone == ASSUME NEW p \in Nat, NEW q \in Nat, p <= q PROVE p \div 2 <= q \div 2
  OBVIOUS

\* A set that halving does not lead out of.
Halved(S) == \A q \in S : q > 1 => q \div 2 \in S

\* The way up from n stays within every such set that n is in.
LEMMA UpwardsLeast ==
    ASSUME NEW n \in Nat \ {0}, NEW S, n \in S, Halved(S)
    PROVE  Upwards(n) \subseteq S
<1> SUFFICES ASSUME NEW p \in Upwards(n), p # n PROVE p \in S
  OBVIOUS
<1> DEFINE h == n \div 2
           way == S \cap (1..h)
<1>1. h \in Nat /\ h < n /\ p \in 1..h
  BY HalfFacts DEF Upwards
<1>2. h >= 1 /\ n > 1
  BY <1>1
<1>3. h \in way
  BY <1>1, <1>2 DEF Halved
<1>4. ASSUME NEW q \in way, q > 1 PROVE q \div 2 \in way
  <2>1. q \in Nat \ {0} /\ q <= h /\ q \div 2 \in S
    BY <1>4 DEF Halved
  <2> QED
    BY <1>1, <1>4, <2>1, HalfFacts
<1>5. way \in SUBSET (1..h)
  OBVIOUS
<1>6. p \in way
  <2> HIDE DEF way
  <2> QED
    BY <1>3, <1>4, <1>5 DEF Upwards
<1> QED
  BY <1>6

\* The way up from n: n itself, then each time half of it, up to 1.
LEMMA UpwardsFacts ==
    ASSUME NEW n \in Nat \ {0}
    PROVE  n \in Upwards(n) /\ Upwards(n) \subseteq 1..n /\ Halved(Upwards(n))
<1> DEFINE h == n \div 2
<1>1. h \in Nat /\ h < n /\ (n > 1 => h >= 1)
  BY HalfFacts
<1>2. n \in Upwards(n) /\ Upwards(n) \subseteq 1..n
  BY <1>1 DEF Upwards
<1>3. ASSUME n > 1 PROVE h \in Upwards(n)
  BY <1>1, <1>3 DEF Upwards
<1>4. ASSUME NEW q \in Upwards(n), q > 1, q # n PROVE q \div 2 \in Upwards(n)
  <2>1. q \in 1..h /\ q \div 2 \in 1..h
    <3>1. q \in 1..h
      BY <1>4 DEF Upwards
    <3> QED
      BY <1>1, <1>4, <3>1, HalfFacts
  <2>2. ASSUME NEW way \in SUBSET (1..h), h \in way, \A x \in way : x > 1 => x \div 2 \in way
        PROVE  q \div 2 \in way
    <3>1. q \in way
      BY <1>4, <2>2 DEF Upwards
    <3> QED
      BY <1>4, <2>2, <3>1
  <2> QED
    BY <2>1, <2>2 DEF Upwards
<1> QED
  BY <1>2, <1>3, <1>4 DEF Halved

\* Between a position on the way and its half there is no other.
LEMMA UpwardsChain ==
    ASSUME NEW n \in Nat \ {0}, NEW p \in Upwards(n), NEW q \in Upwards(n), p < q
    PROVE  p <= q \div 2
<1> DEFINE U == Upwards(n)
           C(y) == \A x \in U : x < y => x <= y \div 2
           S == {y \in U : C(y)}
<1>0. n \in U /\ U \subseteq 1..n /\ Halved(U)
  BY UpwardsFacts
<1>1. n \in S
  <2> DEFINE T == {x \in 1..n : x = n \/ x <= n \div 2}
  <2>1. n \in T
    OBVIOUS
  <2>2. ASSUME NEW x \in T, x > 1 PROVE x \div 2 \in T
    BY <2>2, HalfFacts
  <2>3. U \subseteq T
    <3> HIDE DEF T
    <3> QED
      BY <2>1, <2>2, UpwardsLeast DEF Halved
  <2> QED
    BY <1>0, <2>3
<1>2. ASSUME NEW y \in S, y > 1 PROVE y \div 2 \in S
  <2> DEFINE z == y \div 2
             T == {x \in U : x >= z \/ x <= z \div 2}
  <2>1. y \in U /\ C(y) /\ y \in Nat \ {0} /\ z \in U /\ z \in Nat \ {0} /\ z < y
    BY <1>0, <1>2, HalfFacts DEF Halved
  <2>2. n \in T
    BY <1>0, <2>1
  <2>3. ASSUME NEW x \in T, x > 1 PROVE x \div 2 \in T
    <3>1. x \in U /\ x \in Nat \ {0} /\ x \div 2 \in U /\ x \div 2 < x
      BY <1>0, <2>3, HalfFacts DEF Halved
    <3>2. CASE x >= y
      BY <2>1, <3>1, <3>2, HalfMonotone
    <3>3. CASE x < y /\ x >= z
      <4>1. x = z
        BY <2>1, <3>1, <3>3
      <4> QED
        BY <3>1, <4>1
    <3>4. CASE x < z
      <4>1. x <= z \div 2
        BY <2>1, <2>3, <3>1, <3>4
      <4> QED
        BY <2>1, <3>1, <4>1
    <3> QED
      BY <2>1, <3>1, <3>2, <3>3, <3>4
  <2>4. U \subseteq T
    <3> HIDE DEF T
    <3> QED
      BY <2>2, <2>3, UpwardsLeast DEF Halved
  <2>5. C(z)
    BY <1>0, <2>1, <2>4
  <2> QED
    BY <2>1, <2>5
<1>3. U \subseteq S
  <2> HIDE DEF S
  <2> QED
    BY <1>1, <1>2, UpwardsLeast DEF Halved
<1> QED
  BY <1>3

\* Each position above n on the way is the half of another one on it.
LEMMA UpwardsNext ==
    ASSUME NEW n \in Nat \ {0}, NEW q \in Upwards(n), q # n
    PROVE  \E i \in Upwards(n) : i > 1 /\ i \div 2 = q
<1> SUFFICES ASSUME \A i \in Upwards(n) : i > 1 => i \div 2 # q PROVE FALSE
  OBVIOUS
<1> DEFINE S == Upwards(n) \ {q}
<1>1. n \in S /\ Halved(S)
  BY UpwardsFacts DEF Halved
<1>2. Upwards(n) \subseteq S
  <2> HIDE DEF S
  <2> QED
    BY <1>1, UpwardsLeast
<1> QED
  BY <1>2

(***************************************************************************)
(* The heap: schedule_job_tv.                                              *)
(***************************************************************************)
Event == [time : Nat, job : Job]

\* What is in a heap.
LEMMA EventFacts ==
    ASSUME NEW h \in Seq(Event), NEW k \in 1..Len(h)
    PROVE  h[k] \in Event /\ h[k].time \in Nat /\ h[k].job \in Job
<1>1. h[k] \in Event
  OBVIOUS
<1> QED
  BY <1>1 DEF Event

\* No event fires before the one above it.
Sorted(h) == \A i \in 2..Len(h) : h[i \div 2].time <= h[i].time

\* A job has one event.
JobsOnce(h) == \A i, j \in 1..Len(h) : h[i].job = h[j].job => i = j

\* The position that InsertEvent gives the new event: nothing above it fires
\* later, and everything it passes does.
LEMMA InsertPosition ==
    ASSUME NEW h \in Seq(Event), NEW e \in Event, NEW n, n = Len(h) + 1
    PROVE  \E pos \in Upwards(n) :
             /\ \A q \in Upwards(n) : pos <= q /\ q < n => h[q].time > e.time
             /\ pos > 1 => h[pos \div 2].time <= e.time
             /\ InsertEvent(h, e) = [i \in 1..n |->
                  IF i = pos THEN e
                  ELSE IF i \in Upwards(n) /\ i > pos THEN h[i \div 2] ELSE h[i]]
<1> DEFINE U == Upwards(n)
           S == {p \in U : \A q \in U : p <= q /\ q < n => h[q].time > e.time}
<1>1. n \in Nat \ {0}
  OBVIOUS
<1>2. n \in U /\ U \subseteq 1..n /\ Halved(U)
  BY <1>1, UpwardsFacts
<1>3. n \in S /\ S \subseteq Nat
  BY <1>1, <1>2
<1>4. PICK pos : pos = Min(S)
  OBVIOUS
<1>5. pos \in S /\ \A p \in S : pos <= p
  <2> HIDE DEF S
  <2>1. \E i \in S : \A j \in S : i <= j
    BY <1>3, FirstExists
  <2> QED
    BY <1>4, <2>1 DEF Min
<1>6. InsertEvent(h, e) = [i \in 1..n |->
         IF i = pos THEN e ELSE IF i \in U /\ i > pos THEN h[i \div 2] ELSE h[i]]
  BY <1>4 DEF InsertEvent
<1>7. ASSUME pos > 1 PROVE h[pos \div 2].time <= e.time
  <2> DEFINE par == pos \div 2
  <2>1. par \in U /\ par \in 1..n /\ par < pos /\ pos \in 1..n
    BY <1>2, <1>5, <1>7, HalfFacts DEF Halved
  <2>2. par \notin S
    BY <1>5, <2>1
  <2>3. PICK q \in U : par <= q /\ q < n /\ ~(h[q].time > e.time)
    BY <2>1, <2>2
  <2>4. q < pos
    BY <1>2, <1>5, <2>1, <2>3
  <2>5. q <= par
    BY <1>1, <1>5, <2>3, <2>4, UpwardsChain
  <2>6. q = par /\ h[par] \in Event
    BY <1>2, <2>1, <2>3, <2>5
  <2> QED
    BY <2>3, <2>6 DEF Event
<1> QED
  BY <1>5, <1>6, <1>7

\* schedule_job_tv adds one event and keeps the heap in order.
LEMMA InsertFacts ==
    ASSUME NEW h \in Seq(Event), NEW e \in Event, NEW g, g = InsertEvent(h, e)
    PROVE  /\ g \in Seq(Event) /\ ToSet(g) = ToSet(h) \cup {e}
           /\ Sorted(h) => Sorted(g)
           /\ JobsOnce(h) /\ (\A x \in ToSet(h) : x.job # e.job) => JobsOnce(g)
<1>0. PICK n \in Nat \ {0} : n = Len(h) + 1
  OBVIOUS
<1> DEFINE U == Upwards(n)
<1>1. n \in U /\ U \subseteq 1..n /\ Halved(U)
  BY UpwardsFacts
<1>2. PICK pos \in U :
        /\ \A q \in U : pos <= q /\ q < n => h[q].time > e.time
        /\ pos > 1 => h[pos \div 2].time <= e.time
        /\ g = [i \in 1..n |->
             IF i = pos THEN e ELSE IF i \in U /\ i > pos THEN h[i \div 2] ELSE h[i]]
  BY <1>0, InsertPosition
<1>3. pos \in 1..n
  BY <1>1, <1>2
<1>4. ASSUME NEW i \in U, i > pos
      PROVE  i \div 2 \in U /\ i \div 2 \in 1..(n - 1) /\ i \div 2 >= pos /\ i \div 2 < i
  <2>1. i \in 1..n /\ i > 1
    BY <1>1, <1>3, <1>4
  <2>2. i \div 2 \in U /\ i \div 2 < i
    BY <1>4, <2>1, <1>1, HalfFacts DEF Halved
  <2>3. pos <= i \div 2
    BY <1>2, <1>4, UpwardsChain
  <2> QED
    BY <1>1, <2>1, <2>2, <2>3
\* What is where in g.
<1>5. DOMAIN g = 1..n /\ g[pos] = e
  BY <1>2, <1>3
<1>6. ASSUME NEW i \in U, i > pos PROVE g[i] = h[i \div 2]
  BY <1>1, <1>2, <1>3, <1>6
<1>7. ASSUME NEW i \in 1..n, i # pos, ~(i \in U /\ i > pos) PROVE g[i] = h[i] /\ i \in 1..(n - 1)
  BY <1>1, <1>2, <1>3, <1>7
<1>8. ASSUME NEW i \in 1..n PROVE g[i] \in ToSet(h) \cup {e} /\ g[i] \in Event
  <2>1. \A k \in 1..(n - 1) : h[k] \in ToSet(h) /\ h[k] \in Event
    BY <1>0 DEF ToSet
  <2> QED
    BY <1>4, <1>5, <1>6, <1>7, <2>1
<1>9. g \in Seq(Event) /\ Len(g) = n
  <2>1. g = [i \in 1..n |-> g[i]]
    BY <1>2
  <2>2. g \in [1..n -> Event]
    BY <1>8, <2>1
  <2> QED
    BY <2>2
<1>10. ToSet(g) = ToSet(h) \cup {e}
  <2>1. ToSet(g) \subseteq ToSet(h) \cup {e}
    BY <1>5, <1>8 DEF ToSet
  <2>2. e \in ToSet(g)
    BY <1>3, <1>5 DEF ToSet
  <2>3. ASSUME NEW j \in 1..(n - 1) PROVE h[j] \in ToSet(g)
    <3>1. CASE j \in U /\ j >= pos
      <4>1. PICK i \in U : i > 1 /\ i \div 2 = j
        BY <3>1, UpwardsNext
      <4>2. i \in 1..n /\ i > pos
        BY <1>1, <1>3, <3>1, <4>1, HalfFacts
      <4>3. g[i] = h[j]
        BY <1>6, <4>1, <4>2
      <4> QED
        BY <1>5, <4>2, <4>3 DEF ToSet
    <3>2. CASE ~(j \in U /\ j >= pos)
      <4>1. j \in 1..n /\ g[j] = h[j]
        BY <1>2, <1>3, <1>7, <3>2
      <4> QED
        BY <1>5, <4>1 DEF ToSet
    <3> QED
      BY <3>1, <3>2
  <2>4. ToSet(h) \subseteq ToSet(g)
    BY <1>0, <2>3 DEF ToSet
  <2> QED
    BY <2>1, <2>2, <2>4
<1>11. ASSUME JobsOnce(h), \A x \in ToSet(h) : x.job # e.job PROVE JobsOnce(g)
  <2>1. ASSUME NEW k \in 1..(n - 1) PROVE h[k].job # e.job
    BY <1>0, <1>11 DEF ToSet
  <2>2. ASSUME NEW j \in 1..(n - 1), NEW k \in 1..(n - 1), h[j].job = h[k].job PROVE j = k
    BY <1>0, <1>11, <2>2 DEF JobsOnce
  <2> SUFFICES ASSUME NEW i \in 1..n, NEW j \in 1..n, i < j, g[i].job = g[j].job PROVE FALSE
    BY <1>9 DEF JobsOnce
  <2>3. CASE i = pos
    BY <1>4, <1>5, <1>6, <1>7, <2>1, <2>3
  <2>4. CASE j = pos
    BY <1>4, <1>5, <1>6, <1>7, <2>1, <2>4
  <2>5. CASE i # pos /\ j # pos /\ i \in U /\ i > pos /\ j \in U /\ j > pos
    <3>1. i \div 2 = j \div 2
      BY <1>4, <1>6, <2>2, <2>5
    <3>2. i <= j \div 2
      BY <2>5, UpwardsChain
    <3> QED
      BY <1>4, <2>5, <3>1, <3>2
  <2>6. CASE i # pos /\ j # pos /\ i \in U /\ i > pos /\ ~(j \in U /\ j > pos)
    BY <1>4, <1>6, <1>7, <2>2, <2>6
  <2>7. CASE i # pos /\ j # pos /\ ~(i \in U /\ i > pos) /\ j \in U /\ j > pos
    <3>1. j \div 2 = i
      BY <1>4, <1>6, <1>7, <2>2, <2>7
    <3> QED
      BY <1>3, <1>4, <2>7, <3>1
  <2>8. CASE i # pos /\ j # pos /\ ~(i \in U /\ i > pos) /\ ~(j \in U /\ j > pos)
    BY <1>7, <2>2, <2>8
  <2> QED
    BY <2>3, <2>4, <2>5, <2>6, <2>7, <2>8
<1>12. ASSUME Sorted(h) PROVE Sorted(g)
  <2>0. ASSUME NEW i \in 2..(n - 1) PROVE h[i \div 2].time <= h[i].time
    BY <1>0, <1>12 DEF Sorted
  <2>1. ASSUME NEW k \in 1..(n - 1) PROVE h[k].time \in Nat
    <3>1. h[k] \in Event
      BY <1>0
    <3> QED
      BY <3>1 DEF Event
  <2>2. e.time \in Nat
    BY DEF Event
  <2> SUFFICES ASSUME NEW i \in 2..n PROVE g[i \div 2].time <= g[i].time
    BY <1>9 DEF Sorted
  <2> DEFINE par == i \div 2
  <2>3. par \in 1..(n - 1) /\ par < i /\ i \in Nat \ {0} /\ (i \in U => par \in U)
    <3>1. i \in Nat \ {0} /\ i > 1 /\ i <= n
      OBVIOUS
    <3>2. par \in Nat /\ par >= 1 /\ par < i
      BY <3>1, HalfFacts
    <3>3. ASSUME i \in U PROVE par \in U
      BY <1>1, <3>1, <3>3 DEF Halved
    <3> QED
      BY <3>1, <3>2, <3>3
  <2> HIDE DEF par
  <2>4. CASE i = pos
    <3>1. g[i] = e /\ g[par] = h[par]
      BY <1>3, <1>5, <1>7, <2>3, <2>4
    <3> QED
      BY <1>2, <2>4, <3>1 DEF par
  <2>5. CASE i \in U /\ i > pos
    <3>1. g[i] = h[par] /\ par \in U /\ par >= pos
      BY <1>4, <1>6, <2>5 DEF par
    <3>2. CASE par = pos
      <4>1. h[pos].time > e.time
        BY <1>2, <1>3, <2>3, <3>2
      <4> QED
        BY <1>5, <2>1, <2>2, <2>3, <3>1, <3>2, <4>1 DEF par
    <3>3. CASE par > pos
      <4>1. g[par] = h[par \div 2] /\ par \in 2..(n - 1)
        BY <1>3, <1>6, <2>3, <3>1, <3>3
      <4> QED
        BY <2>0, <3>1, <4>1 DEF par
    <3> QED
      BY <1>3, <2>3, <3>1, <3>2, <3>3
  <2>6. CASE i # pos /\ ~(i \in U /\ i > pos)
    <3>1. g[i] = h[i] /\ i \in 2..(n - 1) /\ h[par].time <= h[i].time
      BY <1>7, <2>0, <2>6 DEF par
    <3>2. CASE par = pos
      <4>1. h[pos].time > e.time
        BY <1>2, <1>3, <2>3, <3>2
      <4> QED
        BY <1>5, <2>1, <2>2, <2>3, <3>1, <3>2, <4>1 DEF par
    <3>3. CASE par \in U /\ par > pos
      <4>1. g[par] = h[par \div 2] /\ par \in 2..(n - 1) /\ par \div 2 \in 1..(n - 1)
        BY <1>3, <1>4, <1>6, <2>3, <3>3
      <4>2. h[par \div 2].time <= h[par].time
        BY <2>0, <4>1
      <4> QED
        BY <2>1, <2>3, <3>1, <4>1, <4>2 DEF par
    <3>4. CASE par # pos /\ ~(par \in U /\ par > pos)
      BY <1>7, <2>3, <3>1, <3>4 DEF par
    <3> QED
      BY <3>2, <3>3, <3>4
  <2> QED
    BY <1>3, <2>4, <2>5, <2>6
<1> QED
  BY <1>9, <1>10, <1>11, <1>12

(***************************************************************************)
(* The heap: remove_event.                                                 *)
(***************************************************************************)
\* The smaller child is a child, and fires no later than the other one.
LEMMA ChildFacts ==
    ASSUME NEW h \in Seq(Event), NEW n \in Nat, n <= Len(h), NEW p \in Nat \ {0},
           NEW c, c = SmallerChild(h, n, p)
    PROVE  /\ c \in Nat \ {0} /\ c > p /\ c > 1 /\ c \div 2 = p
           /\ \A i \in 2..n : i \div 2 = p => c <= n /\ h[c].time <= h[i].time
<1>1. c \in {2 * p, 2 * p + 1}
  BY DEF SmallerChild
<1>2. c \in Nat \ {0} /\ c > p /\ c > 1 /\ c \div 2 = p
  BY <1>1
<1>3. ASSUME NEW i \in 2..n, i \div 2 = p PROVE c <= n /\ h[c].time <= h[i].time
  <2>1. i \in {2 * p, 2 * p + 1} /\ 2 * p <= n
    BY <1>3, HalfFacts
  <2>2. \A k \in 1..n : h[k].time \in Nat
    BY EventFacts
  <2>3. CASE 2 * p + 1 <= n
    <3>1. h[2 * p].time \in Nat /\ h[2 * p + 1].time \in Nat
      BY <2>1, <2>2, <2>3
    <3> QED
      BY <2>1, <2>3, <3>1 DEF SmallerChild
  <2>4. CASE 2 * p + 1 > n
    <3>1. i = 2 * p /\ c = 2 * p /\ h[i].time \in Nat
      BY <2>1, <2>2, <2>4 DEF SmallerChild
    <3> QED
      BY <2>1, <3>1
  <2> QED
    BY <2>1, <2>3, <2>4
<1> QED
  BY <1>2, <1>3

\* The way down from the top: always to the smaller child.
WayDown(h, n) == {p \in 1..n : \A q \in Upwards(p) \ {1} : q = SmallerChild(h, n, q \div 2)}

\* The way up from a position is the position and the way up from its half.
LEMMA UpwardsHalf ==
    ASSUME NEW m \in Nat, m > 1
    PROVE  Upwards(m) = {m} \cup Upwards(m \div 2)
<1> DEFINE z == m \div 2
<1>1. z \in Nat \ {0} /\ z < m
  BY HalfFacts
<1>2. Upwards(m) \subseteq {m} \cup Upwards(z)
  <2>1. z \in Upwards(z) /\ Halved(Upwards(z))
    BY <1>1, UpwardsFacts
  <2> DEFINE S == {m} \cup Upwards(z)
  <2>2. Halved(S)
    BY <2>1 DEF Halved
  <2> HIDE DEF S
  <2>3. m \in S
    BY DEF S
  <2>4. Upwards(m) \subseteq S
    BY <2>2, <2>3, UpwardsLeast
  <2> QED
    BY <2>4 DEF S
<1>3. {m} \cup Upwards(z) \subseteq Upwards(m)
  <2>1. m \in Upwards(m) /\ Halved(Upwards(m))
    BY UpwardsFacts
  <2>2. z \in Upwards(m)
    BY <2>1 DEF Halved
  <2>3. Upwards(z) \subseteq Upwards(m)
    BY <1>1, <2>1, <2>2, UpwardsLeast
  <2> QED
    BY <2>1, <2>3
<1> QED
  BY <1>2, <1>3

\* The way down begins at the top, goes on to the smaller child while there is
\* one, and has no branches.
LEMMA WayDownFacts ==
    ASSUME NEW h \in Seq(Event), NEW n \in Nat \ {0}, n <= Len(h), NEW W, W = WayDown(h, n)
    PROVE  /\ W \subseteq 1..n /\ 1 \in W
           /\ \A p \in W : p > 1 => p \div 2 \in W /\ p = SmallerChild(h, n, p \div 2)
           /\ \A p \in W : SmallerChild(h, n, p) <= n => SmallerChild(h, n, p) \in W
           /\ \A p, q \in W : p < q => p <= q \div 2
<1>1. W \subseteq 1..n
  BY DEF WayDown
<1>2. 1 \in W
  <2>1. Upwards(1) \subseteq 1..1
    BY UpwardsFacts
  <2> QED
    BY <2>1 DEF WayDown
<1>3. ASSUME NEW p \in W, p > 1 PROVE p \div 2 \in W /\ p = SmallerChild(h, n, p \div 2)
  <2>1. p \in Nat /\ p \in 1..n
    BY <1>1
  <2>2. p \div 2 \in 1..n
    BY <1>3, <2>1, HalfFacts
  <2>3. Upwards(p) = {p} \cup Upwards(p \div 2)
    BY <1>3, <2>1, UpwardsHalf
  <2>4. \A q \in Upwards(p) \ {1} : q = SmallerChild(h, n, q \div 2)
    BY DEF WayDown
  <2>5. p \div 2 \in W
    BY <2>2, <2>3, <2>4 DEF WayDown
  <2>6. p = SmallerChild(h, n, p \div 2)
    BY <1>3, <2>3, <2>4
  <2> QED
    BY <2>5, <2>6
<1>4. ASSUME NEW p \in W, SmallerChild(h, n, p) <= n PROVE SmallerChild(h, n, p) \in W
  <2>1. p \in Nat \ {0}
    BY <1>1
  <2>2. PICK c : c = SmallerChild(h, n, p)
    OBVIOUS
  <2>3. c \in Nat \ {0} /\ c > 1 /\ c \div 2 = p /\ c <= n
    BY <1>4, <2>1, <2>2, ChildFacts
  <2>4. Upwards(c) = {c} \cup Upwards(p)
    BY <2>3, UpwardsHalf
  <2>5. \A q \in Upwards(p) \ {1} : q = SmallerChild(h, n, q \div 2)
    BY DEF WayDown
  <2>6. \A q \in Upwards(c) \ {1} : q = SmallerChild(h, n, q \div 2)
    BY <2>2, <2>3, <2>4, <2>5
  <2>7. c \in W
    BY <2>3, <2>6 DEF WayDown
  <2> QED
    BY <2>2, <2>7
<1>5. ASSUME NEW p \in W, NEW q \in W, p < q PROVE p <= q \div 2
  <2> DEFINE T == {y \in W : \E x \in W : x < y /\ ~(x <= y \div 2)}
  <2> SUFFICES ASSUME T # {} PROVE FALSE
    BY <1>5
  <2>1. T \subseteq Nat
    BY <1>1
  <2>2. PICK y \in T : \A z \in T : y <= z
    <3> HIDE DEF T
    <3> QED
      BY <2>1, FirstExists
  <2>3. PICK x \in W : x < y /\ ~(x <= y \div 2)
    BY <2>2
  <2>4. y \in W /\ y \in Nat \ {0} /\ x \in Nat \ {0}
    BY <1>1, <2>2
  <2>5. y > 1 /\ x > 1
    BY <2>3, <2>4, HalfFacts
  <2>6. /\ x \div 2 \in W /\ x = SmallerChild(h, n, x \div 2)
        /\ y \div 2 \in W /\ y = SmallerChild(h, n, y \div 2)
    BY <1>3, <2>4, <2>5
  <2>7. x \div 2 <= y \div 2
    BY <2>3, <2>4, HalfMonotone
  <2>8. x \div 2 # y \div 2
    BY <2>3, <2>4, <2>6
  <2>9. y \div 2 < x /\ ~(y \div 2 <= x \div 2)
    BY <2>3, <2>4, <2>7, <2>8, HalfFacts
  <2>10. x \in T
    BY <2>6, <2>9
  <2> QED
    BY <2>2, <2>3, <2>4, <2>10
<1> QED
  BY <1>1, <1>2, <1>3, <1>4, <1>5

\* A set of positions that is not empty has a last one.
LEMMA LastExists ==
    ASSUME NEW n \in Nat, NEW T, T \subseteq 1..n, T # {}
    PROVE  \E i \in T : \A j \in T : i >= j
<1> DEFINE S == {n - i : i \in T}
<1>1. S \subseteq Nat /\ S # {}
  <2>1. PICK i : i \in T
    OBVIOUS
  <2>2. n - i \in S
    BY <2>1
  <2>3. ASSUME NEW j \in T PROVE n - j \in Nat
    BY <2>3
  <2> QED
    BY <2>2, <2>3
<1>2. PICK k \in S : \A j \in S : k <= j
  <2> HIDE DEF S
  <2> QED
    BY <1>1, FirstExists
<1>3. PICK i \in T : k = n - i
  OBVIOUS
<1>4. ASSUME NEW j \in T PROVE i >= j
  <2>1. n - j \in S
    OBVIOUS
  <2> QED
    BY <1>2, <1>3, <2>1
<1> QED
  BY <1>4

\* The position that RemoveEvent gives the bottom event: everything it passes
\* fires before it, and the smaller child below does not.
LEMMA RemovePosition ==
    ASSUME NEW h \in Seq(Event), NEW n \in Nat \ {0}, Len(h) = n + 1, NEW W, W = WayDown(h, n)
    PROVE  \E pos \in W :
             /\ pos > 1 => h[pos].time < h[n + 1].time
             /\ SmallerChild(h, n, pos) <= n =>
                  h[n + 1].time <= h[SmallerChild(h, n, pos)].time
             /\ RemoveEvent(h) = [i \in 1..n |->
                  IF i = pos THEN h[n + 1]
                  ELSE IF i \in W /\ i < pos THEN h[SmallerChild(h, n, i)] ELSE h[i]]
<1> DEFINE S == {p \in W : \A q \in W : 1 < q /\ q <= p => h[q].time < h[n + 1].time}
<1>1. /\ W \subseteq 1..n /\ 1 \in W
      /\ \A p \in W : SmallerChild(h, n, p) <= n => SmallerChild(h, n, p) \in W
      /\ \A p, q \in W : p < q => p <= q \div 2
  BY WayDownFacts
<1>2. 1 \in S /\ S \subseteq 1..n
  BY <1>1
<1>3. PICK pos : pos = Max(S)
  OBVIOUS
<1>4. pos \in S /\ \A p \in S : pos >= p
  <2> HIDE DEF S
  <2>1. \E i \in S : \A j \in S : i >= j
    BY <1>2, LastExists
  <2> QED
    BY <1>3, <2>1 DEF Max
<1>5. RemoveEvent(h) = [i \in 1..n |->
         IF i = pos THEN h[n + 1]
         ELSE IF i \in W /\ i < pos THEN h[SmallerChild(h, n, i)] ELSE h[i]]
  BY <1>3 DEF RemoveEvent, WayDown
<1>6. pos \in W /\ pos \in 1..n
  BY <1>2, <1>4
<1>7. pos > 1 => h[pos].time < h[n + 1].time
  BY <1>4, <1>6
<1>8. ASSUME SmallerChild(h, n, pos) <= n
      PROVE  h[n + 1].time <= h[SmallerChild(h, n, pos)].time
  <2>1. PICK c : c = SmallerChild(h, n, pos)
    OBVIOUS
  <2>2. c \in Nat \ {0} /\ c > pos /\ c \div 2 = pos
    <3>1. n <= Len(h) /\ n \in Nat /\ pos \in Nat \ {0}
      BY <1>6
    <3> QED
      BY <2>1, <3>1, ChildFacts
  <2>3. c \in W
    BY <1>1, <1>6, <1>8, <2>1
  <2>4. c \notin S
    BY <1>4, <1>6, <2>2
  <2>5. PICK q \in W : 1 < q /\ q <= c /\ ~(h[q].time < h[n + 1].time)
    BY <2>3, <2>4
  <2>6. q > pos
    BY <1>1, <1>4, <1>6, <2>5
  <2>7. q = c
    BY <1>1, <1>6, <2>2, <2>3, <2>5, <2>6
  <2>8. h[c].time \in Nat /\ h[n + 1].time \in Nat
    <3>1. c \in 1..Len(h) /\ n + 1 \in 1..Len(h)
      BY <1>1, <2>3
    <3> QED
      BY <3>1, EventFacts
  <2> QED
    BY <2>1, <2>5, <2>7, <2>8
<1> QED
  BY <1>5, <1>6, <1>7, <1>8

\* Below a position on the way that the bottom event passes, the way goes on.
LEMMA WayGoesOn ==
    ASSUME NEW h \in Seq(Event), NEW n \in Nat \ {0}, n <= Len(h), NEW W, W = WayDown(h, n),
           NEW p \in W, NEW q \in W, p < q
    PROVE  /\ SmallerChild(h, n, p) \in W /\ SmallerChild(h, n, p) <= q
           /\ SmallerChild(h, n, p) \div 2 = p /\ SmallerChild(h, n, p) > p
<1>1. /\ W \subseteq 1..n
      /\ \A x \in W : x > 1 => x \div 2 \in W /\ x = SmallerChild(h, n, x \div 2)
      /\ \A x, y \in W : x < y => x <= y \div 2
  BY WayDownFacts
<1> DEFINE S == {x \in W : x > p}
<1>2. S \subseteq Nat /\ q \in S
  BY <1>1
<1>3. PICK y \in S : \A x \in S : y <= x
  <2> HIDE DEF S
  <2> QED
    BY <1>2, FirstExists
<1>4. y \in W /\ y \in Nat \ {0} /\ y > p /\ y > 1 /\ p \in Nat \ {0}
  BY <1>1, <1>3
<1>5. y \div 2 \in W /\ y = SmallerChild(h, n, y \div 2) /\ p <= y \div 2 /\ y \div 2 < y
  BY <1>1, <1>4, HalfFacts
<1>6. y \div 2 = p
  BY <1>1, <1>3, <1>4, <1>5
<1> QED
  BY <1>2, <1>3, <1>4, <1>5, <1>6

\* remove_event takes the event at the top and keeps the heap in order.
LEMMA RemoveFacts ==
    ASSUME NEW h \in Seq(Event), h # <<>>, NEW g, g = RemoveEvent(h)
    PROVE  /\ g \in Seq(Event)
           /\ Sorted(h) => Sorted(g)
           /\ JobsOnce(h) => JobsOnce(g) /\ ToSet(g) = ToSet(h) \ {h[1]}
<1>0. PICK n \in Nat : Len(h) = n + 1
  <2>1. Len(h) \in Nat \ {0}
    OBVIOUS
  <2>2. Len(h) - 1 \in Nat /\ Len(h) = (Len(h) - 1) + 1
    BY <2>1
  <2> QED
    BY <2>2
<1>a. CASE n = 0
  <2>1. g = <<>> /\ ToSet(h) = {h[1]}
    BY <1>0, <1>a DEF RemoveEvent, ToSet
  <2>2. ToSet(g) = {} /\ Len(g) = 0 /\ g \in Seq(Event)
    BY <2>1 DEF ToSet
  <2> QED
    BY <2>1, <2>2 DEF Sorted, JobsOnce
<1> SUFFICES ASSUME n \in Nat \ {0} PROVE g \in Seq(Event) /\ (Sorted(h) => Sorted(g))
           /\ (JobsOnce(h) => JobsOnce(g) /\ ToSet(g) = ToSet(h) \ {h[1]})
  BY <1>a
<1> DEFINE SC(p) == SmallerChild(h, n, p)
           last == h[n + 1]
<1>1. PICK W : W = WayDown(h, n)
  OBVIOUS
<1>2. /\ W \subseteq 1..n /\ 1 \in W
      /\ \A p \in W : p > 1 => p \div 2 \in W /\ p = SC(p \div 2)
  BY <1>0, <1>1, WayDownFacts
<1>3. PICK pos \in W :
        /\ pos > 1 => h[pos].time < last.time
        /\ SC(pos) <= n => last.time <= h[SC(pos)].time
        /\ g = [i \in 1..n |-> IF i = pos THEN last
                               ELSE IF i \in W /\ i < pos THEN h[SC(i)] ELSE h[i]]
  BY <1>0, <1>1, RemovePosition
<1>4. pos \in 1..n
  BY <1>2, <1>3
<1>5. ASSUME NEW i \in W, i < pos
      PROVE  SC(i) \in W /\ SC(i) \in 2..n /\ SC(i) <= pos /\ SC(i) \div 2 = i /\ SC(i) > i
  <2>1. SC(i) \in W /\ SC(i) <= pos /\ SC(i) \div 2 = i /\ SC(i) > i
    BY <1>0, <1>1, <1>3, <1>5, WayGoesOn
  <2> HIDE DEF SC
  <2>2. i \in 1..n /\ SC(i) \in 1..n
    BY <1>2, <2>1
  <2> QED
    BY <2>1, <2>2
\* What is where in g.
<1>6. DOMAIN g = 1..n /\ g[pos] = last
  BY <1>3, <1>4
<1>7. ASSUME NEW i \in W, i < pos PROVE g[i] = h[SC(i)]
  BY <1>2, <1>3, <1>4, <1>7
<1>8. ASSUME NEW i \in 1..n, i # pos, ~(i \in W /\ i < pos) PROVE g[i] = h[i] /\ i # 1
  BY <1>2, <1>3, <1>4, <1>8
<1>9. ASSUME NEW k \in 1..(n + 1) PROVE h[k] \in Event /\ h[k].time \in Nat /\ h[k] \in ToSet(h)
  BY <1>0, EventFacts DEF ToSet
<1> HIDE DEF SC, last
<1>10. ASSUME NEW i \in 1..n
       PROVE  /\ g[i] \in Event
              /\ \E k \in 2..(n + 1) : g[i] = h[k] /\ (i # pos => k <= n)
                                       /\ (k = n + 1 => i = pos)
                                       /\ (k <= n /\ ~(i \in W /\ i < pos) => k = i)
                                       /\ (i \in W /\ i < pos => k = SC(i))
  <2>1. CASE i = pos
    BY <1>6, <1>9, <2>1 DEF last
  <2>2. CASE i \in W /\ i < pos
    BY <1>4, <1>5, <1>7, <1>9, <2>2
  <2>3. CASE i # pos /\ ~(i \in W /\ i < pos)
    BY <1>8, <1>9, <2>3
  <2> QED
    BY <2>1, <2>2, <2>3
<1>11. g \in Seq(Event) /\ Len(g) = n
  <2>1. g = [i \in 1..n |-> g[i]]
    BY <1>3
  <2>2. g \in [1..n -> Event]
    BY <1>10, <2>1
  <2> QED
    BY <2>2
<1>12. ASSUME JobsOnce(h) PROVE JobsOnce(g)
  <2>2. ASSUME NEW j \in 1..(n + 1), NEW k \in 1..(n + 1), h[j].job = h[k].job PROVE j = k
    BY <1>0, <1>12, <2>2 DEF JobsOnce
  <2> SUFFICES ASSUME NEW i \in 1..n, NEW j \in 1..n, i < j, g[i].job = g[j].job PROVE FALSE
    BY <1>11 DEF JobsOnce
  <2>3. PICK a \in 2..(n + 1) : g[i] = h[a] /\ (i # pos => a <= n) /\ (a = n + 1 => i = pos)
                                 /\ (a <= n /\ ~(i \in W /\ i < pos) => a = i)
                                 /\ (i \in W /\ i < pos => a = SC(i))
    BY <1>10
  <2>4. PICK b \in 2..(n + 1) : g[j] = h[b] /\ (j # pos => b <= n) /\ (b = n + 1 => j = pos)
                                 /\ (b <= n /\ ~(j \in W /\ j < pos) => b = j)
                                 /\ (j \in W /\ j < pos => b = SC(j))
    BY <1>10
  <2>5. a = b
    BY <2>2, <2>3, <2>4
  <2>6. a <= n
    BY <1>4, <2>3, <2>4, <2>5
  <2>7. CASE i \in W /\ i < pos
    <3>1. SC(i) \in W /\ SC(i) <= pos /\ SC(i) \div 2 = i /\ a = SC(i)
      BY <1>5, <2>3, <2>7
    <3>2. CASE j \in W /\ j < pos
      <4>1. SC(j) \div 2 = j /\ b = SC(j)
        BY <1>5, <2>4, <3>2
      <4>2. i = a \div 2 /\ j = b \div 2
        BY <3>1, <4>1
      <4>3. i = j
        BY <2>5, <4>2
      <4> QED
        BY <4>3
    <3>3. CASE ~(j \in W /\ j < pos)
      <4>1. b = j /\ j \in W /\ j = pos
        BY <1>4, <2>4, <2>5, <2>6, <3>1, <3>3
      <4> QED
        BY <1>6, <1>4, <2>2, <2>5, <2>6, <2>4, <4>1 DEF last
    <3> QED
      BY <3>2, <3>3
  <2>8. CASE ~(i \in W /\ i < pos)
    <3>1. a = i
      BY <2>3, <2>6, <2>8
    <3>2. CASE j \in W /\ j < pos
      <4>1. b > j
        BY <1>5, <2>4, <3>2
      <4> QED
        BY <2>5, <3>1, <4>1
    <3>3. CASE ~(j \in W /\ j < pos)
      BY <2>4, <2>5, <2>6, <3>1, <3>3
    <3> QED
      BY <3>2, <3>3
  <2> QED
    BY <2>7, <2>8
<1>13. ASSUME JobsOnce(h) PROVE ToSet(g) = ToSet(h) \ {h[1]}
  <2>1. ASSUME NEW k \in 2..(n + 1) PROVE h[k] # h[1]
    BY <1>0, <1>13, <2>1 DEF JobsOnce
  <2>2. ASSUME NEW i \in 1..n PROVE g[i] \in ToSet(h) \ {h[1]}
    BY <1>9, <1>10, <2>1
  <2>3. ASSUME NEW k \in 2..(n + 1) PROVE \E i \in 1..n : g[i] = h[k]
    <3>1. CASE k = n + 1
      BY <1>4, <1>6, <3>1 DEF last
    <3>2. CASE k <= n /\ k \in W /\ k <= pos
      <4>1. k \div 2 \in W /\ k = SC(k \div 2) /\ k \div 2 < k
        BY <1>2, <3>2, HalfFacts
      <4>2. k \div 2 \in 1..n /\ k \div 2 < pos
        BY <1>2, <1>4, <3>2, <4>1
      <4>3. g[k \div 2] = h[k]
        BY <1>7, <4>1, <4>2
      <4> QED
        BY <4>2, <4>3
    <3>3. CASE k <= n /\ ~(k \in W /\ k <= pos)
      <4>1. k \in 1..n /\ k # pos /\ ~(k \in W /\ k < pos)
        BY <1>3, <1>4, <3>3
      <4> QED
        BY <1>8, <4>1
    <3> QED
      BY <3>1, <3>2, <3>3
  <2>4. ToSet(g) = {g[i] : i \in 1..n}
    BY <1>6 DEF ToSet
  <2>5. ToSet(h) \ {h[1]} \subseteq {h[k] : k \in 2..(n + 1)}
    BY <1>0 DEF ToSet
  <2> QED
    BY <2>2, <2>3, <2>4, <2>5
<1>14. ASSUME Sorted(h) PROVE Sorted(g)
  <2>0. ASSUME NEW i \in 2..(n + 1) PROVE h[i \div 2].time <= h[i].time
    BY <1>0, <1>14 DEF Sorted
  <2> SUFFICES ASSUME NEW i \in 2..n PROVE g[i \div 2].time <= g[i].time
    BY <1>11 DEF Sorted
  <2> DEFINE par == i \div 2
  <2>1. par \in 1..n /\ par < i /\ i \in 1..n /\ (i \in W => par \in W)
    BY <1>2, HalfFacts
  <2>2. \A p \in 1..n : /\ SC(p) \in Nat
                        /\ \A k \in 2..n : k \div 2 = p => SC(p) <= n /\ h[SC(p)].time <= h[k].time
    <3> SUFFICES ASSUME NEW p \in 1..n
                 PROVE /\ SC(p) \in Nat
                       /\ \A k \in 2..n : k \div 2 = p => SC(p) <= n /\ h[SC(p)].time <= h[k].time
      OBVIOUS
    <3>1. n \in Nat /\ n <= Len(h) /\ p \in Nat \ {0}
      BY <1>0
    <3> QED
      BY <3>1, ChildFacts DEF SC
  <2>3. last.time \in Nat
    BY <1>9 DEF last
  <2> HIDE DEF par
  <2>4. CASE i = pos
    <3>1. g[i] = last /\ h[i].time < last.time /\ h[i].time \in Nat
      BY <1>3, <1>6, <1>9, <2>4 
    <3>2. g[par] = h[SC(par)] /\ SC(par) = i
      BY <1>2, <1>3, <1>7, <2>1, <2>4 DEF par
    <3> QED
      BY <2>3, <3>1, <3>2 DEF par
  <2>5. CASE i \in W /\ i < pos
    <3>1. g[i] = h[SC(i)] /\ SC(i) \in 2..n /\ SC(i) \div 2 = i
      BY <1>5, <1>7, <2>5
    <3>2. g[par] = h[SC(par)] /\ SC(par) = i
      <4>1. par \in W /\ par < pos
        BY <1>4, <2>1, <2>5
      <4> QED
        BY <1>2, <1>7, <2>5, <4>1 DEF par
    <3> QED
      BY <2>0, <3>1, <3>2 DEF par
  <2>6. CASE i # pos /\ ~(i \in W /\ i < pos)
    <3>1. g[i] = h[i] /\ h[par].time <= h[i].time /\ h[i].time \in Nat
      BY <1>8, <1>9, <2>0, <2>1, <2>6 DEF par
    <3>2. SC(par) \in Nat /\ SC(par) <= n /\ h[SC(par)].time <= h[i].time
      BY <2>1, <2>2 DEF par
    <3>3. CASE par = pos
      <4>1. g[par] = last /\ last.time <= h[SC(par)].time
        BY <1>3, <1>6, <3>2, <3>3
      <4>2. SC(par) \in 1..n
        <5>0. n \in Nat /\ n <= Len(h) /\ par \in Nat \ {0}
          BY <1>0, <2>1
        <5>1. SC(par) > par
          BY <5>0, ChildFacts DEF SC
        <5> QED
          BY <2>1, <3>2, <5>1
      <4>3. h[SC(par)].time \in Nat
        BY <1>9, <4>2
      <4> QED
        BY <2>3, <3>1, <3>2, <4>1, <4>3 DEF par
    <3>4. CASE par \in W /\ par < pos
      BY <1>7, <3>1, <3>2, <3>4 DEF par
    <3>5. CASE par # pos /\ ~(par \in W /\ par < pos)
      BY <1>8, <2>1, <3>1, <3>5 DEF par
    <3> QED
      BY <3>3, <3>4, <3>5
  <2> QED
    BY <1>4, <2>1, <2>4, <2>5, <2>6
<1> QED
  BY <1>11, <1>12, <1>13, <1>14

\* The event at the top fires first.
LEMMA TopFirst ==
    ASSUME NEW h \in Seq(Event), Sorted(h)
    PROVE  \A i \in 1..Len(h) : h[1].time <= h[i].time
<1> DEFINE T == {i \in 1..Len(h) : ~(h[1].time <= h[i].time)}
<1> SUFFICES ASSUME T # {} PROVE FALSE
  OBVIOUS
<1>1. T \subseteq Nat
  OBVIOUS
<1>2. PICK i \in T : \A j \in T : i <= j
  <2> HIDE DEF T
  <2> QED
    BY <1>1, FirstExists
<1>3. \A k \in 1..Len(h) : h[k].time \in Nat
  BY EventFacts
<1>4. i \in 1..Len(h) /\ i > 1 /\ i \in Nat \ {0}
  BY <1>2, <1>3
<1>5. i \div 2 \in 1..Len(h) /\ i \div 2 < i /\ i \in 2..Len(h)
  BY <1>4, HalfFacts
<1>6. h[i \div 2].time <= h[i].time
  BY <1>5 DEF Sorted
<1>7. h[1].time <= h[i \div 2].time
  BY <1>2, <1>4, <1>5
<1>8. h[1].time \in Nat /\ h[i].time \in Nat /\ h[i \div 2].time \in Nat
  BY <1>3, <1>4, <1>5
<1>9. ~(h[1].time <= h[i].time)
  BY <1>2
<1> QED
  BY <1>6, <1>7, <1>8, <1>9

(***************************************************************************)
(* Sums over priorities, which are counts of pairs.                        *)
(***************************************************************************)
Pairs(S, f) == UNION {{p} \X (1..f[p]) : p \in S}

LEMMA SumIsCount ==
    ASSUME NEW S, NEW f
    PROVE  SumOver(S, f) = Cardinality(Pairs(S, f))
  BY DEF SumOver, Pairs


LEMMA PairsMember ==
    ASSUME NEW S, NEW f
    PROVE  /\ \A x \in Pairs(S, f) : x = <<x[1], x[2]>> /\ x[1] \in S /\ x[2] \in 1..f[x[1]]
           /\ \A p \in S : \A i \in 1..f[p] : <<p, i>> \in Pairs(S, f)
<1>1. ASSUME NEW x \in Pairs(S, f)
      PROVE  x = <<x[1], x[2]>> /\ x[1] \in S /\ x[2] \in 1..f[x[1]]
  <2>1. PICK p \in S : x \in {p} \X (1..f[p])
    BY DEF Pairs
  <2> QED
    BY <2>1
<1>2. ASSUME NEW p \in S, NEW i \in 1..f[p] PROVE <<p, i>> \in Pairs(S, f)
  <2>1. <<p, i>> \in {p} \X (1..f[p])
    OBVIOUS
  <2> QED
    BY <2>1 DEF Pairs
<1> QED
  BY <1>1, <1>2

LEMMA PairsFinite ==
    ASSUME NEW S, IsFiniteSet(S), NEW f, \A p \in S : f[p] \in Int
    PROVE  IsFiniteSet(Pairs(S, f)) /\ SumOver(S, f) = Cardinality(Pairs(S, f)) /\ SumOver(S, f) \in Nat
<1> DEFINE R == {{p} \X (1..f[p]) : p \in S}
           F == [p \in S |-> {p} \X (1..f[p])]
<1>1. IsFiniteSet(R)
  <2>1. F \in Surjection(S, R)
    BY DEF Surjection
  <2> HIDE DEF F, R
  <2> QED
    BY <2>1, FS_Surjection
<1>2. ASSUME NEW T \in R PROVE IsFiniteSet(T)
  <2>1. PICK p \in S : T = {p} \X (1..f[p])
    OBVIOUS
  <2>2. IsFiniteSet({p})
    BY FS_Singleton
  <2>3. IsFiniteSet(1..f[p])
    <3>1. f[p] \in Int /\ 1 \in Int
      OBVIOUS
    <3> QED
      BY <3>1, FS_Interval
  <2> QED
    BY <2>1, <2>2, <2>3, FS_Product
<1>3. Pairs(S, f) = UNION R
  BY DEF Pairs
<1>4. IsFiniteSet(Pairs(S, f))
  <2> HIDE DEF R
  <2> QED
    BY <1>1, <1>2, <1>3, FS_UNION
<1> QED
  BY <1>4, SumIsCount, FS_CardinalityType

\* One term of the sum grows by one.
LEMMA SumGain ==
    ASSUME NEW S, IsFiniteSet(S), NEW f, NEW g, NEW x \in S,
           \A p \in S : f[p] \in Nat, g[x] = f[x] + 1, \A p \in S \ {x} : g[p] = f[p]
    PROVE  SumOver(S, g) = SumOver(S, f) + 1
<1>1. IsFiniteSet(Pairs(S, f)) /\ f[x] \in Nat
  BY PairsFinite
<1> DEFINE new == <<x, f[x] + 1>>
<1>2. new \notin Pairs(S, f)
  <2> SUFFICES ASSUME new \in Pairs(S, f) PROVE FALSE
    OBVIOUS
  <2>1. new[2] \in 1..f[new[1]] /\ new[1] = x /\ new[2] = f[x] + 1
    BY PairsMember
  <2> QED
    BY <1>1, <2>1
<1>3. Pairs(S, g) \subseteq Pairs(S, f) \cup {new}
  <2> SUFFICES ASSUME NEW y \in Pairs(S, g) PROVE y \in Pairs(S, f) \cup {new}
    OBVIOUS
  <2>1. PICK p, i : p \in S /\ y = <<p, i>> /\ i \in 1..g[p]
    BY PairsMember
  <2>2. i \in 1..f[p] \/ (p = x /\ i = f[x] + 1)
    BY <1>1, <2>1
  <2>3. ASSUME i \in 1..f[p] PROVE y \in Pairs(S, f)
    BY <2>1, <2>3, PairsMember
  <2> QED
    BY <2>1, <2>2, <2>3
<1>4. Pairs(S, f) \cup {new} \subseteq Pairs(S, g)
  <2>1. new \in Pairs(S, g)
    <3>1. f[x] + 1 \in 1..g[x]
      BY <1>1
    <3> QED
      BY <3>1, PairsMember
  <2> SUFFICES ASSUME NEW y \in Pairs(S, f) PROVE y \in Pairs(S, g)
    BY <2>1
  <2>2. PICK p, i : p \in S /\ y = <<p, i>> /\ i \in 1..f[p]
    BY PairsMember
  <2>3. i \in 1..g[p]
    BY <1>1, <2>2
  <2> QED
    BY <2>2, <2>3, PairsMember
<1> HIDE DEF new
<1>5. Pairs(S, g) = Pairs(S, f) \cup {new}
  BY <1>3, <1>4
<1> QED
  BY <1>1, <1>2, <1>5, FS_AddElement, SumIsCount

\* A sum of zeroes.
LEMMA SumZero ==
    ASSUME NEW S, IsFiniteSet(S), NEW f, \A p \in S : f[p] = 0
    PROVE  SumOver(S, f) = 0
<1>1. ASSUME NEW y \in Pairs(S, f) PROVE FALSE
  BY PairsMember
<1>2. Pairs(S, f) = {}
  BY <1>1
<1> QED
  BY <1>2, FS_EmptySet, SumIsCount

\* The terms of two sets that have nothing in common.
LEMMA SumSplit ==
    ASSUME NEW S, NEW T, IsFiniteSet(S), IsFiniteSet(T), S \cap T = {},
           NEW f, \A p \in S \cup T : f[p] \in Int
    PROVE  SumOver(S \cup T, f) = SumOver(S, f) + SumOver(T, f)
<1>1. /\ IsFiniteSet(Pairs(S, f)) /\ SumOver(S, f) = Cardinality(Pairs(S, f)) /\ SumOver(S, f) \in Nat
      /\ IsFiniteSet(Pairs(T, f)) /\ SumOver(T, f) = Cardinality(Pairs(T, f)) /\ SumOver(T, f) \in Nat
  BY PairsFinite
<1>2. Pairs(S, f) \cap Pairs(T, f) = {}
  <2> SUFFICES ASSUME NEW y \in Pairs(S, f), y \in Pairs(T, f) PROVE FALSE
    OBVIOUS
  <2>1. y[1] \in S /\ y[1] \in T
    BY PairsMember
  <2> QED
    BY <2>1
<1>3. Pairs(S \cup T, f) = Pairs(S, f) \cup Pairs(T, f)
  BY DEF Pairs
<1>5. Cardinality(Pairs(S \cup T, f)) = Cardinality(Pairs(S, f)) + Cardinality(Pairs(T, f))
  <2>1. PICK A, B : A = Pairs(S, f) /\ B = Pairs(T, f)
    OBVIOUS
  <2>2. Cardinality(A \cup B) = Cardinality(A) + Cardinality(B) - Cardinality(A \cap B)
    BY <1>1, <2>1, FS_Union
  <2>3. Cardinality(A) \in Nat /\ Cardinality(B) \in Nat
    BY <1>1, <2>1
  <2>4. Cardinality(A \cap B) = 0
    BY <1>2, <2>1, FS_EmptySet
  <2>5. Cardinality(A \cup B) = Cardinality(A) + Cardinality(B)
    BY <2>2, <2>3, <2>4
  <2> QED
    BY <1>3, <2>1, <2>5
<1> QED
  BY <1>1, <1>5, SumIsCount

\* What is reserved is in use or still kept free.
LEMMA ReservedOrWorking ==
    ASSUME NEW p \in Nat \ {0},
           \A k \in 1..(p - 1) : working[k] \in Nat /\ PrioThreads[k] \in Nat
    PROVE  /\ Reserved(p) \in Nat
           /\ SumOver(1..(p - 1), PrioThreads) <= Reserved(p) + SumOver(1..(p - 1), working)
           /\ \A q \in 1..p : Reserved(q) \in Nat /\ Reserved(q) <= Reserved(p)
<1> DEFINE S == 1..(p - 1)
           Kept(q) == UNION {{k} \X ((working[k] + 1)..PrioThreads[k]) : k \in 1..(q - 1)}
<1>1. /\ IsFiniteSet(Pairs(S, PrioThreads)) /\ IsFiniteSet(Pairs(S, working))
      /\ SumOver(S, PrioThreads) = Cardinality(Pairs(S, PrioThreads))
      /\ SumOver(S, working) = Cardinality(Pairs(S, working))
      /\ SumOver(S, PrioThreads) \in Nat /\ SumOver(S, working) \in Nat
  <2>1. IsFiniteSet(S)
    BY FS_Interval
  <2>2. \A k \in S : working[k] \in Int /\ PrioThreads[k] \in Int
    OBVIOUS
  <2> HIDE DEF S
  <2> QED
    BY <2>1, <2>2, PairsFinite
<1>2. Kept(p) \subseteq Pairs(S, PrioThreads)
  <2> SUFFICES ASSUME NEW y \in Kept(p) PROVE y \in Pairs(S, PrioThreads)
    OBVIOUS
  <2>1. PICK k \in S : y \in {k} \X ((working[k] + 1)..PrioThreads[k])
    OBVIOUS
  <2>2. PICK i : y = <<k, i>> /\ i \in (working[k] + 1)..PrioThreads[k]
    BY <2>1
  <2>3. i \in 1..PrioThreads[k]
    BY <2>2
  <2> QED
    BY <2>2, <2>3, PairsMember
<1>3. Pairs(S, PrioThreads) \subseteq Kept(p) \cup Pairs(S, working)
  <2> SUFFICES ASSUME NEW y \in Pairs(S, PrioThreads) PROVE y \in Kept(p) \cup Pairs(S, working)
    OBVIOUS
  <2>1. PICK k, i : k \in S /\ y = <<k, i>> /\ i \in 1..PrioThreads[k]
    BY PairsMember
  <2>2. CASE i <= working[k]
    <3>1. i \in 1..working[k]
      BY <2>1, <2>2
    <3> QED
      BY <2>1, <3>1, PairsMember
  <2>3. CASE i > working[k]
    <3>1. <<k, i>> \in {k} \X ((working[k] + 1)..PrioThreads[k])
      BY <2>1, <2>3
    <3> QED
      BY <2>1, <3>1
  <2> QED
    BY <2>1, <2>2, <2>3
<1>4. \A q \in 1..p : Reserved(q) = Cardinality(Kept(q)) /\ Kept(q) \subseteq Kept(p)
  BY DEF Reserved
<1>5. p \in 1..p
  OBVIOUS
<1> HIDE DEF Kept, S
<1>6. IsFiniteSet(Kept(p))
  BY <1>1, <1>2, FS_Subset
<1>7. \A q \in 1..p : IsFiniteSet(Kept(q)) /\ Cardinality(Kept(q)) <= Cardinality(Kept(p))
  BY <1>4, <1>6, FS_Subset
<1>8. \A q \in 1..p : Reserved(q) \in Nat /\ Reserved(q) <= Reserved(p)
  BY <1>4, <1>5, <1>7, FS_CardinalityType
<1>9. /\ IsFiniteSet(Kept(p) \cup Pairs(S, working))
      /\ Cardinality(Kept(p) \cup Pairs(S, working)) <= Reserved(p) + SumOver(S, working)
  <2>1. IsFiniteSet(Kept(p) \cap Pairs(S, working))
        /\ Cardinality(Kept(p) \cap Pairs(S, working)) \in Nat
    BY <1>6, FS_Intersection, FS_CardinalityType
  <2>2. PICK A, B : A = Kept(p) /\ B = Pairs(S, working)
    OBVIOUS
  <2>3. /\ IsFiniteSet(A \cup B)
        /\ Cardinality(A \cup B) = Cardinality(A) + Cardinality(B) - Cardinality(A \cap B)
    BY <1>1, <1>6, <2>2, FS_Union
  <2>4. Cardinality(A) = Reserved(p) /\ Cardinality(B) = SumOver(S, working)
        /\ Cardinality(A \cap B) \in Nat /\ Reserved(p) \in Nat /\ SumOver(S, working) \in Nat
    BY <1>1, <1>4, <1>5, <1>8, <2>1, <2>2
  <2> QED
    BY <2>2, <2>3, <2>4
<1>10. /\ Cardinality(Pairs(S, PrioThreads)) <= Cardinality(Kept(p) \cup Pairs(S, working))
       /\ Cardinality(Kept(p) \cup Pairs(S, working)) \in Nat
  BY <1>3, <1>9, FS_Subset, FS_CardinalityType
<1>11. SumOver(S, PrioThreads) <= Reserved(p) + SumOver(S, working)
  BY <1>1, <1>5, <1>8, <1>9, <1>10
<1> QED
  BY <1>5, <1>8, <1>11 DEF S

(***************************************************************************)
(* The inductive invariant of the pool.  The counters are right because a  *)
(* thread has a job exactly while it executes, and because the jobs of a   *)
(* queue have its priority: the counter that is raised when a job is taken *)
(* from a queue is the one that is lowered when the job ends.              *)
(***************************************************************************)
States == {"none", "run", "wait", "exec"}
Exec(p) == {t \in Thread : thread[t] = "exec" /\ PrioOf[job[t]] = p}
Busy == {t \in Thread : thread[t] = "exec"}
Alive == {t \in Thread : thread[t] # "none"}

Types ==
    /\ queue \in [Prio -> Seq(Job)]
    /\ status \in [Job -> {"new", "queued", "executing", "canceled", "done"}]
    /\ thread \in [Thread -> States]
    /\ job \in [Thread -> Job \cup {None}]
    /\ working \in [Prio -> Int] /\ total \in Int /\ desired \in Nat
    /\ phase \in {"created", "running", "stopping", "canceling", "waiting", "canceled", "flushed"}
    /\ heap \in Seq(Event) /\ now \in 0..MaxTime
    /\ schedule \in [st : {"run", "wait"}, until : Nat \cup {None}]

QueuedByPrio == \A p \in Prio : \A j \in ToSet(queue[p]) : PrioOf[j] = p
OneJob == \A t \in Thread : thread[t] = "exec" <=> job[t] # None
Started == phase = "created" => \A t \in Thread : thread[t] = "none"
AllOrNone == desired \in {0, Cardinality(Thread)}
BusyCounted == SumOver(Prio, working) = Cardinality(Busy)

IInv ==
    /\ Types /\ QueuedByPrio /\ OneJob /\ Started /\ AllOrNone
    /\ WorkingCounted /\ BusyCounted

\* The priorities are the first numbers.
LEMMA PrioFacts ==
    /\ Len(PrioThreads) \in Nat /\ Prio = 1..Len(PrioThreads) /\ IsFiniteSet(Prio)
    /\ Prio \subseteq Nat \ {0} /\ \A p \in Prio : PrioThreads[p] \in Nat
<1>1. Len(PrioThreads) \in Nat /\ Prio = 1..Len(PrioThreads)
  BY NumberAssumption DEF Prio
<1>2. IsFiniteSet(1..Len(PrioThreads))
  BY <1>1, FS_Interval
<1> QED
  BY <1>1, <1>2, NumberAssumption

LEMMA ThreadsFinite ==
    /\ IsFiniteSet(Thread) /\ Cardinality(Thread) \in Nat
    /\ IsFiniteSet(Busy) /\ IsFiniteSet(Alive) /\ \A p : IsFiniteSet(Exec(p))
    /\ Cardinality(Busy) \in Nat /\ Cardinality(Alive) \in Nat
    /\ Cardinality(Alive) <= Cardinality(Thread)
    /\ \A p : Cardinality(Exec(p)) \in Nat
<1>1. Busy \subseteq Thread /\ Alive \subseteq Thread /\ \A p : Exec(p) \subseteq Thread
  BY DEF Busy, Alive, Exec
<1>2. IsFiniteSet(Thread)
  BY JobAssumption
<1> QED
  BY <1>1, <1>2, FS_Subset, FS_CardinalityType

\* The counters are natural numbers.
LEMMA CountersNat ==
    ASSUME Types, WorkingCounted
    PROVE  total \in Nat /\ working \in [Prio -> Nat] /\ total = Cardinality(Alive)
           /\ \A p \in Prio : working[p] = Cardinality(Exec(p))
<1>1. total = Cardinality(Alive) /\ \A p \in Prio : working[p] = Cardinality(Exec(p))
  BY DEF WorkingCounted, Alive, Exec
<1>2. total \in Nat /\ \A p \in Prio : working[p] \in Nat
  BY <1>1, ThreadsFinite
<1> QED
  BY <1>1, <1>2 DEF Types

\* The same after a step.
LEMMA CountersNatNext == Types' /\ WorkingCounted' => working' \in [Prio -> Nat]
<1> SUFFICES ASSUME Types', WorkingCounted' PROVE working' \in [Prio -> Nat]
  OBVIOUS
<1> DEFINE E(p) == {t \in Thread : thread'[t] = "exec" /\ PrioOf[job'[t]] = p}
<1>1. \A p \in Prio : working'[p] = Cardinality(E(p)) /\ E(p) \subseteq Thread
  BY DEF WorkingCounted
<1> HIDE DEF E
<1>2. \A p \in Prio : working'[p] \in Nat
  BY <1>1, ThreadsFinite, FS_Subset, FS_CardinalityType
<1> QED
  BY <1>2 DEF Types

\* What a step leaves of a thread when it only wakes it, or not even that.
Kept(t) ==
    /\ thread'[t] = "exec" <=> thread[t] = "exec"
    /\ thread'[t] = "none" <=> thread[t] = "none"
    /\ job'[t] = job[t]

LEMMA CountsKept ==
    ASSUME WorkingCounted, BusyCounted, \A t \in Thread : Kept(t),
           working' = working, total' = total
    PROVE  WorkingCounted' /\ BusyCounted'
<1>1. Busy' = Busy
  BY DEF Busy, Kept
<1>2. {t \in Thread : thread[t] # "none"}' = {t \in Thread : thread[t] # "none"}
  BY DEF Kept
<1>3. \A p \in Prio : {t \in Thread : thread[t] = "exec" /\ PrioOf[job[t]] = p}'
                      = {t \in Thread : thread[t] = "exec" /\ PrioOf[job[t]] = p}
  BY DEF Kept
<1> QED
  BY <1>1, <1>2, <1>3 DEF WorkingCounted, BusyCounted

\* A thread that runs gets a job of priority p.
LEMMA CountsRaised ==
    ASSUME Types, WorkingCounted, BusyCounted, NEW t \in Thread, NEW p \in Prio,
           thread[t] = "run", thread'[t] = "exec", PrioOf[job'[t]] = p,
           \A u \in Thread \ {t} : Kept(u), Occupy(p), total' = total
    PROVE  WorkingCounted' /\ BusyCounted'
<1>0. /\ total = Cardinality(Alive) /\ working \in [Prio -> Nat]
      /\ \A q \in Prio : working[q] = Cardinality(Exec(q))
  BY CountersNat
<1>1. Alive' = Alive
  BY DEF Alive, Kept
<1>2. t \notin Busy /\ Busy' = Busy \cup {t}
  BY DEF Busy, Kept
<1>3. t \notin Exec(p) /\ Exec(p)' = Exec(p) \cup {t}
  BY DEF Exec, Kept
<1>4. \A q \in Prio \ {p} : Exec(q)' = Exec(q)
  BY DEF Exec, Kept
<1>5. Cardinality(Busy') = Cardinality(Busy) + 1
  BY <1>2, ThreadsFinite, FS_AddElement
<1>6. Cardinality(Exec(p)') = Cardinality(Exec(p)) + 1
  BY <1>3, ThreadsFinite, FS_AddElement
<1>7. /\ \A q \in Prio : working[q] \in Nat
      /\ working'[p] = working[p] + 1 /\ \A q \in Prio \ {p} : working'[q] = working[q]
  BY <1>0 DEF Occupy
<1>8. SumOver(Prio, working') = SumOver(Prio, working) + 1
  BY <1>7, PrioFacts, SumGain
<1>9. \A q \in Prio : working'[q] = Cardinality(Exec(q)')
  BY <1>0, <1>4, <1>6, <1>7
<1>10. WorkingCounted'
  BY <1>0, <1>1, <1>9 DEF WorkingCounted, Alive, Exec
<1> QED
  BY <1>5, <1>8, <1>10 DEF BusyCounted

\* A thread gives up its job of priority p, and perhaps ends.
LEMMA CountsLowered ==
    ASSUME Types, WorkingCounted, BusyCounted, NEW t \in Thread, NEW p \in Prio,
           thread[t] = "exec", PrioOf[job[t]] = p, thread'[t] \in {"run", "none"},
           \A u \in Thread \ {t} : Kept(u), Release(p),
           total' = IF thread'[t] = "none" THEN total - 1 ELSE total
    PROVE  /\ WorkingCounted' /\ BusyCounted'
           /\ SumOver(Prio, working) = SumOver(Prio, working') + 1
<1>0. /\ total = Cardinality(Alive) /\ working \in [Prio -> Nat]
      /\ \A q \in Prio : working[q] = Cardinality(Exec(q))
  BY CountersNat
<1>1. total' = Cardinality(Alive')
  <2>1. CASE thread'[t] = "none"
    <3>1. t \in Alive /\ Alive' = Alive \ {t}
      BY <2>1 DEF Alive, Kept
    <3>2. Cardinality(Alive') = Cardinality(Alive) - 1
      BY <3>1, ThreadsFinite, FS_RemoveElement
    <3> QED
      BY <1>0, <2>1, <3>2
  <2>2. CASE thread'[t] = "run"
    <3>1. Alive' = Alive
      BY <2>2 DEF Alive, Kept
    <3> QED
      BY <1>0, <2>2, <3>1
  <2> QED
    BY <2>1, <2>2
<1>2. t \in Busy /\ Busy' = Busy \ {t}
  BY DEF Busy, Kept
<1>3. t \in Exec(p) /\ Exec(p)' = Exec(p) \ {t}
  BY DEF Exec, Kept
<1>4. \A q \in Prio \ {p} : Exec(q)' = Exec(q)
  BY DEF Exec, Kept
<1>5. Cardinality(Busy') = Cardinality(Busy) - 1
  BY <1>2, ThreadsFinite, FS_RemoveElement
<1>6. Cardinality(Exec(p)') = Cardinality(Exec(p)) - 1
  BY <1>3, ThreadsFinite, FS_RemoveElement
<1>a. Cardinality(Exec(p)') \in Nat
  BY <1>3, ThreadsFinite, FS_RemoveElement, FS_CardinalityType
<1>7. /\ \A q \in Prio : working[q] \in Nat
      /\ working'[p] = working[p] - 1 /\ \A q \in Prio \ {p} : working'[q] = working[q]
  BY <1>0 DEF Release
<1>9. \A q \in Prio : working'[q] = Cardinality(Exec(q)')
  BY <1>0, <1>4, <1>6, <1>7
<1>b. /\ \A q \in Prio : working'[q] \in Nat
      /\ working[p] = working'[p] + 1 /\ \A q \in Prio \ {p} : working[q] = working'[q]
  BY <1>7, <1>9, <1>a
<1>8. SumOver(Prio, working) = SumOver(Prio, working') + 1 /\ SumOver(Prio, working') \in Nat
  <2>1. PICK f, g : f = working' /\ g = working
    OBVIOUS
  <2>2. /\ \A q \in Prio : f[q] \in Nat /\ f[q] \in Int
        /\ g[p] = f[p] + 1 /\ \A q \in Prio \ {p} : g[q] = f[q]
    BY <1>b, <2>1
  <2>3. SumOver(Prio, g) = SumOver(Prio, f) + 1
    BY <2>2, PrioFacts, SumGain
  <2>4. SumOver(Prio, f) \in Nat
    BY <2>2, PrioFacts, PairsFinite
  <2> QED
    BY <2>1, <2>3, <2>4
<1>10. WorkingCounted'
  BY <1>1, <1>9 DEF WorkingCounted, Alive, Exec
<1> QED
  BY <1>5, <1>8, <1>10, ThreadsFinite DEF BusyCounted

\* A thread without a job ends.
LEMMA CountsExit ==
    ASSUME Types, WorkingCounted, BusyCounted, NEW t \in Thread,
           thread[t] = "run", thread'[t] = "none", job'[t] = job[t],
           \A u \in Thread \ {t} : Kept(u), working' = working, total' = total - 1
    PROVE  WorkingCounted' /\ BusyCounted'
<1>0. /\ total = Cardinality(Alive) /\ \A q \in Prio : working[q] = Cardinality(Exec(q))
  BY CountersNat
<1>1. t \in Alive /\ Alive' = Alive \ {t}
  BY DEF Alive, Kept
<1>2. Busy' = Busy /\ \A q \in Prio : Exec(q)' = Exec(q)
  BY DEF Busy, Exec, Kept
<1>3. Cardinality(Alive') = Cardinality(Alive) - 1
  BY <1>1, ThreadsFinite, FS_RemoveElement
<1>4. WorkingCounted'
  BY <1>0, <1>2, <1>3 DEF WorkingCounted, Alive, Exec
<1> QED
  BY <1>2, <1>4 DEF BusyCounted

(***************************************************************************)
(* What the operations of the pool are built from.                         *)
(***************************************************************************)
\* A signal wakes one waiting thread or none.
LEMMA SignalFacts ==
    ASSUME NEW th \in [Thread -> States], NEW j, NEW new \in Signal(th, j),
           thread \in [Thread -> States], \A t \in Thread : thread[t] = "wait" => th[t] = "wait"
    PROVE  /\ new \in [Thread -> States]
           /\ \A t \in Thread : /\ new[t] = "exec" <=> th[t] = "exec"
                                /\ new[t] = "none" <=> th[t] = "none"
                                /\ th[t] = "run" => new[t] = "run"
<1>1. CASE new = th
  BY <1>1
<1>2. CASE \E u \in Waiting : new = [th EXCEPT ![u] = "run"]
  <2>1. PICK u \in Waiting : new = [th EXCEPT ![u] = "run"]
    BY <1>2
  <2>2. u \in Thread /\ th[u] = "wait"
    BY DEF Waiting
  <2> QED
    BY <2>1, <2>2 DEF States
<1> QED
  BY <1>1, <1>2 DEF Signal

\* The same for all waiting threads.
LEMMA BroadcastFacts ==
    ASSUME thread \in [Thread -> States], thread' = Broadcast
    PROVE  /\ thread' \in [Thread -> States]
           /\ \A t \in Thread : /\ thread'[t] = "exec" <=> thread[t] = "exec"
                                /\ thread'[t] = "none" <=> thread[t] = "none"
  BY DEF Broadcast, States

\* get_job looks for the first queue that is not empty.
LEMMA TopFacts ==
    ASSUME Types, HasJob
    PROVE  TopPrio \in Prio /\ queue[TopPrio] # <<>> /\ queue[TopPrio] \in Seq(Job)
<1> DEFINE S == {p \in Prio : queue[p] # <<>>}
<1>1. S # {} /\ S \subseteq Nat
  BY PrioFacts DEF HasJob
<1>2. \E p \in S : \A q \in S : p <= q
  <2> HIDE DEF S
  <2> QED
    BY <1>1, FirstExists
<1>3. Min(S) \in S
  <2> HIDE DEF S
  <2> QED
    BY <1>2 DEF Min
<1> QED
  BY <1>3 DEF TopPrio, Types

\* execute_job inserts a job at the front.
LEMMA FrontFacts ==
    ASSUME NEW q \in Seq(Job), NEW j \in Job
    PROVE  /\ <<j>> \o q \in Seq(Job)
           /\ ToSet(<<j>> \o q) = ToSet(q) \cup {j}
           /\ Distinct(q) /\ j \notin ToSet(q) => Distinct(<<j>> \o q)
<1> DEFINE g == <<j>> \o q
<1>1. /\ g \in Seq(Job) /\ Len(g) = Len(q) + 1 /\ g[1] = j
      /\ \A i \in 2..Len(g) : g[i] = q[i - 1]
  OBVIOUS
<1> HIDE DEF g
<1>2. Distinct(q) /\ j \notin ToSet(q) => Distinct(g)
  <2> SUFFICES ASSUME Distinct(q), j \notin ToSet(q), NEW a \in 1..Len(g), NEW b \in 1..Len(g),
                      g[a] = g[b]
               PROVE  a = b
    BY DEF Distinct
  <2>1. \A i \in 1..Len(q) : q[i] # j
    BY DEF ToSet
  <2>2. \A i, k \in 1..Len(q) : q[i] = q[k] => i = k
    BY DEF Distinct
  <2>3. \A i \in 2..Len(g) : i - 1 \in 1..Len(q)
    BY <1>1
  <2> QED
    BY <1>1, <2>1, <2>2, <2>3
<1>3. ToSet(g) \subseteq ToSet(q) \cup {j}
  BY <1>1 DEF ToSet
<1>4. ToSet(q) \cup {j} \subseteq ToSet(g)
  <2>1. 1 \in 1..Len(g) /\ \A i \in 1..Len(q) : i + 1 \in 2..Len(g) /\ g[i + 1] = q[i]
    BY <1>1
  <2>2. DOMAIN g = 1..Len(g) /\ DOMAIN q = 1..Len(q)
    BY <1>1
  <2>3. j \in ToSet(g)
    BY <1>1, <2>1, <2>2 DEF ToSet
  <2>4. ASSUME NEW i \in 1..Len(q) PROVE q[i] \in ToSet(g)
    <3>1. i + 1 \in 1..Len(g) /\ g[i + 1] = q[i]
      BY <1>1, <2>1
    <3> QED
      BY <2>2, <3>1 DEF ToSet
  <2> QED
    BY <2>2, <2>3, <2>4 DEF ToSet
<1> QED
  BY <1>1, <1>2, <1>3, <1>4 DEF g

\* One queue changes, and only j may have come to it.
LEMMA QueueChanged ==
    ASSUME Types, QueuedByPrio, NEW p \in Prio, NEW q \in Seq(Job),
           queue' = [queue EXCEPT ![p] = q],
           \A j \in ToSet(q) : j \in ToSet(queue[p]) \/ PrioOf[j] = p
    PROVE  queue' \in [Prio -> Seq(Job)] /\ QueuedByPrio'
<1>1. queue \in [Prio -> Seq(Job)]
  BY DEF Types
<1>2. queue' \in [Prio -> Seq(Job)] /\ queue'[p] = q /\ \A r \in Prio \ {p} : queue'[r] = queue[r]
  BY <1>1
<1>3. ASSUME NEW r \in Prio, NEW j \in ToSet(queue'[r]) PROVE PrioOf[j] = r
  <2>1. CASE r = p
    BY <1>2, <1>3, <2>1 DEF QueuedByPrio
  <2>2. CASE r # p
    BY <1>2, <1>3, <2>2 DEF QueuedByPrio
  <2> QED
    BY <2>1, <2>2
<1>4. QueuedByPrio'
  BY <1>3 DEF QueuedByPrio
<1> QED
  BY <1>2, <1>4

\* A job is put at the end of its queue.
LEMMA QueueAppended ==
    ASSUME Types, QueuedByPrio, NEW j \in Job,
           queue' = [queue EXCEPT ![PrioOf[j]] = Append(@, j)]
    PROVE  queue' \in [Prio -> Seq(Job)] /\ QueuedByPrio'
<1>1. PICK p \in Prio : p = PrioOf[j]
  BY JobAssumption
<1>2. queue[p] \in Seq(Job)
  BY DEF Types
<1>3. PICK q : q = Append(queue[p], j)
  OBVIOUS
<1>4. q \in Seq(Job) /\ ToSet(q) = ToSet(queue[p]) \cup {j} /\ queue' = [queue EXCEPT ![p] = q]
  BY <1>1, <1>2, <1>3, AppendFacts
<1> QED
  BY <1>1, <1>4, QueueChanged

\* An event is added to the heap.
LEMMA EventAdded ==
    ASSUME Types, NEW j \in Job, NEW delay \in Delay, AddEvent(j, delay),
           NEW e, e = [time |-> now + delay, job |-> j]
    PROVE  /\ e \in Event /\ e.time >= now /\ e.job = j
           /\ heap' = InsertEvent(heap, e) /\ heap \in Seq(Event) /\ heap' \in Seq(Event)
           /\ schedule' \in [st : {"run", "wait"}, until : Nat \cup {None}]
           /\ now' = now /\ now \in 0..MaxTime
<1>1. now \in 0..MaxTime /\ now \in Nat /\ delay \in Nat /\ heap \in Seq(Event)
  BY NumberAssumption DEF Types
<1>2. e \in Event /\ e.time >= now /\ e.job = j
  BY <1>1 DEF Event
<1>3. heap' = InsertEvent(heap, e) /\ now' = now
      /\ schedule' \in [st : {"run", "wait"}, until : Nat \cup {None}]
  BY DEF AddEvent
<1>4. heap' \in Seq(Event)
  BY <1>1, <1>2, <1>3, InsertFacts
<1> QED
  BY <1>1, <1>2, <1>3, <1>4

(***************************************************************************)
(* The invariant of the pool.                                              *)
(***************************************************************************)
LEMMA InitIInv == Init => IInv
<1> SUFFICES ASSUME Init PROVE IInv
  OBVIOUS
<1>1. PrioOf[Timer] \in Prio /\ Timer \in Job
  BY JobAssumption
<1>2. Types
  <2>1. queue \in [Prio -> Seq(Job)]
    BY <1>1 DEF Init
  <2>2. heap \in Seq(Event) /\ now \in 0..MaxTime
    BY NumberAssumption DEF Init
  <2>3. thread \in [Thread -> States] /\ job \in [Thread -> Job \cup {None}]
    BY DEF Init, States
  <2>4. schedule \in [st : {"run", "wait"}, until : Nat \cup {None}]
    BY DEF Init
  <2> QED
    BY <2>1, <2>2, <2>3, <2>4 DEF Init, Types
<1>3. QueuedByPrio
  BY <1>1 DEF Init, QueuedByPrio, ToSet
<1>4. OneJob /\ Started /\ AllOrNone
  BY DEF Init, OneJob, Started, AllOrNone
<1>5. Alive = {} /\ Busy = {} /\ \A p \in Prio : Exec(p) = {}
  BY DEF Init, Alive, Busy, Exec
<1>6. \A p \in Prio : working[p] = 0
  BY DEF Init
<1>7. WorkingCounted
  <2>1. total = Cardinality(Alive) /\ \A p \in Prio : working[p] = Cardinality(Exec(p))
    BY <1>5, <1>6, FS_EmptySet DEF Init
  <2> QED
    BY <2>1 DEF WorkingCounted, Alive, Exec
<1>8. BusyCounted
  BY <1>5, <1>6, SumZero, PrioFacts, FS_EmptySet DEF BusyCounted
<1> QED
  BY <1>2, <1>3, <1>4, <1>7, <1>8 DEF IInv

\* A step that gives no thread a job and takes none away.
LEMMA PoolKept ==
    ASSUME IInv, Types', QueuedByPrio', \A t \in Thread : Kept(t),
           working' = working, total' = total, desired' = desired,
           phase' = phase \/ phase' # "created"
    PROVE  IInv'
<1>1. WorkingCounted' /\ BusyCounted'
  BY CountsKept DEF IInv
<1>2. OneJob'
  BY DEF IInv, OneJob, Kept
<1>3. Started'
  BY DEF IInv, Started, Kept
<1>4. AllOrNone'
  BY DEF IInv, AllOrNone
<1> QED
  BY <1>1, <1>2, <1>3, <1>4 DEF IInv

LEMMA QueueJobIInv == ASSUME IInv, NEW j \in Job, QueueJob(j) PROVE IInv'
<1>1. Types /\ QueuedByPrio /\ thread \in [Thread -> States]
  BY DEF IInv, Types
<1>2. /\ queue' = [queue EXCEPT ![PrioOf[j]] = Append(@, j)]
      /\ status' = [status EXCEPT ![j] = "queued"] /\ thread' \in Signal(thread, j)
      /\ UNCHANGED <<job, working, total, desired, phase, heap, now, schedule>>
  BY DEF QueueJob, timer
<1>3. queue' \in [Prio -> Seq(Job)] /\ QueuedByPrio'
  BY <1>1, <1>2, QueueAppended
<1>4. /\ thread' \in [Thread -> States]
      /\ \A t \in Thread : /\ thread'[t] = "exec" <=> thread[t] = "exec"
                           /\ thread'[t] = "none" <=> thread[t] = "none"
  BY <1>1, <1>2, SignalFacts
<1>5. \A t \in Thread : Kept(t)
  BY <1>2, <1>4 DEF Kept
<1>6. Types'
  BY <1>1, <1>2, <1>3, <1>4 DEF Types
<1> QED
  BY <1>2, <1>3, <1>5, <1>6, PoolKept

LEMMA ExecuteJobIInv == ASSUME IInv, NEW j \in Job, ExecuteJob(j) PROVE IInv'
<1>1. Types /\ QueuedByPrio /\ thread \in [Thread -> States]
  BY DEF IInv, Types
<1>2. /\ thread' \in Signal(thread, j)
      /\ status' \in [Job -> {"new", "queued", "executing", "canceled", "done"}]
      /\ queue' = queue \/ queue' = [queue EXCEPT ![PrioOf[j]] = <<j>> \o @]
      /\ UNCHANGED <<job, working, total, desired, phase, heap, now, schedule>>
  BY <1>1 DEF ExecuteJob, timer, Types
<1>3. queue' \in [Prio -> Seq(Job)] /\ QueuedByPrio'
  <2>1. CASE queue' = queue
    BY <1>1, <2>1 DEF Types, QueuedByPrio
  <2>2. CASE queue' = [queue EXCEPT ![PrioOf[j]] = <<j>> \o @]
    <3>1. PICK p \in Prio : p = PrioOf[j]
      BY JobAssumption
    <3>2. queue[p] \in Seq(Job)
      BY <1>1 DEF Types
    <3>3. PICK q : q = <<j>> \o queue[p]
      OBVIOUS
    <3>4. q \in Seq(Job) /\ ToSet(q) = ToSet(queue[p]) \cup {j}
          /\ queue' = [queue EXCEPT ![p] = q]
      BY <2>2, <3>1, <3>2, <3>3, FrontFacts
    <3> QED
      BY <1>1, <3>1, <3>4, QueueChanged
  <2> QED
    BY <1>2, <2>1, <2>2
<1>4. /\ thread' \in [Thread -> States]
      /\ \A t \in Thread : /\ thread'[t] = "exec" <=> thread[t] = "exec"
                           /\ thread'[t] = "none" <=> thread[t] = "none"
  BY <1>1, <1>2, SignalFacts
<1>5. \A t \in Thread : Kept(t)
  BY <1>2, <1>4 DEF Kept
<1>6. Types'
  BY <1>1, <1>2, <1>3, <1>4 DEF Types
<1> QED
  BY <1>2, <1>3, <1>5, <1>6, PoolKept

LEMMA ScheduleJobIInv ==
    ASSUME IInv, NEW j \in Job, NEW delay \in Delay, ScheduleJob(j, delay) PROVE IInv'
<1>1. Types /\ QueuedByPrio
  BY DEF IInv
<1>2. /\ AddEvent(j, delay) /\ status' = [status EXCEPT ![j] = "queued"]
      /\ UNCHANGED <<queue, thread, job, working, total, desired, phase>>
  BY DEF ScheduleJob, pool
<1>3. /\ heap' \in Seq(Event) /\ now' = now
      /\ schedule' \in [st : {"run", "wait"}, until : Nat \cup {None}]
  BY <1>1, <1>2, EventAdded
<1>4. \A t \in Thread : Kept(t)
  BY <1>2 DEF Kept
<1>5. Types' /\ QueuedByPrio'
  BY <1>1, <1>2, <1>3 DEF Types, QueuedByPrio
<1> QED
  BY <1>2, <1>4, <1>5, PoolKept

LEMMA SetThreadsIInv == ASSUME IInv, SetThreads PROVE IInv'
<1>1. Types /\ QueuedByPrio /\ thread \in [Thread -> States]
  BY DEF IInv, Types
<1>2. UNCHANGED <<queue, status, job, working, heap, now, schedule>>
  BY DEF SetThreads, timer
<1>3. QueuedByPrio'
  BY <1>1, <1>2 DEF QueuedByPrio
<1>4. CASE /\ phase = "created" /\ phase' = "running"
           /\ total' = Cardinality(Thread) /\ desired' = Cardinality(Thread)
           /\ thread' = [t \in Thread |-> "run"]
  <2>1. Types'
    BY <1>1, <1>2, <1>4, ThreadsFinite DEF Types, States
  <2>2. OneJob' /\ Started' /\ AllOrNone'
    BY <1>2, <1>4 DEF IInv, OneJob, Started, AllOrNone
  <2>3. Alive' = Thread /\ Busy' = Busy /\ \A p \in Prio : Exec(p)' = Exec(p)
    BY <1>2, <1>4 DEF IInv, Started, Alive, Busy, Exec
  <2>4. \A p \in Prio : working[p] = Cardinality(Exec(p))
    BY CountersNat DEF IInv
  <2>5. WorkingCounted'
    BY <1>2, <1>4, <2>3, <2>4 DEF WorkingCounted, Alive, Exec
  <2>6. BusyCounted'
    BY <1>2, <2>3 DEF IInv, BusyCounted
  <2> QED
    BY <1>3, <2>1, <2>2, <2>5, <2>6 DEF IInv
<1>5. CASE phase' = "stopping" /\ desired' = 0 /\ thread' = Broadcast /\ total' = total
  <2>1. /\ thread' \in [Thread -> States]
        /\ \A t \in Thread : /\ thread'[t] = "exec" <=> thread[t] = "exec"
                             /\ thread'[t] = "none" <=> thread[t] = "none"
    BY <1>1, <1>5, BroadcastFacts
  <2>2. \A t \in Thread : Kept(t)
    BY <1>2, <2>1 DEF Kept
  <2>3. Types'
    BY <1>1, <1>2, <1>5, <2>1 DEF Types
  <2>4. WorkingCounted' /\ BusyCounted'
    BY <1>2, <1>5, <2>2, CountsKept DEF IInv
  <2>5. OneJob' /\ Started' /\ AllOrNone'
    BY <1>5, <2>2 DEF IInv, OneJob, Started, AllOrNone, Kept
  <2> QED
    BY <1>3, <2>3, <2>4, <2>5 DEF IInv
<1> QED
  BY <1>4, <1>5 DEF SetThreads

LEMMA CancelIInv == ASSUME IInv, Cancel \/ CancelLoop \/ Flush PROVE IInv'
<1>1. Types /\ QueuedByPrio /\ thread \in [Thread -> States]
  BY DEF IInv, Types
<1>2. /\ UNCHANGED <<job, working, total, desired, now, schedule>>
      /\ phase' \in {"canceling", "waiting", "canceled", "flushed"}
      /\ heap' = heap \/ heap' = <<>>
      /\ thread' = thread \/ thread' = Broadcast
      /\ queue' = queue \/ queue' = [p \in Prio |-> <<>>]
  BY DEF Cancel, CancelLoop, Flush, timer
<1>3. status' \in [Job -> {"new", "queued", "executing", "canceled", "done"}]
  BY <1>1 DEF Cancel, CancelLoop, Flush, Types
<1>4. /\ thread' \in [Thread -> States]
      /\ \A t \in Thread : /\ thread'[t] = "exec" <=> thread[t] = "exec"
                           /\ thread'[t] = "none" <=> thread[t] = "none"
  BY <1>1, <1>2, BroadcastFacts
<1>5. \A t \in Thread : Kept(t)
  BY <1>2, <1>4 DEF Kept
<1>6. queue' \in [Prio -> Seq(Job)] /\ QueuedByPrio'
  <2>1. CASE queue' = queue
    BY <1>1, <2>1 DEF Types, QueuedByPrio
  <2>2. CASE queue' = [p \in Prio |-> <<>>]
    <3>1. <<>> \in Seq(Job) /\ ToSet(<<>>) = {}
      BY DEF ToSet
    <3> QED
      BY <2>2, <3>1 DEF QueuedByPrio
  <2> QED
    BY <1>2, <2>1, <2>2
<1>7. heap' \in Seq(Event)
  <2>1. heap \in Seq(Event) /\ <<>> \in Seq(Event)
    BY <1>1 DEF Types
  <2> QED
    BY <1>2, <2>1
<1>8. Types'
  BY <1>1, <1>2, <1>3, <1>4, <1>6, <1>7 DEF Types
<1> QED
  BY <1>2, <1>5, <1>6, <1>8, PoolKept

LEMMA ExitIInv == ASSUME IInv, NEW t \in Thread, Exit(t) PROVE IInv'
<1>1. Types /\ QueuedByPrio /\ thread \in [Thread -> States]
  BY DEF IInv, Types
<1>2. /\ thread[t] = "run" /\ thread' = [thread EXCEPT ![t] = "none"] /\ total' = total - 1
      /\ UNCHANGED <<queue, status, job, working, desired, heap, now, schedule>>
      /\ phase' = phase \/ phase' = "canceling"
  BY DEF Exit, Terminated, timer
<1>3. thread'[t] = "none" /\ \A u \in Thread \ {t} : Kept(u)
  BY <1>1, <1>2 DEF Kept
<1>4. WorkingCounted' /\ BusyCounted'
  BY <1>1, <1>2, <1>3, CountsExit DEF IInv
<1>5. Types'
  <2>1. thread' \in [Thread -> States] /\ total' \in Int
    BY <1>1, <1>2 DEF Types, States
  <2> QED
    BY <1>1, <1>2, <2>1 DEF Types
<1>6. QueuedByPrio' /\ AllOrNone'
  BY <1>2 DEF IInv, QueuedByPrio, AllOrNone
<1>7. OneJob' /\ Started'
  BY <1>1, <1>2 DEF IInv, OneJob, Started
<1> QED
  BY <1>4, <1>5, <1>6, <1>7 DEF IInv

LEMMA GetJobIInv == ASSUME IInv, NEW t \in Thread, GetJob(t) PROVE IInv'
<1>1. Types /\ QueuedByPrio /\ thread \in [Thread -> States]
  BY DEF IInv, Types
<1>2. thread[t] = "run" /\ UNCHANGED <<total, desired, phase, heap, now, schedule>>
  BY DEF GetJob, timer
<1>3. CASE CanGet
  <2>1. PICK p \in Prio : p = TopPrio /\ queue[p] # <<>> /\ queue[p] \in Seq(Job)
    BY <1>1, <1>3, TopFacts DEF CanGet
  <2>2. PICK j : j = Head(queue[p])
    OBVIOUS
  <2>3. /\ queue' = [queue EXCEPT ![p] = Tail(queue[p])]
        /\ job' = [job EXCEPT ![t] = j] /\ status' = [status EXCEPT ![j] = "executing"]
        /\ Occupy(p) /\ thread' = [thread EXCEPT ![t] = "exec"]
    BY <1>3, <2>1, <2>2 DEF GetJob
  <2>4. /\ j \in Job /\ Tail(queue[p]) \in Seq(Job) /\ j \in ToSet(queue[p])
        /\ ToSet(Tail(queue[p])) \subseteq ToSet(queue[p])
    BY <2>1, <2>2, TailFacts
  <2>5. PrioOf[j] = p /\ j # None
    BY <1>1, <2>4, JobAssumption DEF QueuedByPrio
  <2>6. queue' \in [Prio -> Seq(Job)] /\ QueuedByPrio'
    <3>1. PICK q \in Seq(Job) : q = Tail(queue[p])
      BY <2>4
    <3> QED
      BY <1>1, <2>3, <2>4, <3>1, QueueChanged
  <2>7. /\ thread' \in [Thread -> States] /\ thread'[t] = "exec"
        /\ job' \in [Thread -> Job \cup {None}] /\ job'[t] = j
        /\ \A u \in Thread \ {t} : Kept(u)
    BY <1>1, <2>3, <2>4 DEF Types, States, Kept
  <2>8. WorkingCounted' /\ BusyCounted'
    BY <1>1, <1>2, <2>3, <2>5, <2>7, CountsRaised DEF IInv
  <2>9. Types'
    <3>1. working' \in [Prio -> Int]
      BY <1>1, <2>3 DEF Types, Occupy
    <3>2. status' \in [Job -> {"new", "queued", "executing", "canceled", "done"}]
      BY <1>1, <2>3, <2>4 DEF Types
    <3> QED
      BY <1>1, <1>2, <2>6, <2>7, <3>1, <3>2 DEF Types
  <2>10. OneJob'
    BY <2>5, <2>7 DEF IInv, OneJob, Kept
  <2>11. Started' /\ AllOrNone'
    BY <1>2, <2>7 DEF IInv, Started, AllOrNone, Kept
  <2> QED
    BY <2>6, <2>8, <2>9, <2>10, <2>11 DEF IInv
<1>4. CASE ~CanGet
  <2>1. /\ thread' = [thread EXCEPT ![t] = "wait"]
        /\ UNCHANGED <<queue, status, job, working>>
    BY <1>4 DEF GetJob
  <2>2. \A u \in Thread : Kept(u)
    BY <1>1, <1>2, <2>1 DEF Kept
  <2>3. Types' /\ QueuedByPrio'
    BY <1>1, <1>2, <2>1 DEF Types, States, QueuedByPrio
  <2> QED
    BY <1>2, <2>1, <2>2, <2>3, PoolKept
<1> QED
  BY <1>3, <1>4

LEMMA FinishIInv == ASSUME IInv, NEW t \in Thread, Finish(t) PROVE IInv'
<1>1. Types /\ QueuedByPrio /\ thread \in [Thread -> States] /\ job \in [Thread -> Job \cup {None}]
  BY DEF IInv, Types
<1>2. PICK j, back : j = job[t] /\ back = [thread EXCEPT ![t] = "run"]
  OBVIOUS
<1>3. /\ thread[t] = "exec" /\ Release(PrioOf[j]) /\ job' = [job EXCEPT ![t] = None]
      /\ UNCHANGED <<total, desired, phase>>
  BY <1>2 DEF Finish
<1>4. \/ /\ status' = [status EXCEPT ![j] = "done"]
         /\ thread' = back
         /\ UNCHANGED <<queue, heap, now, schedule>>
      \/ /\ status' = [status EXCEPT ![j] = "queued"]
         /\ queue' = [queue EXCEPT ![PrioOf[j]] = Append(@, j)]
         /\ thread' \in Signal(back, j)
         /\ UNCHANGED <<heap, now, schedule>>
      \/ /\ status' = [status EXCEPT ![j] = "queued"]
         /\ thread' = back
         /\ \E delay \in Delay : now + delay <= MaxTime /\ AddEvent(j, delay)
         /\ UNCHANGED queue
  BY <1>2 DEF Finish, timer
<1>5. j \in Job /\ PrioOf[j] \in Prio
  BY <1>1, <1>2, <1>3, JobAssumption DEF IInv, OneJob
<1>6. /\ back \in [Thread -> States] /\ back[t] = "run"
      /\ \A u \in Thread \ {t} : back[u] = thread[u]
  BY <1>1, <1>2 DEF States
<1>7. /\ thread' \in [Thread -> States]
      /\ \A u \in Thread : /\ thread'[u] = "exec" <=> back[u] = "exec"
                           /\ thread'[u] = "none" <=> back[u] = "none"
                           /\ back[u] = "run" => thread'[u] = "run"
  <2>1. CASE thread' = back
    BY <1>6, <2>1
  <2>2. CASE thread' \in Signal(back, j)
    <3>1. \A u \in Thread : thread[u] = "wait" => back[u] = "wait"
      BY <1>3, <1>6
    <3> QED
      BY <1>1, <1>6, <2>2, <3>1, SignalFacts
  <2> QED
    BY <1>4, <2>1, <2>2
<1>8. thread'[t] = "run" /\ \A u \in Thread \ {t} : Kept(u)
  BY <1>1, <1>3, <1>6, <1>7 DEF Kept
<1>9. WorkingCounted' /\ BusyCounted'
  BY <1>1, <1>2, <1>3, <1>5, <1>8, CountsLowered DEF IInv
<1>10. queue' \in [Prio -> Seq(Job)] /\ QueuedByPrio'
  <2>1. CASE queue' = queue
    BY <1>1, <2>1 DEF Types, QueuedByPrio
  <2>2. CASE queue' = [queue EXCEPT ![PrioOf[j]] = Append(@, j)]
    BY <1>1, <1>5, <2>2, QueueAppended
  <2> QED
    BY <1>4, <2>1, <2>2
<1>11. /\ heap' \in Seq(Event) /\ now' = now
       /\ schedule' \in [st : {"run", "wait"}, until : Nat \cup {None}]
  <2>1. CASE UNCHANGED <<heap, now, schedule>>
    BY <1>1, <2>1 DEF Types
  <2>2. CASE \E delay \in Delay : now + delay <= MaxTime /\ AddEvent(j, delay)
    BY <1>1, <1>5, <2>2, EventAdded
  <2> QED
    BY <1>4, <2>1, <2>2
<1>12. Types'
  <2>1. working' \in [Prio -> Int]
    BY <1>1, <1>3, <1>5 DEF Types, Release
  <2>2. status' \in [Job -> {"new", "queued", "executing", "canceled", "done"}]
    BY <1>1, <1>4, <1>5 DEF Types
  <2>3. job' \in [Thread -> Job \cup {None}]
    BY <1>1, <1>3
  <2> QED
    BY <1>1, <1>3, <1>7, <1>10, <1>11, <2>1, <2>2, <2>3 DEF Types
<1>13. OneJob'
  BY <1>1, <1>3, <1>8 DEF IInv, OneJob, Kept
<1>14. Started' /\ AllOrNone'
  BY <1>3, <1>8 DEF IInv, Started, AllOrNone, Kept
<1> QED
  BY <1>9, <1>10, <1>12, <1>13, <1>14 DEF IInv

LEMMA RestartIInv == ASSUME IInv, NEW t \in Thread, Restart(t) PROVE IInv'
<1>1. Types /\ QueuedByPrio /\ thread \in [Thread -> States] /\ job \in [Thread -> Job \cup {None}]
  BY DEF IInv, Types
<1>2. /\ thread[t] = "exec" /\ job[t] = Timer /\ Release(PrioOf[Timer])
      /\ job' = [job EXCEPT ![t] = None]
      /\ UNCHANGED <<queue, status, desired, heap, now, schedule>>
      /\ \/ thread' = [thread EXCEPT ![t] = "run"] /\ UNCHANGED <<total, phase>>
         \/ /\ thread' = [thread EXCEPT ![t] = "none"] /\ total' = total - 1
            /\ phase' = phase \/ phase' = "canceling"
  BY DEF Restart, Terminated, timer
<1>3. PrioOf[Timer] \in Prio
  BY JobAssumption
<1>4. /\ thread' \in [Thread -> States] /\ thread'[t] \in {"run", "none"}
      /\ total' = IF thread'[t] = "none" THEN total - 1 ELSE total
      /\ \A u \in Thread \ {t} : Kept(u)
  BY <1>1, <1>2 DEF States, Kept
<1>5. WorkingCounted' /\ BusyCounted'
  BY <1>1, <1>2, <1>3, <1>4, CountsLowered DEF IInv
<1>6. Types'
  <2>1. working' \in [Prio -> Int] /\ total' \in Int
    BY <1>1, <1>2, <1>3 DEF Types, Release
  <2>2. job' \in [Thread -> Job \cup {None}]
    BY <1>1, <1>2
  <2>3. phase' \in {"created", "running", "stopping", "canceling", "waiting", "canceled",
                    "flushed"}
    BY <1>1, <1>2 DEF Types
  <2> QED
    BY <1>1, <1>2, <1>4, <2>1, <2>2, <2>3 DEF Types
<1>7. OneJob'
  BY <1>1, <1>2, <1>4 DEF IInv, OneJob, Kept
<1>8. Started' /\ AllOrNone' /\ QueuedByPrio'
  <2>1. phase # "created"
    BY <1>2 DEF IInv, Started
  <2> QED
    BY <1>2, <2>1 DEF IInv, Started, AllOrNone, QueuedByPrio
<1> QED
  BY <1>5, <1>6, <1>7, <1>8 DEF IInv

LEMMA ScheduleIInv == ASSUME IInv, Schedule PROVE IInv'
<1>1. Types /\ QueuedByPrio /\ thread \in [Thread -> States] /\ heap \in Seq(Event)
  BY DEF IInv, Types
<1>2. UNCHANGED <<status, job, working, total, desired, phase, now>>
  BY DEF Schedule
<1>3. CASE Due
  <2>1. heap # <<>> /\ 1 \in 1..Len(heap)
    BY <1>1, <1>3 DEF Due
  <2>2. PICK j \in Job : j = heap[1].job
    BY <1>1, <2>1, EventFacts
  <2>3. /\ heap' = RemoveEvent(heap) /\ queue' = [queue EXCEPT ![PrioOf[j]] = Append(@, j)]
        /\ thread' \in Signal(thread, j) /\ schedule' = schedule
    BY <1>3, <2>2 DEF Schedule
  <2>4. heap' \in Seq(Event)
    BY <1>1, <2>1, <2>3, RemoveFacts
  <2>5. queue' \in [Prio -> Seq(Job)] /\ QueuedByPrio'
    BY <1>1, <2>3, QueueAppended
  <2>6. /\ thread' \in [Thread -> States]
        /\ \A t \in Thread : /\ thread'[t] = "exec" <=> thread[t] = "exec"
                             /\ thread'[t] = "none" <=> thread[t] = "none"
    BY <1>1, <2>3, SignalFacts
  <2>7. \A t \in Thread : Kept(t)
    BY <1>2, <2>6 DEF Kept
  <2>8. Types'
    BY <1>1, <1>2, <2>3, <2>4, <2>5, <2>6 DEF Types
  <2> QED
    BY <1>2, <2>5, <2>7, <2>8, PoolKept
<1>4. CASE ~Due
  <2>1. /\ schedule' = [st |-> "wait", until |-> IF heap = <<>> THEN None ELSE heap[1].time]
        /\ UNCHANGED <<heap, queue, thread>>
    BY <1>4 DEF Schedule
  <2>2. heap # <<>> => heap[1].time \in Nat
    BY <1>1, EventFacts
  <2>3. schedule' \in [st : {"run", "wait"}, until : Nat \cup {None}]
    BY <2>1, <2>2
  <2>4. \A t \in Thread : Kept(t)
    BY <1>2, <2>1 DEF Kept
  <2>5. Types' /\ QueuedByPrio'
    BY <1>1, <1>2, <2>1, <2>3 DEF Types, QueuedByPrio
  <2> QED
    BY <1>2, <2>4, <2>5, PoolKept
<1> QED
  BY <1>3, <1>4

LEMMA ClockIInv ==
    ASSUME IInv, ScheduleTimeout \/ SpuriousWakeup \/ Tick \/ UNCHANGED vars
    PROVE  IInv'
<1>1. Types /\ QueuedByPrio
  BY DEF IInv
<1>2. UNCHANGED <<queue, status, thread, job, working, total, desired, phase, heap>>
  BY DEF ScheduleTimeout, SpuriousWakeup, Tick, vars, pool, timer
<1>3. schedule' \in [st : {"run", "wait"}, until : Nat \cup {None}] /\ now' \in 0..MaxTime
  BY <1>1, NumberAssumption DEF ScheduleTimeout, SpuriousWakeup, Tick, vars, pool, timer, Types
<1>4. \A t \in Thread : Kept(t)
  BY <1>2 DEF Kept
<1>5. Types' /\ QueuedByPrio'
  BY <1>1, <1>2, <1>3 DEF Types, QueuedByPrio
<1> QED
  BY <1>2, <1>4, <1>5, PoolKept

LEMMA NextIInv == IInv /\ [Next]_vars => IInv'
<1> SUFFICES ASSUME IInv, [Next]_vars PROVE IInv'
  OBVIOUS
<1>1. ASSUME NEW j \in Job, QueueJob(j) \/ ExecuteJob(j) \/ \E d \in Delay : ScheduleJob(j, d)
      PROVE  IInv'
  BY <1>1, QueueJobIInv, ExecuteJobIInv, ScheduleJobIInv
<1>2. CASE SetThreads \/ Cancel \/ CancelLoop \/ Flush
  BY <1>2, SetThreadsIInv, CancelIInv
<1>3. ASSUME NEW t \in Thread, Worker(t) \/ Finish(t) PROVE IInv'
  BY <1>3, ExitIInv, GetJobIInv, RestartIInv, FinishIInv DEF Worker
<1>4. CASE Schedule
  BY <1>4, ScheduleIInv
<1>5. CASE ScheduleTimeout \/ SpuriousWakeup \/ Tick \/ UNCHANGED vars
  BY <1>5, ClockIInv
<1> QED
  BY <1>1, <1>2, <1>3, <1>4, <1>5 DEF Next

\* The invariant of the pool holds in every state, whatever the threads do.
THEOREM Invariance == Spec => []IInv
  BY InitIInv, NextIInv, PTL DEF Spec

\* total_threads and working_threads count the threads and those at work.
THEOREM CountSafety == Spec => []WorkingCounted
<1>1. IInv => WorkingCounted
  BY DEF IInv
<1> QED
  BY <1>1, Invariance, PTL

\* All fields of the processor and the scheduler keep to their types; neither
\* counter goes below zero.
THEOREM TypeCorrect == Spec => []TypeOK
<1>1. IInv => TypeOK
  <2> SUFFICES ASSUME IInv PROVE TypeOK
    OBVIOUS
  <2>1. Types /\ WorkingCounted
    BY DEF IInv
  <2>2. total \in Nat /\ working \in [Prio -> Nat]
    BY <2>1, CountersNat
  <2> QED
    BY <2>1, <2>2 DEF Types, TypeOK, Event, States
<1> QED
  BY <1>1, Invariance, PTL

(***************************************************************************)
(* The reserve.  When get_job takes a job of priority p, either nothing is *)
(* reserved above p that is not at work there, and then the thread that    *)
(* asks is one more than those at work, or more threads are idle than are  *)
(* reserved; in both cases p and below stay out of the reserve.            *)
(***************************************************************************)
LEMMA SumMonotone ==
    ASSUME NEW S, IsFiniteSet(S), NEW f, NEW g,
           \A p \in S : f[p] \in Int /\ g[p] \in Int /\ f[p] <= g[p]
    PROVE  SumOver(S, f) \in Nat /\ SumOver(S, g) \in Nat /\ SumOver(S, f) <= SumOver(S, g)
<1>1. /\ IsFiniteSet(Pairs(S, g)) /\ SumOver(S, f) \in Nat /\ SumOver(S, g) \in Nat
      /\ SumOver(S, f) = Cardinality(Pairs(S, f)) /\ SumOver(S, g) = Cardinality(Pairs(S, g))
  BY PairsFinite
<1>2. Pairs(S, f) \subseteq Pairs(S, g)
  <2> SUFFICES ASSUME NEW y \in Pairs(S, f) PROVE y \in Pairs(S, g)
    OBVIOUS
  <2>1. PICK p, i : p \in S /\ y = <<p, i>> /\ i \in 1..f[p]
    BY PairsMember
  <2>2. i \in 1..g[p]
    BY <2>1
  <2> QED
    BY <2>1, <2>2, PairsMember
<1> QED
  BY <1>1, <1>2, FS_Subset

From(p) == {q \in Prio : q >= p}

\* ReserveKept, without the names that it gives to the sums.
LEMMA ReserveMeans ==
    ReserveKept <=> \A p \in Prio : desired > 0 /\ SumOver(From(p), working) > 0 =>
                      SumOver(From(p), working) + SumOver(1..(p - 1), PrioThreads) <= total
  BY DEF ReserveKept, From

\* The sums in ReserveKept are numbers; those of p and below, and those above
\* p, make up all.
LEMMA ReserveSums ==
    ASSUME NEW p \in Prio, NEW f \in [Prio -> Nat]
    PROVE  /\ IsFiniteSet(From(p)) /\ IsFiniteSet(1..(p - 1)) /\ From(p) \subseteq Prio
           /\ SumOver(From(p), f) \in Nat /\ SumOver(1..(p - 1), f) \in Nat
           /\ SumOver(1..(p - 1), PrioThreads) \in Nat
           /\ SumOver(Prio, f) = SumOver(1..(p - 1), f) + SumOver(From(p), f)
<1> DEFINE low == 1..(p - 1)
<1>1. p \in Nat \ {0} /\ Len(PrioThreads) \in Nat /\ Prio = 1..Len(PrioThreads)
  BY PrioFacts
<1>2. IsFiniteSet(low)
  BY <1>1, FS_Interval
<1>3. From(p) \subseteq Prio /\ IsFiniteSet(From(p))
  BY PrioFacts, FS_Subset DEF From
<1>4. low \subseteq Prio /\ low \cap From(p) = {} /\ Prio = low \cup From(p)
  BY <1>1 DEF From
<1>5. \A q \in low : f[q] \in Int /\ PrioThreads[q] \in Int
  BY <1>4, PrioFacts
<1>6. \A q \in From(p) : f[q] \in Int
  BY <1>3
<1> HIDE DEF low
<1>7. /\ SumOver(low, f) \in Nat /\ SumOver(low, PrioThreads) \in Nat
      /\ SumOver(From(p), f) \in Nat
  BY <1>2, <1>3, <1>5, <1>6, PairsFinite
<1>8. SumOver(low \cup From(p), f) = SumOver(low, f) + SumOver(From(p), f)
  BY <1>2, <1>3, <1>4, <1>5, <1>6, SumSplit
<1> QED
  BY <1>2, <1>3, <1>4, <1>7, <1>8 DEF low

\* A job that get_job hands out leaves the reserve alone.
LEMMA ReserveTaken ==
    ASSUME IInv, IInv', ReserveKept, NEW t \in Thread, thread[t] = "run",
           NEW top \in Prio, ~Delayed(top), Occupy(top), UNCHANGED <<total, desired>>
    PROVE  ReserveKept'
<1>1. /\ total \in Nat /\ working \in [Prio -> Nat] /\ total = Cardinality(Alive)
      /\ working' \in [Prio -> Nat]
  BY CountersNat, CountersNatNext DEF IInv
<1>2. SumOver(Prio, working) + 1 <= total
  <2>1. t \in Alive /\ t \notin Busy /\ Busy \subseteq Alive
    BY DEF Alive, Busy
  <2>2. Busy \cup {t} \subseteq Alive
    BY <2>1
  <2>3. Cardinality(Busy \cup {t}) = Cardinality(Busy) + 1
    BY <2>1, ThreadsFinite, FS_AddElement
  <2>4. Cardinality(Busy \cup {t}) <= Cardinality(Alive)
    BY <2>2, ThreadsFinite, FS_Subset
  <2> QED
    BY <1>1, <2>3, <2>4 DEF IInv, BusyCounted
<1>3. top \in Nat \ {0} /\ Prio \subseteq Nat \ {0} /\ Prio = 1..Len(PrioThreads)
      /\ Len(PrioThreads) \in Nat
  BY PrioFacts
<1>4. /\ working'[top] = working[top] + 1
      /\ \A q \in Prio \ {top} : working'[q] = working[q]
      /\ \A q \in Prio : working[q] \in Nat /\ working'[q] \in Nat
  BY <1>1 DEF Occupy
<1> SUFFICES ASSUME NEW p \in Prio, desired > 0, SumOver(From(p), working') > 0
             PROVE  SumOver(From(p), working') + SumOver(1..(p - 1), PrioThreads) <= total
  BY <1>1, ReserveMeans DEF ReserveKept, From
<1> DEFINE reserve == SumOver(1..(p - 1), PrioThreads)
           low == SumOver(1..(p - 1), working)
           high == SumOver(From(p), working)
<1>5. /\ IsFiniteSet(From(p)) /\ From(p) \subseteq Prio
      /\ low \in Nat /\ high \in Nat /\ reserve \in Nat /\ SumOver(Prio, working) = low + high
      /\ p \in Nat \ {0}
  BY <1>1, <1>3, ReserveSums
<1>6. CASE p > top
  <2>1. \A q \in From(p) : working'[q] \in Int /\ working[q] \in Int
                           /\ working'[q] <= working[q] /\ working[q] <= working'[q]
    <3> SUFFICES ASSUME NEW q \in From(p) PROVE working'[q] = working[q] /\ working[q] \in Nat
      OBVIOUS
    <3>1. q \in Prio /\ q # top
      BY <1>3, <1>6 DEF From
    <3> QED
      BY <1>4, <3>1
  <2>2. /\ SumOver(From(p), working') <= high /\ high <= SumOver(From(p), working')
        /\ SumOver(From(p), working') \in Nat
    BY <1>5, <2>1, SumMonotone
  <2>3. high > 0
    BY <1>5, <2>2
  <2>4. high + reserve <= total
    BY <2>3, ReserveMeans
  <2> QED
    BY <1>1, <1>5, <2>2, <2>4
<1>7. CASE p <= top
  <2>1. SumOver(From(p), working') = high + 1
    <3>1. top \in From(p) /\ \A q \in From(p) : working[q] \in Nat
      BY <1>4, <1>5, <1>7 DEF From
    <3>2. PICK S, f, g : S = From(p) /\ f = working /\ g = working'
      OBVIOUS
    <3>3. /\ IsFiniteSet(S) /\ top \in S /\ \A q \in S : f[q] \in Nat
          /\ g[top] = f[top] + 1 /\ \A q \in S \ {top} : g[q] = f[q]
      BY <1>4, <1>5, <3>1, <3>2
    <3>4. SumOver(S, g) = SumOver(S, f) + 1
      BY <3>3, SumGain
    <3> QED
      BY <3>2, <3>4
  <2>2. /\ Reserved(p) \in Nat /\ reserve <= Reserved(p) + low
        /\ Reserved(top) \in Nat /\ Reserved(p) <= Reserved(top)
    <3>1. \A k \in 1..(top - 1) : working[k] \in Nat /\ PrioThreads[k] \in Nat
      BY <1>3, <1>4, PrioFacts
    <3>2. \A k \in 1..(p - 1) : working[k] \in Nat /\ PrioThreads[k] \in Nat
      BY <1>3, <1>7, <3>1
    <3>3. p \in 1..top
      BY <1>3, <1>5, <1>7
    <3> QED
      BY <1>3, <1>5, <3>1, <3>2, <3>3, ReservedOrWorking
  <2>3. Reserved(top) = 0 \/ Reserved(top) < total - (low + high)
    BY <1>1, <1>5, <2>2 DEF Delayed, Idle
  <2> HIDE DEF low, high, reserve
  <2>4. high + 1 + reserve <= total
    BY <1>1, <1>2, <1>5, <2>2, <2>3
  <2> QED
    BY <2>1, <2>4 DEF reserve
<1> QED
  BY <1>3, <1>5, <1>6, <1>7

LEMMA ReserveReturned ==
    ASSUME IInv, IInv', ReserveKept, \A q \in Prio : working'[q] <= working[q],
           UNCHANGED <<total, desired>>
    PROVE  ReserveKept'
<1>1. total \in Nat /\ working \in [Prio -> Nat] /\ working' \in [Prio -> Nat]
  BY CountersNat, CountersNatNext DEF IInv
<1> SUFFICES ASSUME NEW p \in Prio, desired > 0, SumOver(From(p), working') > 0
             PROVE  SumOver(From(p), working') + SumOver(1..(p - 1), PrioThreads) <= total
  BY <1>1, ReserveMeans DEF ReserveKept, From
<1>2. /\ IsFiniteSet(From(p)) /\ From(p) \subseteq Prio
      /\ SumOver(From(p), working) \in Nat /\ SumOver(1..(p - 1), PrioThreads) \in Nat
  BY <1>1, ReserveSums
<1>3. \A q \in From(p) : working'[q] \in Int /\ working[q] \in Int /\ working'[q] <= working[q]
  BY <1>1, <1>2
<1>4. /\ SumOver(From(p), working') <= SumOver(From(p), working)
      /\ SumOver(From(p), working') \in Nat
  BY <1>2, <1>3, SumMonotone
<1>5. SumOver(From(p), working) + SumOver(1..(p - 1), PrioThreads) <= total
  BY <1>2, <1>4, ReserveMeans
<1> QED
  BY <1>1, <1>2, <1>4, <1>5

LEMMA NextReserve == IInv /\ IInv' /\ ReserveKept /\ [Next]_vars => ReserveKept'
<1> SUFFICES ASSUME IInv, IInv', ReserveKept, [Next]_vars PROVE ReserveKept'
  OBVIOUS
<1>0. /\ total \in Nat /\ working \in [Prio -> Nat] /\ total = Cardinality(Alive)
      /\ working' \in [Prio -> Nat] /\ desired \in Nat
      /\ \A p \in Prio : working[p] = Cardinality(Exec(p))
  BY CountersNat, CountersNatNext DEF IInv, Types
<1>1. CASE UNCHANGED <<working, total, desired>>
  BY <1>1 DEF ReserveKept
<1>2. CASE desired' = 0
  BY <1>2 DEF ReserveKept
<1>3. desired < total => desired = 0
  BY <1>0, ThreadsFinite DEF IInv, AllOrNone
<1>4. CASE SetThreads
  <2>1. CASE phase = "created" /\ UNCHANGED working
    <3>1. \A p \in Prio : Exec(p) = {}
      BY <2>1 DEF IInv, Started, Exec
    <3>2. \A p \in Prio : working'[p] = 0
      BY <1>0, <2>1, <3>1, FS_EmptySet
    <3>3. ASSUME NEW p \in Prio PROVE SumOver(From(p), working') = 0
      <4>1. IsFiniteSet(From(p)) /\ From(p) \subseteq Prio
        BY <1>0, ReserveSums
      <4>2. PICK f : f = working'
        OBVIOUS
      <4>3. \A q \in From(p) : f[q] = 0
        BY <3>2, <4>1, <4>2
      <4> QED
        BY <4>1, <4>2, <4>3, SumZero
    <3> QED
      BY <3>3 DEF ReserveKept, From
  <2> QED
    BY <1>2, <1>4, <2>1 DEF SetThreads
<1>5. ASSUME NEW t \in Thread, Exit(t) PROVE ReserveKept'
  BY <1>2, <1>3, <1>5 DEF Exit
<1>6. ASSUME NEW t \in Thread, GetJob(t) PROVE ReserveKept'
  <2>1. CASE CanGet
    <3>1. PICK top \in Prio : top = TopPrio
      BY <2>1, TopFacts DEF CanGet, IInv
    <3>2. ~Delayed(top) /\ Occupy(top) /\ UNCHANGED <<total, desired>> /\ thread[t] = "run"
      BY <1>6, <2>1, <3>1 DEF CanGet, GetJob
    <3> QED
      BY <3>2, ReserveTaken
  <2> QED
    BY <1>1, <1>6, <2>1 DEF GetJob
<1>7. ASSUME NEW p \in Prio, Release(p), UNCHANGED <<total, desired>> PROVE ReserveKept'
  <2>1. \A q \in Prio : working'[q] <= working[q]
    BY <1>0, <1>7 DEF Release
  <2> QED
    BY <1>7, <2>1, ReserveReturned
<1>8. ASSUME NEW t \in Thread, Finish(t) PROVE ReserveKept'
  <2>1. PICK j : j = job[t]
    OBVIOUS
  <2>2. Release(PrioOf[j]) /\ UNCHANGED <<total, desired>> /\ thread[t] = "exec"
    BY <1>8, <2>1 DEF Finish
  <2>3. PrioOf[j] \in Prio
    BY <2>1, <2>2, JobAssumption DEF IInv, OneJob, Types
  <2> QED
    BY <1>7, <2>2, <2>3
<1>9. ASSUME NEW t \in Thread, Restart(t) PROVE ReserveKept'
  <2>1. PrioOf[Timer] \in Prio
    BY JobAssumption
  <2>2. CASE desired >= total
    BY <1>7, <1>9, <2>1, <2>2 DEF Restart
  <2>3. CASE desired < total
    BY <1>2, <1>3, <1>9, <2>3 DEF Restart
  <2> QED
    BY <1>0, <2>2, <2>3
<1>10. CASE \E j \in Job : QueueJob(j) \/ ExecuteJob(j) \/ \E d \in Delay : ScheduleJob(j, d)
  BY <1>1, <1>10 DEF QueueJob, ExecuteJob, ScheduleJob, pool
<1>11. CASE \/ Cancel \/ CancelLoop \/ Flush \/ Schedule \/ ScheduleTimeout \/ SpuriousWakeup
            \/ Tick \/ UNCHANGED vars
  BY <1>1, <1>11
     DEF Cancel, CancelLoop, Flush, Schedule, ScheduleTimeout, SpuriousWakeup, Tick, vars, pool
<1> QED
  BY <1>4, <1>5, <1>6, <1>8, <1>9, <1>10, <1>11 DEF Next, Worker

\* Jobs of a priority and those below it never occupy the threads that are
\* reserved for the priorities above, for any reserve and number of threads.
THEOREM ReserveSafety == Spec => []ReserveKept
<1>1. Init => ReserveKept
  BY DEF Init, ReserveKept
<1> QED
  BY <1>1, NextReserve, Invariance, PTL DEF Spec

(***************************************************************************)
(* No wakeup is lost.  Waiting threads are no harm for two reasons: as     *)
(* many threads are awake as there are jobs to look for, or the waiting    *)
(* threads are kept for jobs that have not come yet.  The second reason    *)
(* counts the reserve above a priority that is neither at work nor claimed *)
(* by a job in a queue.  Every step keeps one of the two for each          *)
(* priority: a new job that lessens the reserve wakes a thread, and a      *)
(* thread goes to sleep only when it has seen the second reason itself.    *)
(***************************************************************************)
Queues == [Prio -> Seq(Job)]
Num(th, v) == Cardinality(Places(Thread, th, v))

\* The jobs in the queues q of priority k and above.
Lengths(q) == [p \in Prio |-> Len(q[p])]
Queued(q, k) == SumOver(1..k, Lengths(q))

\* The reserve above k that is left when the jobs in q are at work, too.
Spare(q, w, k) == UNION {{i} \X ((w[i] + Len(q[i]) + 1)..PrioThreads[i]) : i \in 1..(k - 1)}
Unclaimed(q, w, k) == Cardinality(Spare(q, w, k))

AnnouncedOf(q, w, th) == \A k \in Prio :
    Queued(q, k) <= Num(th, "run") \/ Num(th, "wait") <= Unclaimed(q, w, k)

Announced == AnnouncedOf(queue, working, thread)

\* A pool that shrinks has no waiting threads.
Leaving == desired < total => Waiting = {}

LEMMA NumFacts ==
    ASSUME NEW th, NEW v
    PROVE  /\ Num(th, v) \in Nat
           /\ (\A t \in Thread : th[t] # v) => Num(th, v) = 0
           /\ \A t \in Thread : th[t] = v => Num(th, v) >= 1
<1>1. IsFiniteSet(Places(Thread, th, v)) /\ Num(th, v) \in Nat
  BY JobAssumption, CountFinite DEF Num
<1>2. (\A t \in Thread : th[t] # v) => Num(th, v) = 0
  BY CountNone DEF Num
<1>3. ASSUME NEW t \in Thread, th[t] = v PROVE Num(th, v) >= 1
  <2>1. t \in Places(Thread, th, v)
    BY <1>3 DEF Places
  <2>2. Num(th, v) # 0
    BY <1>1, <2>1, FS_EmptySet DEF Num
  <2> QED
    BY <1>1, <2>2
<1> QED
  BY <1>1, <1>2, <1>3

\* One thread goes from the state a to b.
LEMMA NumMoves ==
    ASSUME NEW th \in [Thread -> States], NEW t \in Thread, NEW a \in States, NEW b \in States,
           a # b, th[t] = a
    PROVE  /\ Num([th EXCEPT ![t] = b], b) = Num(th, b) + 1
           /\ Num([th EXCEPT ![t] = b], a) = Num(th, a) - 1
<1>1. PICK new : new = [th EXCEPT ![t] = b]
  OBVIOUS
<1>2. OnlyAt(Thread, th, new, t) /\ new[t] = b
  BY <1>1 DEF OnlyAt
<1>3. IsFiniteSet(Places(Thread, th, a)) /\ IsFiniteSet(Places(Thread, th, b))
  BY JobAssumption, CountFinite
<1>4. th[t] # b /\ new[t] # a
  BY <1>2
<1>5. Cardinality(Places(Thread, new, b)) = Cardinality(Places(Thread, th, b)) + 1
  BY <1>2, <1>3, <1>4, CountGain
<1>6. Cardinality(Places(Thread, new, a)) = Cardinality(Places(Thread, th, a)) - 1
  BY <1>2, <1>3, <1>4, CountLoss
<1> QED
  BY <1>1, <1>5, <1>6 DEF Num

\* The states that it neither leaves nor enters.
LEMMA NumStays ==
    ASSUME NEW th \in [Thread -> States], NEW t \in Thread, NEW b \in States,
           NEW v \in States, v # b, th[t] # v
    PROVE  Num([th EXCEPT ![t] = b], v) = Num(th, v)
<1>1. Places(Thread, [th EXCEPT ![t] = b], v) = Places(Thread, th, v)
  BY DEF Places
<1> QED
  BY <1>1 DEF Num

LEMMA UpTo ==
    ASSUME NEW k \in Prio
    PROVE  /\ 1..k \subseteq Prio /\ IsFiniteSet(1..k) /\ k \in Nat \ {0}
           /\ 1..(k - 1) \subseteq Prio /\ IsFiniteSet(1..(k - 1))
<1>1. k \in Nat \ {0} /\ Prio = 1..Len(PrioThreads) /\ Len(PrioThreads) \in Nat
  BY PrioFacts
<1>2. IsFiniteSet(1..k) /\ IsFiniteSet(1..(k - 1))
  BY <1>1, FS_Interval
<1> QED
  BY <1>1, <1>2

LEMMA QueuedFacts ==
    ASSUME NEW q \in Queues, NEW k \in Prio
    PROVE  /\ Queued(q, k) \in Nat
           /\ (\A p \in 1..k : q[p] = <<>>) => Queued(q, k) = 0
           /\ \A p \in 1..k : q[p] # <<>> => Queued(q, k) >= 1
<1>1. 1..k \subseteq Prio /\ IsFiniteSet(1..k)
  BY UpTo
<1>2. PICK f : f = Lengths(q)
  OBVIOUS
<1>3. \A p \in Prio : f[p] = Len(q[p]) /\ f[p] \in Nat
  BY <1>2 DEF Lengths, Queues
<1>4. PICK S : S = 1..k
  OBVIOUS
<1>5. /\ IsFiniteSet(Pairs(S, f)) /\ SumOver(S, f) = Cardinality(Pairs(S, f))
      /\ SumOver(S, f) \in Nat
  <2>1. IsFiniteSet(S) /\ \A p \in S : f[p] \in Int
    BY <1>1, <1>3, <1>4
  <2> QED
    BY <2>1, PairsFinite
<1>6. ASSUME \A p \in S : q[p] = <<>> PROVE SumOver(S, f) = 0
  <2>1. \A p \in S : f[p] = 0
    BY <1>1, <1>3, <1>4, <1>6
  <2> QED
    BY <1>1, <1>4, <2>1, SumZero
<1>7. ASSUME NEW p \in S, q[p] # <<>> PROVE SumOver(S, f) >= 1
  <2>1. q[p] \in Seq(Job)
    BY <1>1, <1>4 DEF Queues
  <2>2. f[p] = Len(q[p]) /\ Len(q[p]) \in Nat \ {0}
    BY <1>1, <1>3, <1>4, <1>7, <2>1
  <2>3. 1 \in 1..f[p]
    BY <2>2
  <2>4. <<p, 1>> \in Pairs(S, f)
    BY <2>3, PairsMember
  <2>5. SumOver(S, f) # 0
    BY <1>5, <2>4, FS_EmptySet
  <2> QED
    BY <1>5, <2>5
<1> QED
  BY <1>2, <1>4, <1>5, <1>6, <1>7 DEF Queued

\* A job is added to the queue p of q, which makes r.
OneMore(q, r, p) ==
    /\ Len(r[p]) = Len(q[p]) + 1
    /\ \A i \in Prio \ {p} : Len(r[i]) = Len(q[i])

LEMMA QueuedGains ==
    ASSUME NEW q \in Queues, NEW r \in Queues, NEW p \in Prio, NEW k \in Prio, OneMore(q, r, p)
    PROVE  /\ p <= k => Queued(r, k) = Queued(q, k) + 1
           /\ p > k => Queued(r, k) = Queued(q, k)
<1>1. 1..k \subseteq Prio /\ IsFiniteSet(1..k) /\ k \in Nat /\ p \in Nat \ {0}
  BY UpTo
<1>2. PICK f, g, S : f = Lengths(q) /\ g = Lengths(r) /\ S = 1..k
  OBVIOUS
<1>3. \A i \in Prio : f[i] = Len(q[i]) /\ f[i] \in Nat /\ g[i] = Len(r[i]) /\ g[i] \in Nat
  BY <1>2 DEF Lengths, Queues
<1>4. CASE p <= k
  <2>1. p \in S
    BY <1>1, <1>2, <1>4
  <2>2. /\ IsFiniteSet(S) /\ \A i \in S : f[i] \in Nat
        /\ g[p] = f[p] + 1 /\ \A i \in S \ {p} : g[i] = f[i]
    BY <1>1, <1>2, <1>3 DEF OneMore
  <2>3. SumOver(S, g) = SumOver(S, f) + 1
    BY <2>1, <2>2, SumGain
  <2> QED
    BY <1>1, <1>2, <1>4, <2>3 DEF Queued
<1>5. CASE p > k
  <2>1. \A i \in S : g[i] \in Int /\ f[i] \in Int /\ g[i] <= f[i] /\ f[i] <= g[i]
    <3> SUFFICES ASSUME NEW i \in S PROVE g[i] = f[i] /\ f[i] \in Nat
      OBVIOUS
    <3>1. i \in Prio /\ i # p
      BY <1>1, <1>2, <1>5
    <3> QED
      BY <1>3, <3>1 DEF OneMore
  <2>2. /\ SumOver(S, f) \in Nat /\ SumOver(S, g) \in Nat
        /\ SumOver(S, f) <= SumOver(S, g) /\ SumOver(S, g) <= SumOver(S, f)
    BY <1>1, <1>2, <2>1, SumMonotone
  <2>3. SumOver(S, g) = SumOver(S, f)
    BY <2>2
  <2> QED
    BY <1>1, <1>2, <1>5, <2>3 DEF Queued
<1> QED
  BY <1>1, <1>4, <1>5

LEMMA SpareFinite ==
    ASSUME NEW q \in Queues, NEW w \in [Prio -> Nat], NEW k \in Prio
    PROVE  IsFiniteSet(Spare(q, w, k)) /\ Unclaimed(q, w, k) \in Nat
<1>1. 1..(k - 1) \subseteq Prio /\ IsFiniteSet(1..(k - 1))
  BY UpTo
<1>2. PICK S : S = 1..(k - 1)
  OBVIOUS
<1>3. IsFiniteSet(S) /\ S \subseteq Prio /\ \A p \in S : PrioThreads[p] \in Int
  BY <1>1, <1>2, PrioFacts
<1>4. IsFiniteSet(Pairs(S, PrioThreads))
  BY <1>3, PairsFinite
<1>5. ASSUME NEW y \in Spare(q, w, k) PROVE y \in Pairs(S, PrioThreads)
  <2>1. PICK i \in S : y \in {i} \X ((w[i] + Len(q[i]) + 1)..PrioThreads[i])
    BY <1>2 DEF Spare
  <2>2. w[i] \in Nat /\ Len(q[i]) \in Nat /\ PrioThreads[i] \in Int
    BY <1>3 DEF Queues
  <2>3. PICK n : y = <<i, n>> /\ n \in (w[i] + Len(q[i]) + 1)..PrioThreads[i]
    BY <2>1
  <2>4. n \in 1..PrioThreads[i]
    BY <2>2, <2>3
  <2> QED
    BY <2>3, <2>4, PairsMember
<1>6. IsFiniteSet(Spare(q, w, k))
  BY <1>4, <1>5, FS_Subset
<1> QED
  BY <1>6, FS_CardinalityType DEF Unclaimed

\* Threads at work and jobs become fewer or stay as many.
LEMMA UnclaimedGrows ==
    ASSUME NEW q \in Queues, NEW w \in [Prio -> Nat], NEW r \in Queues, NEW x \in [Prio -> Nat],
           NEW k \in Prio, \A i \in Prio : x[i] + Len(r[i]) <= w[i] + Len(q[i])
    PROVE  Unclaimed(q, w, k) <= Unclaimed(r, x, k)
<1>1. 1..(k - 1) \subseteq Prio
  BY UpTo
<1>2. ASSUME NEW y \in Spare(q, w, k) PROVE y \in Spare(r, x, k)
  <2>1. PICK i \in 1..(k - 1) : y \in {i} \X ((w[i] + Len(q[i]) + 1)..PrioThreads[i])
    BY DEF Spare
  <2>2. /\ w[i] \in Nat /\ Len(q[i]) \in Nat /\ x[i] \in Nat /\ Len(r[i]) \in Nat
        /\ PrioThreads[i] \in Nat /\ x[i] + Len(r[i]) <= w[i] + Len(q[i])
    <3>1. i \in Prio
      BY <1>1
    <3>2. q[i] \in Seq(Job) /\ r[i] \in Seq(Job)
      BY <3>1 DEF Queues
    <3>3. w[i] \in Nat /\ x[i] \in Nat /\ PrioThreads[i] \in Nat
      BY <3>1, PrioFacts
    <3>4. x[i] + Len(r[i]) <= w[i] + Len(q[i])
      BY <3>1
    <3> QED
      BY <3>2, <3>3, <3>4
  <2>3. (w[i] + Len(q[i]) + 1)..PrioThreads[i] \subseteq (x[i] + Len(r[i]) + 1)..PrioThreads[i]
    BY <2>2
  <2>4. y \in {i} \X ((x[i] + Len(r[i]) + 1)..PrioThreads[i])
    BY <2>1, <2>3
  <2> QED
    BY <2>4 DEF Spare
<1>3. Spare(q, w, k) \subseteq Spare(r, x, k)
  BY <1>2
<1> QED
  BY <1>3, SpareFinite, FS_Subset DEF Unclaimed

\* A job is added: it claims one of the reserve at most.
LEMMA UnclaimedFalls ==
    ASSUME NEW q \in Queues, NEW w \in [Prio -> Nat], NEW r \in Queues, NEW p \in Prio,
           OneMore(q, r, p), NEW k \in Prio
    PROVE  Unclaimed(q, w, k) <= Unclaimed(r, w, k) + 1
<1> DEFINE last == <<p, w[p] + Len(q[p]) + 1>>
<1>1. 1..(k - 1) \subseteq Prio
  BY UpTo
<1>2. ASSUME NEW y \in Spare(q, w, k) PROVE y \in Spare(r, w, k) \cup {last}
  <2>1. PICK i \in 1..(k - 1) : y \in {i} \X ((w[i] + Len(q[i]) + 1)..PrioThreads[i])
    BY DEF Spare
  <2>2. PICK n : y = <<i, n>> /\ n \in (w[i] + Len(q[i]) + 1)..PrioThreads[i]
    BY <2>1
  <2>3. /\ w[i] \in Nat /\ Len(q[i]) \in Nat /\ Len(r[i]) \in Nat /\ PrioThreads[i] \in Nat
        /\ Len(r[i]) = Len(q[i]) \/ (i = p /\ Len(r[i]) = Len(q[i]) + 1)
    <3>1. i \in Prio
      BY <1>1
    <3>2. q[i] \in Seq(Job) /\ r[i] \in Seq(Job)
      BY <3>1 DEF Queues
    <3>3. w[i] \in Nat /\ PrioThreads[i] \in Nat
      BY <3>1, PrioFacts
    <3>4. Len(r[i]) = Len(q[i]) \/ (i = p /\ Len(r[i]) = Len(q[i]) + 1)
      BY <3>1 DEF OneMore
    <3> QED
      BY <3>2, <3>3, <3>4
  <2>4. CASE n \in (w[i] + Len(r[i]) + 1)..PrioThreads[i]
    <3>1. y \in {i} \X ((w[i] + Len(r[i]) + 1)..PrioThreads[i])
      BY <2>2, <2>4
    <3> QED
      BY <3>1 DEF Spare
  <2>5. CASE n \notin (w[i] + Len(r[i]) + 1)..PrioThreads[i]
    <3>1. i = p /\ n = w[i] + Len(q[i]) + 1
      BY <2>2, <2>3, <2>5
    <3> QED
      BY <2>2, <3>1
  <2> QED
    BY <2>4, <2>5
<1>3. Spare(q, w, k) \subseteq Spare(r, w, k) \cup {last}
  BY <1>2
<1> HIDE DEF last
<1>4. /\ IsFiniteSet(Spare(r, w, k)) /\ Cardinality(Spare(r, w, k)) \in Nat
      /\ IsFiniteSet(Spare(q, w, k)) /\ Cardinality(Spare(q, w, k)) \in Nat
  BY SpareFinite DEF Unclaimed
<1>5. /\ IsFiniteSet(Spare(r, w, k) \cup {last})
      /\ Cardinality(Spare(r, w, k) \cup {last}) <= Cardinality(Spare(r, w, k)) + 1
      /\ Cardinality(Spare(r, w, k) \cup {last}) \in Nat
  <2>1. CASE last \in Spare(r, w, k)
    <3>1. Spare(r, w, k) \cup {last} = Spare(r, w, k)
      BY <2>1
    <3> QED
      BY <1>4, <3>1
  <2>2. CASE last \notin Spare(r, w, k)
    BY <1>4, <2>2, FS_AddElement
  <2> QED
    BY <2>1, <2>2
<1>6. Cardinality(Spare(q, w, k)) <= Cardinality(Spare(r, w, k) \cup {last})
  BY <1>3, <1>5, FS_Subset
<1> QED
  BY <1>4, <1>5, <1>6 DEF Unclaimed

\* The reserve above k is part of that above a lower priority.
LEMMA UnclaimedBelow ==
    ASSUME NEW q \in Queues, NEW w \in [Prio -> Nat], NEW p \in Prio, NEW k \in Prio, p <= k
    PROVE  Unclaimed(q, w, p) <= Unclaimed(q, w, k)
<1>1. 1..(p - 1) \subseteq 1..(k - 1)
  BY UpTo
<1>2. Spare(q, w, p) \subseteq Spare(q, w, k)
  BY <1>1 DEF Spare
<1> QED
  BY <1>2, SpareFinite, FS_Subset DEF Unclaimed

\* With nothing queued above p, the unclaimed reserve is what get_job keeps.
LEMMA UnclaimedIsReserved ==
    ASSUME queue \in Queues, working \in [Prio -> Nat], NEW p \in Prio,
           \A i \in 1..(p - 1) : queue[i] = <<>>
    PROVE  Unclaimed(queue, working, p) = Reserved(p)
<1>1. 1..(p - 1) \subseteq Prio
  BY UpTo
<1>2. \A i \in 1..(p - 1) : working[i] + Len(queue[i]) + 1 = working[i] + 1
  BY <1>1
<1>3. Spare(queue, working, p) = UNION {{k} \X ((working[k] + 1)..PrioThreads[k]) : k \in 1..(p - 1)}
  BY <1>2 DEF Spare
<1> QED
  BY <1>3 DEF Unclaimed, Reserved

(***************************************************************************)
(* What the steps are made of.                                             *)
(***************************************************************************)
LEMMA NoneWaits ==
    ASSUME NEW q \in Queues, NEW w \in [Prio -> Nat], NEW th, \A t \in Thread : th[t] # "wait"
    PROVE  AnnouncedOf(q, w, th)
<1>1. Num(th, "wait") = 0
  BY NumFacts
<1>2. \A k \in Prio : Unclaimed(q, w, k) \in Nat
  BY SpareFinite
<1> QED
  BY <1>1, <1>2 DEF AnnouncedOf

\* Threads are woken, and no more jobs wait or claim the reserve than before.
LEMMA MoreAwake ==
    ASSUME NEW q \in Queues, NEW w \in [Prio -> Nat], NEW r \in Queues, NEW x \in [Prio -> Nat],
           NEW th, NEW new, AnnouncedOf(q, w, th),
           \A i \in Prio : x[i] <= w[i] /\ r[i] = q[i],
           Num(new, "run") >= Num(th, "run"), Num(new, "wait") <= Num(th, "wait")
    PROVE  AnnouncedOf(r, x, new)
<1> SUFFICES ASSUME NEW k \in Prio
             PROVE  Queued(r, k) <= Num(new, "run") \/ Num(new, "wait") <= Unclaimed(r, x, k)
  BY DEF AnnouncedOf
<1>1. Queued(q, k) <= Num(th, "run") \/ Num(th, "wait") <= Unclaimed(q, w, k)
  BY DEF AnnouncedOf
<1>2. r = q
  BY DEF Queues
<1>3. \A i \in Prio : x[i] + Len(r[i]) <= w[i] + Len(q[i])
  <2> SUFFICES ASSUME NEW i \in Prio PROVE x[i] + Len(r[i]) <= w[i] + Len(q[i])
    OBVIOUS
  <2>1. x[i] \in Nat /\ w[i] \in Nat /\ x[i] <= w[i] /\ r[i] = q[i] /\ q[i] \in Seq(Job)
    BY DEF Queues
  <2> QED
    BY <2>1
<1>4. Unclaimed(q, w, k) <= Unclaimed(r, x, k)
  BY <1>3, UnclaimedGrows
<1>5. /\ Unclaimed(q, w, k) \in Nat /\ Unclaimed(r, x, k) \in Nat /\ Queued(q, k) \in Nat
      /\ Num(th, "run") \in Nat /\ Num(new, "run") \in Nat
      /\ Num(th, "wait") \in Nat /\ Num(new, "wait") \in Nat
  BY SpareFinite, QueuedFacts, NumFacts
<1> QED
  BY <1>1, <1>2, <1>4, <1>5

\* A job is queued, and one of the waiting threads is woken.
LEMMA JobAnnounced ==
    ASSUME NEW q \in Queues, NEW w \in [Prio -> Nat], NEW r \in Queues, NEW p \in Prio,
           OneMore(q, r, p), NEW th \in [Thread -> States], AnnouncedOf(q, w, th),
           NEW t \in Thread, th[t] = "wait"
    PROVE  AnnouncedOf(r, w, [th EXCEPT ![t] = "run"])
<1> SUFFICES ASSUME NEW k \in Prio, NEW new, new = [th EXCEPT ![t] = "run"]
             PROVE  Queued(r, k) <= Num(new, "run") \/ Num(new, "wait") <= Unclaimed(r, w, k)
  BY DEF AnnouncedOf
<1>1. Queued(q, k) <= Num(th, "run") \/ Num(th, "wait") <= Unclaimed(q, w, k)
  BY DEF AnnouncedOf
<1>2. Num(new, "run") = Num(th, "run") + 1 /\ Num(new, "wait") = Num(th, "wait") - 1
  BY NumMoves DEF States
<1>3. Queued(r, k) <= Queued(q, k) + 1
  <2>1. Queued(q, k) \in Nat
    BY QueuedFacts
  <2>2. p \in Nat /\ k \in Nat
    BY PrioFacts
  <2>3. /\ p <= k => Queued(r, k) = Queued(q, k) + 1
        /\ p > k => Queued(r, k) = Queued(q, k)
    BY QueuedGains
  <2> QED
    BY <2>1, <2>2, <2>3
<1>4. Unclaimed(q, w, k) <= Unclaimed(r, w, k) + 1
  BY UnclaimedFalls
<1>5. /\ Unclaimed(q, w, k) \in Nat /\ Unclaimed(r, w, k) \in Nat
      /\ Queued(q, k) \in Nat /\ Queued(r, k) \in Nat
      /\ Num(th, "run") \in Nat /\ Num(th, "wait") \in Nat
  BY SpareFinite, QueuedFacts, NumFacts
<1> QED
  BY <1>1, <1>2, <1>3, <1>4, <1>5

\* job_added->signal, for a job that may have been queued before.
LEMMA SignalAnnounces ==
    ASSUME NEW q \in Queues, NEW w \in [Prio -> Nat], NEW r \in Queues, NEW p \in Prio,
           r = q \/ OneMore(q, r, p),
           thread \in [Thread -> States], NEW th \in [Thread -> States],
           \A t \in Thread : thread[t] = "wait" <=> th[t] = "wait",
           AnnouncedOf(q, w, th), NEW j, NEW new \in Signal(th, j)
    PROVE  AnnouncedOf(r, w, new)
<1>1. CASE Waiting = {}
  <2>1. new = th
    BY <1>1 DEF Signal
  <2>2. \A t \in Thread : new[t] # "wait"
    BY <1>1, <2>1 DEF Waiting
  <2> QED
    BY <2>2, NoneWaits
<1>2. CASE Waiting # {}
  <2>1. PICK t \in Waiting : new = [th EXCEPT ![t] = "run"]
    BY <1>2 DEF Signal
  <2>2. t \in Thread /\ th[t] = "wait"
    BY DEF Waiting
  <2>3. CASE OneMore(q, r, p)
    BY <2>1, <2>2, <2>3, JobAnnounced
  <2>4. CASE r = q
    <3>1. Num(new, "run") = Num(th, "run") + 1 /\ Num(new, "wait") = Num(th, "wait") - 1
      BY <2>1, <2>2, NumMoves DEF States
    <3>2. Num(th, "run") \in Nat /\ Num(th, "wait") \in Nat
      BY NumFacts
    <3>3. Num(new, "run") >= Num(th, "run") /\ Num(new, "wait") <= Num(th, "wait")
      BY <3>1, <3>2
    <3>4. \A i \in Prio : w[i] <= w[i] /\ r[i] = q[i]
      BY <2>4
    <3> QED
      BY <3>3, <3>4, MoreAwake
  <2> QED
    BY <2>3, <2>4
<1> QED
  BY <1>1, <1>2

\* get_job hands out the first job: a thread less is awake, and a job less
\* is looked for; what the job claims of the reserve stays claimed.
LEMMA JobTaken ==
    ASSUME NEW q \in Queues, NEW w \in [Prio -> Nat], NEW r \in Queues, NEW x \in [Prio -> Nat],
           NEW p \in Prio, OneMore(r, q, p), \A i \in Prio : i < p => q[i] = <<>>,
           x = [w EXCEPT ![p] = @ + 1],
           NEW th \in [Thread -> States], AnnouncedOf(q, w, th), NEW t \in Thread, th[t] = "run"
    PROVE  AnnouncedOf(r, x, [th EXCEPT ![t] = "exec"])
<1> SUFFICES ASSUME NEW k \in Prio, NEW new, new = [th EXCEPT ![t] = "exec"]
             PROVE  Queued(r, k) <= Num(new, "run") \/ Num(new, "wait") <= Unclaimed(r, x, k)
  BY DEF AnnouncedOf
<1>1. Queued(q, k) <= Num(th, "run") \/ Num(th, "wait") <= Unclaimed(q, w, k)
  BY DEF AnnouncedOf
<1>2. Num(new, "run") = Num(th, "run") - 1 /\ Num(new, "wait") = Num(th, "wait")
  <2>1. {"run", "exec", "wait"} \subseteq States /\ "wait" # "run" /\ "wait" # "exec" /\ "run" # "exec"
    BY DEF States
  <2>2. Num([th EXCEPT ![t] = "exec"], "run") = Num(th, "run") - 1
    BY <2>1, NumMoves
  <2>3. Num([th EXCEPT ![t] = "exec"], "wait") = Num(th, "wait")
    BY <2>1, NumStays
  <2> QED
    BY <2>1, <2>2, <2>3
<1>3. p \in Nat /\ k \in Nat /\ 1..k \subseteq Prio
  BY UpTo
<1>4. \A i \in Prio : x[i] + Len(r[i]) <= w[i] + Len(q[i])
  <2> SUFFICES ASSUME NEW i \in Prio PROVE x[i] + Len(r[i]) <= w[i] + Len(q[i])
    OBVIOUS
  <2>1. q[i] \in Seq(Job) /\ r[i] \in Seq(Job) /\ w[i] \in Nat
    BY DEF Queues
  <2>2. CASE i = p
    BY <2>1, <2>2 DEF OneMore
  <2>3. CASE i # p
    BY <2>1, <2>3 DEF OneMore
  <2> QED
    BY <2>2, <2>3
<1>5. Unclaimed(q, w, k) <= Unclaimed(r, x, k)
  BY <1>4, UnclaimedGrows
<1>6. /\ Unclaimed(q, w, k) \in Nat /\ Unclaimed(r, x, k) \in Nat
      /\ Queued(q, k) \in Nat /\ Queued(r, k) \in Nat
      /\ Num(th, "run") \in Nat /\ Num(th, "run") >= 1 /\ Num(th, "wait") \in Nat
  BY SpareFinite, QueuedFacts, NumFacts
<1>7. CASE p <= k
  <2>1. Queued(q, k) = Queued(r, k) + 1
    BY <1>7, QueuedGains
  <2> QED
    BY <1>1, <1>2, <1>5, <1>6, <2>1
<1>8. CASE p > k
  <2>1. \A i \in 1..k : q[i] = <<>>
    BY <1>3, <1>8
  <2>2. Queued(q, k) = 0
    BY <2>1, QueuedFacts
  <2>3. Queued(q, k) = Queued(r, k)
    BY <1>8, QueuedGains
  <2> QED
    BY <1>2, <1>6, <2>2, <2>3
<1> QED
  BY <1>3, <1>7, <1>8

\* The queues before the first one with a job are empty.
LEMMA TopIsFirst ==
    ASSUME Types, HasJob PROVE \A i \in Prio : i < TopPrio => queue[i] = <<>>
<1> DEFINE S == {p \in Prio : queue[p] # <<>>}
<1>1. S # {} /\ S \subseteq Nat
  BY PrioFacts DEF HasJob
<1>2. \E p \in S : \A q \in S : p <= q
  <2> HIDE DEF S
  <2> QED
    BY <1>1, FirstExists
<1>3. \A q \in S : Min(S) <= q
  <2> HIDE DEF S
  <2> QED
    BY <1>2 DEF Min
<1>4. TopPrio \in Nat
  BY TopFacts, PrioFacts
<1>5. ASSUME NEW i \in Prio, i < TopPrio PROVE queue[i] = <<>>
  <2>1. i \in Nat /\ i \notin S
    BY <1>3, <1>4, <1>5, PrioFacts DEF TopPrio
  <2> QED
    BY <2>1
<1> QED
  BY <1>5

\* Those who wait and those who are awake are idle.
LEMMA IdleCount ==
    ASSUME IInv PROVE Idle = Num(thread, "run") + Num(thread, "wait")
<1> DEFINE A == Places(Thread, thread, "run")
           B == Places(Thread, thread, "wait")
<1>1. /\ IsFiniteSet(A) /\ IsFiniteSet(B) /\ Cardinality(A) \in Nat /\ Cardinality(B) \in Nat
  BY JobAssumption, CountFinite
<1>2. A \cap B = {}
  BY DEF Places
<1>3. IsFiniteSet(A \cup B) /\ Cardinality(A \cup B) = Cardinality(A) + Cardinality(B)
  <2> HIDE DEF A, B
  <2>1. /\ IsFiniteSet(A \cup B)
        /\ Cardinality(A \cup B) = Cardinality(A) + Cardinality(B) - Cardinality(A \cap B)
    BY <1>1, FS_Union
  <2>2. Cardinality(A \cap B) = 0
    BY <1>2, FS_EmptySet
  <2> QED
    BY <1>1, <2>1, <2>2
<1>4. Alive = (A \cup B) \cup Busy /\ (A \cup B) \cap Busy = {}
  <2>1. thread \in [Thread -> States]
    BY DEF IInv, Types
  <2> QED
    BY <2>1 DEF Alive, Busy, Places, States
<1>5. Cardinality(Alive) = Cardinality(A) + Cardinality(B) + Cardinality(Busy)
  <2>1. PICK C : C = A \cup B
    OBVIOUS
  <2>2. Cardinality(C \cup Busy) = Cardinality(C) + Cardinality(Busy) - Cardinality(C \cap Busy)
    BY <1>3, <2>1, ThreadsFinite, FS_Union
  <2>3. Cardinality(C \cap Busy) = 0
    BY <1>4, <2>1, FS_EmptySet
  <2> HIDE DEF A, B
  <2> QED
    BY <1>1, <1>3, <1>4, <2>1, <2>2, <2>3, ThreadsFinite
<1>6. total = Cardinality(Alive) /\ SumOver(Prio, working) = Cardinality(Busy)
  BY CountersNat DEF IInv, BusyCounted
<1>7. Num(thread, "run") = Cardinality(A) /\ Num(thread, "wait") = Cardinality(B)
  BY DEF Num
<1> HIDE DEF A, B
<1> QED
  BY <1>1, <1>5, <1>6, <1>7, ThreadsFinite DEF Idle

\* A thread that finds no job goes to sleep: there is none, or what is idle
\* is kept for higher priorities.
LEMMA SleepAnnounced ==
    ASSUME IInv, Announced, ~CanGet, NEW t \in Thread, thread[t] = "run"
    PROVE  AnnouncedOf(queue, working, [thread EXCEPT ![t] = "wait"])
<1>0. queue \in Queues /\ working \in [Prio -> Nat] /\ thread \in [Thread -> States] /\ Types
  BY CountersNat DEF IInv, Types, Queues
<1> SUFFICES ASSUME NEW k \in Prio, NEW new, new = [thread EXCEPT ![t] = "wait"]
             PROVE  \/ Queued(queue, k) <= Num(new, "run")
                    \/ Num(new, "wait") <= Unclaimed(queue, working, k)
  BY DEF AnnouncedOf
<1>1. Num(new, "run") = Num(thread, "run") - 1 /\ Num(new, "wait") = Num(thread, "wait") + 1
  BY <1>0, NumMoves DEF States
<1>2. /\ Num(thread, "run") \in Nat /\ Num(thread, "run") >= 1 /\ Num(thread, "wait") \in Nat
      /\ Unclaimed(queue, working, k) \in Nat /\ k \in Nat /\ 1..k \subseteq Prio
  BY <1>0, NumFacts, SpareFinite, UpTo
<1>3. CASE \A i \in 1..k : queue[i] = <<>>
  <2>1. Queued(queue, k) = 0
    BY <1>0, <1>3, QueuedFacts
  <2> QED
    BY <1>1, <1>2, <2>1
<1>4. CASE \E i \in 1..k : queue[i] # <<>>
  <2>1. HasJob
    BY <1>2, <1>4 DEF HasJob
  <2>2. PICK p \in Prio : p = TopPrio /\ \A i \in Prio : i < p => queue[i] = <<>>
    BY <1>0, <2>1, TopFacts, TopIsFirst
  <2>3. p \in Nat \ {0} /\ p <= k /\ 1..(p - 1) \subseteq Prio
    BY <1>2, <1>4, <2>2, UpTo
  <2>4. \A i \in 1..(p - 1) : queue[i] = <<>>
    BY <2>2, <2>3
  <2>5. Reserved(p) >= Idle
    BY <2>1, <2>2 DEF CanGet, Delayed
  <2>6. /\ Unclaimed(queue, working, p) = Reserved(p)
        /\ Unclaimed(queue, working, p) <= Unclaimed(queue, working, k)
        /\ Unclaimed(queue, working, p) \in Nat
    BY <1>0, <2>3, <2>4, UnclaimedIsReserved, UnclaimedBelow, SpareFinite
  <2> QED
    BY <1>1, <1>2, <2>5, <2>6, IdleCount
<1> QED
  BY <1>3, <1>4

(***************************************************************************)
(* The steps.                                                              *)
(***************************************************************************)
WInv == Announced /\ Leaving

LEMMA PoolTypes ==
    ASSUME IInv
    PROVE  queue \in Queues /\ working \in [Prio -> Nat] /\ thread \in [Thread -> States]
  BY CountersNat DEF IInv, Types, Queues

LEMMA PoolTypesNext ==
    ASSUME IInv'
    PROVE  queue' \in Queues /\ working' \in [Prio -> Nat] /\ thread' \in [Thread -> States]
  BY CountersNatNext DEF IInv, Types, Queues

\* A job at the end of its queue makes it longer by one.
LEMMA AppendOneMore ==
    ASSUME NEW q \in Queues, NEW j \in Job
    PROVE  OneMore(q, [q EXCEPT ![PrioOf[j]] = Append(@, j)], PrioOf[j])
<1>1. PrioOf[j] \in Prio
  BY JobAssumption
<1>2. q[PrioOf[j]] \in Seq(Job)
  BY <1>1 DEF Queues
<1> QED
  BY <1>1, <1>2 DEF OneMore, Queues

\* The waiting threads of a pool stay waiting or are woken.
LEMMA LeavingKept ==
    ASSUME Leaving, total' = total, desired' = desired,
           \A t \in Thread : thread'[t] = "wait" => thread[t] = "wait"
    PROVE  Leaving'
  BY DEF Leaving, Waiting

\* A signal makes nobody wait.
LEMMA SignalWakes ==
    ASSUME NEW th \in [Thread -> States], NEW j, NEW new \in Signal(th, j)
    PROVE  \A t \in Thread : new[t] = "wait" => th[t] = "wait"
<1>1. CASE new = th
  BY <1>1
<1>2. CASE \E u \in Waiting : new = [th EXCEPT ![u] = "run"]
  BY <1>2 DEF Waiting
<1> QED
  BY <1>1, <1>2 DEF Signal

\* Nothing that counts changes.
LEMMA StillAnnounced ==
    ASSUME WInv, UNCHANGED <<queue, working, thread, total, desired>>
    PROVE  WInv'
  BY DEF WInv, Announced, AnnouncedOf, Leaving, Waiting

\* queue_job, and the timer job when it queues what is due.
LEMMA QueueWInv ==
    ASSUME IInv, IInv', WInv, NEW j \in Job, NEW p \in Prio,
           queue' = queue \/ OneMore(queue, queue', p), thread' \in Signal(thread, j),
           UNCHANGED <<working, total, desired>>
    PROVE  WInv'
<1>1. /\ queue \in Queues /\ working \in [Prio -> Nat] /\ thread \in [Thread -> States]
      /\ queue' \in Queues
  BY PoolTypes, PoolTypesNext
<1>2. AnnouncedOf(queue, working, thread)
  BY DEF WInv, Announced
<1>3. AnnouncedOf(queue', working, thread')
  <2>1. PICK r, new : r = queue' /\ new = thread'
    OBVIOUS
  <2>2. r \in Queues /\ (r = queue \/ OneMore(queue, r, p)) /\ new \in Signal(thread, j)
    BY <1>1, <2>1
  <2>3. AnnouncedOf(r, working, new)
    BY <1>1, <1>2, <2>2, SignalAnnounces
  <2> QED
    BY <2>1, <2>3
<1>4. Announced'
  BY <1>3 DEF Announced, AnnouncedOf
<1>5. \A t \in Thread : thread'[t] = "wait" => thread[t] = "wait"
  BY <1>1, SignalWakes
<1> QED
  BY <1>4, <1>5, LeavingKept DEF WInv

\* All waiting threads are woken.
LEMMA NobodyWaits ==
    ASSUME IInv', \A t \in Thread : thread'[t] # "wait"
    PROVE  WInv'
<1>1. queue' \in Queues /\ working' \in [Prio -> Nat]
  BY PoolTypesNext
<1>2. PICK q, w, th : q = queue' /\ w = working' /\ th = thread'
  OBVIOUS
<1>3. AnnouncedOf(q, w, th)
  BY <1>1, <1>2, NoneWaits
<1>4. Announced'
  BY <1>2, <1>3 DEF Announced, AnnouncedOf
<1>5. Leaving'
  BY DEF Leaving, Waiting
<1> QED
  BY <1>4, <1>5 DEF WInv

LEMMA GetJobWInv ==
    ASSUME IInv, IInv', WInv, NEW t \in Thread, GetJob(t) PROVE WInv'
<1>1. /\ queue \in Queues /\ working \in [Prio -> Nat] /\ thread \in [Thread -> States]
      /\ queue' \in Queues /\ working' \in [Prio -> Nat] /\ Types
  BY PoolTypes, PoolTypesNext DEF IInv
<1>2. AnnouncedOf(queue, working, thread) /\ Leaving
  BY DEF WInv, Announced
<1>3. thread[t] = "run" /\ desired >= total /\ UNCHANGED <<total, desired>>
  BY DEF GetJob
<1>4. Leaving'
  <2>1. total \in Nat /\ desired \in Nat
    BY CountersNat DEF IInv, Types
  <2> QED
    BY <1>3, <2>1 DEF Leaving
<1>5. CASE CanGet
  <2>1. PICK p \in Prio : p = TopPrio /\ queue[p] # <<>> /\ \A i \in Prio : i < p => queue[i] = <<>>
    BY <1>1, <1>5, TopFacts, TopIsFirst DEF CanGet
  <2>2. /\ queue' = [queue EXCEPT ![p] = Tail(queue[p])]
        /\ working' = [working EXCEPT ![p] = @ + 1]
        /\ thread' = [thread EXCEPT ![t] = "exec"]
    BY <1>5, <2>1 DEF GetJob, Occupy
  <2>3. OneMore(queue', queue, p)
    <3>1. queue[p] \in Seq(Job) /\ queue[p] # <<>>
      BY <1>1, <2>1 DEF Queues
    <3>2. Len(queue[p]) = Len(Tail(queue[p])) + 1
      BY <3>1
    <3>3. queue'[p] = Tail(queue[p]) /\ \A i \in Prio \ {p} : queue'[i] = queue[i]
      BY <1>1, <2>2 DEF Queues
    <3> QED
      BY <3>2, <3>3 DEF OneMore
  <2>4. PICK r, x : r = queue' /\ x = working'
    OBVIOUS
  <2>5. AnnouncedOf(r, x, [thread EXCEPT ![t] = "exec"])
    <3>1. /\ r \in Queues /\ x \in [Prio -> Nat] /\ OneMore(r, queue, p)
          /\ x = [working EXCEPT ![p] = @ + 1]
      BY <1>1, <2>2, <2>3, <2>4
    <3> QED
      BY <1>1, <1>2, <1>3, <2>1, <3>1, JobTaken
  <2> QED
    BY <1>4, <2>2, <2>4, <2>5 DEF WInv, Announced, AnnouncedOf
<1>6. CASE ~CanGet
  <2>1. thread' = [thread EXCEPT ![t] = "wait"] /\ UNCHANGED <<queue, working>>
    BY <1>6 DEF GetJob
  <2>2. AnnouncedOf(queue, working, [thread EXCEPT ![t] = "wait"])
    BY <1>3, <1>6, SleepAnnounced DEF WInv
  <2> QED
    BY <1>4, <2>1, <2>2 DEF WInv, Announced, AnnouncedOf
<1> QED
  BY <1>5, <1>6

\* A thread comes back from a job: it is awake, and the reserve is larger.
LEMMA BackAnnounced ==
    ASSUME NEW q \in Queues, NEW w \in [Prio -> Nat], NEW x \in [Prio -> Nat], NEW p \in Prio,
           x = [w EXCEPT ![p] = @ - 1],
           NEW th \in [Thread -> States], NEW t \in Thread, th[t] = "exec", AnnouncedOf(q, w, th)
    PROVE  AnnouncedOf(q, x, [th EXCEPT ![t] = "run"])
<1>1. PICK new : new = [th EXCEPT ![t] = "run"]
  OBVIOUS
<1>2. Num(new, "run") = Num(th, "run") + 1 /\ Num(new, "wait") = Num(th, "wait")
  <2>1. {"run", "exec", "wait"} \subseteq States /\ "wait" # "run" /\ "wait" # "exec" /\ "run" # "exec"
    BY DEF States
  <2>2. Num([th EXCEPT ![t] = "run"], "run") = Num(th, "run") + 1
    BY <2>1, NumMoves
  <2>3. Num([th EXCEPT ![t] = "run"], "wait") = Num(th, "wait")
    BY <2>1, NumStays
  <2> QED
    BY <1>1, <2>1, <2>2, <2>3
<1>3. Num(th, "run") \in Nat /\ Num(th, "wait") \in Nat
  BY NumFacts
<1>4. \A i \in Prio : x[i] <= w[i] /\ q[i] = q[i]
  OBVIOUS
<1>5. Num(new, "run") >= Num(th, "run") /\ Num(new, "wait") <= Num(th, "wait")
  BY <1>2, <1>3
<1>6. AnnouncedOf(q, x, new)
  BY <1>4, <1>5, MoreAwake
<1> QED
  BY <1>1, <1>6

LEMMA FinishWInv ==
    ASSUME IInv, IInv', WInv, NEW t \in Thread, Finish(t) PROVE WInv'
<1>1. /\ queue \in Queues /\ working \in [Prio -> Nat] /\ thread \in [Thread -> States]
      /\ queue' \in Queues /\ working' \in [Prio -> Nat]
  BY PoolTypes, PoolTypesNext
<1>2. AnnouncedOf(queue, working, thread) /\ Leaving
  BY DEF WInv, Announced
<1>3. PICK j, back : j = job[t] /\ back = [thread EXCEPT ![t] = "run"]
  OBVIOUS
<1>4. /\ thread[t] = "exec" /\ working' = [working EXCEPT ![PrioOf[j]] = @ - 1]
      /\ UNCHANGED <<total, desired>>
      /\ \/ thread' = back /\ queue' = queue
         \/ /\ queue' = [queue EXCEPT ![PrioOf[j]] = Append(@, j)]
            /\ thread' \in Signal(back, j)
  BY <1>3 DEF Finish, Release
<1>5. j \in Job /\ PrioOf[j] \in Prio
  BY <1>3, <1>4, JobAssumption DEF IInv, OneJob, Types
<1>6. /\ back \in [Thread -> States]
      /\ \A u \in Thread : thread[u] = "wait" <=> back[u] = "wait"
  BY <1>1, <1>3, <1>4 DEF States
<1>7. PICK x, p : x = working' /\ p = PrioOf[j]
  OBVIOUS
<1>8. AnnouncedOf(queue, x, back)
  <2>1. x \in [Prio -> Nat] /\ p \in Prio /\ x = [working EXCEPT ![p] = @ - 1]
    BY <1>1, <1>4, <1>5, <1>7
  <2> QED
    BY <1>1, <1>2, <1>3, <1>4, <2>1, BackAnnounced
<1>9. CASE thread' = back /\ queue' = queue
  <2>1. Announced'
    BY <1>7, <1>8, <1>9 DEF Announced, AnnouncedOf
  <2>2. Leaving'
    BY <1>2, <1>4, <1>6, <1>9, LeavingKept
  <2> QED
    BY <2>1, <2>2 DEF WInv
<1>10. CASE /\ queue' = [queue EXCEPT ![PrioOf[j]] = Append(@, j)]
            /\ thread' \in Signal(back, j)
  <2>1. OneMore(queue, queue', p)
    BY <1>1, <1>5, <1>7, <1>10, AppendOneMore
  <2>2. PICK r, new : r = queue' /\ new = thread'
    OBVIOUS
  <2>3. AnnouncedOf(r, x, new)
    <3>1. r \in Queues /\ OneMore(queue, r, p) /\ new \in Signal(back, j) /\ x \in [Prio -> Nat]
          /\ p \in Prio
      BY <1>1, <1>5, <1>7, <1>10, <2>1, <2>2
    <3> QED
      BY <1>1, <1>6, <1>8, <3>1, SignalAnnounces
  <2>4. Announced'
    BY <1>7, <2>2, <2>3 DEF Announced, AnnouncedOf
  <2>5. \A u \in Thread : thread'[u] = "wait" => thread[u] = "wait"
    BY <1>6, <1>10, SignalWakes
  <2> QED
    BY <1>2, <1>4, <2>4, <2>5, LeavingKept DEF WInv
<1> QED
  BY <1>4, <1>9, <1>10

LEMMA RestartWInv ==
    ASSUME IInv, IInv', WInv, NEW t \in Thread, Restart(t) PROVE WInv'
<1>1. /\ queue \in Queues /\ working \in [Prio -> Nat] /\ thread \in [Thread -> States]
      /\ working' \in [Prio -> Nat] /\ total \in Nat /\ desired \in Nat
  BY PoolTypes, PoolTypesNext, CountersNat DEF IInv, Types
<1>2. AnnouncedOf(queue, working, thread) /\ Leaving
  BY DEF WInv, Announced
<1>3. /\ thread[t] = "exec" /\ working' = [working EXCEPT ![PrioOf[Timer]] = @ - 1]
      /\ UNCHANGED <<queue, desired>> /\ PrioOf[Timer] \in Prio
  BY JobAssumption DEF Restart, Release
<1>4. CASE desired >= total
  <2>1. thread' = [thread EXCEPT ![t] = "run"] /\ total' = total
    BY <1>4 DEF Restart
  <2>2. PICK x, p : x = working' /\ p = PrioOf[Timer]
    OBVIOUS
  <2>3. AnnouncedOf(queue, x, [thread EXCEPT ![t] = "run"])
    BY <1>1, <1>2, <1>3, <2>2, BackAnnounced
  <2>4. Announced'
    BY <1>3, <2>1, <2>2, <2>3 DEF Announced, AnnouncedOf
  <2>5. Leaving'
    BY <1>1, <1>3, <1>4, <2>1 DEF Leaving
  <2> QED
    BY <2>4, <2>5 DEF WInv
<1>5. CASE desired < total
  <2>1. thread' = [thread EXCEPT ![t] = "none"]
    BY <1>1, <1>5 DEF Restart
  <2>2. \A u \in Thread : thread'[u] # "wait"
    BY <1>1, <1>2, <1>5, <2>1 DEF Leaving, Waiting
  <2> QED
    BY <2>2, NobodyWaits
<1> QED
  BY <1>1, <1>4, <1>5

LEMMA NextWInv == IInv /\ IInv' /\ WInv /\ [Next]_vars => WInv'
<1> SUFFICES ASSUME IInv, IInv', WInv, [Next]_vars PROVE WInv'
  OBVIOUS
<1>0. /\ queue \in Queues /\ thread \in [Thread -> States]
      /\ total \in Nat /\ desired \in Nat /\ total = Cardinality(Alive)
  BY PoolTypes, CountersNat DEF IInv, Types
<1>1. CASE UNCHANGED <<queue, working, thread, total, desired>>
  BY <1>1, StillAnnounced
<1>2. ASSUME NEW j \in Job, QueueJob(j) PROVE WInv'
  <2>1. PICK p \in Prio : p = PrioOf[j]
    BY JobAssumption
  <2>2. OneMore(queue, queue', p)
    BY <1>0, <1>2, <2>1, AppendOneMore DEF QueueJob
  <2>3. thread' \in Signal(thread, j) /\ UNCHANGED <<working, total, desired>>
    BY <1>2 DEF QueueJob
  <2> QED
    BY <2>2, <2>3, QueueWInv
<1>3. ASSUME NEW j \in Job, ExecuteJob(j) PROVE WInv'
  <2>1. PICK p \in Prio : p = PrioOf[j]
    BY JobAssumption
  <2>2. queue' = queue \/ queue' = [queue EXCEPT ![p] = <<j>> \o @]
    BY <1>3, <2>1 DEF ExecuteJob
  <2>3. ASSUME queue' = [queue EXCEPT ![p] = <<j>> \o @] PROVE OneMore(queue, queue', p)
    <3>1. queue[p] \in Seq(Job)
      BY <1>0 DEF Queues
    <3>2. Len(<<j>> \o queue[p]) = Len(queue[p]) + 1
      BY <3>1
    <3> QED
      BY <1>0, <2>3, <3>2 DEF OneMore, Queues
  <2>4. thread' \in Signal(thread, j) /\ UNCHANGED <<working, total, desired>>
    BY <1>3 DEF ExecuteJob
  <2> QED
    BY <2>2, <2>3, <2>4, QueueWInv
<1>4. CASE SetThreads
  <2>1. \A t \in Thread : thread'[t] # "wait"
    BY <1>0, <1>4 DEF SetThreads, Broadcast
  <2> QED
    BY <2>1, NobodyWaits
<1>5. CASE CancelLoop
  <2>1. CASE total > 0
    <3>1. \A t \in Thread : thread'[t] # "wait"
      BY <1>0, <1>5, <2>1 DEF CancelLoop, Broadcast
    <3> QED
      BY <3>1, NobodyWaits
  <2>2. CASE total = 0
    <3>1. Alive = {}
      BY <1>0, <2>2, ThreadsFinite, FS_EmptySet
    <3>2. thread' = thread
      BY <1>5, <2>2 DEF CancelLoop
    <3>3. \A t \in Thread : thread'[t] # "wait"
      BY <3>1, <3>2 DEF Alive
    <3> QED
      BY <3>3, NobodyWaits
  <2> QED
    BY <1>0, <2>1, <2>2
<1>6. ASSUME NEW t \in Thread, Exit(t) PROVE WInv'
  <2>1. \A u \in Thread : thread'[u] # "wait"
    BY <1>0, <1>6 DEF Exit, WInv, Leaving, Waiting
  <2> QED
    BY <2>1, NobodyWaits
<1>7. CASE Schedule
  <2>1. CASE Due
    <3>1. PICK j : j = heap[1].job
      OBVIOUS
    <3>2. j \in Job
      <4>1. heap \in Seq(Event) /\ heap # <<>>
        BY <2>1 DEF IInv, Types, Due
      <4>2. heap[1] \in Event
        BY <4>1
      <4> QED
        BY <3>1, <4>2 DEF Event
    <3>3. PICK p \in Prio : p = PrioOf[j]
      BY <3>2, JobAssumption
    <3>4. /\ queue' = [queue EXCEPT ![p] = Append(@, j)] /\ thread' \in Signal(thread, j)
          /\ UNCHANGED <<working, total, desired>>
      BY <1>7, <2>1, <3>1, <3>3 DEF Schedule
    <3>5. OneMore(queue, queue', p)
      BY <1>0, <3>2, <3>3, <3>4, AppendOneMore
    <3> QED
      BY <3>2, <3>4, <3>5, QueueWInv
  <2>2. CASE ~Due
    BY <1>1, <1>7, <2>2 DEF Schedule
  <2> QED
    BY <2>1, <2>2
<1>8. CASE \/ \E j \in Job : \E d \in Delay : ScheduleJob(j, d)
           \/ Cancel \/ Flush \/ ScheduleTimeout \/ SpuriousWakeup \/ Tick \/ UNCHANGED vars
  BY <1>1, <1>8
     DEF ScheduleJob, Cancel, Flush, ScheduleTimeout, SpuriousWakeup, Tick, vars, pool
<1> QED
  BY <1>2, <1>3, <1>4, <1>5, <1>6, <1>7, <1>8, GetJobWInv, FinishWInv, RestartWInv
     DEF Next, Worker

\* If all threads that get_job would give a job to are asleep, none is kept
\* for anything else: they would have been woken.
LEMMA AnnouncedWakes == ASSUME IInv, WInv PROVE NoLostWakeup
<1> SUFFICES ASSUME Waiting # {}, CanGet, \A t \in Thread : thread[t] # "run" PROVE FALSE
  BY DEF NoLostWakeup
<1>1. queue \in Queues /\ working \in [Prio -> Nat] /\ Types
  BY PoolTypes DEF IInv
<1>2. PICK p \in Prio : p = TopPrio /\ queue[p] # <<>> /\ \A i \in Prio : i < p => queue[i] = <<>>
  BY <1>1, TopFacts, TopIsFirst DEF CanGet
<1>3. p \in Nat \ {0} /\ 1..(p - 1) \subseteq Prio /\ p \in 1..p
  BY UpTo
<1>4. Num(thread, "run") = 0 /\ Num(thread, "wait") \in Nat /\ Num(thread, "wait") >= 1
  BY NumFacts DEF Waiting
<1>5. Queued(queue, p) \in Nat /\ Queued(queue, p) >= 1
  BY <1>1, <1>2, <1>3, QueuedFacts
<1>6. Num(thread, "wait") <= Unclaimed(queue, working, p)
  BY <1>4, <1>5 DEF WInv, Announced, AnnouncedOf
<1>7. Unclaimed(queue, working, p) = Reserved(p)
  <2>1. \A i \in 1..(p - 1) : queue[i] = <<>>
    BY <1>2, <1>3
  <2> QED
    BY <1>1, <2>1, UnclaimedIsReserved
<1>8. Unclaimed(queue, working, p) \in Nat
  BY <1>1, SpareFinite
<1>9. Reserved(p) > 0 /\ Reserved(p) >= Idle
  BY <1>4, <1>6, <1>7, <1>8, IdleCount
<1> QED
  BY <1>2, <1>9 DEF CanGet, Delayed

LEMMA InitWInv == Init => WInv
<1> SUFFICES ASSUME Init PROVE WInv
  OBVIOUS
<1>1. \A t \in Thread : thread[t] # "wait"
  BY DEF Init
<1>2. queue \in Queues /\ working \in [Prio -> Nat]
  BY InitIInv, PoolTypes
<1> QED
  BY <1>1, <1>2, NoneWaits DEF WInv, Announced, Leaving, Waiting

\* No wakeup is lost, for any number of threads, any priorities and any
\* reserve: a thread that waits although get_job would find it a job has a
\* thread awake beside it.
THEOREM WakeupSafety == Spec => []NoLostWakeup
<1>1. Spec => [](IInv /\ WInv)
  BY InitWInv, InitIInv, NextIInv, NextWInv, PTL DEF Spec
<1>2. IInv /\ WInv => NoLostWakeup
  BY AnnouncedWakes
<1> QED
  BY <1>1, <1>2, PTL

(***************************************************************************)
(* Shutdown: what CancelReturns rests on.                                  *)
(***************************************************************************)
Shutdown == {"stopping", "canceling", "waiting", "canceled", "flushed"}
TimerCanceled == \A t \in Thread : job[t] = Timer => status[Timer] = "canceled"

\* While cancel() waits for a thread to terminate there is one left, none of
\* them sleeps, and the one job that does not return by itself is canceled.
CancelCanEnd == phase = "waiting" =>
    /\ \E t \in Thread : thread[t] \in {"run", "exec"}
    /\ Waiting = {}
    /\ TimerCanceled

CInv ==
    /\ phase \in Shutdown => desired = 0
    /\ phase = "waiting" => total > 0
    /\ phase \in {"canceling", "waiting"} => TimerCanceled

\* A step that only begins new jobs or moves jobs about.
LEMMA ShutdownSame ==
    ASSUME CInv, UNCHANGED <<job, total, desired, phase>>,
           status'[Timer] = status[Timer] \/ status[Timer] # "canceled"
    PROVE  CInv'
  BY DEF CInv, TimerCanceled

\* A new job is not the canceled timer job.
LEMMA NewShutdown ==
    ASSUME CInv, IInv, NEW j \in Job, status[j] = "new", UNCHANGED <<job, total, desired, phase>>,
           NEW s, status' = [status EXCEPT ![j] = s]
    PROVE  CInv'
<1>1. status'[Timer] = status[Timer] \/ status[Timer] # "canceled"
  BY JobAssumption DEF IInv, Types
<1> QED
  BY <1>1, ShutdownSame

\* A thread that leaves its job, or the pool.
LEMMA LeaveShutdown ==
    ASSUME CInv, IInv, NEW t \in Thread, job' = [job EXCEPT ![t] = None] \/ job' = job,
           status'[Timer] = status[Timer], desired' = desired,
           (total' = total /\ phase' = phase) \/ Terminated
    PROVE  CInv'
<1>1. \A u \in Thread : job'[u] = Timer => job[u] = Timer
  BY JobAssumption DEF IInv, Types
<1>2. TimerCanceled => TimerCanceled'
  BY <1>1 DEF TimerCanceled
<1>3. CASE total' = total /\ phase' = phase
  BY <1>2, <1>3 DEF CInv
<1>4. CASE Terminated
  <2>1. phase' # "waiting" /\ (phase' = phase \/ (phase = "waiting" /\ phase' = "canceling"))
    BY <1>4 DEF Terminated
  <2> QED
    BY <1>2, <2>1 DEF CInv, Shutdown
<1> QED
  BY <1>3, <1>4

LEMMA NextCInv == IInv /\ CInv /\ [Next]_vars => CInv'
<1> SUFFICES ASSUME IInv, CInv, [Next]_vars PROVE CInv'
  OBVIOUS
<1>0. /\ Timer \in Job /\ None \notin Job /\ status \in [Job -> {"new", "queued", "executing", "canceled", "done"}]
      /\ job \in [Thread -> Job \cup {None}] /\ total \in Nat /\ desired \in Nat
      /\ total = Cardinality(Alive)
  BY JobAssumption, CountersNat DEF IInv, Types
<1>1. CASE UNCHANGED <<job, total, desired, phase, status>>
  BY <1>1, ShutdownSame
<1>2. ASSUME NEW j \in Job, \/ QueueJob(j) \/ ExecuteJob(j)
                            \/ \E d \in Delay : ScheduleJob(j, d)
      PROVE  CInv'
  <2>1. /\ status[j] = "new" /\ UNCHANGED <<job, total, desired, phase>>
        /\ \E s \in {"queued", "done"} : status' = [status EXCEPT ![j] = s]
    BY <1>2 DEF QueueJob, ExecuteJob, ScheduleJob, pool
  <2> QED
    BY <2>1, NewShutdown
<1>3. CASE SetThreads
  BY <1>3 DEF SetThreads, CInv, Shutdown
<1>4. CASE Cancel
  <2>1. phase = "stopping" /\ phase' = "canceling" /\ UNCHANGED <<job, total, desired>>
    BY <1>4 DEF Cancel
  <2>2. TimerCanceled'
    <3>1. CASE \E t \in Thread : job[t] = Timer
      <4>1. status'[Timer] = "canceled"
        BY <1>0, <1>4, <3>1 DEF Cancel
      <4> QED
        BY <4>1 DEF TimerCanceled
    <3>2. CASE \A t \in Thread : job[t] # Timer
      BY <2>1, <3>2 DEF TimerCanceled
    <3> QED
      BY <3>1, <3>2
  <2> QED
    BY <2>1, <2>2 DEF CInv, Shutdown
<1>5. CASE CancelLoop
  <2>1. CASE total > 0
    <3>1. phase = "canceling" /\ phase' = "waiting" /\ UNCHANGED <<job, total, desired, status>>
      BY <1>5, <2>1 DEF CancelLoop
    <3> QED
      BY <2>1, <3>1 DEF CInv, Shutdown, TimerCanceled
  <2>2. CASE ~(total > 0)
    <3>1. phase = "canceling" /\ phase' = "canceled" /\ desired' = desired
      BY <1>5, <2>2 DEF CancelLoop
    <3> QED
      BY <3>1 DEF CInv, Shutdown
  <2> QED
    BY <2>1, <2>2
<1>6. CASE Flush
  BY <1>6 DEF Flush, CInv, Shutdown
<1>7. ASSUME NEW t \in Thread, Exit(t) PROVE CInv'
  BY <1>7, LeaveShutdown DEF Exit
<1>8. ASSUME NEW t \in Thread, Restart(t) PROVE CInv'
  <2>1. job' = [job EXCEPT ![t] = None] /\ status' = status /\ desired' = desired
    BY <1>8 DEF Restart
  <2>2. (total' = total /\ phase' = phase) \/ Terminated
    BY <1>8 DEF Restart
  <2> QED
    BY <2>1, <2>2, LeaveShutdown
<1>9. ASSUME NEW t \in Thread, Finish(t) PROVE CInv'
  <2>1. PICK j : j = job[t]
    OBVIOUS
  <2>2. j \in Job /\ j # Timer
    BY <1>0, <1>9, <2>1 DEF Finish, IInv, OneJob
  <2>3. /\ job' = [job EXCEPT ![t] = None] /\ UNCHANGED <<total, desired, phase>>
        /\ \E s \in {"queued", "done"} : status' = [status EXCEPT ![j] = s]
    BY <1>9, <2>1 DEF Finish
  <2>4. status'[Timer] = status[Timer]
    BY <1>0, <2>2, <2>3
  <2> QED
    BY <2>3, <2>4, LeaveShutdown
<1>10. ASSUME NEW t \in Thread, GetJob(t) PROVE CInv'
  <2>1. thread[t] = "run" /\ desired >= total /\ UNCHANGED <<total, desired, phase>>
    BY <1>10 DEF GetJob
  <2>2. Alive # {} /\ IsFiniteSet(Alive)
    BY <2>1, ThreadsFinite DEF Alive
  <2>3. Cardinality(Alive) # 0
    BY <2>2, FS_EmptySet
  <2>4. desired > 0
    BY <1>0, <2>1, <2>3
  <2>5. phase \notin Shutdown
    BY <2>4 DEF CInv
  <2> QED
    BY <2>1, <2>5 DEF CInv, Shutdown
<1>11. CASE Schedule \/ ScheduleTimeout \/ SpuriousWakeup \/ Tick \/ UNCHANGED vars
  BY <1>1, <1>11 DEF Schedule, ScheduleTimeout, SpuriousWakeup, Tick, vars, pool
<1> QED
  BY <1>2, <1>3, <1>4, <1>5, <1>6, <1>7, <1>8, <1>9, <1>10, <1>11 DEF Next, Worker

\* cancel() does not wait in vain, for any number of threads and jobs and wherever
\* they were when it was called: while it waits for thread_terminated, a thread is
\* left, no thread sleeps, and a thread in the timer job has been canceled.
THEOREM CancelSafety == Spec => []CancelCanEnd
<1>1. Init => CInv
  BY DEF Init, CInv, Shutdown
<1>2. Spec => [](IInv /\ WInv /\ CInv)
  BY <1>1, InitWInv, InitIInv, NextIInv, NextWInv, NextCInv, PTL DEF Spec
<1>3. IInv /\ WInv /\ CInv => CancelCanEnd
  <2> SUFFICES ASSUME IInv, WInv, CInv, phase = "waiting"
               PROVE  /\ \E t \in Thread : thread[t] \in {"run", "exec"}
                      /\ Waiting = {} /\ TimerCanceled
    BY DEF CancelCanEnd
  <2>1. desired = 0 /\ total > 0 /\ TimerCanceled
    BY DEF CInv, Shutdown
  <2>2. Waiting = {}
    BY <2>1 DEF WInv, Leaving
  <2>3. Cardinality(Alive) # 0
    BY <2>1, CountersNat DEF IInv
  <2>4. Alive # {}
    BY <2>3, FS_EmptySet
  <2>5. \E t \in Thread : thread[t] \in {"run", "exec"}
    BY <2>2, <2>4 DEF Alive, Waiting, IInv, Types, States
  <2> QED
    BY <2>1, <2>2, <2>5
<1> QED
  BY <1>2, <1>3, PTL

(***************************************************************************)
(* The scheduler implements the timer queue.  Besides the order of the     *)
(* heap this needs that a job is in one place at a time: in the heap, in a *)
(* queue or with a thread, and nowhere before it is first used; and that   *)
(* no thread is left when the heap is flushed.                             *)
(***************************************************************************)
InHeap(j) == \E e \in ToSet(heap) : e.job = j
InQueue(j) == j \in ToSet(queue[PrioOf[j]])
OnThread(j) == \E t \in Thread : job[t] = j

Exclusive(j) ==
    /\ ~(InHeap(j) /\ InQueue(j)) /\ ~(InHeap(j) /\ OnThread(j)) /\ ~(InQueue(j) /\ OnThread(j))
    /\ status[j] = "new" => ~InHeap(j) /\ ~InQueue(j) /\ ~OnThread(j)

Apart == \A j \in Job : Exclusive(j)
QueuedOnce == \A p \in Prio : Distinct(queue[p])
TakenOnce == \A t, u \in Thread : job[t] = job[u] /\ job[t] # None => t = u
Stopped == phase \in {"canceled", "flushed"} => \A t \in Thread : thread[t] = "none"

EInv ==
    /\ Sorted(heap) /\ JobsOnce(heap)
    /\ Apart /\ QueuedOnce /\ TakenOnce /\ Stopped

\* A step that puts a job nowhere, though it may take it away.
Fewer(j) ==
    /\ InHeap(j)' => InHeap(j)
    /\ InQueue(j)' => InQueue(j)
    /\ OnThread(j)' => OnThread(j)
    /\ status'[j] = "new" => status[j] = "new"

LEMMA ApartKept ==
    ASSUME Apart, \A j \in Job : Fewer(j) \/ Exclusive(j)'
    PROVE  Apart'
<1> SUFFICES ASSUME NEW j \in Job PROVE Exclusive(j)'
  BY DEF Apart
<1>1. Exclusive(j)
  BY DEF Apart
<1>2. CASE Fewer(j)
  BY <1>1, <1>2 DEF Fewer, Exclusive
<1> QED
  BY <1>2

\* A job is put into its queue, at either end.
LEMMA QueueGains ==
    ASSUME Types, QueuedOnce, NEW j \in Job, ~InQueue(j),
           \/ queue' = [queue EXCEPT ![PrioOf[j]] = Append(@, j)]
           \/ queue' = [queue EXCEPT ![PrioOf[j]] = <<j>> \o @]
    PROVE  QueuedOnce' /\ \A k \in Job : InQueue(k)' <=> InQueue(k) \/ k = j
<1>1. queue \in [Prio -> Seq(Job)] /\ PrioOf \in [Job -> Prio]
  BY JobAssumption DEF Types
<1>2. PICK p \in Prio : p = PrioOf[j]
  BY <1>1
<1>3. queue[p] \in Seq(Job) /\ Distinct(queue[p]) /\ j \notin ToSet(queue[p])
  BY <1>1, <1>2 DEF QueuedOnce, InQueue
<1>4. PICK q : (q = Append(queue[p], j) \/ q = <<j>> \o queue[p])
               /\ queue' = [queue EXCEPT ![p] = q]
  BY <1>2
<1>5. ToSet(q) = ToSet(queue[p]) \cup {j} /\ Distinct(q)
  <2>1. CASE q = Append(queue[p], j)
    BY <1>3, <2>1, AppendFacts
  <2>2. CASE q = <<j>> \o queue[p]
    BY <1>3, <2>2, FrontFacts
  <2> QED
    BY <1>4, <2>1, <2>2
<1>6. queue'[p] = q /\ \A r \in Prio \ {p} : queue'[r] = queue[r]
  BY <1>1, <1>4
<1>7. QueuedOnce'
  BY <1>5, <1>6 DEF QueuedOnce
<1>8. ASSUME NEW k \in Job PROVE InQueue(k)' <=> InQueue(k) \/ k = j
  <2>1. PrioOf[k] \in Prio
    BY <1>1
  <2>2. CASE PrioOf[k] = p
    BY <1>5, <1>6, <2>2 DEF InQueue
  <2>3. CASE PrioOf[k] # p
    BY <1>2, <1>6, <2>1, <2>3 DEF InQueue
  <2> QED
    BY <2>2, <2>3
<1> QED
  BY <1>7, <1>8

\* An event is added for a job that has none.
LEMMA HeapGains ==
    ASSUME IInv, EInv, NEW j \in Job, NEW delay \in Delay, ~InHeap(j), AddEvent(j, delay)
    PROVE  /\ Sorted(heap)' /\ JobsOnce(heap)'
           /\ \A k \in Job : InHeap(k)' <=> InHeap(k) \/ k = j
<1>1. PICK e : e = [time |-> now + delay, job |-> j]
  OBVIOUS
<1>2. /\ e \in Event /\ e.job = j /\ heap' = InsertEvent(heap, e) /\ heap \in Seq(Event)
  BY <1>1, EventAdded DEF IInv
<1>3. PICK g : g = heap'
  OBVIOUS
<1>4. \A x \in ToSet(heap) : x.job # e.job
  BY <1>2 DEF InHeap
<1>5. ToSet(g) = ToSet(heap) \cup {e} /\ Sorted(g) /\ JobsOnce(g)
  BY <1>2, <1>3, <1>4, InsertFacts DEF EInv
<1>6. Sorted(heap)' /\ JobsOnce(heap)'
  BY <1>3, <1>5 DEF Sorted, JobsOnce
<1>7. \A k \in Job : (\E x \in ToSet(g) : x.job = k) <=> InHeap(k) \/ k = j
  BY <1>2, <1>5 DEF InHeap
<1>8. \A k \in Job : InHeap(k)' <=> (\E x \in ToSet(g) : x.job = k)
  BY <1>3 DEF InHeap
<1> QED
  BY <1>6, <1>7, <1>8

LEMMA InitEInv == Init => EInv
<1> SUFFICES ASSUME Init PROVE EInv
  OBVIOUS
<1>1. heap = <<>> /\ Len(heap) = 0 /\ ToSet(heap) = {}
  BY DEF Init, ToSet
<1>2. Sorted(heap) /\ JobsOnce(heap)
  BY <1>1 DEF Sorted, JobsOnce
<1>3. \A j \in Job : ~InHeap(j) /\ ~OnThread(j)
  BY <1>1, JobAssumption DEF Init, InHeap, OnThread
<1>4. \A j \in Job : j # Timer => ~InQueue(j)
  BY JobAssumption DEF Init, InQueue, ToSet
<1>5. Apart
  BY <1>3, <1>4 DEF Apart, Exclusive, Init
<1>6. QueuedOnce
  <2>1. Distinct(<<>>) /\ Distinct(<<Timer>>)
    BY DEF Distinct
  <2> QED
    BY <2>1 DEF QueuedOnce, Init
<1>7. TakenOnce /\ Stopped
  BY DEF TakenOnce, Stopped, Init
<1> QED
  BY <1>2, <1>5, <1>6, <1>7 DEF EInv

\* A new job that is queued, executed at once or scheduled.
LEMMA NewJobEInv ==
    ASSUME IInv, EInv, NEW j \in Job,
           QueueJob(j) \/ ExecuteJob(j) \/ \E d \in Delay : ScheduleJob(j, d)
    PROVE  EInv'
<1>0. Types /\ thread \in [Thread -> States] /\ Exclusive(j)
      /\ status \in [Job -> {"new", "queued", "executing", "canceled", "done"}]
  BY DEF IInv, EInv, Apart, Types
<1>1. ~InHeap(j) /\ ~InQueue(j) /\ ~OnThread(j)
  BY <1>0 DEF Exclusive, QueueJob, ExecuteJob, ScheduleJob
<1>2. /\ job' = job /\ phase' = phase
      /\ status'[j] \in {"queued", "done"} /\ \A k \in Job \ {j} : status'[k] = status[k]
  BY <1>0 DEF QueueJob, ExecuteJob, ScheduleJob, pool
<1>3. \A k \in Job : OnThread(k)' <=> OnThread(k)
  BY <1>2 DEF OnThread
<1>4. TakenOnce'
  BY <1>2 DEF EInv, TakenOnce
<1>5. \A t \in Thread : thread'[t] = "none" <=> thread[t] = "none"
  <2>1. CASE thread' \in Signal(thread, j)
    BY <1>0, <2>1, SignalFacts
  <2>2. CASE thread' = thread
    BY <2>2
  <2> QED
    BY <2>1, <2>2 DEF QueueJob, ExecuteJob, ScheduleJob, pool
<1>6. Stopped'
  BY <1>2, <1>5 DEF EInv, Stopped
<1>7. CASE /\ heap' = heap
           /\ \/ queue' = [queue EXCEPT ![PrioOf[j]] = Append(@, j)]
              \/ queue' = [queue EXCEPT ![PrioOf[j]] = <<j>> \o @]
  <2>1. QueuedOnce' /\ \A k \in Job : InQueue(k)' <=> InQueue(k) \/ k = j
    BY <1>0, <1>1, <1>7, QueueGains DEF EInv
  <2>2. \A k \in Job : InHeap(k)' <=> InHeap(k)
    BY <1>7 DEF InHeap
  <2>3. \A k \in Job : Fewer(k) \/ Exclusive(k)'
    BY <1>1, <1>2, <1>3, <2>1, <2>2 DEF Fewer, Exclusive
  <2>4. Sorted(heap)' /\ JobsOnce(heap)'
    BY <1>7 DEF EInv, Sorted, JobsOnce
  <2> QED
    BY <1>4, <1>6, <2>1, <2>3, <2>4, ApartKept DEF EInv
<1>8. CASE UNCHANGED <<heap, queue>>
  <2>1. \A k \in Job : Fewer(k) \/ Exclusive(k)'
    BY <1>1, <1>2, <1>3, <1>8 DEF Fewer, Exclusive, InHeap, InQueue
  <2>2. Sorted(heap)' /\ JobsOnce(heap)' /\ QueuedOnce'
    BY <1>8 DEF EInv, Sorted, JobsOnce, QueuedOnce
  <2> QED
    BY <1>4, <1>6, <2>1, <2>2, ApartKept DEF EInv
<1>9. CASE queue' = queue /\ \E d \in Delay : AddEvent(j, d)
  <2>1. /\ Sorted(heap)' /\ JobsOnce(heap)'
        /\ \A k \in Job : InHeap(k)' <=> InHeap(k) \/ k = j
    BY <1>1, <1>9, HeapGains
  <2>2. \A k \in Job : InQueue(k)' <=> InQueue(k)
    BY <1>9 DEF InQueue
  <2>3. \A k \in Job : Fewer(k) \/ Exclusive(k)'
    BY <1>1, <1>2, <1>3, <2>1, <2>2 DEF Fewer, Exclusive
  <2>4. QueuedOnce'
    BY <1>9 DEF EInv, QueuedOnce
  <2> QED
    BY <1>4, <1>6, <2>1, <2>3, <2>4, ApartKept DEF EInv
<1> QED
  BY <1>7, <1>8, <1>9 DEF QueueJob, ExecuteJob, ScheduleJob, timer

\* The daemon starts, stops, cancels and flushes.
LEMMA PhaseEInv ==
    ASSUME IInv, EInv, SetThreads \/ Cancel \/ CancelLoop \/ Flush
    PROVE  EInv'
<1>0. /\ thread \in [Thread -> States]
      /\ status \in [Job -> {"new", "queued", "executing", "canceled", "done"}]
  BY DEF IInv, Types
<1>1. job' = job
  BY DEF SetThreads, Cancel, CancelLoop, Flush
<1>2. TakenOnce' /\ \A k \in Job : OnThread(k)' <=> OnThread(k)
  BY <1>1 DEF EInv, TakenOnce, OnThread
<1>3. \A k \in Job : status'[k] = "new" => status[k] = "new"
  BY <1>0, JobAssumption DEF SetThreads, Cancel, CancelLoop, Flush
<1>4. Sorted(heap)' /\ JobsOnce(heap)' /\ \A k \in Job : InHeap(k)' => InHeap(k)
  <2>1. CASE heap' = heap
    BY <2>1 DEF EInv, Sorted, JobsOnce, InHeap
  <2>2. CASE heap' = <<>>
    <3>1. Len(heap') = 0 /\ ToSet(heap') = {}
      BY <2>2 DEF ToSet
    <3> QED
      BY <3>1 DEF Sorted, JobsOnce, InHeap
  <2> QED
    BY <2>1, <2>2 DEF SetThreads, Cancel, CancelLoop, Flush, timer
<1>5. QueuedOnce' /\ \A k \in Job : InQueue(k)' => InQueue(k)
  <2>1. CASE queue' = queue
    BY <2>1 DEF EInv, QueuedOnce, InQueue
  <2>2. CASE queue' = [p \in Prio |-> <<>>]
    <3>1. Distinct(<<>>) /\ ToSet(<<>>) = {}
      BY DEF Distinct, ToSet
    <3> QED
      BY <2>2, <3>1, JobAssumption DEF QueuedOnce, InQueue
  <2> QED
    BY <2>1, <2>2 DEF SetThreads, Cancel, CancelLoop, Flush
<1>6. Apart'
  BY <1>2, <1>3, <1>4, <1>5, ApartKept DEF EInv, Fewer
<1>7. Stopped'
  <2>1. CASE SetThreads \/ Cancel
    BY <2>1 DEF SetThreads, Cancel, Stopped
  <2>2. CASE Flush
    BY <2>2 DEF EInv, Flush, Stopped
  <2>3. CASE CancelLoop /\ total > 0
    BY <2>3 DEF CancelLoop, Stopped
  <2>4. CASE CancelLoop /\ ~(total > 0)
    <3>1. total \in Nat /\ total = Cardinality(Alive)
      BY CountersNat DEF IInv
    <3>2. Alive = {}
      BY <2>4, <3>1, ThreadsFinite, FS_EmptySet
    <3> QED
      BY <2>4, <3>2 DEF CancelLoop, Stopped, Alive
  <2> QED
    BY <2>1, <2>2, <2>3, <2>4
<1> QED
  BY <1>2, <1>4, <1>5, <1>6, <1>7 DEF EInv

\* A step of a thread leaves the heap and the queues alone, and gives no job.
LEMMA ThreadEInv ==
    ASSUME IInv, EInv, UNCHANGED <<heap, queue, status>>,
           \A t \in Thread : thread[t] = "none" => thread'[t] = "none",
           job \in [Thread -> Job \cup {None}],
           job' = job \/ \E t \in Thread : job' = [job EXCEPT ![t] = None],
           phase' = phase \/ phase' = "canceling"
    PROVE  EInv'
<1>1. \A t \in Thread : job'[t] = job[t] \/ job'[t] = None
  OBVIOUS
<1>2. TakenOnce'
  BY <1>1 DEF EInv, TakenOnce
<1>3. \A k \in Job : OnThread(k)' => OnThread(k)
  BY <1>1, JobAssumption DEF OnThread
<1>4. \A k \in Job : Fewer(k)
  BY <1>3 DEF Fewer, InHeap, InQueue
<1>5. Sorted(heap)' /\ JobsOnce(heap)' /\ QueuedOnce'
  BY DEF EInv, Sorted, JobsOnce, QueuedOnce
<1>6. Stopped'
  BY DEF EInv, Stopped
<1> QED
  BY <1>2, <1>4, <1>5, <1>6, ApartKept DEF EInv

LEMMA GetJobEInv == ASSUME IInv, EInv, NEW t \in Thread, GetJob(t) PROVE EInv'
<1>1. Types /\ QueuedByPrio /\ thread \in [Thread -> States] /\ job \in [Thread -> Job \cup {None}]
      /\ queue \in [Prio -> Seq(Job)]
      /\ status \in [Job -> {"new", "queued", "executing", "canceled", "done"}]
  BY DEF IInv, Types
<1>2. thread[t] = "run" /\ UNCHANGED <<phase, heap>>
  BY DEF GetJob, timer
<1>3. CASE CanGet
  <2>1. PICK p \in Prio : p = TopPrio /\ queue[p] # <<>> /\ queue[p] \in Seq(Job)
    BY <1>1, <1>3, TopFacts DEF CanGet
  <2>2. PICK j, q : j = Head(queue[p]) /\ q = Tail(queue[p])
    OBVIOUS
  <2>3. /\ queue' = [queue EXCEPT ![p] = q]
        /\ job' = [job EXCEPT ![t] = j] /\ status' = [status EXCEPT ![j] = "executing"]
        /\ thread' = [thread EXCEPT ![t] = "exec"]
    BY <1>3, <2>1, <2>2 DEF GetJob
  <2>4. /\ j \in Job /\ q \in Seq(Job) /\ j \in ToSet(queue[p])
        /\ ToSet(q) \subseteq ToSet(queue[p]) /\ Distinct(q) /\ j \notin ToSet(q)
    BY <2>1, <2>2, TailFacts DEF EInv, QueuedOnce
  <2>5. PrioOf[j] = p /\ j # None
    BY <1>1, <2>4, JobAssumption DEF QueuedByPrio
  <2>6. InQueue(j) /\ ~InHeap(j) /\ ~OnThread(j)
    BY <2>4, <2>5 DEF InQueue, EInv, Apart, Exclusive
  <2>7. queue'[p] = q /\ \A r \in Prio \ {p} : queue'[r] = queue[r]
    BY <1>1, <2>3
  <2>8. ~InQueue(j)' /\ \A k \in Job : InQueue(k)' => InQueue(k)
    <3>1. ~InQueue(j)'
      BY <2>4, <2>5, <2>7 DEF InQueue
    <3>2. ASSUME NEW k \in Job, InQueue(k)' PROVE InQueue(k)
      <4>1. PrioOf[k] \in Prio /\ k \in ToSet(queue'[PrioOf[k]])
        BY <3>2, JobAssumption DEF InQueue
      <4>2. CASE PrioOf[k] = p
        BY <2>4, <2>7, <4>1, <4>2 DEF InQueue
      <4>3. CASE PrioOf[k] # p
        BY <2>7, <4>1, <4>3 DEF InQueue
      <4> QED
        BY <4>2, <4>3
    <3> QED
      BY <3>1, <3>2
  <2>9. job'[t] = j /\ \A u \in Thread \ {t} : job'[u] = job[u]
    BY <1>1, <2>3
  <2>10. \A k \in Job : k # j => (OnThread(k)' => OnThread(k))
    BY <2>9 DEF OnThread
  <2>11. TakenOnce'
    BY <2>6, <2>9 DEF EInv, TakenOnce, OnThread
  <2>12. \A k \in Job : InHeap(k)' <=> InHeap(k)
    BY <1>2 DEF InHeap
  <2>13. status'[j] = "executing" /\ \A k \in Job \ {j} : status'[k] = status[k]
    BY <1>1, <2>3, <2>4
  <2>14. \A k \in Job : Fewer(k) \/ Exclusive(k)'
    <3>1. Exclusive(j)'
      BY <2>6, <2>8, <2>12, <2>13, <2>4 DEF Exclusive
    <3>2. \A k \in Job \ {j} : Fewer(k)
      BY <2>8, <2>10, <2>12, <2>13 DEF Fewer
    <3> QED
      BY <3>1, <3>2
  <2>15. QueuedOnce'
    BY <2>4, <2>7 DEF EInv, QueuedOnce
  <2>16. Sorted(heap)' /\ JobsOnce(heap)'
    BY <1>2 DEF EInv, Sorted, JobsOnce
  <2>17. Stopped'
    BY <1>2 DEF EInv, Stopped
  <2> QED
    BY <2>11, <2>14, <2>15, <2>16, <2>17, ApartKept DEF EInv
<1>4. CASE ~CanGet
  <2>1. /\ thread' = [thread EXCEPT ![t] = "wait"]
        /\ UNCHANGED <<queue, status, job>>
    BY <1>4 DEF GetJob
  <2>2. \A u \in Thread : thread[u] = "none" => thread'[u] = "none"
    BY <1>1, <1>2, <2>1
  <2> QED
    BY <1>1, <1>2, <2>1, <2>2, ThreadEInv
<1> QED
  BY <1>3, <1>4

LEMMA FinishEInv == ASSUME IInv, EInv, NEW t \in Thread, Finish(t) PROVE EInv'
<1>1. Types /\ thread \in [Thread -> States] /\ job \in [Thread -> Job \cup {None}]
      /\ status \in [Job -> {"new", "queued", "executing", "canceled", "done"}]
  BY DEF IInv, Types
<1>2. PICK j : j = job[t]
  OBVIOUS
<1>3. /\ thread[t] = "exec" /\ job' = [job EXCEPT ![t] = None] /\ phase' = phase
      /\ status' = [status EXCEPT ![j] = "done"] \/ status' = [status EXCEPT ![j] = "queued"]
  BY <1>2 DEF Finish
<1>4. \/ UNCHANGED <<queue, heap>>
      \/ queue' = [queue EXCEPT ![PrioOf[j]] = Append(@, j)] /\ heap' = heap
      \/ queue' = queue /\ \E delay \in Delay : AddEvent(j, delay)
  BY <1>2 DEF Finish, timer
<1>5. j \in Job /\ j # None
  BY <1>1, <1>2, <1>3 DEF IInv, OneJob
<1>6. OnThread(j) /\ ~InQueue(j) /\ ~InHeap(j)
  BY <1>2, <1>5 DEF OnThread, EInv, Apart, Exclusive
<1>7. job'[t] = None /\ \A u \in Thread \ {t} : job'[u] = job[u]
  BY <1>1, <1>3
<1>8. TakenOnce'
  BY <1>7 DEF EInv, TakenOnce
<1>9. ~OnThread(j)' /\ \A k \in Job : OnThread(k)' => OnThread(k)
  <2>1. \A u \in Thread \ {t} : job[u] # j
    BY <1>2, <1>5 DEF EInv, TakenOnce
  <2> QED
    BY <1>5, <1>7, <2>1, JobAssumption DEF OnThread
<1>10. status'[j] # "new" /\ \A k \in Job \ {j} : status'[k] = status[k]
  BY <1>1, <1>3, <1>5
<1>11. Stopped'
  <2>1. phase \notin {"canceled", "flushed"}
    BY <1>3 DEF EInv, Stopped
  <2> QED
    BY <1>3, <2>1 DEF Stopped
<1>12. CASE UNCHANGED <<queue, heap>>
  <2>1. \A k \in Job : Fewer(k) \/ Exclusive(k)'
    BY <1>6, <1>9, <1>10, <1>12 DEF Fewer, Exclusive, InHeap, InQueue
  <2>2. Sorted(heap)' /\ JobsOnce(heap)' /\ QueuedOnce'
    BY <1>12 DEF EInv, Sorted, JobsOnce, QueuedOnce
  <2> QED
    BY <1>8, <1>11, <2>1, <2>2, ApartKept DEF EInv
<1>13. CASE queue' = [queue EXCEPT ![PrioOf[j]] = Append(@, j)] /\ heap' = heap
  <2>1. QueuedOnce' /\ \A k \in Job : InQueue(k)' <=> InQueue(k) \/ k = j
    BY <1>1, <1>5, <1>6, <1>13, QueueGains DEF EInv
  <2>2. \A k \in Job : InHeap(k)' <=> InHeap(k)
    BY <1>13 DEF InHeap
  <2>3. \A k \in Job : Fewer(k) \/ Exclusive(k)'
    BY <1>6, <1>9, <1>10, <2>1, <2>2 DEF Fewer, Exclusive
  <2>4. Sorted(heap)' /\ JobsOnce(heap)'
    BY <1>13 DEF EInv, Sorted, JobsOnce
  <2> QED
    BY <1>8, <1>11, <2>1, <2>3, <2>4, ApartKept DEF EInv
<1>14. CASE queue' = queue /\ \E delay \in Delay : AddEvent(j, delay)
  <2>1. /\ Sorted(heap)' /\ JobsOnce(heap)'
        /\ \A k \in Job : InHeap(k)' <=> InHeap(k) \/ k = j
    BY <1>5, <1>6, <1>14, HeapGains
  <2>2. QueuedOnce' /\ \A k \in Job : InQueue(k)' <=> InQueue(k)
    BY <1>14 DEF EInv, QueuedOnce, InQueue
  <2>3. \A k \in Job : Fewer(k) \/ Exclusive(k)'
    BY <1>6, <1>9, <1>10, <2>1, <2>2 DEF Fewer, Exclusive
  <2> QED
    BY <1>8, <1>11, <2>1, <2>2, <2>3, ApartKept DEF EInv
<1> QED
  BY <1>4, <1>12, <1>13, <1>14

LEMMA ScheduleEInv == ASSUME IInv, EInv, Schedule PROVE EInv'
<1>1. Types /\ thread \in [Thread -> States] /\ job \in [Thread -> Job \cup {None}]
      /\ heap \in Seq(Event)
  BY DEF IInv, Types
<1>2. UNCHANGED <<status, job, phase>>
  BY DEF Schedule
<1>3. CASE Due
  <2>1. heap # <<>> /\ 1 \in 1..Len(heap)
    BY <1>1, <1>3 DEF Due
  <2>2. PICK j \in Job : j = heap[1].job
    BY <1>1, <2>1, EventFacts
  <2>3. /\ heap' = RemoveEvent(heap) /\ queue' = [queue EXCEPT ![PrioOf[j]] = Append(@, j)]
        /\ thread' \in Signal(thread, j)
    BY <1>3, <2>2 DEF Schedule
  <2>4. PICK g : g = heap'
    OBVIOUS
  <2>5. Sorted(g) /\ JobsOnce(g) /\ ToSet(g) = ToSet(heap) \ {heap[1]}
    BY <1>1, <2>1, <2>3, <2>4, RemoveFacts DEF EInv
  <2>6. Sorted(heap)' /\ JobsOnce(heap)'
    BY <2>4, <2>5 DEF Sorted, JobsOnce
  <2>7. InHeap(j) /\ ~InQueue(j) /\ ~OnThread(j) /\ status[j] # "new"
    <3>1. heap[1] \in ToSet(heap)
      BY <1>1, <2>1 DEF ToSet
    <3>2. InHeap(j)
      BY <2>2, <3>1 DEF InHeap
    <3> QED
      BY <3>2 DEF EInv, Apart, Exclusive
  <2>8. QueuedOnce' /\ \A k \in Job : InQueue(k)' <=> InQueue(k) \/ k = j
    BY <1>1, <2>3, <2>7, QueueGains DEF EInv
  <2>9. ~InHeap(j)' /\ \A k \in Job : InHeap(k)' => InHeap(k)
    <3>1. ASSUME NEW e \in ToSet(heap), e.job = j PROVE e = heap[1]
      <4>1. PICK i \in 1..Len(heap) : e = heap[i]
        BY <1>1 DEF ToSet
      <4>2. i = 1
        BY <2>1, <2>2, <3>1, <4>1 DEF EInv, JobsOnce
      <4> QED
        BY <4>1, <4>2
    <3>2. \A k : InHeap(k)' <=> \E e \in ToSet(g) : e.job = k
      BY <2>4 DEF InHeap
    <3> QED
      BY <2>5, <3>1, <3>2 DEF InHeap
  <2>10. \A k \in Job : OnThread(k)' <=> OnThread(k)
    BY <1>2 DEF OnThread
  <2>11. \A k \in Job : Fewer(k) \/ Exclusive(k)'
    BY <1>2, <2>7, <2>8, <2>9, <2>10 DEF Fewer, Exclusive
  <2>12. TakenOnce'
    BY <1>2 DEF EInv, TakenOnce
  <2>13. \A t \in Thread : thread'[t] = "none" <=> thread[t] = "none"
    BY <1>1, <2>3, SignalFacts
  <2>14. Stopped'
    BY <1>2, <2>13 DEF EInv, Stopped
  <2> QED
    BY <2>6, <2>8, <2>11, <2>12, <2>14, ApartKept DEF EInv
<1>4. CASE ~Due
  BY <1>1, <1>2, <1>4, ThreadEInv DEF Schedule
<1> QED
  BY <1>3, <1>4

LEMMA NextEInv == IInv /\ EInv /\ [Next]_vars => EInv'
<1> SUFFICES ASSUME IInv, EInv, [Next]_vars PROVE EInv'
  OBVIOUS
<1>0. job \in [Thread -> Job \cup {None}] /\ thread \in [Thread -> States]
  BY DEF IInv, Types
<1>1. CASE \E j \in Job : QueueJob(j) \/ ExecuteJob(j) \/ \E d \in Delay : ScheduleJob(j, d)
  BY <1>1, NewJobEInv
<1>2. CASE SetThreads \/ Cancel \/ CancelLoop \/ Flush
  BY <1>2, PhaseEInv
<1>3. ASSUME NEW t \in Thread, Exit(t) PROVE EInv'
  <2>1. /\ UNCHANGED <<heap, queue, status, job>> /\ thread' = [thread EXCEPT ![t] = "none"]
        /\ phase' = phase \/ phase' = "canceling"
    BY <1>3 DEF Exit, Terminated, timer
  <2>2. \A u \in Thread : thread[u] = "none" => thread'[u] = "none"
    BY <1>0, <2>1
  <2> QED
    BY <1>0, <2>1, <2>2, ThreadEInv
<1>4. ASSUME NEW t \in Thread, Restart(t) PROVE EInv'
  <2>1. /\ UNCHANGED <<heap, queue, status>> /\ thread[t] = "exec"
        /\ job' = [job EXCEPT ![t] = None]
        /\ phase' = phase \/ phase' = "canceling"
    BY <1>4 DEF Restart, Terminated, timer
  <2>2. \A u \in Thread : thread[u] = "none" => thread'[u] = "none"
    BY <1>0, <1>4, <2>1 DEF Restart
  <2> QED
    BY <1>0, <2>1, <2>2, ThreadEInv
<1>5. CASE \E t \in Thread : GetJob(t) \/ Finish(t)
  BY <1>5, GetJobEInv, FinishEInv
<1>6. CASE Schedule
  BY <1>6, ScheduleEInv
<1>7. CASE ScheduleTimeout \/ SpuriousWakeup \/ Tick \/ UNCHANGED vars
  <2>1. UNCHANGED <<heap, queue, status, job, thread, phase>>
    BY <1>7 DEF ScheduleTimeout, SpuriousWakeup, Tick, vars, pool, timer
  <2> QED
    BY <1>0, <2>1, ThreadEInv
<1> QED
  BY <1>1, <1>2, <1>3, <1>4, <1>5, <1>6, <1>7 DEF Next, Worker

\* A job is in one place at a time.
THEOREM EventInvariance == Spec => []EInv
  BY InitEInv, NextEInv, Invariance, PTL DEF Spec

\* The events of the timer queue.
Pending == {heap[i] : i \in DOMAIN heap}

LEMMA PendingIsHeap == Pending = ToSet(heap)
  BY DEF Pending, ToSet

\* Scheduling a job that is not in the heap.
LEMMA ScheduleStep ==
    ASSUME IInv, EInv, NEW j \in Job, NEW delay \in Delay, ~InHeap(j), AddEvent(j, delay),
           phase # "flushed", phase' = phase
    PROVE  \E e \in Pending' : Timers!Schedule(e)
<1>1. PICK e : e = [time |-> now + delay, job |-> j]
  OBVIOUS
<1>2. /\ e \in Event /\ e.time >= now /\ e.job = j /\ now' = now
      /\ heap' = InsertEvent(heap, e) /\ heap \in Seq(Event)
  BY <1>1, EventAdded DEF IInv
<1>3. PICK g : g = heap'
  OBVIOUS
<1>4. ToSet(g) = ToSet(heap) \cup {e}
  BY <1>2, <1>3, InsertFacts
<1>5. Pending' = Pending \cup {e} /\ e \in Pending'
  BY <1>3, <1>4 DEF Pending, ToSet
<1>6. \A p \in Pending : p.job # e.job
  BY <1>2, PendingIsHeap DEF InHeap
<1>7. (phase' = "flushed") = (phase = "flushed") /\ ~(phase = "flushed")
  OBVIOUS
<1>8. Timers!Schedule(e)
  BY <1>2, <1>5, <1>6, <1>7 DEF Timers!Schedule, Pending
<1> QED
  BY <1>5, <1>8

\* The timer job hands the event at the top to the processor.
LEMMA FireStep ==
    ASSUME IInv, EInv, Schedule, Due
    PROVE  \E e \in Pending : Timers!Fire(e)
<1>1. heap \in Seq(Event) /\ heap # <<>> /\ 1 \in 1..Len(heap) /\ DOMAIN heap = 1..Len(heap)
  BY DEF Due, IInv, Types
<1>2. heap' = RemoveEvent(heap) /\ now' = now /\ phase' = phase /\ heap[1].time <= now
  BY DEF Schedule, Due
<1>3. phase # "flushed"
  BY DEF Schedule, TimerRuns, EInv, Stopped
<1>4. PICK e, g : e = heap[1] /\ g = heap'
  OBVIOUS
<1>5. ToSet(g) = ToSet(heap) \ {e}
  BY <1>1, <1>2, <1>4, RemoveFacts DEF EInv
<1>6. e \in Pending /\ Pending' = Pending \ {e}
  BY <1>1, <1>4, <1>5 DEF Pending, ToSet
<1>7. \A p \in Pending : e.time <= p.time
  BY <1>1, <1>4, TopFirst DEF Pending, EInv
<1>8. (phase' = "flushed") = (phase = "flushed") /\ ~(phase = "flushed")
  BY <1>2, <1>3
<1>9. Timers!Fire(e)
  BY <1>2, <1>4, <1>6, <1>7, <1>8 DEF Timers!Fire, Pending
<1> QED
  BY <1>6, <1>9

LEMMA TimerStep == IInv /\ EInv /\ [Next]_vars => [Timers!Next]_(Timers!vars)
<1> SUFFICES ASSUME IInv, EInv, [Next]_vars PROVE Timers!Next \/ UNCHANGED Timers!vars
  OBVIOUS
<1>0. ASSUME UNCHANGED <<heap, now>>, phase' = "flushed" <=> phase = "flushed"
      PROVE  UNCHANGED Timers!vars
  BY <1>0 DEF Timers!vars
<1>1. ASSUME \E e \in Pending' : Timers!Schedule(e) PROVE Timers!Next
  BY <1>1 DEF Timers!Next, Pending
<1>2. ASSUME NEW j \in Job, NEW d \in Delay, ScheduleJob(j, d) PROVE Timers!Next
  <2>1. ~InHeap(j) /\ AddEvent(j, d) /\ phase # "flushed" /\ phase' = phase
    BY <1>2 DEF ScheduleJob, pool, EInv, Apart, Exclusive
  <2> QED
    BY <1>1, <2>1, ScheduleStep
<1>3. ASSUME NEW t \in Thread, Finish(t) PROVE Timers!Next \/ UNCHANGED Timers!vars
  <2>1. PICK j : j = job[t]
    OBVIOUS
  <2>2. thread[t] = "exec" /\ phase' = phase
        /\ (UNCHANGED <<heap, now>> \/ \E delay \in Delay : AddEvent(j, delay))
    BY <1>3, <2>1 DEF Finish, timer
  <2>3. j \in Job /\ ~InHeap(j) /\ phase # "flushed"
    BY <2>1, <2>2 DEF IInv, OneJob, Types, EInv, Apart, Exclusive, OnThread, Stopped
  <2> QED
    BY <1>0, <1>1, <2>2, <2>3, ScheduleStep
<1>4. CASE Schedule
  <2>1. CASE Due
    BY <1>4, <2>1, FireStep DEF Timers!Next, Pending
  <2>2. CASE ~Due
    BY <1>0, <1>4, <2>2 DEF Schedule
  <2> QED
    BY <2>1, <2>2
<1>5. CASE Flush
  <2>1. heap' = <<>> /\ now' = now /\ phase' = "flushed"
    BY <1>5 DEF Flush
  <2>2. {heap'[i] : i \in DOMAIN heap'} = {}
    BY <2>1
  <2>3. (phase' = "flushed") = TRUE
    BY <2>1
  <2>4. Timers!Flush
    BY <2>1, <2>2, <2>3 DEF Timers!Flush
  <2> QED
    BY <2>4 DEF Timers!Next
<1>6. CASE Tick
  <2>1. now' = now + 1 /\ heap' = heap /\ phase' = phase
    BY <1>6 DEF Tick, pool
  <2>2. Timers!Tick
    BY <2>1 DEF Timers!Tick
  <2> QED
    BY <2>2 DEF Timers!Next
<1>7. CASE \/ \E j \in Job : QueueJob(j) \/ ExecuteJob(j)
           \/ SetThreads \/ Cancel \/ CancelLoop \/ \E t \in Thread : Worker(t)
           \/ ScheduleTimeout \/ SpuriousWakeup \/ UNCHANGED vars
  <2>1. UNCHANGED <<heap, now>>
    BY <1>7 DEF QueueJob, ExecuteJob, SetThreads, Cancel, CancelLoop, Worker, Exit, GetJob, Restart,
                ScheduleTimeout, SpuriousWakeup, vars, pool, timer
  <2>2. phase' = "flushed" <=> phase = "flushed"
    BY <1>7 DEF QueueJob, ExecuteJob, SetThreads, Cancel, CancelLoop, Worker, Exit, GetJob, Restart,
                Terminated, ScheduleTimeout, SpuriousWakeup, vars, pool, timer
  <2> QED
    BY <1>0, <2>1, <2>2
<1> QED
  BY <1>2, <1>3, <1>4, <1>5, <1>6, <1>7 DEF Next

\* The heap implements the timer queue, for any number of jobs and any
\* delays: events leave in the order of their times, none early, none lost.
THEOREM TimerRefinement == Spec => ImplementsTimerQueue
<1>1. Init => Timers!Init
  BY DEF Init, Timers!Init
<1> QED
  BY <1>1, TimerStep, Invariance, EventInvariance, PTL DEF Spec, ImplementsTimerQueue, Timers!Spec
=============================================================================
