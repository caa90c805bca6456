---------------------------- MODULE CommonLemmas ----------------------------
(***************************************************************************)
(* Facts that the proofs of several components rest on: how a counter      *)
(* follows the state it counts, what the operations of a list do to its    *)
(* contents, and that a set of numbers has a first one.                    *)
(***************************************************************************)
EXTENDS Integers, Sequences, SequencesExt, FiniteSets, FiniteSetTheorems, WellFoundedInduction,
        TLAPS

(***************************************************************************)
(* Counts: how the number of places that hold a value changes when one     *)
(* place does.                                                             *)
(***************************************************************************)

\* The places of S where f has the value v.
Places(S, f, v) == {y \in S : f[y] = v}

\* The step from f to g changes no place of S other than x.
OnlyAt(S, f, g, x) == \A y \in S \ {x} : g[y] = f[y]

\* A place that neither gets v nor loses it does not count.
LEMMA CountSame ==
    ASSUME NEW S, NEW f, NEW g, NEW x, NEW v,
           OnlyAt(S, f, g, x),
           x \in S => (f[x] = v <=> g[x] = v)
    PROVE  Places(S, g, v) = Places(S, f, v)
  BY DEF Places, OnlyAt

\* A place that takes v adds one.
LEMMA CountGain ==
    ASSUME NEW S, NEW f, NEW g, NEW x \in S, NEW v,
           IsFiniteSet(Places(S, f, v)),
           OnlyAt(S, f, g, x),
           f[x] # v, g[x] = v
    PROVE  /\ IsFiniteSet(Places(S, g, v))
           /\ Cardinality(Places(S, g, v)) = Cardinality(Places(S, f, v)) + 1
<1>1. x \notin Places(S, f, v) /\ Places(S, g, v) = Places(S, f, v) \cup {x}
  BY DEF Places, OnlyAt
<1> QED
  BY <1>1, FS_AddElement

\* A place that gives v up takes one away.
LEMMA CountLoss ==
    ASSUME NEW S, NEW f, NEW g, NEW x \in S, NEW v,
           IsFiniteSet(Places(S, f, v)),
           OnlyAt(S, f, g, x),
           f[x] = v, g[x] # v
    PROVE  /\ IsFiniteSet(Places(S, g, v))
           /\ Cardinality(Places(S, g, v)) = Cardinality(Places(S, f, v)) - 1
           /\ Cardinality(Places(S, f, v)) >= 1
<1>1. /\ x \notin Places(S, g, v)
      /\ Places(S, f, v) = Places(S, g, v) \cup {x}
      /\ Places(S, g, v) \subseteq Places(S, f, v)
  BY DEF Places, OnlyAt
<1>2. IsFiniteSet(Places(S, g, v)) /\ Cardinality(Places(S, g, v)) \in Nat
  BY <1>1, FS_Subset, FS_CardinalityType
<1>3. Cardinality(Places(S, f, v)) = Cardinality(Places(S, g, v)) + 1
  BY <1>1, <1>2, FS_AddElement
<1> QED
  BY <1>2, <1>3

\* No place holds a value that is nowhere.
LEMMA CountNone ==
    ASSUME NEW S, NEW f, NEW v, \A y \in S : f[y] # v
    PROVE  IsFiniteSet(Places(S, f, v)) /\ Cardinality(Places(S, f, v)) = 0
<1>1. Places(S, f, v) = {}
  BY DEF Places, OnlyAt
<1> QED
  BY <1>1, FS_EmptySet

\* Of finitely many places, finitely many hold a value.
LEMMA CountFinite ==
    ASSUME NEW S, IsFiniteSet(S), NEW f, NEW v
    PROVE  IsFiniteSet(Places(S, f, v)) /\ Cardinality(Places(S, f, v)) \in Nat
<1>1. Places(S, f, v) \subseteq S
  BY DEF Places, OnlyAt
<1> QED
  BY <1>1, FS_Subset, FS_CardinalityType

(***************************************************************************)
(* Lists.                                                                  *)
(***************************************************************************)
\* A list holds nothing twice.
Distinct(q) == \A i, j \in 1..Len(q) : q[i] = q[j] => i = j

\* A list grows by what is appended.
LEMMA AppendFacts ==
    ASSUME NEW S, NEW q \in Seq(S), NEW r \in S
    PROVE  /\ Append(q, r) \in Seq(S)
           /\ ToSet(Append(q, r)) = ToSet(q) \cup {r}
           /\ Distinct(q) /\ r \notin ToSet(q) => Distinct(Append(q, r))
  BY DEF ToSet, Distinct

\* dequeue takes the oldest entry away.
LEMMA TailFacts ==
    ASSUME NEW S, NEW q \in Seq(S), q # <<>>
    PROVE  /\ Head(q) \in S /\ Tail(q) \in Seq(S)
           /\ ToSet(q) = ToSet(Tail(q)) \cup {Head(q)}
           /\ Distinct(q) => Distinct(Tail(q)) /\ Head(q) \notin ToSet(Tail(q))
<1>1. /\ Head(q) = q[1] /\ Head(q) \in S /\ Tail(q) \in Seq(S)
      /\ Len(q) \in Nat \ {0} /\ Len(Tail(q)) = Len(q) - 1
      /\ \A i \in 1..Len(Tail(q)) : Tail(q)[i] = q[i + 1]
  OBVIOUS
<1> DEFINE p == Tail(q)
<1>2. /\ p \in Seq(S) /\ Len(p) = Len(q) - 1
      /\ \A i \in 1..Len(p) : p[i] = q[i + 1]
  BY <1>1
<1> HIDE DEF p
<1>3. Distinct(q) => Distinct(p) /\ Head(q) \notin ToSet(p)
  BY <1>1, <1>2 DEF ToSet, Distinct
<1>4. ToSet(p) \cup {Head(q)} \subseteq ToSet(q)
  BY <1>1, <1>2 DEF ToSet
<1>5. ASSUME NEW i \in 1..Len(q) PROVE q[i] \in ToSet(p) \cup {Head(q)}
  <2>1. CASE i = 1
    BY <1>1, <2>1
  <2>2. CASE i # 1
    <3>1. i - 1 \in 1..Len(p) /\ p[i - 1] = q[i]
      BY <1>1, <1>2, <2>2
    <3> QED
      BY <1>2, <3>1 DEF ToSet
  <2> QED
    BY <2>1, <2>2
<1>6. ToSet(q) = ToSet(p) \cup {Head(q)}
  BY <1>4, <1>5 DEF ToSet
<1> QED
  BY <1>1, <1>3, <1>6 DEF p

\* What remove_at leaves, place by place.
LEMMA RemoveAtIs ==
    ASSUME NEW S, NEW q \in Seq(S), NEW k \in 1..Len(q)
    PROVE  /\ RemoveAt(q, k) \in Seq(S) /\ Len(RemoveAt(q, k)) = Len(q) - 1
           /\ \A i \in 1..(Len(q) - 1) : RemoveAt(q, k)[i] = IF i < k THEN q[i] ELSE q[i + 1]
<1> DEFINE p == RemoveAt(q, k)
<1> DEFINE a == SubSeq(q, 1, k - 1)
           b == SubSeq(q, k + 1, Len(q))
<1>1. /\ a \in Seq(S) /\ Len(a) = k - 1
      /\ \A i \in 1..(k - 1) : a[i] = q[i]
  OBVIOUS
<1>2. /\ b \in Seq(S) /\ Len(b) = Len(q) - k
      /\ \A i \in 1..(Len(q) - k) : b[i] = q[k + i]
  OBVIOUS
<1>3. p = a \o b
  BY DEF RemoveAt
<1> HIDE DEF a, b, p
<1>4. p \in Seq(S) /\ Len(p) = Len(q) - 1
  BY <1>1, <1>2, <1>3
<1>5. ASSUME NEW i \in 1..Len(p) PROVE p[i] = IF i < k THEN q[i] ELSE q[i + 1]
  <2>1. p[i] = IF i <= Len(a) THEN a[i] ELSE b[i - Len(a)]
    BY <1>1, <1>2, <1>3, <1>4
  <2>2. CASE i < k
    BY <1>1, <2>1, <2>2
  <2>3. CASE i >= k
    <3>1. i - Len(a) \in 1..(Len(q) - k) /\ k + (i - Len(a)) = i + 1
      BY <1>1, <1>4, <2>3
    <3> QED
      BY <1>1, <1>2, <2>1, <2>3, <3>1
  <2> QED
    BY <2>2, <2>3
<1> QED
  BY <1>4, <1>5 DEF p

\* remove_at takes one entry away and leaves the order of the others.
LEMMA RemoveAtFacts ==
    ASSUME NEW S, NEW q \in Seq(S), NEW k \in 1..Len(q)
    PROVE  /\ RemoveAt(q, k) \in Seq(S)
           /\ Distinct(q) => /\ Distinct(RemoveAt(q, k))
                             /\ ToSet(RemoveAt(q, k)) = ToSet(q) \ {q[k]}
<1> DEFINE p == RemoveAt(q, k)
<1>1. /\ p \in Seq(S) /\ Len(p) = Len(q) - 1
      /\ \A i \in 1..Len(p) : p[i] = IF i < k THEN q[i] ELSE q[i + 1]
  BY RemoveAtIs
<1> HIDE DEF p
<1>2. ASSUME Distinct(q) PROVE Distinct(p)
  BY <1>1, <1>2 DEF Distinct
<1>3. ASSUME Distinct(q) PROVE ToSet(p) \subseteq ToSet(q) \ {q[k]}
  BY <1>1, <1>3 DEF Distinct, ToSet
<1>4. ToSet(q) \ {q[k]} \subseteq ToSet(p)
  <2> SUFFICES ASSUME NEW i \in 1..Len(q), i # k PROVE q[i] \in ToSet(p)
    BY DEF ToSet
  <2>1. CASE i < k
    <3>1. i \in 1..Len(p) /\ p[i] = q[i]
      BY <1>1, <2>1
    <3> QED
      BY <1>1, <3>1 DEF ToSet
  <2>2. CASE i > k
    <3>1. i - 1 \in 1..Len(p) /\ p[i - 1] = q[i]
      BY <1>1, <2>2
    <3> QED
      BY <1>1, <3>1 DEF ToSet
  <2> QED
    BY <2>1, <2>2
<1> QED
  BY <1>1, <1>2, <1>3, <1>4 DEF p

\* A set of positions that is not empty has a first one.
LEMMA FirstExists ==
    ASSUME NEW T, T \subseteq Nat, T # {}
    PROVE  \E i \in T : \A j \in T : i <= j
<1>1. PICK i \in T : \A j \in T : ~(<<j, i>> \in OpToRel(<, Nat))
  BY NatLessThanWellFounded, WFMin
<1>2. \A j \in T : ~(j < i)
  BY <1>1 DEF OpToRel
<1> QED
  BY <1>2
(***************************************************************************)
(* Queues: how many elements of a list are of a kind.                      *)
(***************************************************************************)
\* The number of places of q that hold an element of V.
HowMany(q, V) == Cardinality({i \in 1..Len(q) : q[i] \in V})

\* One more, or none.
One(b) == IF b THEN 1 ELSE 0

LEMMA HowManyFinite ==
    ASSUME NEW S, NEW q \in Seq(S), NEW V
    PROVE  IsFiniteSet({i \in 1..Len(q) : q[i] \in V}) /\ HowMany(q, V) \in Nat
<1>1. IsFiniteSet(1..Len(q)) /\ {i \in 1..Len(q) : q[i] \in V} \subseteq 1..Len(q)
  BY FS_Interval
<1> QED
  BY <1>1, FS_Subset, FS_CardinalityType DEF HowMany

LEMMA HowManyEmpty == ASSUME NEW V PROVE HowMany(<<>>, V) = 0
<1>1. {i \in 1..Len(<<>>) : <<>>[i] \in V} = {}
  OBVIOUS
<1> QED
  BY <1>1, FS_EmptySet DEF HowMany

LEMMA HowManyAppend ==
    ASSUME NEW S, NEW q \in Seq(S), NEW x \in S, NEW V
    PROVE  HowMany(Append(q, x), V) = HowMany(q, V) + One(x \in V)
<1>1. PICK P, R, n : /\ P = {i \in 1..Len(q) : q[i] \in V} /\ n = Len(q) + 1
                     /\ R = {i \in 1..Len(Append(q, x)) : Append(q, x)[i] \in V}
  OBVIOUS
<1>2. /\ n \in Nat /\ Len(q) \in Nat /\ Len(Append(q, x)) = n /\ Append(q, x)[n] = x
      /\ \A i \in 1..Len(q) : Append(q, x)[i] = q[i]
  BY <1>1
<1>3. \A i : i \in 1..n <=> i \in 1..Len(q) \/ i = n
  BY <1>1, <1>2
<1>4. R = IF x \in V THEN P \cup {n} ELSE P
  BY <1>1, <1>2, <1>3
<1>5. IsFiniteSet(P) /\ n \notin P
  <2>1. IsFiniteSet({i \in 1..Len(q) : q[i] \in V})
    BY HowManyFinite
  <2> QED
    BY <1>1, <1>2, <2>1
<1>6. Cardinality(P \cup {n}) = Cardinality(P) + 1
  BY <1>5, FS_AddElement
<1>7. Cardinality(P) \in Nat
  BY <1>5, FS_CardinalityType
<1>8. HowMany(Append(q, x), V) = Cardinality(R) /\ HowMany(q, V) = Cardinality(P)
  BY <1>1 DEF HowMany
<1> QED
  BY <1>4, <1>6, <1>7, <1>8 DEF One

LEMMA HowManyTail ==
    ASSUME NEW S, NEW q \in Seq(S), q # <<>>, NEW V
    PROVE  HowMany(Tail(q), V) = HowMany(q, V) - One(Head(q) \in V)
<1>1. PICK P, R, F : /\ P = {i \in 1..Len(q) : q[i] \in V}
                     /\ R = {i \in 1..Len(Tail(q)) : Tail(q)[i] \in V}
                     /\ F = [i \in R |-> i + 1]
  OBVIOUS
<1>2. /\ Len(q) \in Nat \ {0} /\ Len(Tail(q)) = Len(q) - 1 /\ Head(q) = q[1]
      /\ \A i \in 1..Len(Tail(q)) : Tail(q)[i] = q[i + 1]
  OBVIOUS
<1>3. IsFiniteSet(P) /\ Tail(q) \in Seq(S)
  <2>1. IsFiniteSet({i \in 1..Len(q) : q[i] \in V})
    BY HowManyFinite
  <2> QED
    BY <1>1, <2>1
<1>4. IsFiniteSet(R)
  BY <1>1, <1>3, HowManyFinite
<1>5. F \in Bijection(R, P \ {1})
  <2>1. \A i \in R : i + 1 \in P \ {1}
    BY <1>1, <1>2
  <2>2. \A j \in P \ {1} : j - 1 \in R /\ (j - 1) + 1 = j
    BY <1>1, <1>2
  <2>3. \A i, j \in R : F[i] = F[j] => i = j
    BY <1>1
  <2>4. F \in Injection(R, P \ {1})
    BY <1>1, <2>1, <2>3 DEF Injection, IsInjective
  <2>5. F \in Surjection(R, P \ {1})
    BY <1>1, <2>1, <2>2 DEF Surjection
  <2> QED
    BY <2>4, <2>5 DEF Bijection
<1>6. Cardinality(R) = Cardinality(P \ {1})
  BY <1>4, <1>5, FS_Bijection DEF ExistsBijection
<1>7. Cardinality(P \ {1}) = Cardinality(P) - One(1 \in P)
  BY <1>3, FS_RemoveElement, FS_CardinalityType DEF One
<1>8. 1 \in P <=> Head(q) \in V
  BY <1>1, <1>2
<1>9. HowMany(Tail(q), V) = Cardinality(R) /\ HowMany(q, V) = Cardinality(P)
  BY <1>1 DEF HowMany
<1> QED
  BY <1>6, <1>7, <1>8, <1>9 DEF One

=============================================================================
