-------------------------- MODULE Ascending_proofs --------------------------
(***************************************************************************)
(* An ascending sequence of all members of a set of numbers is the one     *)
(* that Enumerated gives, and each finite set has one.                     *)
(***************************************************************************)
EXTENDS Ascending, Integers, FiniteSetTheorems, SequenceTheorems, WellFoundedInduction, TLAPS

\* s lists the d members of P in ascending order.
Lists(s, d, P) ==
    /\ s \in [1..d -> P]
    /\ \A m, n \in 1..d : m < n => s[m] < s[n]
    /\ \A k \in P : \E n \in 1..d : s[n] = k

LEMMA ListCounts ==
    ASSUME NEW P \in SUBSET Nat, NEW d \in Nat, NEW s, Lists(s, d, P)
    PROVE  /\ IsFiniteSet(P) /\ Cardinality(P) = d
           /\ \A n \in 1..d : Rank(P, s[n]) = n - 1
<1>1. /\ s \in [1..d -> P] /\ \A m, n \in 1..d : m < n => s[m] < s[n]
      /\ \A k \in P : \E n \in 1..d : s[n] = k
  BY DEF Lists
<1>2. \A m, n \in 1..d : s[m] = s[n] => m = n
  <2> SUFFICES ASSUME NEW m \in 1..d, NEW n \in 1..d, s[m] = s[n], m # n PROVE FALSE
    OBVIOUS
  <2>1. s[m] \in Nat /\ s[n] \in Nat
    BY <1>1
  <2>2. m < n \/ n < m
    OBVIOUS
  <2> QED
    BY <1>1, <2>1, <2>2
<1>3. IsFiniteSet(P) /\ Cardinality(P) = d
  <2>1. s \in Bijection(1..d, P)
    BY <1>1, <1>2 DEF Bijection, Injection, Surjection, IsInjective
  <2>2. IsFiniteSet(1..d) /\ Cardinality(1..d) = d
    BY FS_Interval
  <2> QED
    BY <2>1, <2>2, FS_Bijection DEF ExistsBijection
<1>4. ASSUME NEW n \in 1..d PROVE Rank(P, s[n]) = n - 1
  <2> DEFINE Q == {j \in P : j < s[n]}
             t == [m \in 1..(n - 1) |-> s[m]]
  <2>1. \A m \in 1..(n - 1) : m \in 1..d /\ m < n
    OBVIOUS
  <2>2. t \in [1..(n - 1) -> Q]
    BY <1>1, <2>1
  <2>3. \A j \in Q : \E m \in 1..(n - 1) : t[m] = j
    <3> SUFFICES ASSUME NEW j \in Q PROVE \E m \in 1..(n - 1) : t[m] = j
      OBVIOUS
    <3>1. PICK m \in 1..d : s[m] = j
      BY <1>1
    <3>2. s[m] < s[n] /\ s[m] \in Nat /\ s[n] \in Nat
      BY <1>1, <3>1
    <3>3. ~ (n < m) /\ m # n
      BY <1>1, <3>2
    <3>4. m \in 1..(n - 1)
      BY <3>3
    <3> QED
      BY <3>1, <3>4
  <2>4. \A l, m \in 1..(n - 1) : t[l] = t[m] => l = m
    BY <1>2, <2>1
  <2> HIDE DEF Q, t
  <2>5. t \in Bijection(1..(n - 1), Q)
    BY <2>2, <2>3, <2>4 DEF Bijection, Injection, Surjection, IsInjective
  <2>6. IsFiniteSet(1..(n - 1)) /\ Cardinality(1..(n - 1)) = n - 1
    <3>1. n - 1 \in Int /\ n - 1 >= 0
      OBVIOUS
    <3> QED
      BY <3>1, FS_Interval
  <2>7. Cardinality(Q) = n - 1
    BY <2>5, <2>6, FS_Bijection DEF ExistsBijection
  <2> QED
    BY <2>7 DEF Q, Rank
<1> QED
  BY <1>3, <1>4

\* An ascending sequence of all members of a set is its enumeration.
LEMMA EnumeratedIs ==
    ASSUME NEW P \in SUBSET Nat, NEW d \in Nat, NEW s, Lists(s, d, P)
    PROVE  Cardinality(P) = d /\ Enumerated(P) = s
<1>1. /\ Cardinality(P) = d
      /\ \A n \in 1..d : Rank(P, s[n]) = n - 1
  BY ListCounts
<1>2. s \in [1..d -> P] /\ \A k \in P : \E n \in 1..d : s[n] = k
  BY DEF Lists
<1>3. ASSUME NEW n \in 1..d PROVE (CHOOSE k \in P : Rank(P, k) = n - 1) = s[n]
  <2>1. s[n] \in P /\ Rank(P, s[n]) = n - 1
    BY <1>1, <1>2
  <2>2. ASSUME NEW k \in P, Rank(P, k) = n - 1 PROVE k = s[n]
    <3>1. PICK m \in 1..d : s[m] = k
      BY <1>2
    <3>2. m - 1 = n - 1
      BY <1>1, <2>2, <3>1
    <3> QED
      BY <3>1, <3>2
  <2> QED
    BY <2>1, <2>2
<1> QED
  BY <1>1, <1>2, <1>3 DEF Enumerated

\* The least member of a set of numbers.
LEMMA LeastMember ==
    ASSUME NEW T \in SUBSET Nat, T # {}
    PROVE  \E m \in T : \A k \in T : m <= k
<1> DEFINE R == OpToRel(<, Nat)
<1>1. IsWellFoundedOn(R, Nat)
  BY NatLessThanWellFounded
<1>2. \A x, y \in Nat : x < y => <<x, y>> \in R
  BY DEF OpToRel
<1> HIDE DEF R
<1>3. PICK m \in T : \A k \in T : ~ (<<k, m>> \in R)
  BY <1>1, WFMin
<1>4. ASSUME NEW k \in T PROVE m <= k
  <2>1. ~ (<<k, m>> \in R) /\ k \in Nat /\ m \in Nat
    BY <1>3
  <2>2. ~ (k < m)
    BY <1>2, <2>1
  <2> QED
    BY <2>1, <2>2
<1> QED
  BY <1>4

\* Every finite set of numbers has an enumeration: ranks are different and less
\* than the size of the set, so that each of them is taken.
LEMMA EnumeratedLists ==
    ASSUME NEW P \in SUBSET Nat, IsFiniteSet(P)
    PROVE  Cardinality(P) \in Nat /\ Lists(Enumerated(P), Cardinality(P), P)
<1> DEFINE d == Cardinality(P)
           Below(k) == {j \in P : j < k}
           f == [k \in P |-> Rank(P, k) + 1]
<1>1. d \in Nat
  BY FS_CardinalityType
<1>2. \A k \in P : IsFiniteSet(Below(k)) /\ Cardinality(Below(k)) \in Nat /\ Rank(P, k) = Cardinality(Below(k))
  <2> SUFFICES ASSUME NEW k \in P
               PROVE  IsFiniteSet(Below(k)) /\ Cardinality(Below(k)) \in Nat /\ Rank(P, k) = Cardinality(Below(k))
    OBVIOUS
  <2>1. Below(k) \in SUBSET P
    OBVIOUS
  <2>2. IsFiniteSet(Below(k))
    BY <2>1, FS_Subset
  <2> QED
    BY <2>2, FS_CardinalityType DEF Rank
<1>3. ASSUME NEW j \in P, NEW k \in P, j < k PROVE Rank(P, j) < Rank(P, k)
  <2>1. Below(j) \in SUBSET Below(k)
    <3>1. \A i \in P : i < j => i < k
      <4>1. j \in Nat /\ k \in Nat /\ \A i \in P : i \in Nat
        OBVIOUS
      <4> QED
        BY <1>3, <4>1
    <3> QED
      BY <3>1
  <2>2. j \in Below(k) /\ j \notin Below(j)
    BY <1>3
  <2>3. Cardinality(Below(j)) <= Cardinality(Below(k)) /\ Cardinality(Below(j)) # Cardinality(Below(k))
    <3> HIDE DEF Below
    <3> QED
      BY <1>2, <2>1, <2>2, FS_Subset
  <2> HIDE DEF Below
  <2> QED
    BY <1>2, <2>3
<1>4. \A k \in P : Rank(P, k) < d
  <2> SUFFICES ASSUME NEW k \in P PROVE Rank(P, k) < d
    OBVIOUS
  <2>1. Below(k) \in SUBSET P /\ k \notin Below(k)
    OBVIOUS
  <2>2. Cardinality(Below(k)) <= d /\ Cardinality(Below(k)) # d
    <3> HIDE DEF Below
    <3> QED
      BY <2>1, FS_Subset
  <2> HIDE DEF Below
  <2> QED
    BY <1>1, <1>2, <2>2
<1> HIDE DEF Below
<1>5. \A k \in P : Rank(P, k) \in Nat
  BY <1>2
<1>6. f \in Injection(P, 1..d)
  <2>1. f \in [P -> 1..d]
    <3>1. \A k \in P : Rank(P, k) + 1 \in 1..d
      BY <1>1, <1>4, <1>5
    <3> QED
      BY <3>1
  <2>2. \A j, k \in P : f[j] = f[k] => j = k
    <3> SUFFICES ASSUME NEW j \in P, NEW k \in P, f[j] = f[k], j # k PROVE FALSE
      OBVIOUS
    <3>1. Rank(P, j) = Rank(P, k)
      BY <1>5
    <3>2. j < k \/ k < j
      OBVIOUS
    <3> QED
      BY <1>3, <1>5, <3>1, <3>2
  <2> QED
    BY <2>1, <2>2 DEF Injection, IsInjective
<1>7. f \in Surjection(P, 1..d)
  <2>1. IsFiniteSet(1..d) /\ Cardinality(1..d) = d
    BY <1>1, FS_Interval
  <2> HIDE DEF f
  <2> QED
    BY <1>6, <2>1, FS_Injection
<1>8. \A n \in 1..d : \E k \in P : Rank(P, k) = n - 1
  <2> SUFFICES ASSUME NEW n \in 1..d PROVE \E k \in P : Rank(P, k) = n - 1
    OBVIOUS
  <2>1. PICK k \in P : f[k] = n
    <3> HIDE DEF f
    <3> QED
      BY <1>7 DEF Surjection
  <2>2. Rank(P, k) + 1 = n
    BY <2>1
  <2> QED
    BY <1>5, <2>2
<1> DEFINE s == Enumerated(P)
<1>9. \A n \in 1..d : s[n] \in P /\ Rank(P, s[n]) = n - 1
  BY <1>8 DEF Enumerated
<1>10. s \in [1..d -> P]
  <2>1. s = [n \in 1..d |-> s[n]]
    BY DEF Enumerated
  <2> HIDE DEF s
  <2> QED
    BY <1>9, <2>1
<1> HIDE DEF s, f
<1>11. \A m, n \in 1..d : m < n => s[m] < s[n]
  <2> SUFFICES ASSUME NEW m \in 1..d, NEW n \in 1..d, m < n, ~ (s[m] < s[n]) PROVE FALSE
    OBVIOUS
  <2>1. s[m] \in P /\ s[n] \in P /\ Rank(P, s[m]) = m - 1 /\ Rank(P, s[n]) = n - 1
    BY <1>9
  <2>2. s[m] = s[n] \/ s[n] < s[m]
    <3>1. s[m] \in Nat /\ s[n] \in Nat
      BY <2>1
    <3> QED
      BY <3>1
  <2>3. ~ (s[n] < s[m])
    <3> SUFFICES ASSUME s[n] < s[m] PROVE FALSE
      OBVIOUS
    <3>1. Rank(P, s[n]) < Rank(P, s[m])
      BY <1>3, <2>1
    <3> QED
      BY <2>1, <3>1
  <2> QED
    BY <2>1, <2>2, <2>3
<1>12. \A k \in P : \E n \in 1..d : s[n] = k
  <2> SUFFICES ASSUME NEW k \in P PROVE \E n \in 1..d : s[n] = k
    OBVIOUS
  <2>1. PICK n \in 1..d : n = Rank(P, k) + 1
    BY <1>1, <1>4, <1>5
  <2>2. s[n] \in P /\ Rank(P, s[n]) = Rank(P, k)
    BY <1>5, <1>9, <2>1
  <2>3. ~ (Rank(P, s[n]) < Rank(P, k)) /\ ~ (Rank(P, k) < Rank(P, s[n]))
    BY <1>5, <2>2
  <2>4. ~ (s[n] < k) /\ ~ (k < s[n])
    BY <1>3, <2>2, <2>3
  <2>5. s[n] \in Nat /\ k \in Nat
    BY <2>2
  <2> QED
    BY <2>4, <2>5
<1> QED
  BY <1>1, <1>10, <1>11, <1>12 DEF Lists, s

-----------------------------------------------------------------------------
(* Elements picked out of a sequence *)

LEMMA Positions ==
    ASSUME NEW n \in Nat, NEW P \in SUBSET (1..n)
    PROVE  P \in SUBSET Nat /\ IsFiniteSet(P)
<1>1. IsFiniteSet(1..n)
  BY FS_Interval
<1>2. IsFiniteSet(P)
  BY <1>1, FS_Subset
<1>3. P \in SUBSET Nat
  OBVIOUS
<1> QED
  BY <1>2, <1>3

\* What is picked, by any list of the positions.
LEMMA PickedBy ==
    ASSUME NEW T, NEW s \in Seq(T), NEW P \in SUBSET (1..Len(s)),
           NEW d \in Nat, NEW e, Lists(e, d, P)
    PROVE  /\ Picked(s, P) = [n \in 1..d |-> s[e[n]]]
           /\ Picked(s, P) \in Seq(T) /\ Len(Picked(s, P)) = d
           /\ \A n \in 1..d : Picked(s, P)[n] = s[e[n]]
<1>1. e \in [1..d -> P]
  BY DEF Lists
<1>2. P \in SUBSET Nat
  BY LenProperties, Positions
<1>3. Enumerated(P) = e
  BY <1>2, EnumeratedIs
<1>4. Picked(s, P) = [n \in 1..d |-> s[e[n]]]
  BY <1>1, <1>3 DEF Picked
<1>5. \A n \in 1..d : s[e[n]] \in T
  BY <1>1, ElementOfSeq
<1>6. Picked(s, P) \in [1..d -> T]
  BY <1>4, <1>5
<1>7. Picked(s, P) \in Seq(T)
  BY <1>6, SeqDef
<1>8. Len(Picked(s, P)) = d
  BY <1>6, <1>7, LenProperties
<1> QED
  BY <1>4, <1>7, <1>8

\* There is a list of them, and what is picked is an element.
LEMMA PickedProperties ==
    ASSUME NEW T, NEW s \in Seq(T), NEW P \in SUBSET (1..Len(s))
    PROVE  /\ Cardinality(P) \in Nat /\ Lists(Enumerated(P), Cardinality(P), P)
           /\ Picked(s, P) \in Seq(T) /\ Len(Picked(s, P)) = Cardinality(P)
           /\ \A n \in 1..Cardinality(P) :
                 Enumerated(P)[n] \in P /\ Picked(s, P)[n] = s[Enumerated(P)[n]]
<1>1. P \in SUBSET Nat /\ IsFiniteSet(P)
  BY LenProperties, Positions
<1>2. Cardinality(P) \in Nat /\ Lists(Enumerated(P), Cardinality(P), P)
  BY <1>1, EnumeratedLists
<1>3. \A n \in 1..Cardinality(P) : Enumerated(P)[n] \in P
  BY <1>2 DEF Lists
<1> QED
  BY <1>2, <1>3, PickedBy

\* Other elements than those at the positions do not matter.
LEMMA PickedSame ==
    ASSUME NEW T, NEW s \in Seq(T), NEW t \in Seq(T), NEW P \in SUBSET (1..Len(s)),
           P \in SUBSET (1..Len(t)), \A k \in P : s[k] = t[k]
    PROVE  Picked(s, P) = Picked(t, P)
<1> DEFINE d == Cardinality(P)
           e == Enumerated(P)
<1>1. d \in Nat /\ Lists(e, d, P) /\ \A n \in 1..d : e[n] \in P
  BY PickedProperties
<1> HIDE DEF d, e
<1>2. Picked(s, P) = [n \in 1..d |-> s[e[n]]]
  BY <1>1, PickedBy
<1>3. Picked(t, P) = [n \in 1..d |-> t[e[n]]]
  BY <1>1, PickedBy
<1> QED
  BY <1>1, <1>2, <1>3

LEMMA PickedAll ==
    ASSUME NEW T, NEW s \in Seq(T)
    PROVE  Picked(s, 1..Len(s)) = s
<1> DEFINE e == [n \in 1..Len(s) |-> n]
<1>1. Len(s) \in Nat
  BY LenProperties
<1>2. Lists(e, Len(s), 1..Len(s))
  BY <1>1 DEF Lists
<1> HIDE DEF e
<1>3. /\ Picked(s, 1..Len(s)) \in Seq(T) /\ Len(Picked(s, 1..Len(s))) = Len(s)
      /\ \A n \in 1..Len(s) : Picked(s, 1..Len(s))[n] = s[e[n]]
  BY <1>1, <1>2, PickedBy
<1>4. \A n \in 1..Len(s) : Picked(s, 1..Len(s))[n] = s[n]
  BY <1>3 DEF e
<1> QED
  BY <1>3, <1>4, SeqEqual

LEMMA PickedNone ==
    ASSUME NEW T, NEW s \in Seq(T)
    PROVE  Picked(s, {}) = <<>>
<1>1. Lists(<<>>, 0, {})
  BY DEF Lists
<1>2. {} \in SUBSET (1..Len(s))
  OBVIOUS
<1>3. Picked(s, {}) \in Seq(T) /\ Len(Picked(s, {})) = 0
  BY <1>1, <1>2, PickedBy
<1> QED
  BY <1>3, EmptySeq

\* One more position behind all others.
LEMMA PickedAppend ==
    ASSUME NEW T, NEW s \in Seq(T), NEW P \in SUBSET (1..Len(s)),
           NEW m \in 1..Len(s), \A k \in P : k < m
    PROVE  Picked(s, P \cup {m}) = Append(Picked(s, P), s[m])
<1> DEFINE d == Cardinality(P)
           e == Enumerated(P)
           f == [n \in 1..(d + 1) |-> IF n <= d THEN e[n] ELSE m]
           Q == P \cup {m}
           u == Picked(s, P)
           v == Picked(s, Q)
<1>1. /\ d \in Nat /\ Lists(e, d, P)
      /\ u \in Seq(T) /\ Len(u) = d /\ \A n \in 1..d : e[n] \in P /\ u[n] = s[e[n]]
  BY PickedProperties
<1>2. /\ e \in [1..d -> P] /\ \A k, n \in 1..d : k < n => e[k] < e[n]
      /\ \A k \in P : \E n \in 1..d : e[n] = k
  BY <1>1 DEF Lists
<1> HIDE DEF d, e
<1>3. /\ d + 1 \in Nat /\ \A n \in 1..(d + 1) : n \in 1..d \/ n = d + 1
      /\ d + 1 \in 1..(d + 1) /\ \A n \in 1..d : n \in 1..(d + 1) /\ n <= d
      /\ ~ (d + 1 <= d)
  BY <1>1
<1>4. f[d + 1] = m /\ \A n \in 1..d : f[n] = e[n]
  BY <1>3
<1>5. f \in [1..(d + 1) -> Q]
  BY <1>1, <1>3
<1> HIDE DEF f
<1>6. Lists(f, d + 1, Q)
  <2>1. ASSUME NEW k \in 1..(d + 1), NEW n \in 1..(d + 1), k < n PROVE f[k] < f[n]
    <3>1. k \in 1..d
      BY <1>1, <2>1
    <3>2. CASE n \in 1..d
      BY <1>2, <1>4, <2>1, <3>1, <3>2
    <3>3. CASE n = d + 1
      BY <1>1, <1>4, <3>1, <3>3
    <3> QED
      BY <1>3, <3>2, <3>3
  <2>2. ASSUME NEW k \in Q PROVE \E n \in 1..(d + 1) : f[n] = k
    <3>1. CASE k = m
      BY <1>3, <1>4, <3>1
    <3>2. CASE k \in P
      <4>1. PICK n \in 1..d : e[n] = k
        BY <1>2, <3>2
      <4> QED
        BY <1>3, <1>4, <4>1
    <3> QED
      BY <3>1, <3>2
  <2> QED
    BY <1>5, <2>1, <2>2 DEF Lists
<1>7. Q \in SUBSET (1..Len(s))
  OBVIOUS
<1>8. v \in Seq(T) /\ Len(v) = d + 1 /\ \A n \in 1..(d + 1) : v[n] = s[f[n]]
  <2> HIDE DEF Q
  <2> QED
    BY <1>3, <1>6, <1>7, PickedBy
<1>9. s[m] \in T
  BY ElementOfSeq
<1> HIDE DEF u, v, Q
<1>10. /\ Append(u, s[m]) \in Seq(T) /\ Len(Append(u, s[m])) = d + 1
       /\ \A n \in 1..d : Append(u, s[m])[n] = u[n]
       /\ Append(u, s[m])[d + 1] = s[m]
  BY <1>1, <1>9, AppendProperties
<1>11. ASSUME NEW n \in 1..(d + 1) PROVE v[n] = Append(u, s[m])[n]
  <2>1. CASE n \in 1..d
    BY <1>1, <1>4, <1>8, <1>10, <2>1
  <2>2. CASE n = d + 1
    BY <1>4, <1>8, <1>10, <2>2
  <2> QED
    BY <1>3, <2>1, <2>2
<1>12. v = Append(u, s[m])
  BY <1>8, <1>10, <1>11, SeqEqual
<1> QED
  BY <1>12 DEF u, v, Q

\* The sequence b is s and t, one after the other; the positions of P in s and
\* those of Q in t are positions in b.
Joins(b, s, t) == b = s \o t
Joined(P, n, Q) == P \cup {n + k : k \in Q}

\* What is picked of two sequences one after the other.
LEMMA PickedConcat ==
    ASSUME NEW T, NEW s \in Seq(T), NEW t \in Seq(T),
           NEW P \in SUBSET (1..Len(s)), NEW Q \in SUBSET (1..Len(t)),
           NEW b, Joins(b, s, t)
    PROVE  Joins(Picked(b, Joined(P, Len(s), Q)), Picked(s, P), Picked(t, Q))
<1> DEFINE l == Len(s)
           R == Joined(P, l, Q)
           d == Cardinality(P)
           e == Enumerated(P)
           c == Cardinality(Q)
           f == Enumerated(Q)
           g == [n \in 1..(d + c) |-> IF n <= d THEN e[n] ELSE l + f[n - d]]
           u == Picked(s, P)
           v == Picked(t, Q)
           w == Picked(b, R)
<1>1. /\ d \in Nat /\ Lists(e, d, P)
      /\ u \in Seq(T) /\ Len(u) = d /\ \A n \in 1..d : e[n] \in P /\ u[n] = s[e[n]]
  BY PickedProperties
<1>2. /\ c \in Nat /\ Lists(f, c, Q)
      /\ v \in Seq(T) /\ Len(v) = c /\ \A n \in 1..c : f[n] \in Q /\ v[n] = t[f[n]]
  BY PickedProperties
<1>3. /\ \A k, n \in 1..d : k < n => e[k] < e[n]
      /\ \A k \in P : \E n \in 1..d : e[n] = k
      /\ \A k, n \in 1..c : k < n => f[k] < f[n]
      /\ \A k \in Q : \E n \in 1..c : f[n] = k
  BY <1>1, <1>2 DEF Lists
<1>4. /\ l \in Nat /\ Len(t) \in Nat
      /\ b \in Seq(T) /\ Len(b) = l + Len(t)
      /\ \A k \in 1..(l + Len(t)) : b[k] = IF k <= l THEN s[k] ELSE t[k - l]
  BY LenProperties, ConcatProperties DEF Joins
<1>5. /\ P \in SUBSET (1..l) /\ Q \in SUBSET (1..Len(t)) /\ R = P \cup {l + k : k \in Q}
  BY DEF Joined
<1> HIDE DEF d, e, c, f, l, R
<1>6. \A n \in 1..(d + c) : n \in 1..d \/ (~ (n <= d) /\ n - d \in 1..c)
  BY <1>1, <1>2
<1>7. d + c \in Nat /\ \A n \in 1..d : n \in 1..(d + c) /\ n <= d
  BY <1>1, <1>2
<1>8. \A n \in 1..c : d + n \in 1..(d + c) /\ ~ (d + n <= d) /\ (d + n) - d = n
  BY <1>1, <1>2
<1>9. /\ \A n \in 1..d : g[n] = e[n]
      /\ \A n \in 1..(d + c) : ~ (n <= d) => g[n] = l + f[n - d]
  BY <1>7
<1>10. g \in [1..(d + c) -> R]
  <2>1. ASSUME NEW n \in 1..(d + c) PROVE (IF n <= d THEN e[n] ELSE l + f[n - d]) \in R
    <3>1. CASE n \in 1..d
      BY <1>1, <1>5, <1>7, <3>1
    <3>2. CASE ~ (n <= d) /\ n - d \in 1..c
      <4>1. f[n - d] \in Q
        BY <1>2, <3>2
      <4> QED
        BY <1>5, <3>2, <4>1
    <3> QED
      BY <1>6, <3>1, <3>2
  <2> QED
    BY <2>1
<1> HIDE DEF g
<1>11. Lists(g, d + c, R)
  <2>1. ASSUME NEW k \in 1..(d + c), NEW n \in 1..(d + c), k < n PROVE g[k] < g[n]
    <3>1. CASE k \in 1..d /\ n \in 1..d
      BY <1>3, <1>9, <2>1, <3>1
    <3>2. CASE k \in 1..d /\ ~ (n <= d) /\ n - d \in 1..c
      <4>1. g[k] = e[k] /\ e[k] \in 1..l
        BY <1>1, <1>5, <1>9, <3>2
      <4>2. g[n] = l + f[n - d] /\ f[n - d] \in 1..Len(t)
        BY <1>2, <1>5, <1>9, <3>2
      <4> QED
        BY <1>4, <4>1, <4>2
    <3>3. CASE ~ (k <= d) /\ k - d \in 1..c /\ ~ (n <= d) /\ n - d \in 1..c
      <4>1. f[k - d] < f[n - d]
        <5>1. k - d < n - d
          BY <1>1, <2>1
        <5> QED
          BY <1>3, <3>3, <5>1
      <4>2. /\ g[k] = l + f[k - d] /\ f[k - d] \in 1..Len(t)
            /\ g[n] = l + f[n - d] /\ f[n - d] \in 1..Len(t)
        BY <1>2, <1>5, <1>9, <3>3
      <4> QED
        BY <1>4, <4>1, <4>2
    <3>4. n \in 1..d => k \in 1..d
      BY <1>1, <2>1
    <3> QED
      BY <1>6, <3>1, <3>2, <3>3, <3>4
  <2>2. ASSUME NEW k \in R PROVE \E n \in 1..(d + c) : g[n] = k
    <3>1. CASE k \in P
      <4>1. PICK n \in 1..d : e[n] = k
        BY <1>3, <3>1
      <4> QED
        BY <1>7, <1>9, <4>1
    <3>2. ASSUME NEW q \in Q, k = l + q PROVE \E n \in 1..(d + c) : g[n] = k
      <4>1. PICK n \in 1..c : f[n] = q
        BY <1>3
      <4>2. g[d + n] = k
        BY <1>8, <1>9, <3>2, <4>1
      <4> QED
        BY <1>8, <4>2
    <3> QED
      BY <1>5, <3>1, <3>2
  <2> QED
    BY <1>10, <2>1, <2>2 DEF Lists
<1>12. R \in SUBSET (1..Len(b))
  <2> l \in Nat /\ Len(t) \in Nat
    BY <1>4
  <2>1. \A k \in P : k \in 1..(l + Len(t))
    BY <1>5
  <2>2. \A k \in Q : l + k \in 1..(l + Len(t))
    BY <1>5
  <2> QED
    BY <1>4, <1>5, <2>1, <2>2
<1>13. w \in Seq(T) /\ Len(w) = d + c /\ \A n \in 1..(d + c) : w[n] = b[g[n]]
  <2>1. /\ Picked(b, R) \in Seq(T) /\ Len(Picked(b, R)) = d + c
        /\ \A n \in 1..(d + c) : Picked(b, R)[n] = b[g[n]]
    <3>1. b \in Seq(T) /\ d + c \in Nat
      BY <1>4, <1>7
    <3> QED
      BY <1>11, <1>12, <3>1, PickedBy
  <2> QED
    BY <2>1
<1> HIDE DEF u, v, w
<1>14. /\ u \o v \in Seq(T) /\ Len(u \o v) = d + c
       /\ \A n \in 1..(d + c) : (u \o v)[n] = IF n <= d THEN u[n] ELSE v[n - d]
  <2>1. u \in Seq(T) /\ Len(u) = d /\ v \in Seq(T) /\ Len(v) = c
    BY <1>1, <1>2
  <2>2. /\ u \o v \in Seq(T) /\ Len(u \o v) = Len(u) + Len(v)
        /\ \A n \in 1..(Len(u) + Len(v)) :
              (u \o v)[n] = IF n <= Len(u) THEN u[n] ELSE v[n - Len(u)]
    BY ONLY <2>1, ConcatProperties, Zenon
  <2> QED
    BY ONLY <2>1, <2>2, Zenon
<1>15. ASSUME NEW n \in 1..(d + c) PROVE w[n] = (u \o v)[n]
  <2>1. CASE n \in 1..d
    <3>1. g[n] = e[n] /\ e[n] \in 1..l /\ n <= d
      BY <1>1, <1>5, <1>7, <1>9, <2>1
    <3>2. b[e[n]] = s[e[n]]
      BY <1>4, <3>1
    <3> QED
      BY <1>1, <1>13, <1>14, <2>1, <3>1, <3>2
  <2>2. CASE ~ (n <= d) /\ n - d \in 1..c
    <3>1. g[n] = l + f[n - d] /\ f[n - d] \in 1..Len(t)
      BY <1>2, <1>5, <1>9, <2>2
    <3>2. PICK q \in 1..Len(t) : q = f[n - d]
      BY <3>1
    <3>3. b[l + q] = t[q]
      <4>1. l + q \in 1..(l + Len(t)) /\ ~ (l + q <= l) /\ (l + q) - l = q
        BY <1>4
      <4> QED
        BY <1>4, <4>1
    <3>4. v[n - d] = t[q]
      BY <1>2, <2>2, <3>2
    <3> QED
      BY <1>13, <1>14, <2>2, <3>1, <3>2, <3>3, <3>4
  <2> QED
    BY <1>6, <2>1, <2>2
<1>16. w = u \o v
  BY <1>13, <1>14, <1>15, SeqEqual
<1> QED
  BY <1>16 DEF Joins, u, v, w, R, l

-----------------------------------------------------------------------------
(* The elements of a kind *)

\* Those of s that are in G, in their order.
Kept(s, G) == Picked(s, {k \in DOMAIN s : s[k] \in G})

LEMMA KeptPositions ==
    ASSUME NEW T, NEW s \in Seq(T), NEW G
    PROVE  {k \in DOMAIN s : s[k] \in G} \in SUBSET (1..Len(s))
<1>1. DOMAIN s = 1..Len(s)
  BY LenProperties
<1> QED
  BY <1>1

LEMMA KeptType ==
    ASSUME NEW T, NEW s \in Seq(T), NEW G
    PROVE  Kept(s, G) \in Seq(G)
<1> DEFINE P == {k \in DOMAIN s : s[k] \in G}
           u == Picked(s, P)
<1>1. P \in SUBSET (1..Len(s)) /\ \A k \in P : s[k] \in G
  BY KeptPositions
<1> HIDE DEF P
<1>2. /\ Cardinality(P) \in Nat /\ u \in Seq(T) /\ Len(u) = Cardinality(P)
      /\ \A n \in 1..Cardinality(P) : Enumerated(P)[n] \in P /\ u[n] = s[Enumerated(P)[n]]
  BY <1>1, PickedProperties
<1> HIDE DEF u
<1>3. \A n \in 1..Len(u) : u[n] \in G
  BY <1>1, <1>2
<1>4. u \in [1..Len(u) -> G]
  BY <1>2, <1>3, LenProperties
<1>5. u \in Seq(G)
  BY <1>2, <1>4, SeqDef
<1> QED
  BY <1>5 DEF Kept, P, u

LEMMA KeptConcat ==
    ASSUME NEW T, NEW s \in Seq(T), NEW t \in Seq(T), NEW b, Joins(b, s, t), NEW G
    PROVE  Joins(Kept(b, G), Kept(s, G), Kept(t, G))
<1> DEFINE P == {k \in DOMAIN s : s[k] \in G}
           Q == {k \in DOMAIN t : t[k] \in G}
           R == {k \in DOMAIN b : b[k] \in G}
           Z == Joined(P, Len(s), Q)
<1>1. /\ Len(s) \in Nat /\ Len(t) \in Nat
      /\ b \in Seq(T) /\ Len(b) = Len(s) + Len(t)
      /\ \A k \in 1..(Len(s) + Len(t)) : b[k] = IF k <= Len(s) THEN s[k] ELSE t[k - Len(s)]
  BY LenProperties, ConcatProperties DEF Joins
<1>2. DOMAIN s = 1..Len(s) /\ DOMAIN t = 1..Len(t) /\ DOMAIN b = 1..(Len(s) + Len(t))
  BY <1>1, LenProperties
<1>3. \A k \in Z : k \in R
  <2>1. ASSUME NEW k \in P PROVE k \in R
    BY <1>1, <1>2
  <2>2. ASSUME NEW k \in Q PROVE Len(s) + k \in R
    <3>1. /\ k \in 1..Len(t) /\ t[k] \in G
          /\ Len(s) + k \in 1..(Len(s) + Len(t)) /\ ~ (Len(s) + k <= Len(s))
          /\ (Len(s) + k) - Len(s) = k
      BY <1>1, <1>2
    <3>2. b[Len(s) + k] = t[k]
      BY <1>1, <3>1
    <3> QED
      BY <1>2, <3>1, <3>2
  <2> QED
    BY <2>1, <2>2 DEF Joined
<1>4. \A k \in R : k \in Z
  <2> SUFFICES ASSUME NEW k \in R PROVE k \in Z
    OBVIOUS
  <2>1. k \in 1..(Len(s) + Len(t)) /\ b[k] \in G
    BY <1>2
  <2>2. CASE k <= Len(s)
    <3>1. k \in 1..Len(s) /\ s[k] \in G
      BY <1>1, <2>1, <2>2
    <3>2. k \in P
      BY <1>2, <3>1
    <3> QED
      BY <3>2 DEF Joined
  <2>3. CASE ~ (k <= Len(s))
    <3>1. /\ k - Len(s) \in 1..Len(t) /\ Len(s) + (k - Len(s)) = k
      BY <1>1, <2>1, <2>3
    <3>2. t[k - Len(s)] \in G
      BY <1>1, <2>1, <2>3
    <3>3. k - Len(s) \in Q
      BY <1>2, <3>1, <3>2
    <3>4. PICK q \in Q : k = Len(s) + q
      BY <3>1, <3>3
    <3> QED
      BY <3>4 DEF Joined
  <2> QED
    BY <2>2, <2>3
<1>5. R = Z
  BY <1>3, <1>4
<1>6. P \in SUBSET (1..Len(s)) /\ Q \in SUBSET (1..Len(t))
  BY <1>2
<1>7. Joins(Picked(b, R), Picked(s, P), Picked(t, Q))
  <2> HIDE DEF P, Q, R
  <2> QED
    BY <1>5, <1>6, PickedConcat
<1> QED
  BY <1>7 DEF Kept

LEMMA KeptAll ==
    ASSUME NEW G, NEW s \in Seq(G)
    PROVE  Kept(s, G) = s
<1>1. \A k \in 1..Len(s) : s[k] \in G
  BY ElementOfSeq
<1>2. {k \in DOMAIN s : s[k] \in G} = 1..Len(s)
  BY <1>1, LenProperties
<1> QED
  BY <1>2, PickedAll DEF Kept

LEMMA KeptNone ==
    ASSUME NEW T, NEW s \in Seq(T), NEW G, \A k \in 1..Len(s) : s[k] \notin G
    PROVE  Kept(s, G) = <<>>
<1>1. {k \in DOMAIN s : s[k] \in G} = {}
  BY LenProperties
<1> QED
  BY <1>1, PickedNone DEF Kept
=============================================================================
