--------------------------- MODULE Iterate_proofs ---------------------------
(***************************************************************************)
(* A loop over a sequence has what its body gives, and what the body       *)
(* keeps holds at its end.                                                 *)
(***************************************************************************)
EXTENDS Iterate, Ascending_proofs

\* What holds of what the loop has (a) after k elements of s, from b on.
CONSTANT Holds(_, _, _, _, _)

\* The recursive function of the loop exists: there is none for a part of the
\* sequence only if there is none for a shorter one.
LEMMA RunIs ==
    ASSUME NEW c, NEW b, NEW s, Len(s) \in Nat
    PROVE  /\ Run(c, b, s)[0] = b
           /\ \A k \in 1..Len(s) : Run(c, b, s)[k] = Step(c, Run(c, b, s)[k - 1], s[k])
<1> DEFINE Part(n, r) == r = [k \in 0..n |-> IF k = 0 THEN b ELSE Step(c, r[k - 1], s[k])]
           T == {n \in 0..Len(s) : \A r : ~ Part(n, r)}
<1>1. Part(0, [k \in {0} |-> b])
  OBVIOUS
<1>2. ASSUME NEW m \in 0..Len(s), m # 0, NEW r, Part(m - 1, r)
      PROVE  Part(m, [k \in 0..m |-> IF k = m THEN Step(c, r[m - 1], s[m]) ELSE r[k]])
  <2> DEFINE q == [k \in 0..m |-> IF k = m THEN Step(c, r[m - 1], s[m]) ELSE r[k]]
  <2>1. ASSUME NEW k \in 0..m
        PROVE  q[k] = IF k = 0 THEN b ELSE Step(c, q[k - 1], s[k])
    <3>1. CASE k = m
      <4>1. m - 1 \in 0..m /\ m - 1 # m
        BY <1>2
      <4>2. q[m - 1] = r[m - 1] /\ q[m] = Step(c, r[m - 1], s[m])
        BY <4>1
      <4> HIDE DEF q
      <4> QED
        BY <1>2, <3>1, <4>2
    <3>2. CASE k # m
      <4>1. k \in 0..(m - 1) /\ (k # 0 => (k - 1) \in 0..(m-1) /\ k - 1 \in 0..m /\ k - 1 # m)
        BY <3>2
      <4>2. r[k] = IF k = 0 THEN b ELSE Step(c, r[k - 1], s[k])
        BY <1>2, <4>1
      <4>3. q[k] = r[k] /\ (k # 0 => q[k - 1] = r[k - 1])
        BY <3>2, <4>1
      <4> HIDE DEF q
      <4> QED
        BY <4>2, <4>3
    <3> QED
      BY <3>1, <3>2
  <2>2. q = [k \in 0..m |-> q[k]]
    OBVIOUS
  <2> HIDE DEF q
  <2>3. q = [k \in 0..m |-> IF k = 0 THEN b ELSE Step(c, q[k - 1], s[k])]
    BY <2>1, <2>2
  <2>4. Part(m, q)
    BY <2>3
  <2> HIDE DEF Part
  <2> QED
    BY <2>4 DEF q
<1> HIDE DEF Part
<1>3. T = {}
  <2> SUFFICES ASSUME T # {} PROVE FALSE
    OBVIOUS
  <2>1. T \in SUBSET Nat
    OBVIOUS
  <2>2. PICK m \in T : \A k \in T : m <= k
    <3> HIDE DEF T
    <3> QED
      BY <2>1, LeastMember
  <2>3. m # 0
    BY <1>1
  <2>4. m - 1 \in 0..Len(s) /\ ~ (m <= m - 1)
    BY <2>3
  <2>5. m - 1 \notin T
    <3> HIDE DEF T
    <3> QED
      BY <2>2, <2>4
  <2>6. PICK r : Part(m - 1, r)
    BY <2>4, <2>5
  <2> QED
    BY <1>2, <2>3, <2>6
<1>4. \E r : Part(Len(s), r)
  BY <1>3
<1>5. Part(Len(s), Run(c, b, s))
  BY <1>4 DEF Run, Part
<1>6. Run(c, b, s) = [k \in 0..Len(s) |-> IF k = 0 THEN b ELSE Step(c, Run(c, b, s)[k - 1], s[k])]
  BY <1>5 DEF Part
<1> DEFINE q == Run(c, b, s)
<1> HIDE DEF q
<1>7. q = [k \in 0..Len(s) |-> IF k = 0 THEN b ELSE Step(c, q[k - 1], s[k])]
  BY <1>6 DEF q
<1>8. q[0] = b /\ \A k \in 1..Len(s) : q[k] = Step(c, q[k - 1], s[k])
  <2>1. 0 \in 0..Len(s) /\ \A k \in 1..Len(s) : k \in 0..Len(s) /\ k # 0
    OBVIOUS
  <2> QED
    BY <1>7, <2>1
<1> QED
  BY <1>8 DEF q

\* What the body keeps holds at the end.
LEMMA LoopKeeps ==
    ASSUME NEW c, NEW b, NEW s, Len(s) \in Nat, Holds(c, b, s, 0, b),
           \A k \in 1..Len(s) :
               \A a : Holds(c, b, s, k - 1, a) => Holds(c, b, s, k, Step(c, a, s[k]))
    PROVE  Holds(c, b, s, Len(s), Loop(c, b, s))
<1> DEFINE run == Run(c, b, s)
           T == {k \in 0..Len(s) : ~ Holds(c, b, s, k, run[k])}
<1>1. /\ run[0] = b
      /\ \A k \in 1..Len(s) : run[k] = Step(c, run[k - 1], s[k])
  BY RunIs
<1> HIDE DEF run
<1>2. T = {}
  <2> SUFFICES ASSUME T # {} PROVE FALSE
    OBVIOUS
  <2>1. T \in SUBSET Nat
    OBVIOUS
  <2>2. PICK m \in T : \A k \in T : m <= k
    <3> HIDE DEF T
    <3> QED
      BY <2>1, LeastMember
  <2>3. m # 0
    BY <1>1
  <2>4. m \in 1..Len(s) /\ m - 1 \in 0..Len(s) /\ ~ (m <= m - 1)
    BY <2>3
  <2>5. m - 1 \notin T
    <3> HIDE DEF T
    <3> QED
      BY <2>2, <2>4
  <2>6. Holds(c, b, s, m - 1, run[m - 1])
    BY <2>4, <2>5
  <2>7. Holds(c, b, s, m, Step(c, run[m - 1], s[m]))
    BY <2>4, <2>6
  <2>8. run[m] = Step(c, run[m - 1], s[m])
    BY <1>1, <2>4
  <2> QED
    BY <2>7, <2>8
<1>3. Len(s) \in 0..Len(s)
  OBVIOUS
<1>4. Holds(c, b, s, Len(s), run[Len(s)])
  BY <1>2, <1>3
<1> QED
  BY <1>4 DEF Loop, run

=============================================================================
