----------------------------- MODULE Ascending -----------------------------
(***************************************************************************)
(* The members of a finite set of numbers in ascending order: what a loop  *)
(* over a sequence meets that looks at some of its elements only.          *)
(***************************************************************************)
EXTENDS Naturals, FiniteSets, Sequences

\* How many members of P are less than k.
Rank(P, k) == Cardinality({j \in P : j < k})

Enumerated(P) == [n \in 1..Cardinality(P) |-> CHOOSE k \in P : Rank(P, k) = n - 1]

\* The elements of a sequence at the positions of P.
Picked(s, P) == LET at == Enumerated(P) IN [n \in DOMAIN at |-> s[at[n]]]
=============================================================================
