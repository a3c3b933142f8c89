------------------------------ MODULE Iterate ------------------------------
(***************************************************************************)
(* A loop over a sequence: Step makes of what the loop has so far, and of  *)
(* the next element, what the loop has after it.  c is what the body of    *)
(* the loop does not change.                                               *)
(***************************************************************************)
EXTENDS Naturals, Sequences

CONSTANT Step(_, _, _)

\* What the loop has after each number of elements; b at the beginning.
Run(c, b, s) ==
    LET run[k \in 0..Len(s)] == IF k = 0 THEN b ELSE Step(c, run[k - 1], s[k])
    IN run

Loop(c, b, s) == Run(c, b, s)[Len(s)]

=============================================================================
