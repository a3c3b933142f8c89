--------------------------- MODULE MCStreamSelector ---------------------------
(***************************************************************************)
(* Small selectors for StreamSelector.  A vector of paths is a function on *)
(* the inputs 0 and 1.                                                     *)
(***************************************************************************)
EXTENDS StreamSelector, TLC

One(a) == 0 :> a
Two(a, b) == 0 :> a @@ 1 :> b

\* One input and one output.
OnePaths == {One(0)}

\* Two inputs that share an output, or have one each, or swap them; a call that
\* throws at its last path.
MixedPaths == {Two(0, 0), Two(0, 1), Two(1, 0), Two(1, Invalid)}

\* Two inputs that take turns, one blocked.
TurnPaths == {Two(0, Block), Two(Block, 0), Two(Consume, 0)}
=============================================================================
