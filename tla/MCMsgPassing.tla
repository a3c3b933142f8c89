---------------------------- MODULE MCMsgPassing ----------------------------
(***************************************************************************)
(* Small networks of blocks for MsgPassing.                                *)
(***************************************************************************)
EXTENDS MsgPassingBus, TLC

CONSTANTS p, r

None == {}

\* Fork: the output of p is wired to both inputs of r, whose one queue receives
\* from both; p has a stream input, which may end.
ForkBlocks   == {p, r}
ForkNumIn    == p :> 0 @@ r :> 2
ForkNumOut   == p :> 1 @@ r :> 0
ForkWire     == <<r, 0>> :> <<p, 0>> @@ <<r, 1>> :> <<p, 0>>
ForkMaxPosts == <<p, 0>> :> 2
ForkFed      == {p}

\* Pair: r receives what p posts; p may have a stream input, and then posts a last
\* message when it ends.
PairBlocks   == {p, r}
PairNumIn    == p :> 0 @@ r :> 1
PairNumOut   == p :> 1 @@ r :> 0
PairWire     == <<r, 0>> :> <<p, 0>>
PairMaxPosts == <<p, 0>> :> 2
PairFed      == {p}
=============================================================================
