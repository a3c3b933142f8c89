------------------------------- MODULE MsgBus -------------------------------
(***************************************************************************)
(* What message passing promises: a channel to each message input, where   *)
(* every post on the output that the input is connected to arrives once    *)
(* and in order, and from which the receiving block takes the messages     *)
(* (block.h: "All message sinks connected to this port will get this       *)
(* message").                                                              *)
(***************************************************************************)
EXTENDS Naturals, Sequences

CONSTANTS
    Out,   \* message outputs
    In,    \* message inputs
    Wire   \* the output of each input

VARIABLES
    posted,  \* number of messages posted on each output
    chan,    \* messages on their way to each input
    got      \* messages taken from each input

vars == <<posted, chan, got>>

Message(o, n) == [port |-> o, seq |-> n]

Init ==
    /\ posted = [o \in Out |-> 0]
    /\ chan = [i \in In |-> <<>>]
    /\ got = [i \in In |-> <<>>]

\* One post reaches the channel of every connected input at once.
Post(o) ==
    /\ posted' = [posted EXCEPT ![o] = @ + 1]
    /\ chan' = [i \in In |-> IF Wire[i] = o THEN Append(chan[i], Message(o, posted[o] + 1))
                                            ELSE chan[i]]
    /\ UNCHANGED got

Take(i) ==
    /\ chan[i] # <<>>
    /\ got' = [got EXCEPT ![i] = Append(@, Head(chan[i]))]
    /\ chan' = [chan EXCEPT ![i] = Tail(@)]
    /\ UNCHANGED posted

Next == (\E o \in Out : Post(o)) \/ (\E i \in In : Take(i))

Spec == Init /\ [][Next]_vars
=============================================================================
