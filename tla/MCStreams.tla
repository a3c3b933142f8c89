----------------------------- MODULE MCStreams -----------------------------
(***************************************************************************)
(* The kinds of blocks of block_gateway.py, and one whose rate is no whole *)
(* number, in front of a delay.                                            *)
(***************************************************************************)
EXTENDS StreamChain

MCRate == [sync |-> <<1, 1>>, basic |-> <<1, 1>>, decim |-> <<1, 2>>,
           interp |-> <<2, 1>>, ratio |-> <<3, 2>>]
MCKinds == DOMAIN MCRate
MCDelays == {-1, 2}
=============================================================================
