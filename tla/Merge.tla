------------------------------- MODULE Merge -------------------------------
(***************************************************************************)
(* What msg_many_to_one promises: the messages of all inputs come out in   *)
(* one sequence, those of one input in their order.                        *)
(***************************************************************************)
EXTENDS Sequences, SequencesExt

CONSTANT Inputs

VARIABLES pending,   \* messages sent to an input and not yet merged
          merged     \* the messages merged so far

MergeInit == pending = [i \in Inputs |-> <<>>] /\ merged = <<>>

\* A message is sent to an input; which one does not matter.
Send(i) ==
    /\ pending'[i] # <<>>
    /\ pending' = [pending EXCEPT ![i] = Append(@, Last(pending'[i]))]
    /\ UNCHANGED merged

MergeOne(i) ==
    /\ pending[i] # <<>>
    /\ merged' = Append(merged, Head(pending[i]))
    /\ pending' = [pending EXCEPT ![i] = Tail(@)]

MergeNext == \E i \in Inputs : MergeOne(i) \/ Send(i)

MergeSpec == MergeInit /\ [][MergeNext]_<<pending, merged>>
=============================================================================
