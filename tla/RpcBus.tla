------------------------------ MODULE RpcBus ------------------------------
(***************************************************************************)
(* Clients that call one pmt_rpc through a msg_many_to_one.  A client      *)
(* posts its requests when it likes; its way to the input and the way of   *)
(* the replies are those of MsgPassing.  The flow graph may be stopped.    *)
(***************************************************************************)
EXTENDS ManyToOne, RpcHandler, FiniteSetsExt

CONSTANTS
    Plans        \* what the clients may post: client -> list of [key, value]

Sender(i, r) == [from |-> i, key |-> r.key, value |-> r.value]
Messages == {Sender(i, r) : i \in Inputs, r \in Requests}

ASSUME PlansAssumption == \A p \in Plans : p \in [Inputs -> Seq(Requests)]
ASSUME NoMsgAssumption == NoMsg \notin Messages
ASSUME ChunkAssumption == Chunk \in Nat \ {0}

VARIABLES
    plan,        \* what a client has not posted yet
    asked,       \* what it has posted (history)
    nread,       \* items of written that the handler's sinker has passed on
    handled,     \* requests that the handler has popped (history)
    stopped      \* the threads have been interrupted

busVars == <<plan, asked, nread, handled, stopped>>
vars == <<m21Vars, handlerVars, busVars>>

Init ==
    /\ m21Init
    /\ HandlerInit
    /\ plan \in Plans
    /\ asked = [i \in Inputs |-> <<>>] /\ nread = 0 /\ handled = <<>> /\ stopped = FALSE

Ask(i) ==
    /\ plan[i] # <<>>
    /\ LET request == Sender(i, Head(plan[i])) IN
       /\ asked' = [asked EXCEPT ![i] = Append(@, request)]
       /\ Sent(i, request)
    /\ plan' = [plan EXCEPT ![i] = Tail(@)]
    /\ UNCHANGED <<input, tags, queue, output, written, handlerVars, nread, handled, stopped>>

\* Where the messages are that the handler has not popped.
Ahead == {k \in (nread + 1)..Len(written) : IsMsg(written[k])}

\* Mutant: what has arrived together counts as read with the first of it.
Take_AllRead ==
    /\ Ahead # {}
    /\ PopRequest(written[Min(Ahead)])
    /\ nread' = Len(written)
    /\ handled' = Append(handled, written[Min(Ahead)])
    /\ UNCHANGED <<m21Vars, plan, asked, stopped>>

\* The handler pops the next message of the stream.
Take ==
    /\ Ahead # {}
    /\ PopRequest(written[Min(Ahead)])
    /\ nread' = Min(Ahead)
    /\ handled' = Append(handled, written[Min(Ahead)])
    /\ UNCHANGED <<m21Vars, plan, asked, stopped>>

Stop == /\ ~stopped /\ stopped' = TRUE
        /\ UNCHANGED <<m21Vars, handlerVars, plan, asked, nread, handled>>

HandlerStep == \/ Take
               \/ Handle /\ UNCHANGED <<m21Vars, busVars>>
M21Step(i) == InputStep(i) /\ UNCHANGED <<handlerVars, busVars>>
OutStep == OutputStep /\ UNCHANGED <<handlerVars, busVars>>
\* A wait that is interrupted ends in no other way.
Spurious == ~stopped /\ OutputSpurious /\ UNCHANGED <<handlerVars, busVars>>

\* An interrupted thread ends where it waits.  What is ahead of the handler may
\* still be on its way through the sinker, so that it may wait all the same.
Interrupted ==
    /\ stopped
    /\ \/ OutputInterrupted /\ UNCHANGED <<handlerVars, busVars>>
       \/ \E i \in Inputs : InputInterrupted(i) /\ UNCHANGED <<handlerVars, busVars>>
       \/ PopInterrupted /\ UNCHANGED <<m21Vars, busVars>>

Over == /\ stopped /\ output = "done" /\ handler \in {"done", "dead"}
        /\ \A i \in Inputs : input[i] = "done" /\ plan[i] = <<>>
        /\ UNCHANGED vars

Next == \/ \E i \in Inputs : Ask(i) \/ M21Step(i)
        \/ OutStep \/ Spurious \/ HandlerStep \/ Stop \/ Interrupted \/ Over

Spec == Init /\ [][Next]_vars
Fairness == /\ \A i \in Inputs : WF_vars(M21Step(i))
            /\ WF_vars(OutStep) /\ WF_vars(HandlerStep) /\ WF_vars(Interrupted)
FairSpec == Spec /\ Fairness

-----------------------------------------------------------------------------
\* The requests of one client among others.
FromClient(requests, i) ==
    Picked(requests, {k \in DOMAIN requests : requests[k].from = i})

Answered(request, reply) ==
    \E known \in Answers :
       /\ known.request = Requested(request) /\ known.answer # NoAnswer
       /\ reply = [key |-> request.key, value |-> known.answer]
Unanswered(request) ==
    \E known \in Answers : known.request = Requested(request) /\ known.answer = NoAnswer

\* The handler pops all messages that reach it, and of each client what it has
\* posted, once and in the client's order.  What it pops has one reply each, in the
\* same order and with the key of the request; only the last one may still be in its
\* call, or has ended the handler by an exception that its answer is (the loop of
\* pmt_rpc.py:79, behind the threads of msg_many_to_one.cc).
OneReplyEach ==
    /\ handled = MsgsOf(SubSeq(written, 1, nread))
    /\ \A i \in Inputs : LET his == FromClient(handled, i)
                        IN his = SubSeq(asked[i], 1, Len(his))
    /\ Len(handled) = Len(replies) + (IF handler \in {"call", "dead"} THEN 1 ELSE 0)
    /\ \A k \in DOMAIN replies : Answered(handled[k], replies[k])
    /\ handler = "dead" => Unanswered(handled[Len(handled)])

\* Every request is answered at last, unless the handler has died or the flow
\* graph is stopped; and then every thread ends, those that wait as well.
AnsweredUntilStopped ==
    /\ \A i \in Inputs : \A n \in 1..2 :
          (Len(asked[i]) >= n) ~>
             (\/ Cardinality({k \in DOMAIN replies : handled[k].from = i}) >= n
              \/ handler = "dead" \/ stopped)
    /\ stopped ~> /\ output = "done" /\ handler \in {"done", "dead"}
                  /\ \A i \in Inputs : input[i] = "done"

=============================================================================
