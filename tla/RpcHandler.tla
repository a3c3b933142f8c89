----------------------------- MODULE RpcHandler -----------------------------
(***************************************************************************)
(* The thread of pmt_rpc (python/pmt_rpc.py): a block that takes messages  *)
(* as calls of the methods of an object, and posts what they return.       *)
(*                                                                         *)
(* An exception that work() does not catch goes through the gateway        *)
(* (block_gateway.py prints it and raises it again) into the scheduler,    *)
(* where it ends the thread of the block.                                  *)
(***************************************************************************)
EXTENDS Naturals, Sequences

CONSTANTS
    Requests,   \* the requests there are: [key, value]
    Answers,    \* what becomes of each of them: [request, answer]
    NoAnswer    \* as the answer: an exception that work() does not catch

VARIABLES
    handler,    \* the thread: in pop_msg_queue ("pop"), in the call ("call"),
                \*   returned -1 ("done"), ended by an exception ("dead")
    msg,        \* the request it has popped
    replies     \* what it has posted: [key, value]

handlerVars == <<handler, msg, replies>>
NoRequest == [from |-> "nobody"]

HandlerInit == handler = "pop" /\ msg = NoRequest /\ replies = <<>>

\* pop_msg_queue gives a request.
PopRequest(request) ==
    /\ handler = "pop" /\ handler' = "call"
    /\ msg' = request
    /\ UNCHANGED replies

\* pop_msg_queue is interrupted while it waits: work() returns -1.
PopInterrupted ==
    /\ handler = "pop" /\ handler' = "done"
    /\ UNCHANGED <<msg, replies>>

\* What a request asks for, whoever it is from.
Requested(request) == [key |-> request.key, value |-> request.value]

\* The rest of the loop of work(): the message is posted with the answer as its
\* value.
Handle ==
    /\ handler = "call"
    /\ \E known \in Answers :
         /\ known.request = Requested(msg)
         /\ IF known.answer = NoAnswer THEN handler' = "dead" /\ replies' = replies
            ELSE /\ handler' = "pop"
                 /\ replies' = Append(replies, [key |-> msg.key, value |-> known.answer])
    /\ msg' = NoRequest
=============================================================================
