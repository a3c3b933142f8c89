---------------------------- MODULE MsgPassingBus ----------------------------
(***************************************************************************)
(* MsgPassing implements MsgBus.  The channel to an input is put together  *)
(* from the four places where a message on its way can be: the queue of    *)
(* the receiving block, the tags its sinker has collected, the tags still  *)
(* in the stream, and the queue of the sourcer.                            *)
(***************************************************************************)
EXTENDS MsgPassing, Ascending

MsgsOf(ts) ==
    LET at == Enumerated({t.offset : t \in ts})
    IN  [n \in DOMAIN at |-> (CHOOSE t \in ts : t.offset = at[n]).msg]

Queued(i) ==
    LET entries == queue[i[1]]
        mine == Enumerated({m \in DOMAIN entries : entries[m].offset = i[2]})
    IN  [n \in DOMAIN mine |-> entries[mine[n]].msg]

InFlight(i) ==
    Queued(i) \o MsgsOf(pending[i])
              \o MsgsOf({t \in tags[Wire[i]] : t.offset >= nread[i]})
              \o msg_queue[Wire[i]]

Channels == [i \in In |-> InFlight(i)]

Bus == INSTANCE MsgBus WITH chan <- Channels

\* Every step of the detailed model is a post, a take or nothing on the bus:
\* no step between post_msg and pop_msg_queue loses, repeats, reorders or
\* misroutes a message, and each connected input has a channel of its own.
ImplementsBus == Bus!Spec
=============================================================================
