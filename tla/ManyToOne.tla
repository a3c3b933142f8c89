----------------------------- MODULE ManyToOne -----------------------------
(***************************************************************************)
(* msg_many_to_one (lib/msg_many_to_one.cc): blocks of one thread each,    *)
(* one per input and one for the output, around a queue with a mutex and a *)
(* condition.  Messages are tags on items of streams; an item here is the  *)
(* message whose tag it carries, or NoMsg.  What an input sees of its      *)
(* stream, and how far the reader of the output has come, is up to the     *)
(* scheduler.                                                              *)
(***************************************************************************)
EXTENDS Naturals, Sequences, Ascending

CONSTANTS Inputs,     \* the inputs
          NoMsg,      \* an item without a tag
          Chunk       \* bound: the items that one work() produces

VARIABLES
    stream,    \* the items in front of an input
    input,     \* the thread of an input: "idle" between two calls of work(),
               \*   "push" in its loop, "done"
    tags,      \* tags of an input: those that are not pushed yet
    queue,     \* queue of the output
    output,    \* the thread of the output: "work", "wait", "woken", "done"
    written    \* the items that it has produced

m21Vars == <<stream, input, tags, queue, output, written>>

IsMsg(item) == item # NoMsg
MsgsOf(items) == Picked(items, {k \in DOMAIN items : IsMsg(items[k])})

m21Init ==
    /\ stream = [i \in Inputs |-> <<>>]
    /\ input = [i \in Inputs |-> "idle"]
    /\ tags = [i \in Inputs |-> <<>>]
    /\ queue = <<>> /\ output = "work" /\ written = <<>>

\* A message and the items without a tag that fill the buffer behind it.
Buffer(m) == <<m>> \o [k \in 1..(Chunk - 1) |-> NoMsg]

\* The block in front of an input sends it a message: msg_sourcer fills the
\* buffer as well.
Sent(i, m) == stream' = [stream EXCEPT ![i] = @ \o Buffer(m)]

\* m21_input::work on n items: get_tags_in_range; they are consumed at the end,
\* which nobody can see earlier or later.
InputWork(i, n) ==
    /\ input[i] = "idle" /\ n \in 1..Len(stream[i])
    /\ tags' = [tags EXCEPT ![i] = MsgsOf(SubSeq(stream[i], 1, n))]
    /\ stream' = [stream EXCEPT ![i] = SubSeq(@, n + 1, Len(@))]
    /\ input' = [input EXCEPT ![i] = "push"]
    /\ UNCHANGED <<queue, output, written>>

\* Mutant: only a queue that has messages already is worth a notify.
Notified_IfMore == IF output = "wait" /\ queue # <<>> THEN "woken" ELSE output

\* cond.notify_one()
Notified == IF output = "wait" THEN "woken" ELSE output

\* A turn of the loop, under the lock of the output's mutex.
InputPush(i) ==
    /\ input[i] = "push" /\ tags[i] # <<>>
    /\ queue' = Append(queue, Head(tags[i]))
    /\ tags' = [tags EXCEPT ![i] = Tail(@)]
    /\ output' = Notified
    /\ UNCHANGED <<stream, input, written>>

\* work() returns.
InputReturn(i) ==
    /\ input[i] = "push" /\ tags[i] = <<>>
    /\ input' = [input EXCEPT ![i] = "idle"]
    /\ UNCHANGED <<stream, tags, queue, output, written>>

\* m21_output::work, at its start or after a wakeup: the queue is empty.
OutputWait ==
    /\ output \in {"work", "woken"} /\ queue = <<>>
    /\ output' = "wait"
    /\ UNCHANGED <<stream, input, tags, queue, written>>

\* Mutant: the queue is emptied with the first message.
OutputPop_Clear ==
    /\ output \in {"work", "woken"} /\ queue # <<>>
    /\ written' = written \o Buffer(Head(queue))
    /\ queue' = <<>>
    /\ output' = "work"
    /\ UNCHANGED <<stream, input, tags>>

\* There is a message: its tag goes to the first of the items that work()
\* returns, which fill the buffer.
OutputPop ==
    /\ output \in {"work", "woken"} /\ queue # <<>>
    /\ written' = written \o Buffer(Head(queue))
    /\ queue' = Tail(queue)
    /\ output' = "work"
    /\ UNCHANGED <<stream, input, tags>>

\* A wait may end by itself.
OutputSpurious ==
    /\ output = "wait" /\ output' = "woken"
    /\ UNCHANGED <<stream, input, tags, queue, written>>

\* An interruption ends the wait of the output with an exception, and an input
\* or an output between two calls of work().
OutputInterrupted ==
    /\ output \in {"work", "wait"} /\ output' = "done"
    /\ UNCHANGED <<stream, input, tags, queue, written>>
InputInterrupted(i) ==
    /\ input[i] = "idle" /\ input' = [input EXCEPT ![i] = "done"]
    /\ UNCHANGED <<stream, tags, queue, output, written>>

InputStep(i) == (\E n \in 1..Len(stream[i]) : InputWork(i, n))
                \/ InputPush(i) \/ InputReturn(i)
OutputStep == OutputWait \/ OutputPop

-----------------------------------------------------------------------------
\* msg_many_to_one implements Merge: what is in front of an input or in its loop
\* is pending, what is in the queue or written is merged.
Pending == [i \in Inputs |-> tags[i] \o MsgsOf(stream[i])]
Merged == MsgsOf(written) \o queue
Merging == INSTANCE Merge WITH pending <- Pending, merged <- Merged
ImplementsMerge == Merging!MergeSpec
=============================================================================
