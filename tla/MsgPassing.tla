----------------------------- MODULE MsgPassing -----------------------------
(***************************************************************************)
(* Message passing between blocks, as lib/block.cc implements it on top of *)
(* the stream scheduler (one thread per scheduler block).                  *)
(*                                                                         *)
(* A block of the user's consists of several scheduler blocks:             *)
(*   - one master_block, which calls the user's work();                    *)
(*   - one msg_sourcer per message output: post_msg() puts the message in  *)
(*     its queue, its own general_work() turns each message into a tag on  *)
(*     a byte stream;                                                      *)
(*   - one msg_sinker per message input: its general_work() collects the   *)
(*     tags of the byte stream and pushes them, marked with the index of   *)
(*     the input, into the one queue of the block (MyQueue), from which    *)
(*     work() pops them.                                                   *)
(* Condition variables are modelled by the program counters: a thread in   *)
(* "waiting" or "popwait" is in the wait set, a notify moves it to "woken" *)
(* or "popwoken", and a notify that finds nobody waiting has no effect.    *)
(* The stream buffer, the tag store and the life cycle of the threads      *)
(* belong to the scheduler and are modelled from how block.cc uses them.   *)
(***************************************************************************)
EXTENDS Integers, Sequences, FiniteSets

CONSTANTS
    Blocks,     \* the user's blocks
    NumIn,      \* msg_signature.num_inputs of each block
    NumOut,     \* msg_signature.num_outputs of each block
    Wire,       \* the message output that each message input is connected to
    StreamFed,  \* blocks with stream inputs: their thread ends when these do
    Closers,    \* blocks whose stop() posts a last message on output 0
    MaxPosts,   \* bound: posts made by work() on each output
    Stoppable,  \* whether top_block.stop() may be called
    BufSize     \* items that the stream buffer of a sourcer holds

\* The ports of all blocks, numbered from 0 by the loops of the constructor.
In  == UNION {{<<b, k>> : k \in 0..(NumIn[b] - 1)} : b \in Blocks}
Out == UNION {{<<b, k>> : k \in 0..(NumOut[b] - 1)} : b \in Blocks}

Readers(o) == {i \in In : Wire[i] = o}

ASSUME CountsAssumption ==
    /\ NumIn \in [Blocks -> Nat]
    /\ NumOut \in [Blocks -> Nat]
ASSUME WireAssumption == Wire \in [In -> Out]
ASSUME StreamFedAssumption == StreamFed \subseteq Blocks
ASSUME ClosersAssumption == Closers \subseteq {b \in Blocks : NumOut[b] > 0}
ASSUME MaxPostsAssumption == MaxPosts \in [Out -> Nat]
ASSUME StoppableAssumption == Stoppable \in BOOLEAN
ASSUME BufSizeAssumption == BufSize \in Nat \ {0}

VARIABLES
    \* the thread of each master_block
    master,       \* where it is
    port,         \* the output it is posting to, or the loop index of the stops
    queue,        \* MyQueue: the received messages of the block
    \* the thread of each msg_sourcer
    source,       \* where it is
    done,         \* _done
    msg_queue,    \* _msg_queue: posted messages not yet sent
    \* the byte stream out of each sourcer
    written,      \* nitems_written(0)
    tags,         \* the tags added to the stream
    \* the thread of each msg_sinker
    sink,         \* where it is
    nread,        \* nitems_read(0)
    pending,      \* _tags: collected, not yet pushed
    \* the scheduler
    interrupted,  \* the flow graph was told to stop: threads are interrupted
    \* history
    posted,       \* messages posted so far on each output
    pushed,       \* messages pushed so far through each input
    got           \* messages popped so far that came through each input

masterVars == <<master, port, queue>>
sourceVars == <<source, done, msg_queue>>
streamVars == <<written, tags>>
sinkVars   == <<sink, nread, pending>>
history    == <<posted, pushed, got>>
vars == <<master, port, queue, source, done, msg_queue, written, tags,
          sink, nread, pending, interrupted, posted, pushed, got>>

\* A message is known by the output it was posted on and its turn there.
Message(o, n) == [port |-> o, seq |-> n]
Messages == [port : Out, seq : Nat \ {0}]
Tags     == [offset : Nat, msg : Messages]
Entries  == [offset : Nat, msg : Messages]

Init ==
    /\ master = [b \in Blocks |-> "work"]
    /\ port = [b \in Blocks |-> 0]
    /\ queue = [b \in Blocks |-> <<>>]
    /\ source = [o \in Out |-> "start"]
    /\ done = [o \in Out |-> FALSE]
    /\ msg_queue = [o \in Out |-> <<>>]
    /\ written = [o \in Out |-> 0]
    /\ tags = [o \in Out |-> {}]
    /\ sink = [i \in In |-> "idle"]
    /\ nread = [i \in In |-> 0]
    /\ pending = [i \in In |-> {}]
    /\ interrupted = FALSE
    /\ posted = [o \in Out |-> 0]
    /\ pushed = [i \in In |-> 0]
    /\ got = [i \in In |-> <<>>]

-----------------------------------------------------------------------------
(* Steps shared by several threads *)

\* Mutant: post_msg does not take the mutex.
MutexFree_Unlocked(o) == TRUE

\* The sourcer holds _msg_queue_mutex from the top of general_work until it
\* sleeps or returns; the other critical sections are one step each.
MutexFree(o) == source[o] \notin {"check", "towait"}

\* Mutant: the notify is forgotten.
NotifySourcer_Forgotten(o) == UNCHANGED source

\* _msg_queue_condition_variable.notify_one() on a sourcer.
NotifySourcer(o) ==
    source' = [source EXCEPT ![o] = IF @ = "waiting" THEN "woken" ELSE @]

\* post_msg, up to the unlock: the notify is a step of its own.
PushToSourcer(o) ==
    /\ MutexFree(o)
    /\ posted' = [posted EXCEPT ![o] = @ + 1]
    /\ msg_queue' = [msg_queue EXCEPT ![o] = Append(@, Message(o, posted[o] + 1))]

-----------------------------------------------------------------------------
(* The thread of a master_block: the user's work() and what surrounds it.  *)
(* "work" stands for work() between two calls it makes and for the         *)
(* scheduler between two calls of work(): neither changes any state here.  *)

\* post_msg(k, msg), called by work()
Post(b, k) ==
    /\ master[b] = "work"
    /\ posted[<<b, k>>] < MaxPosts[<<b, k>>]
    /\ PushToSourcer(<<b, k>>)
    /\ master' = [master EXCEPT ![b] = "notify"]
    /\ port' = [port EXCEPT ![b] = k]
    /\ UNCHANGED <<queue, source, done, streamVars, sinkVars, interrupted, pushed, got>>

PostNotify(b) ==
    /\ master[b] \in {"notify", "lastnotify"}
    /\ NotifySourcer(<<b, port[b]>>)
    /\ master' = [master EXCEPT ![b] = IF @ = "notify" THEN "work" ELSE "done"]
    /\ UNCHANGED <<port, queue, done, msg_queue, streamVars, sinkVars, interrupted, history>>

\* Mutant: ready() returns the emptiness of the queue.
CheckQueue_Inverted(b) ==
    /\ master[b] = "work"
    /\ queue[b] = <<>>
    /\ master' = [master EXCEPT ![b] = "ready"]
    /\ UNCHANGED <<port, queue, sourceVars, streamVars, sinkVars, interrupted, history>>

\* check_msg_queue() that returns true; one that returns false changes nothing.
CheckQueue(b) ==
    /\ master[b] = "work"
    /\ queue[b] # <<>>
    /\ master' = [master EXCEPT ![b] = "ready"]
    /\ UNCHANGED <<port, queue, sourceVars, streamVars, sinkVars, interrupted, history>>

\* pop_msg_queue(): the test and the pop, or the test and the wait, happen
\* under the mutex that every push takes.  A wait is an interruption point.
Pop(b) ==
    /\ master[b] \in {"work", "ready", "popwoken"}
    /\ queue[b] # <<>>
    /\ LET e == Head(queue[b])
           i == <<b, e.offset>>
       IN  got' = [got EXCEPT ![i] = Append(@, e.msg)]
    /\ queue' = [queue EXCEPT ![b] = Tail(@)]
    /\ master' = [master EXCEPT ![b] = "work"]
    /\ UNCHANGED <<port, sourceVars, streamVars, sinkVars, interrupted, posted, pushed>>

PopWait(b) ==
    /\ NumIn[b] > 0
    /\ master[b] \in {"work", "ready", "popwoken"}
    /\ queue[b] = <<>>
    /\ ~interrupted
    /\ master' = [master EXCEPT ![b] = "popwait"]
    /\ UNCHANGED <<port, queue, sourceVars, streamVars, sinkVars, interrupted, history>>

\* A condition variable may wake its thread without a notify.
PopSpurious(b) ==
    /\ master[b] = "popwait"
    /\ master' = [master EXCEPT ![b] = "popwoken"]
    /\ UNCHANGED <<port, queue, sourceVars, streamVars, sinkVars, interrupted, history>>

\* Where the loop that stops the sourcers goes when its index is k.
StopLoop(b, k) == IF k < NumOut[b] THEN "stop" ELSE "exit"

\* work() returns -1
Finish(b) ==
    /\ master[b] = "work"
    /\ port' = [port EXCEPT ![b] = 0]
    /\ master' = [master EXCEPT ![b] = StopLoop(b, 0)]
    /\ UNCHANGED <<queue, sourceVars, streamVars, sinkVars, interrupted, history>>

\* msg_sourcer::stop() called by the loop: _done is set without the mutex ...
StopSet(b) ==
    /\ master[b] = "stop"
    /\ done' = [done EXCEPT ![<<b, port[b]>>] = TRUE]
    /\ master' = [master EXCEPT ![b] = "stopnotify"]
    /\ UNCHANGED <<port, queue, source, msg_queue, streamVars, sinkVars, interrupted, history>>

\* Mutant: the loop over the sourcers counts down.
StopNotify_Down(b) ==
    /\ master[b] = "stopnotify"
    /\ NotifySourcer(<<b, port[b]>>)
    /\ port' = [port EXCEPT ![b] = @ - 1]
    /\ master' = [master EXCEPT ![b] = StopLoop(b, port[b] + 1)]
    /\ UNCHANGED <<queue, done, msg_queue, streamVars, sinkVars, interrupted, history>>

\* Mutant: msg_sourcer::stop() sets _done only.
StopNotify_Silent(b) ==
    /\ master[b] = "stopnotify"
    /\ port' = [port EXCEPT ![b] = @ + 1]
    /\ master' = [master EXCEPT ![b] = StopLoop(b, port[b] + 1)]
    /\ UNCHANGED <<queue, source, done, msg_queue, streamVars, sinkVars, interrupted, history>>

\* ... and then the sourcer is notified.
StopNotify(b) ==
    /\ master[b] = "stopnotify"
    /\ NotifySourcer(<<b, port[b]>>)
    /\ port' = [port EXCEPT ![b] = @ + 1]
    /\ master' = [master EXCEPT ![b] = StopLoop(b, port[b] + 1)]
    /\ UNCHANGED <<queue, done, msg_queue, streamVars, sinkVars, interrupted, history>>

\* The stream inputs have ended: the scheduler ends the thread without
\* calling work() again.
Exhaust(b) ==
    /\ b \in StreamFed
    /\ master[b] = "work"
    /\ master' = [master EXCEPT ![b] = "exit"]
    /\ UNCHANGED <<port, queue, sourceVars, streamVars, sinkVars, interrupted, history>>

\* The scheduler interrupts the thread, between two calls of work() or in a wait.
MasterInterrupted(b) ==
    /\ interrupted
    /\ master[b] \in {"work", "popwait", "popwoken"}
    /\ master' = [master EXCEPT ![b] = "exit"]
    /\ UNCHANGED <<port, queue, sourceVars, streamVars, sinkVars, interrupted, history>>

\* The thread ends and the scheduler calls stop(), where a closer posts.
ExitSilent(b) ==
    /\ master[b] = "exit"
    /\ b \notin Closers
    /\ master' = [master EXCEPT ![b] = "done"]
    /\ UNCHANGED <<port, queue, sourceVars, streamVars, sinkVars, interrupted, history>>

ExitPosting(b) ==
    /\ master[b] = "exit"
    /\ b \in Closers
    /\ PushToSourcer(<<b, 0>>)
    /\ master' = [master EXCEPT ![b] = "lastnotify"]
    /\ port' = [port EXCEPT ![b] = 0]
    /\ UNCHANGED <<queue, source, done, streamVars, sinkVars, interrupted, pushed, got>>

-----------------------------------------------------------------------------
(* The thread of a msg_sourcer *)

\* msg_sourcer::start(), which the scheduler calls in the sourcer's thread
SourceStart(o) ==
    /\ source[o] = "start"
    /\ source' = [source EXCEPT ![o] = "idle"]
    /\ done' = [done EXCEPT ![o] = FALSE]
    /\ UNCHANGED <<masterVars, msg_queue, streamVars, sinkVars, interrupted, history>>

\* n more items fit in the buffer: every reader is at most BufSize behind.
Fits(o, n) == \A i \in Readers(o) : written[o] + n - nread[i] <= BufSize

\* The scheduler calls general_work when there is space; it takes the mutex.
SourceEnter(o) ==
    /\ source[o] = "idle"
    /\ Fits(o, 1)
    /\ source' = [source EXCEPT ![o] = "check"]
    /\ UNCHANGED <<masterVars, done, msg_queue, streamVars, sinkVars, interrupted, history>>

\* Mutant: the tag is put on the item after the produced ones.
SourceSend_TagAfter(o, n) ==
    /\ source[o] = "check"
    /\ msg_queue[o] # <<>>
    /\ Fits(o, n)
    /\ tags' = [tags EXCEPT ![o] =
                  @ \cup {[offset |-> written[o] + n, msg |-> Head(msg_queue[o])]}]
    /\ msg_queue' = [msg_queue EXCEPT ![o] = Tail(@)]
    /\ written' = [written EXCEPT ![o] = @ + n]
    /\ source' = [source EXCEPT ![o] = "idle"]
    /\ UNCHANGED <<masterVars, done, sinkVars, interrupted, history>>

\* A message becomes a tag on the first of the n items that are produced;
\* n is noutput_items, which the scheduler takes from the free space.
SourceSend(o, n) ==
    /\ source[o] = "check"
    /\ msg_queue[o] # <<>>
    /\ Fits(o, n)
    /\ tags' = [tags EXCEPT ![o] =
                  @ \cup {[offset |-> written[o], msg |-> Head(msg_queue[o])]}]
    /\ msg_queue' = [msg_queue EXCEPT ![o] = Tail(@)]
    /\ written' = [written EXCEPT ![o] = @ + n]
    /\ source' = [source EXCEPT ![o] = "idle"]
    /\ UNCHANGED <<masterVars, done, sinkVars, interrupted, history>>

\* Mutant: _done is tested before the queue.
SourceQuit_Undrained(o) ==
    /\ source[o] = "check"
    /\ done[o]
    /\ source' = [source EXCEPT ![o] = "done"]
    /\ UNCHANGED <<masterVars, done, msg_queue, streamVars, sinkVars, interrupted, history>>

\* Nothing queued and _done: general_work returns -1 and the thread ends.
SourceQuit(o) ==
    /\ source[o] = "check"
    /\ msg_queue[o] = <<>>
    /\ done[o]
    /\ source' = [source EXCEPT ![o] = "done"]
    /\ UNCHANGED <<masterVars, done, msg_queue, streamVars, sinkVars, interrupted, history>>

\* Nothing queued and _done was false when it was read ...
SourceSeesNothing(o) ==
    /\ source[o] = "check"
    /\ msg_queue[o] = <<>>
    /\ ~done[o]
    /\ source' = [source EXCEPT ![o] = "towait"]
    /\ UNCHANGED <<masterVars, done, msg_queue, streamVars, sinkVars, interrupted, history>>

\* ... so it releases the mutex and sleeps, in one step.
SourceWait(o) ==
    /\ source[o] = "towait"
    /\ ~interrupted
    /\ source' = [source EXCEPT ![o] = "waiting"]
    /\ UNCHANGED <<masterVars, done, msg_queue, streamVars, sinkVars, interrupted, history>>

SourceSpurious(o) ==
    /\ source[o] = "waiting"
    /\ source' = [source EXCEPT ![o] = "woken"]
    /\ UNCHANGED <<masterVars, done, msg_queue, streamVars, sinkVars, interrupted, history>>

\* The wait takes the mutex again before it returns.
SourceRelock(o) ==
    /\ source[o] = "woken"
    /\ source' = [source EXCEPT ![o] = "check"]
    /\ UNCHANGED <<masterVars, done, msg_queue, streamVars, sinkVars, interrupted, history>>

\* Mutant: the wait is no interruption point.
SourceInterrupted_NotInWait(o) ==
    /\ interrupted
    /\ source[o] = "idle"
    /\ source' = [source EXCEPT ![o] = "done"]
    /\ done' = [done EXCEPT ![o] = TRUE]
    /\ UNCHANGED <<masterVars, msg_queue, streamVars, sinkVars, interrupted, history>>

\* The scheduler interrupts the thread; it calls stop() as the thread ends.
SourceInterrupted(o) ==
    /\ interrupted
    /\ source[o] \in {"idle", "towait", "waiting", "woken"}
    /\ source' = [source EXCEPT ![o] = "done"]
    /\ done' = [done EXCEPT ![o] = TRUE]
    /\ UNCHANGED <<masterVars, msg_queue, streamVars, sinkVars, interrupted, history>>

-----------------------------------------------------------------------------
(* The thread of a msg_sinker *)

\* Mutant: the start of the range does not belong to it.
TagsInRange_StartExcluded(o, from, to) == {t \in tags[o] : from < t.offset /\ t.offset < to}

\* get_tags_in_range(_tags, 0, from, to)
TagsInRange(o, from, to) == {t \in tags[o] : from <= t.offset /\ t.offset < to}

\* The for loop over _tags pushes next, or general_work returns.
SinkLoop(left) == IF left = {} THEN "idle" ELSE "push"

\* general_work with n input items, up to the loop
SinkCollect(i, n) ==
    /\ sink[i] = "idle"
    /\ nread[i] + n <= written[Wire[i]]
    /\ pending' = [pending EXCEPT ![i] = TagsInRange(Wire[i], nread[i], nread[i] + n)]
    /\ nread' = [nread EXCEPT ![i] = @ + n]
    /\ sink' = [sink EXCEPT ![i] = SinkLoop(pending'[i])]
    /\ UNCHANGED <<masterVars, sourceVars, streamVars, interrupted, history>>

\* Mutant: the tag is not marked with the index of the input.
SinkPush_Unmarked(i) ==
    /\ sink[i] = "push"
    /\ \E t \in pending[i] :
         /\ \A u \in pending[i] : t.offset <= u.offset
         /\ queue' = [queue EXCEPT ![i[1]] = Append(@, [offset |-> 0, msg |-> t.msg])]
         /\ pending' = [pending EXCEPT ![i] = @ \ {t}]
    /\ pushed' = [pushed EXCEPT ![i] = @ + 1]
    /\ sink' = [sink EXCEPT ![i] = "notify"]
    /\ UNCHANGED <<master, port, sourceVars, streamVars, nread, interrupted, posted, got>>

\* One turn of the loop: the tags come in the order of their offsets.
SinkPush(i) ==
    /\ sink[i] = "push"
    /\ \E t \in pending[i] :
         /\ \A u \in pending[i] : t.offset <= u.offset
         /\ queue' = [queue EXCEPT ![i[1]] =
                        Append(@, [offset |-> i[2], msg |-> t.msg])]
         /\ pending' = [pending EXCEPT ![i] = @ \ {t}]
    /\ pushed' = [pushed EXCEPT ![i] = @ + 1]
    /\ sink' = [sink EXCEPT ![i] = "notify"]
    /\ UNCHANGED <<master, port, sourceVars, streamVars, nread, interrupted, posted, got>>

\* Mutant: MyQueue::push does not notify.
SinkNotify_Forgotten(i) ==
    /\ sink[i] = "notify"
    /\ sink' = [sink EXCEPT ![i] = SinkLoop(pending[i])]
    /\ UNCHANGED <<masterVars, sourceVars, streamVars, nread, pending, interrupted, history>>

\* MyQueue::push notifies after it has released the mutex.
SinkNotify(i) ==
    /\ sink[i] = "notify"
    /\ master' = [master EXCEPT ![i[1]] = IF @ = "popwait" THEN "popwoken" ELSE @]
    /\ sink' = [sink EXCEPT ![i] = SinkLoop(pending[i])]
    /\ UNCHANGED <<port, queue, sourceVars, streamVars, nread, pending, interrupted, history>>

\* The stream has ended and was read to its end.
SinkEnd(i) ==
    /\ sink[i] = "idle"
    /\ source[Wire[i]] = "done"
    /\ nread[i] = written[Wire[i]]
    /\ sink' = [sink EXCEPT ![i] = "done"]
    /\ UNCHANGED <<masterVars, sourceVars, streamVars, nread, pending, interrupted, history>>

SinkInterrupted(i) ==
    /\ interrupted
    /\ sink[i] = "idle"
    /\ sink' = [sink EXCEPT ![i] = "done"]
    /\ UNCHANGED <<masterVars, sourceVars, streamVars, nread, pending, interrupted, history>>

-----------------------------------------------------------------------------
(* The flow graph *)

\* top_block.stop()
Interrupt ==
    /\ Stoppable
    /\ ~interrupted
    /\ interrupted' = TRUE
    /\ UNCHANGED <<masterVars, sourceVars, streamVars, sinkVars, history>>

AllDone ==
    /\ \A b \in Blocks : master[b] = "done"
    /\ \A o \in Out : source[o] = "done"
    /\ \A i \in In : sink[i] = "done"

Terminated == AllDone /\ UNCHANGED vars

\* What work() chooses to do, and what it cannot avoid doing next.
UserStep(b) ==
    \/ \E k \in 0..(NumOut[b] - 1) : Post(b, k)
    \/ CheckQueue(b)
    \/ Finish(b)
MasterStep(b) ==
    \/ PostNotify(b) \/ Pop(b) \/ PopWait(b)
    \/ StopSet(b) \/ StopNotify(b) \/ Exhaust(b)
    \/ MasterInterrupted(b) \/ ExitSilent(b) \/ ExitPosting(b)
SourceStep(o) ==
    \/ SourceStart(o) \/ SourceEnter(o) \/ SourceQuit(o)
    \/ \E n \in 1..BufSize : SourceSend(o, n)
    \/ SourceSeesNothing(o) \/ SourceWait(o) \/ SourceRelock(o) \/ SourceInterrupted(o)
SinkStep(i) ==
    \/ \E n \in 1..BufSize : SinkCollect(i, n)
    \/ SinkPush(i) \/ SinkNotify(i) \/ SinkEnd(i) \/ SinkInterrupted(i)

Next ==
    \/ \E b \in Blocks : UserStep(b) \/ MasterStep(b) \/ PopSpurious(b)
    \/ \E o \in Out : SourceStep(o) \/ SourceSpurious(o)
    \/ \E i \in In : SinkStep(i)
    \/ Interrupt
    \/ Terminated

Spec == Init /\ [][Next]_vars

\* Every thread runs when it can.  Nothing makes work() post or return -1, no
\* wait ends spuriously as a matter of course, nobody has to stop the graph.
Fairness ==
    /\ \A b \in Blocks : WF_vars(MasterStep(b))
    /\ \A o \in Out : WF_vars(SourceStep(o))
    /\ \A i \in In : WF_vars(SinkStep(i))

FairSpec == Spec /\ Fairness

-----------------------------------------------------------------------------
(* Properties *)

MasterPCs == {"work", "ready", "notify", "lastnotify", "popwait",
              "popwoken", "stop", "stopnotify", "exit", "done"}
SourcePCs == {"start", "idle", "check", "towait", "waiting", "woken", "done"}
SinkPCs   == {"idle", "push", "notify", "done"}

\* Every variable has its type.
TypeOK ==
    /\ master \in [Blocks -> MasterPCs]
    /\ port \in [Blocks -> Nat]
    /\ queue \in [Blocks -> Seq(Entries)]
    /\ source \in [Out -> SourcePCs]
    /\ done \in [Out -> BOOLEAN]
    /\ msg_queue \in [Out -> Seq(Messages)]
    /\ written \in [Out -> Nat]
    /\ tags \in [Out -> SUBSET Tags]
    /\ sink \in [In -> SinkPCs]
    /\ nread \in [In -> Nat]
    /\ pending \in [In -> SUBSET Tags]
    /\ interrupted \in BOOLEAN
    /\ posted \in [Out -> Nat]
    /\ pushed \in [In -> Nat]
    /\ got \in [In -> Seq(Messages)]

\* What work() has popped from an input is an initial part of what was posted
\* on the output it is connected to: in order, nothing lost, nothing twice,
\* nothing from another output, although all inputs of the block share one
\* queue and one output may feed many blocks (block.h: "All message sinks
\* connected to this port will get this message").
InOrderOnce ==
    \A i \in In :
        /\ Len(got[i]) <= posted[Wire[i]]
        /\ \A n \in 1..Len(got[i]) : got[i][n] = Message(Wire[i], n)

\* A sourcer never sleeps on a queued message unless the post that queued it
\* is still about to notify: the notify after the unlock in post_msg cannot
\* be lost, because the sourcer tests the queue under the mutex.
PostWakesSourcer ==
    \A o \in Out :
        source[o] = "waiting" /\ msg_queue[o] # <<>> =>
            /\ master[o[1]] \in {"notify", "lastnotify"}
            /\ port[o[1]] = o[2]

\* The same for work() sleeping in pop_msg_queue: one of the sinkers that
\* share the queue is between its push and its notify.
PushWakesPop ==
    \A b \in Blocks :
        master[b] = "popwait" /\ queue[b] # <<>> =>
            \E k \in 0..(NumIn[b] - 1) : sink[<<b, k>>] = "notify"

\* After check_msg_queue() has said that a message is there, pop_msg_queue()
\* does not block: only work() takes messages out of the queue.
CheckThenPop == \A b \in Blocks : master[b] = "ready" => queue[b] # <<>>

\* Where the thread of a master_block calls work() no more.
Ended(b) == master[b] \in {"stop", "stopnotify", "exit", "lastnotify", "done"}

\* A sourcer that ended by itself has sent all that work() posted, also what
\* was posted just before work() returned -1 (the queue is tested before
\* _done); and a sinker that ended after it has pushed all of it.  A message
\* that stop() posts comes too late for that.
DrainedWhenDone ==
    ~interrupted =>
        /\ \A o \in Out : source[o] = "done" /\ o[1] \notin Closers => msg_queue[o] = <<>>
        /\ \A i \in In : sink[i] = "done" /\ Wire[i][1] \notin Closers =>
               pushed[i] = posted[Wire[i]]

\* Each message that is posted before the sourcer is told to stop is popped by
\* every block connected to the output, as long as the flow graph is not
\* stopped and the receiving work() goes on: also the last one that stop()
\* posts when the stream inputs have ended.
Delivered ==
    \A i \in In : \A n \in 1..(MaxPosts[Wire[i]] + 1) :
        (posted[Wire[i]] >= n /\ ~done[Wire[i]]) ~>
            (Len(got[i]) >= n \/ interrupted \/ Ended(i[1]))

\* Stopping the flow graph ends every thread, also one that waits.
InterruptEndsAll == interrupted ~> AllDone

\* msg_sourcer::stop() has set _done and is about to notify.
Stopping(b, k) == master[b] = "stopnotify" /\ port[b] = k /\ done[<<b, k>>]

\* A sourcer that has started ends after its block's work() returned -1: when
\* it is notified, _done is set already, and a sourcer that sleeps is woken.
\* Not covered: a sourcer that has read _done but does not sleep yet (the next
\* property), and one whose thread comes to start() after the stop and resets
\* _done.
StopEndsSourcer ==
    \A b \in Blocks : \A k \in 0..(NumOut[b] - 1) :
        (Stopping(b, k) /\ source[<<b, k>>] \notin {"start", "towait"})
            ~> (source[<<b, k>>] = "done" \/ interrupted)

\* "if working, wakes up work to return -1" (block.cc:104): a sourcer that is
\* in general_work when it is stopped ends.
StopWakesWork ==
    \A b \in Blocks : \A k \in 0..(NumOut[b] - 1) :
        (Stopping(b, k) /\ source[<<b, k>>] \in {"check", "towait", "waiting", "woken"})
            ~> (source[<<b, k>>] = "done")

-----------------------------------------------------------------------------
(* The inductive invariant: where each message on its way is *)

\* The messages that have left the queue of the sourcer.
Sent(o) == posted[o] - Len(msg_queue[o])

\* The sourcer's queue holds the last posted messages, in order.
SourceInv ==
    \A o \in Out :
        /\ Len(msg_queue[o]) <= posted[o]
        /\ \A n \in 1..Len(msg_queue[o]) : msg_queue[o][n] = Message(o, Sent(o) + n)

\* The stream carries one tag per sent message, at ascending offsets.
StreamInv ==
    \A o \in Out :
        /\ \A t \in tags[o] :
               t.offset < written[o] /\ t.msg.port = o /\ t.msg.seq \in 1..Sent(o)
        /\ \A n \in 1..Sent(o) : \E t \in tags[o] : t.msg.seq = n
        /\ \A t, u \in tags[o] : t.msg.seq < u.msg.seq <=> t.offset < u.offset

\* A sinker has pushed or still holds the tags it has read past, no others.
SinkInv ==
    \A i \in In :
        /\ nread[i] <= written[Wire[i]]
        /\ pushed[i] <= Sent(Wire[i])
        /\ pending[i] \subseteq tags[Wire[i]]
        /\ \A t \in tags[Wire[i]] :
               /\ t \in pending[i] <=> t.offset < nread[i] /\ t.msg.seq > pushed[i]
               /\ t.msg.seq <= pushed[i] => t.offset < nread[i]
        /\ sink[i] \in {"idle", "done"} => pending[i] = {}

\* A block's queue holds, for each input, what was pushed and not popped.
QueueInv ==
    /\ \A b \in Blocks : \A m \in 1..Len(queue[b]) :
           LET e == queue[b][m]  i == <<b, e.offset>> IN
               /\ i \in In
               /\ e.msg.port = Wire[i]
               /\ e.msg.seq \in (Len(got[i]) + 1)..pushed[i]
    /\ \A b \in Blocks : \A m, n \in 1..Len(queue[b]) :
           m < n /\ queue[b][m].offset = queue[b][n].offset =>
               queue[b][m].msg.seq < queue[b][n].msg.seq
    /\ \A i \in In : \A n \in (Len(got[i]) + 1)..pushed[i] :
           \E m \in 1..Len(queue[i[1]]) :
               queue[i[1]][m].offset = i[2] /\ queue[i[1]][m].msg.seq = n

\* What was popped from an input is the first messages of its output.
GotInv ==
    \A i \in In :
        /\ Len(got[i]) <= pushed[i]
        /\ \A n \in 1..Len(got[i]) : got[i][n] = Message(Wire[i], n)

TransferInv == SourceInv /\ StreamInv /\ SinkInv /\ QueueInv /\ GotInv

\* A sourcer about to sleep has seen its queue empty, and nobody could post.
WakeInv ==
    /\ PostWakesSourcer
    /\ \A o \in Out : source[o] = "towait" => msg_queue[o] = <<>>

\* Without an interruption a thread ends only in the order of the stops.
EndInv ==
    ~interrupted =>
        /\ \A o \in Out :
               /\ done[o] => Ended(o[1])
               /\ source[o] = "done" =>
                      done[o] /\ (o[1] \notin Closers => msg_queue[o] = <<>>)
        /\ \A i \in In :
               sink[i] = "done" => source[Wire[i]] = "done" /\ nread[i] = written[Wire[i]]

IInv == TypeOK /\ TransferInv /\ WakeInv /\ PushWakesPop /\ CheckThenPop /\ EndInv
=============================================================================
