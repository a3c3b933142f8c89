--------------------------- MODULE StreamSelector ---------------------------
(***************************************************************************)
(* lib/stream_selector.cc: stream inputs routed to stream outputs at run   *)
(* time.  Each input and each output is a scheduler block with a thread of *)
(* its own; a third thread, of the user, calls set_paths().                *)
(*                                                                         *)
(* No queue lies between an input and an output.  The work() of an input   *)
(* leaves a pointer to its own buffer with the output (post_output) and    *)
(* waits there until the work() of the output has copied from it.  The     *)
(* input keeps its _mutex all that time, so that set_output() waits for    *)
(* the post to end.  _caller_mutex lets one input at a time use an output, *)
(* and one condition variable of the output serves both sides.             *)
(*                                                                         *)
(* A critical section of _mutex is one step, as it ends in a wait or in a  *)
(* return.  The scheduler starts, interrupts and restarts the threads.     *)
(***************************************************************************)
EXTENDS Integers, Sequences, FiniteSets

CONSTANTS
    NumIn, NumOut,  \* size of _inputs and of _outputs
    AllPaths,       \* the vectors that set_paths() is called with
    MaxChunk,       \* most items in one call of a work()
    MaxItems,       \* bound: items of each input stream
    MaxCalls,       \* bound: calls of set_paths()
    MaxRestarts     \* bound: times that the flow graph is started again

Inputs  == 0..(NumIn - 1)
Outputs == 0..(NumOut - 1)

\* The values of a path that are not an output, and one that is invalid.
Block   == -1
Consume == -2
Invalid == NumOut
Routes  == Outputs \cup {Block, Consume}

ASSUME CountsAssumption == NumIn \in Nat \ {0} /\ NumOut \in Nat \ {0}
ASSUME AllPathsAssumption == AllPaths \subseteq [Inputs -> Routes \cup {Invalid}]
ASSUME BoundsAssumption ==
    /\ MaxChunk \in Nat \ {0}
    /\ MaxItems \in Nat /\ MaxCalls \in Nat /\ MaxRestarts \in Nat

VARIABLES
    \* each stream_selector_input
    input,    \* where its thread is
    want,     \* the argument noutput_items of its work()
    nread,    \* items that were consumed
    route,    \* _output and _block, as a path
    \* each stream_selector_output
    output,   \* where its thread is
    caller,   \* the input that holds _caller_mutex, or NoCaller
    mem,      \* _mem: the input it points into, and the item it points at
    len,      \* _len
    has_data, \* _has_data
    \* the thread that calls set_paths()
    setter,   \* where it is
    idx,      \* its loop index
    paths,    \* its argument
    calls,    \* number of calls so far
    \* the scheduler
    stopping, restarts,
    \* history
    outs,     \* the items each output has produced
    dropped,  \* the items that "consume" threw away
    wiped     \* inputs with a post that the start() of an output has cleared

inputVars  == <<input, want, nread, route>>
outputVars == <<output, caller, mem, len, has_data>>
setterVars == <<setter, idx, paths, calls>>
history    == <<outs, dropped, wiped>>
vars == <<input, want, nread, route, output, caller, mem, len, has_data,
          setter, idx, paths, calls, stopping, restarts, outs, dropped, wiped>>

NoCaller == -1

\* An item is known by its input and its turn there.
Item(i, n) == <<i, n>>

\* _mem, _len and _has_data are not initialised by the constructor; none is
\* read before post_output() or start() has set it.
Init ==
    /\ input = [i \in Inputs |-> "idle"]
    /\ want = [i \in Inputs |-> 0]
    /\ nread = [i \in Inputs |-> 0]
    /\ route = [i \in Inputs |-> Block]
    /\ output = [o \in Outputs |-> "start"]
    /\ caller = [o \in Outputs |-> NoCaller]
    /\ mem = [o \in Outputs |-> Item(0, 1)]
    /\ len = [o \in Outputs |-> 0]
    /\ has_data \in [Outputs -> BOOLEAN]
    /\ setter = "idle"
    /\ idx = 0
    /\ paths = [i \in Inputs |-> Block]
    /\ calls = 0
    /\ stopping = FALSE
    /\ restarts = 0
    /\ outs = [o \in Outputs |-> <<>>]
    /\ dropped = {}
    /\ wiped = {}

-----------------------------------------------------------------------------
(* Locks and notifications *)

\* Mutant: an input that waits for a path keeps its _mutex.
InputMutexFree_HeldInWait(i) ==
    input[i] \notin {"calling", "posted", "postwoken", "blocked", "unblocked"}

\* The input holds its _mutex while it waits for an output.
InputMutexFree(i) == input[i] \notin {"calling", "posted", "postwoken"}

\* Mutant: no _caller_mutex.
CallerMutexFree_Unlocked(o) == TRUE

CallerMutexFree(o) == caller[o] = NoCaller

\* Mutant: work() does not notify.
NotifyCaller_Forgotten(o) == output' = [output EXCEPT ![o] = "idle"] /\ UNCHANGED input

\* _cond.notify_one() by work(): the calling input sleeps on it, or nobody.
NotifyCaller(o) ==
    /\ input' = [i \in Inputs |->
                   IF input[i] = "posted" /\ caller[o] = i THEN "postwoken" ELSE input[i]]
    /\ output' = [output EXCEPT ![o] = "idle"]

-----------------------------------------------------------------------------
(* The thread of an input *)

\* work() with n items, or again after the wait for _blocker: it takes _mutex
\* and looks at the route.
EnterRouted(i, n) ==
    /\ route[i] \in Outputs
    /\ input' = [input EXCEPT ![i] = "calling"]
    /\ want' = [want EXCEPT ![i] = n]
    /\ UNCHANGED <<nread, route, outputVars, setterVars, stopping, restarts, history>>

EnterBlocked(i, n) ==
    /\ route[i] = Block
    /\ input' = [input EXCEPT ![i] = "blocked"]
    /\ want' = [want EXCEPT ![i] = n]
    /\ UNCHANGED <<nread, route, outputVars, setterVars, stopping, restarts, history>>

EnterConsuming(i, n) ==
    /\ route[i] = Consume
    /\ input' = [input EXCEPT ![i] = "idle"]
    /\ dropped' = dropped \cup {Item(i, nread[i] + k) : k \in 1..n}
    /\ nread' = [nread EXCEPT ![i] = @ + n]
    /\ UNCHANGED <<want, route, outputVars, setterVars, stopping, restarts, outs, wiped>>

InputWork(i) ==
    \E n \in 1..MaxChunk :
        /\ \/ input[i] = "idle" /\ nread[i] + n <= MaxItems
           \/ input[i] = "unblocked" /\ n = want[i]
        /\ EnterRouted(i, n) \/ EnterBlocked(i, n) \/ EnterConsuming(i, n)

\* A condition variable may wake its thread without a notify.
BlockerSpurious(i) ==
    /\ input[i] = "blocked"
    /\ input' = [input EXCEPT ![i] = "unblocked"]
    /\ UNCHANGED <<want, nread, route, outputVars, setterVars, stopping, restarts, history>>

\* post_output(), once the caller's mutex is free: up to the wait.
PostOutput(i) ==
    LET o == route[i] IN
    /\ input[i] = "calling"
    /\ CallerMutexFree(o)
    /\ caller' = [caller EXCEPT ![o] = i]
    /\ mem' = [mem EXCEPT ![o] = Item(i, nread[i] + 1)]
    /\ len' = [len EXCEPT ![o] = want[i]]
    /\ has_data' = [has_data EXCEPT ![o] = TRUE]
    /\ input' = [input EXCEPT ![i] = "posted"]
    /\ output' = [output EXCEPT ![o] = IF @ = "waiting" THEN "woken" ELSE @]
    /\ UNCHANGED <<want, nread, route, setterVars, stopping, restarts, history>>

PostSpurious(i) ==
    /\ input[i] = "posted"
    /\ input' = [input EXCEPT ![i] = "postwoken"]
    /\ UNCHANGED <<want, nread, route, outputVars, setterVars, stopping, restarts, history>>

PostWaitAgain(i) ==
    /\ input[i] = "postwoken"
    /\ has_data[route[i]]
    /\ input' = [input EXCEPT ![i] = "posted"]
    /\ UNCHANGED <<want, nread, route, outputVars, setterVars, stopping, restarts, history>>

\* post_output() returns _len, and so many items are consumed.
PostReturn(i) ==
    /\ input[i] = "postwoken"
    /\ ~has_data[route[i]]
    /\ nread' = [nread EXCEPT ![i] = @ + len[route[i]]]
    /\ caller' = [caller EXCEPT ![route[i]] = NoCaller]
    /\ input' = [input EXCEPT ![i] = "idle"]
    /\ UNCHANGED <<want, route, output, mem, len, has_data, setterVars, stopping, restarts, history>>

-----------------------------------------------------------------------------
(* The thread of an output *)

\* Mutant: start() leaves _has_data as it is.
OutputStart_NoReset(o) ==
    /\ output[o] = "start"
    /\ output' = [output EXCEPT ![o] = "idle"]
    /\ UNCHANGED <<inputVars, caller, mem, len, has_data, setterVars, stopping, restarts, history>>

\* start(), which the scheduler calls in the thread of the output
OutputStart(o) ==
    /\ output[o] = "start"
    /\ has_data' = [has_data EXCEPT ![o] = FALSE]
    /\ output' = [output EXCEPT ![o] = "idle"]
    /\ wiped' = wiped \cup {i \in Inputs : caller[o] = i /\ has_data[o]}
    /\ UNCHANGED <<inputVars, caller, mem, len, setterVars, stopping, restarts, outs, dropped>>

\* work() that finds no data, also after a wait
OutputWait(o) ==
    /\ output[o] \in {"idle", "woken"}
    /\ ~has_data[o]
    /\ output' = [output EXCEPT ![o] = "waiting"]
    /\ UNCHANGED <<inputVars, caller, mem, len, has_data, setterVars, stopping, restarts, history>>

OutputSpurious(o) ==
    /\ output[o] = "waiting"
    /\ output' = [output EXCEPT ![o] = "woken"]
    /\ UNCHANGED <<inputVars, caller, mem, len, has_data, setterVars, stopping, restarts, history>>

\* Mutant: _has_data stays set.
OutputCopy_KeepsData(o, n) ==
    /\ output[o] \in {"idle", "woken"}
    /\ has_data[o]
    /\ LET m == IF len[o] < n THEN len[o] ELSE n IN
        /\ len' = [len EXCEPT ![o] = m]
        /\ outs' = [outs EXCEPT ![o] = @ \o [k \in 1..m |-> Item(mem[o][1], mem[o][2] + k - 1)]]
    /\ NotifyCaller(o)
    /\ UNCHANGED <<want, nread, route, caller, mem, has_data, setterVars, stopping, restarts, dropped, wiped>>

\* work() with space for n items: copies what fits and tells the input.
OutputCopy(o, n) ==
    /\ output[o] \in {"idle", "woken"}
    /\ has_data[o]
    /\ LET m == IF len[o] < n THEN len[o] ELSE n IN
        /\ len' = [len EXCEPT ![o] = m]
        /\ outs' = [outs EXCEPT ![o] = @ \o [k \in 1..m |-> Item(mem[o][1], mem[o][2] + k - 1)]]
    /\ has_data' = [has_data EXCEPT ![o] = FALSE]
    /\ NotifyCaller(o)
    /\ UNCHANGED <<want, nread, route, caller, mem, setterVars, stopping, restarts, dropped, wiped>>

-----------------------------------------------------------------------------
(* The thread that calls set_paths() *)

\* Mutant: the new paths are applied at once.
SetPaths_NoBlock(p) ==
    /\ setter = "idle"
    /\ calls < MaxCalls
    /\ paths' = p
    /\ idx' = 0
    /\ calls' = calls + 1
    /\ setter' = "apply"
    /\ UNCHANGED <<inputVars, outputVars, stopping, restarts, history>>

SetPaths(p) ==
    /\ setter = "idle"
    /\ calls < MaxCalls
    /\ paths' = p
    /\ idx' = 0
    /\ calls' = calls + 1
    /\ setter' = "block"
    /\ UNCHANGED <<inputVars, outputVars, stopping, restarts, history>>

\* set_output() up to the unlock: waits for a post of the input to end.
SetOutput ==
    /\ setter = "block" \/ (setter = "apply" /\ paths[idx] # Invalid)
    /\ InputMutexFree(idx)
    /\ route' = [route EXCEPT ![idx] = IF setter = "block" THEN Block ELSE paths[idx]]
    /\ setter' = IF setter = "block" THEN "blocknotify" ELSE "applynotify"
    /\ UNCHANGED <<input, want, nread, outputVars, idx, paths, calls, stopping, restarts, history>>

\* Mutant: set_output() does not notify.
NotifyBlocker_Forgotten(i) == UNCHANGED input

\* _blocker.notify_one()
NotifyBlocker(i) ==
    input' = [input EXCEPT ![i] = IF @ = "blocked" THEN "unblocked" ELSE @]

\* Mutant: the loops run one turn more.
AfterTurn_OneMore ==
    CASE idx < NumIn -> setter' = (IF setter = "blocknotify" THEN "block" ELSE "apply") /\ idx' = idx + 1
      [] idx = NumIn -> setter' = (IF setter = "blocknotify" THEN "apply" ELSE "idle") /\ idx' = 0

\* Where set_paths() goes after the turn of a loop: to the next turn, from the
\* first loop to the second, and from there back to the caller.
AfterTurn ==
    CASE idx + 1 < NumIn -> setter' = (IF setter = "blocknotify" THEN "block" ELSE "apply") /\ idx' = idx + 1
      [] idx + 1 = NumIn -> setter' = (IF setter = "blocknotify" THEN "apply" ELSE "idle") /\ idx' = 0

SetOutputNotify ==
    /\ setter \in {"blocknotify", "applynotify"}
    /\ NotifyBlocker(idx)
    /\ AfterTurn
    /\ UNCHANGED <<want, nread, route, outputVars, paths, calls, stopping, restarts, history>>

\* An invalid index throws: this input and those after it stay blocked.
SetPathsThrow ==
    /\ setter = "apply"
    /\ paths[idx] = Invalid
    /\ setter' = "idle"
    /\ idx' = 0
    /\ UNCHANGED <<inputVars, outputVars, paths, calls, stopping, restarts, history>>

-----------------------------------------------------------------------------
(* The scheduler *)

Interrupt ==
    /\ ~stopping
    /\ restarts < MaxRestarts
    /\ stopping' = TRUE
    /\ UNCHANGED <<inputVars, outputVars, setterVars, restarts, history>>

\* A thread is interrupted between two calls of work() or in a wait; the
\* exception releases the mutexes.  Waiting for a mutex is not interrupted.
InputInterrupted(i) ==
    /\ stopping
    /\ input[i] \in {"idle", "blocked", "unblocked", "posted", "postwoken"}
    /\ input' = [input EXCEPT ![i] = "done"]
    /\ caller' = [o \in Outputs |-> IF caller[o] = i THEN NoCaller ELSE caller[o]]
    /\ UNCHANGED <<want, nread, route, output, mem, len, has_data, setterVars, stopping, restarts, history>>

OutputInterrupted(o) ==
    /\ stopping
    /\ output[o] \in {"idle", "waiting", "woken"}
    /\ output' = [output EXCEPT ![o] = "done"]
    /\ UNCHANGED <<inputVars, caller, mem, len, has_data, setterVars, stopping, restarts, history>>

\* The flow graph is started again with new buffers: what was in the old ones
\* is gone, and the streams go on with later items.
Restart ==
    /\ stopping
    /\ \A i \in Inputs : input[i] = "done"
    /\ \A o \in Outputs : output[o] = "done"
    /\ stopping' = FALSE
    /\ restarts' = restarts + 1
    /\ input' = [i \in Inputs |-> "idle"]
    /\ output' = [o \in Outputs |-> "start"]
    /\ nread' = [i \in Inputs |-> nread[i] + MaxChunk]
    /\ dropped' = dropped \cup
                    UNION {{Item(i, nread[i] + k) : k \in 1..MaxChunk} : i \in Inputs}
    /\ UNCHANGED <<want, route, caller, mem, len, has_data, setterVars, outs, wiped>>

InputStep(i) == InputWork(i) \/ PostOutput(i) \/ PostWaitAgain(i) \/ PostReturn(i)
OutputStep(o) ==
    OutputStart(o) \/ OutputWait(o) \/ \E n \in 1..MaxChunk : OutputCopy(o, n)
SetterStep == SetOutput \/ SetOutputNotify \/ SetPathsThrow

Next ==
    \/ \E i \in Inputs : InputStep(i) \/ BlockerSpurious(i) \/ PostSpurious(i) \/ InputInterrupted(i)
    \/ \E o \in Outputs : OutputStep(o) \/ OutputSpurious(o) \/ OutputInterrupted(o)
    \/ SetterStep
    \/ \E p \in AllPaths : SetPaths(p)
    \/ Interrupt
    \/ Restart

Spec == Init /\ [][Next]_vars

\* Every thread runs when it can, the outputs get space again, and a pending
\* interruption is thrown at the next wait.  As the streams are finite, nobody
\* keeps a mutex from another for ever.
Fairness ==
    /\ \A i \in Inputs : WF_vars(InputStep(i)) /\ WF_vars(InputInterrupted(i))
    /\ \A o \in Outputs : WF_vars(OutputStep(o)) /\ WF_vars(OutputInterrupted(o))
    /\ WF_vars(SetterStep)

FairSpec == Spec /\ Fairness

-----------------------------------------------------------------------------
(* Properties *)

\* Every variable has its type, and an index is valid when it is used.
TypeOK ==
    /\ input \in [Inputs -> {"idle", "calling", "posted", "postwoken",
                             "blocked", "unblocked", "done"}]
    /\ want \in [Inputs -> 0..MaxChunk]
    /\ nread \in [Inputs -> Nat]
    /\ route \in [Inputs -> Routes]
    /\ \A i \in Inputs : ~InputMutexFree(i) => route[i] \in Outputs
    /\ output \in [Outputs -> {"start", "idle", "waiting", "woken", "done"}]
    /\ caller \in [Outputs -> Inputs \cup {NoCaller}]
    /\ mem \in [Outputs -> Inputs \X (Nat \ {0})]
    /\ len \in [Outputs -> 0..MaxChunk]
    /\ has_data \in [Outputs -> BOOLEAN]
    /\ setter \in {"idle", "block", "blocknotify", "apply", "applynotify"}
    /\ idx \in Inputs
    /\ paths \in [Inputs -> Routes \cup {Invalid}]
    /\ calls \in 0..MaxCalls
    /\ stopping \in BOOLEAN
    /\ restarts \in 0..MaxRestarts
    /\ wiped \subseteq Inputs

\* The items of an input that the outputs have produced, with the position.
Places(i) ==
    UNION {{<<o, k>> : k \in {j \in 1..Len(outs[o]) : outs[o][j][1] = i}} : o \in Outputs}

\* No item is produced twice, also not on two outputs when the paths change
\* between two calls of work(), and each output gets them in order.
OnceInOrder ==
    \A i \in Inputs : \A a, b \in Places(i) :
        LET m == outs[a[1]][a[2]][2]  n == outs[b[1]][b[2]][2] IN
            /\ m = n => a = b
            /\ a[1] = b[1] /\ a[2] < b[2] => m < n

\* Every item that an input has consumed was produced by an output, unless the
\* path said to consume: what post_output() returns is what was copied, though
\* two inputs may use one output.  Not so for a post that start() has cleared:
\* a spurious wakeup ends it as if all was copied.
ConsumedOnceCopied ==
    \A i \in Inputs \ wiped : \A n \in 1..nread[i] :
        \/ Item(i, n) \in dropped
        \/ \E a \in Places(i) : outs[a[1]][a[2]] = Item(i, n)

\* The output copies from the buffer of an input only while the work() that
\* owns the buffer waits in post_output(): the pointer does not outlive it,
\* also when the graph was stopped in the middle of a post and started again.
PointerAlive ==
    \A o \in Outputs :
        has_data[o] /\ output[o] \notin {"start", "done"} /\ ~stopping =>
            /\ caller[o] = mem[o][1]
            /\ input[caller[o]] \in {"posted", "postwoken"}
            /\ mem[o][2] = nread[caller[o]] + 1

\* While new paths are applied, an input that uses an output uses its new one:
\* no old path is in use any more ("set all inputs to block before we apply
\* the new paths").
Switchover ==
    setter \in {"apply", "applynotify"} =>
        \A i \in Inputs :
            ~InputMutexFree(i) => i <= idx /\ route[i] = paths[i]

\* An input that has posted to an output which was started gets its answer, or
\* the flow graph is stopped and its thread ends.
Answered ==
    \A i \in Inputs : \A o \in Outputs :
        (input[i] = "posted" /\ route[i] = o /\ has_data[o] /\ output[o] # "start")
            ~> (input[i] \in {"idle", "done"})

\* An input whose path is valid moves its items as soon as set_paths() has
\* returned: no wait for _blocker misses the change of its path.
Unblocked ==
    \A i \in Inputs :
        (setter = "idle" /\ input[i] = "blocked" /\ route[i] # Block)
            ~> (input[i] # "blocked" \/ route[i] = Block)

\* set_paths() returns, also when every input is in the middle of a post, but
\* for a post that start() has cleared.
SetPathsReturns == (setter # "idle") ~> (setter = "idle" \/ wiped # {})

\* "paths = [1] input0 -> output1" (stream_selector.h:53): an input that posts
\* to its output gets its answer, also if it did before the output started.
RouteWorks ==
    \A i \in Inputs : (input[i] = "posted") ~> (input[i] = "idle")
=============================================================================
