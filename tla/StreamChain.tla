---------------------------- MODULE StreamChain ----------------------------
(***************************************************************************)
(* A block with automatic or manual consume and, behind it, a delay, as    *)
(* the scheduler runs them, each in a thread of its own.                   *)
(***************************************************************************)
EXTENDS StreamBlock, Delay

vars == <<blockVars, delayVars>>

Init == StreamBlockInit /\ DelayInit

Waiting == Len(out) - nread_       \* items in the buffer between the two

BlockWork == /\ \E n \in Asked(BufSize - Waiting) : \E r \in 0..n : GeneralWork(n, r)
             /\ UNCHANGED delayVars
BlockEnds == WorkEnds /\ UNCHANGED delayVars
Source == Arrive /\ UNCHANGED delayVars
BlockDone == /\ InputDone /\ UNCHANGED delayVars
             /\ \A n \in 1..NumItems : n % OutputMultiple = 0 => forecast(n) > Available
SetDelay == /\ \E n \in Delays : set_delay(n)
            /\ UNCHANGED blockVars
DelayCalled == /\ \/ \E n \in 1..MaxOut : DelayForecast(Waiting, n)
                  \/ DelayWork
               /\ UNCHANGED blockVars
\* The scheduler tells the delay that the block has ended; of one that has died by
\* an exception it may tell it or not.
DelayEnds == /\ block # "runs" /\ Waiting = 0 /\ DelayDone
             /\ UNCHANGED blockVars
Over == /\ thread = "done" \/ (block = "dead" /\ Waiting = 0 /\ thread = "forecast")
        /\ sets = 0 /\ arrived = NumItems /\ UNCHANGED vars

Next == \/ Source \/ BlockWork \/ BlockEnds \/ BlockDone
        \/ SetDelay \/ DelayCalled \/ DelayEnds \/ Over

Spec == Init /\ [][Next]_vars

\* The threads run, and work() of the block returns items when it gets some.
Fairness == /\ WF_vars(Source) /\ WF_vars(BlockDone)
            /\ WF_vars(BlockWork /\ nread' # nread)
            /\ WF_vars(DelayCalled) /\ WF_vars(block = "done" /\ DelayEnds)
FairSpec == Spec /\ Fairness
-----------------------------------------------------------------------------
\* Inputs are consumed in step with the outputs: at a whole rate exactly, so that
\* every output is made of its input whatever the scheduler asked for in each
\* call; at another rate to half an input per call.  No input is consumed before
\* it is there.
InStep ==
    /\ nread <= arrived
    /\ (Up % Down = 0 \/ Down % Up = 0) =>
          /\ nread * Up = Len(out) * Down
          /\ \A j \in DOMAIN out : out[j] = 1 + ((j - 1) * Down) \div Up
    /\ 2 * (nread * Up - Len(out) * Down) \in -(calls * Up)..(calls * Up)

\* What comes out of the delay is its input in order, each item behind by the
\* delay that was set when it was copied; while the delay is not changed no item
\* is left out and no zero comes in between ("simple 1:1 ratio", delay.cc:55).
Shifted ==
    \A k \in DOMAIN delayed : delayed[k] # 0 =>
       /\ k - delayed[k] = under[k][1]
       /\ \A j \in 1..(k - 1) : delayed[j] # 0 =>
             /\ delayed[j] < delayed[k]
             /\ under[j][2] = under[k][2] => \A i \in j..k : delayed[i] # 0

\* After the last set_delay the delay gets in step with its input as soon as that
\* has what must be dropped, or one item when zeros must be inserted.  An input
\* that ends ends the chain, after all of it has passed.  Of a block
\* in front that dies by an exception all that it has made passes as well.  (A
\* basic_block never ends by itself: see forecast.)
GetsThere ==
    /\ (sets = 0 /\ Waiting > 0 /\ Waiting >= -delta) ~> (delta = 0)
    /\ (kind # "basic" \/ block # "runs") ~>
          (Waiting = 0 /\ (thread = "done" \/ block = "dead"))
=============================================================================
