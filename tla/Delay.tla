------------------------------- MODULE Delay -------------------------------
(***************************************************************************)
(* delay (lib/delay.cc): a block that shifts its input by a number of      *)
(* items, which the user's thread may change while the stream runs.  The   *)
(* mutex makes set_delay and work() one step each; the scheduler calls     *)
(* forecast some time before work().                                       *)
(*                                                                         *)
(* An item is known by its place in the input of the delay; 0 is a zero.   *)
(***************************************************************************)
EXTENDS Integers, Sequences

CONSTANTS
    Delays,     \* the numbers of items that set_delay is called with
    MaxSet,     \* bound: calls of set_delay
    MaxOut      \* bound: items that the output has space for in one call

ASSUME DelayAssumption == Delays \subseteq Int /\ MaxSet \in Nat /\ MaxOut \in Nat \ {0}

VARIABLES
    delay_items,   \* _delay_items: the number of items, negated
    thread,        \* "forecast", "work", or "done"
    offer,         \* what work() is called with: <<inputs, outputs>>
    nread_,        \* nitems_read(0)
    delayed,       \* the items written
    under,         \* for each of them the delay, and sets, when it was written (history)
    sets           \* calls of set_delay that are left

delayVars == <<delay_items, thread, offer, nread_, delayed, under, sets>>

DelayInit == /\ delay_items = 0 /\ thread = "forecast" /\ offer = <<0, 0>>
             /\ nread_ = 0 /\ delayed = <<>> /\ under = <<>> /\ sets = MaxSet

Lesser(m, n) == IF m < n THEN m ELSE n

set_delay(nitems) ==
    /\ sets > 0 /\ sets' = sets - 1
    /\ delay_items' = -nitems
    /\ UNCHANGED <<thread, offer, nread_, delayed, under>>

\* forecast: as many inputs as outputs.  Automatic consume is off, so that work()
\* sees all the inputs there are.
DelayForecast(available, noutput_items) ==
    /\ thread = "forecast" /\ noutput_items <= available
    /\ thread' = "work" /\ offer' = <<available, noutput_items>>
    /\ UNCHANGED <<delay_items, nread_, delayed, under, sets>>

delta == nread_ - Len(delayed) - delay_items

\* Items are written, and some of the input is consumed.
Write(items, consumed) ==
    /\ delayed' = delayed \o items
    /\ under' = under \o [k \in 1..Len(items) |-> <<-delay_items, sets>>]
    /\ nread_' = nread_ + consumed
    /\ thread' = "forecast" /\ offer' = <<0, 0>>
    /\ UNCHANGED <<delay_items, sets>>

\* Mutant: nothing is consumed.
DelayDrop_Nothing == thread = "work" /\ delta < 0 /\ Write(<<>>, 0)

\* work() consumes and does not produce,
DelayDrop == /\ thread = "work" /\ delta < 0
             /\ Write(<<>>, Lesser(offer[1], -delta))
\* or produces zeros and does not consume,
DelayInsert == /\ thread = "work" /\ delta > 0
               /\ Write([k \in 1..Lesser(offer[2], delta) |-> 0], 0)

\* Mutant: all the input is consumed.
DelayCopy_All ==
    /\ thread = "work" /\ delta = 0
    /\ LET n == Lesser(offer[1], offer[2])
       IN Write([k \in 1..n |-> nread_ + k], offer[1])

\* or copies.
DelayCopy ==
    /\ thread = "work" /\ delta = 0
    /\ LET n == Lesser(offer[1], offer[2])
       IN Write([k \in 1..n |-> nread_ + k], n)

DelayWork == DelayDrop \/ DelayInsert \/ DelayCopy

\* The input has ended, and nothing of it is left.
DelayDone == /\ thread = "forecast" /\ thread' = "done"
             /\ UNCHANGED <<delay_items, offer, nread_, delayed, under, sets>>

=============================================================================
