---------------------------- MODULE StreamBlock ----------------------------
(***************************************************************************)
(* The stream side of gnuradio::block (lib/block.cc) and the Python blocks *)
(* above it (python/block_gateway.py): what is required of the input for a *)
(* number of outputs, what work() sees, and what is consumed for it.       *)
(*                                                                         *)
(* An item of the input is its number, 0 an item of the history before it. *)
(* The relative rate is the fraction Rate[kind][1] / Rate[kind][2]: doubles *)
(* are exact enough for it at the lengths of a buffer.                     *)
(***************************************************************************)
EXTENDS Integers, Sequences

CONSTANTS
    Kinds,      \* the blocks: "sync", "decim", "interp", "basic" or another
    Rate,       \* kind -> the relative rate set in its constructor
    Histories,  \* the values of history()
    NumItems,   \* bound: items of the input
    BufSize     \* items that fit into the output buffer

\* A basic_block sets no rate: it keeps that of the constructor.
ASSUME StreamBlockAssumption ==
    /\ \A k \in Kinds : Rate[k][1] \in Nat \ {0} /\ Rate[k][2] \in Nat \ {0}
    /\ "basic" \in Kinds => Rate["basic"] = <<1, 1>>
    /\ Histories \subseteq Nat \ {0}
    /\ NumItems \in Nat /\ BufSize \in Nat

VARIABLES
    kind,       \* which block it is
    history,    \* history()
    arrived,    \* items that its input buffer has been given
    block,      \* its thread: "runs", "done", or "dead" by an exception
    nread,      \* nitems_read(0)
    out,        \* the items written, each the number of the input it is made of
    calls       \* calls of work() that returned items (history)

blockVars == <<kind, history, arrived, block, nread, out, calls>>

\* set_auto_consume: basic_block turns it off.
Automatic == kind # "basic"
Up   == Rate[kind][1]
Down == Rate[kind][2]

StreamBlockInit ==
    /\ kind \in Kinds /\ history \in Histories
    /\ arrived = 0 /\ block = "runs" /\ nread = 0 /\ out = <<>> /\ calls = 0

\* Mutant: int() without the half.
mylround_Down(a, b) == a \div b

\* mylround(a / b)
mylround(a, b) == (2 * a + b) \div (2 * b)

\* set_relative_rate: the outputs come in multiples of int(relative_rate).
OutputMultiple == IF Up \div Down > 1 THEN Up \div Down ELSE 1

fixed_rate_noutput_to_ninput(noutput_items) ==
    mylround(noutput_items * Down + (history - 1) * Up, Up)
fixed_rate_ninput_to_noutput(ninput_items) ==
    mylround((IF ninput_items < history THEN 0 ELSE ninput_items - history + 1) * Up, Down)

\* forecast: the default of block_gateway.py assigns to a local variable, so a
\* basic_block that does not define its own requires no input.
forecast(noutput_items) ==
    IF Automatic THEN fixed_rate_noutput_to_ninput(noutput_items) ELSE 0

\* The items in the input buffer, behind history() - 1 items that were there at
\* the beginning.
Available == arrived + history - 1 - nread

\* What the scheduler may ask of the block: outputs that have space, no more than
\* the input is good for, as a multiple, and with the inputs that forecast wants.
Asked(space) ==
    LET wanted == fixed_rate_ninput_to_noutput(Available)
        most == IF Automatic /\ wanted \in 1..space THEN wanted + OutputMultiple - 1 ELSE space
    IN {n \in 1..space : /\ n <= most /\ n % OutputMultiple = 0
                         /\ forecast(n) <= Available}

\* The lengths of the input that work() sees, and the items in it.
InputLength(noutput_items) ==
    IF Automatic THEN fixed_rate_noutput_to_ninput(noutput_items) ELSE Available
InputItem(k) == LET i == nread + k - (history - 1) IN IF i < 1 THEN 0 ELSE i

\* work() as the wrappers of the repository have it: output j is made of the
\* input that it corresponds to, behind the history; r outputs are returned.
Made(r) == [j \in 1..r |-> InputItem(history + ((j - 1) * Down) \div Up)]

\* What general_work consumes for r outputs; a basic_block does it in its work().
Consumed(r) == IF Automatic THEN mylround(r * Down, Up) ELSE r

\* general_work.  A work() returns whole multiples.
GeneralWork(noutput_items, r) ==
    /\ block = "runs"
    /\ r <= noutput_items /\ r % OutputMultiple = 0
    /\ ~Automatic => history - 1 + r <= InputLength(noutput_items)
    /\ out' = out \o Made(r)
    /\ nread' = nread + Consumed(r)
    /\ calls' = calls + (IF r > 0 THEN 1 ELSE 0)
    /\ UNCHANGED <<kind, history, arrived, block>>

\* work() returns -1, or raises an exception, which gateway_handler.eval raises
\* again: nothing is consumed or produced.
WorkEnds ==
    /\ block = "runs" /\ block' \in {"done", "dead"}
    /\ UNCHANGED <<kind, history, arrived, nread, out, calls>>

Arrive ==
    /\ arrived < NumItems /\ arrived' = arrived + 1
    /\ UNCHANGED <<kind, history, block, nread, out, calls>>

\* The input has ended, and what is left of it is not enough for any output.
InputDone ==
    /\ block = "runs" /\ arrived = NumItems
    /\ block' = "done"
    /\ UNCHANGED <<kind, history, arrived, nread, out, calls>>

=============================================================================
