# Verification of grextras

GR Extras is a set of GNU Radio blocks and, below them, a base class
`gnuradio::block` that adds message passing to GNU Radio's stream scheduler.
The scheduler runs every block in a thread of its own. Above it are Python
blocks (a gateway, remote calls over messages), and beside it the programs that
turn the XML of doxygen into docstrings. This directory models the parts where
threads meet, the arithmetic of streams, the remote calls, and the documentation
programs; checks them with TLC; and proves the central results with TLAPS.

## 1. Inventory

| Component | State | Operations | Interacts with | Hard behaviour | Correct when |
|---|---|---|---|---|---|
| Message passing (`lib/block.cc`) | `_msg_queue`, `_done` of each `msg_sourcer`; `_tags`, `index` of each `msg_sinker`; one `MyQueue` per block | `post_msg`, `check_msg_queue`, `pop_msg_queue`, the three `general_work`, `start`, `stop` | user's `work()`, scheduler's buffers and tags | three kinds of threads, two condition variables, notify after unlock, stop against start and wait, last message posted in `stop()` | each message arrives once and in order at every connected input; no lost wakeup; threads end |
| Stream side of `gnuradio::block` | relative rate, history, `_automatic` | `forecast`, fixed-rate conversions, automatic `consume` | scheduler | rounding | consumption agrees with forecast |
| Managed PMTs (`pmt_ext_mgr.cc`) | set of managed PMTs; the reference counts | `set`, `reset`, `acquire` | every producer of blobs | a count read without a lock decides who may write; spin when the pool is empty | nobody writes what somebody reads; the pool refills |
| Blobs (`pmt_ext_blob.cc`) | a byte vector | make, resize, raw access | producers, consumers | a resize that grows writes zeros | contents are what was written |
| Blob producers (`stream_to_blob.cc`, `socket_to_blob.cc`, `filedes_to_blob.cc`) | pool, socket or descriptor | `work`, `stop` | pool, `post_msg` | reuse of blobs of other lengths, end of the source | each read becomes one intact blob |
| Blob consumers (`blob_to_stream.cc`, `blob_to_filedes.cc`, `blob_to_socket.cc`) | `_msg`, `_offset` | `work` | `pop_msg_queue` | blob kept between calls, partial copies and writes, empty blob ends the work | bytes come out once, in order |
| `stream_selector` | per output: `_mem`, `_len`, `_has_data`; per input: `_output`, `_block` | `post_output`, `work`, `start`, `set_output`, `set_paths` | scheduler, user's thread | three mutexes, two condition variables, pointer into another thread's buffer, switchover while posts are under way | items copied once, paths never mix, nobody waits for ever |
| `delay` | `_delay_items` | `set_delay`, `forecast`, `work` | user's thread | delay changed while items are in flight | output is the input, shifted |
| `msg_many_to_one` | queue | two `work` | scheduler | wait without a way to stop | merge of the inputs |
| `socket_msg` | shared pointer to the client's socket, twice | `serve`, two `work` | server thread | change of clients against receive and send errors | next client is served |
| RPC (`pmt_rpc.py`, `pmt_to_python.py`) | the request under way | `work`, `handle_request`, `_exec_arg`, conversions in both directions | message passing, the object served | errors at every stage of a request, caught at some stages only; values that change in a conversion | each request gets one reply, that says what was asked and what came of it |
| `packet_framer.py` | bits received so far | `work` | message passing, `packet_utils` | packets across calls of `work` | what was framed is found |
| block gateway (`block_gateway.py`) | pointers to handlers, rates | dispatch, `forecast`, `work` | C++ base class | exceptions across languages, kinds of blocks with other rates | each call reaches its method, consumption follows the rate |
| doxyxml (`docs/doxygen/doxyxml`) | per object: parsed and error flags, members, data, lists by category, dictionaries by name; the cache of references | `_parse` of each class, `members`, `in_category`, `get_member`, `has_member`, `name`, `data` | generated classes, files | a file is read at the first access, and that can fail in the middle; caches | an object shows what its file says, whatever was read or refused before |
| generated classes (`compoundsuper.py`, `indexsuper.py`, `compound.py`, `index.py`, `text.py`) | the fields of an element | `build`, `export`, `description` | DOM | mixed content in two orders, texts that must not be there | an exported element reads back as the same |
| `swig_doc.py` | blocks, make functions, output | three loops over what doxyxml finds | doxyxml | an exception in one entry must not cost the others; some abort all | the file is written when the documentation allows it, with an entry for everything |
| tuntap, `uhd_amsg_source` | handles | `make`, `work` | system, UHD | I/O | out of scope |
| arithmetic blocks, signal and noise sources | a constant or a table | `work`, setters | user's thread | setter against `work` | arithmetic |
| Python package, SWIG, GRC, build | none | - | - | - | out of scope |

`PROJECT.json` lists the hazards of this code, each at its line, with the
properties that cover it.

## 2. Plan

Done:

1. `MsgPassing`, `MsgBus`, `MsgPassingBus` with `MsgPassing_proofs` - the base of
   everything else, and the most concurrent part.
2. `BlobPath` with `BlobPath_proofs` - the pool and the copies, on top of the bus.
3. `StreamSelector` with `StreamSelector_proofs` - the second piece of lock-level
   concurrency.
4. `StreamBlock`, `Delay`, `StreamChain` with `StreamChain_proofs` - forecast and
   consume at every rate, in front of a delay that is changed while items are in
   flight.
5. `PmtPython`, `PmtRpc`, `RpcHandler`, `Merge`, `ManyToOne`, `RpcBus`, `RpcValues`
   with `RpcBus_proofs` - clients that call an object over messages that are merged
   on their way.
6. `DoxygenSchema`, `DoxygenText`, `DoxygenTree`, `DoxyXml`, `SwigDoc` with
   `SwigDoc_proofs`, `DoxygenCopy` - the documentation programs.

`Ascending`, with `Ascending_proofs`, is the vocabulary that 1, 5 and 6 share: what is
in a sequence at the numbers of a set, in their order. `Iterate`, with
`Iterate_proofs`, is a loop over a sequence, for 6.

Next, in this order:

7. `SocketMsg` - server thread, change of clients, stale socket resets.
8. The setters of the sources against `work()`.

Proofs left: what the script writes and when it gives up (`OutputComplete` and
`AbortsExactly`), for every documentation; section 5 says what they need.

## 3. Modules

### MsgPassing

One module for the three kinds of threads of `lib/block.cc`; they share
condition variables and cannot be understood apart. `Blocks`, `NumIn`,
`NumOut` and `Wire` describe any network.

| Model | Code |
|---|---|
| `master[b]` | the thread of the `master_block`: "work" is the user's `work()` between two calls it makes, and the scheduler between two calls of `work()` |
| `queue[b]` | `MyQueue`; an entry has the index of the input in `offset`, as the code has it |
| `source[o]`, `done[o]`, `msg_queue[o]` | the thread, `_done` and `_msg_queue` of a `msg_sourcer` |
| `written[o]`, `tags[o]` | stream and tags of the sourcer (scheduler) |
| `sink[i]`, `nread[i]`, `pending[i]` | thread, read position and `_tags` of a `msg_sinker` |
| `Post`, `PostNotify` | `post_msg`: up to the unlock, and the notify after it |
| `CheckQueue`, `Pop`, `PopWait` | `check_msg_queue`, `pop_msg_queue` |
| `Finish`, `StopSet`, `StopNotify` | `work()` returned -1; the loop over `msg_sourcer::stop()`, whose two statements are two steps, as they run without the mutex |
| `Source...`, `Sink...` | `start` and `general_work` of the sourcer, `general_work` of the sinker |
| `Exhaust`, `...Interrupted`, `Fits`, `SinkEnd`, `TagsInRange` | the scheduler, modelled from how the code uses it |

A critical section of a mutex is one step where no other thread could see its
middle; `general_work` of the sourcer is more than one, since `stop()` changes
`_done` without the mutex. Wait and notify are explicit, spurious wakeups are
included. `posted`, `pushed` and `got` are history. The definitions
`..._Something` next to an action are the same action with a plausible bug; each
property is known to fail when one of them takes its place.

`MsgBus` is the promise in `block.h`: a channel per message input, a post
reaches all channels of the output at once. `MsgPassingBus` shows that
`MsgPassing` implements it: the channel is the block's queue, the sinker's
collected tags, the unread tags of the stream and the sourcer's queue, one
after the other. `Enumerated`, of `Ascending`, puts tags in the order of their
offsets and entries of the queue in that of their places; it is defined by how many
smaller numbers the set has, which the provers can count with.

### BlobPath

One producer, its pool, and any number of consumers; the way of a message is
the channel of `MsgBus`. The variable `kind` says which producer it is: `FilledByStream`,
`FilledBySocket` and `FilledByFiledes` are the three orders in which the code
resizes and fills a blob (the receive loop of `socket_msg` is that of
`socket_to_blob`). `Streams` are `blob_to_stream` blocks, which keep `_msg`
while they wait; `Writers` are `blob_to_filedes` and `blob_to_socket`, which do
not. `count_` counts the references, and `Acquire` takes a blob whose count is
1. A tag keeps a reference until the scheduler drops it; the model lets it keep
that of the newest tag for ever. Bytes are numbered, so that any loss,
repetition, overwriting or zero is visible in `out`. A `write()` that fails is a
`WriteOut` of no bytes, as the code only prints it; a `send()` that throws, which
ends the thread of its writer, is not modelled. The threads are not
interrupted here: `MsgPassing` covers that.

### StreamSelector

Inputs, outputs and the thread that calls `set_paths`, at the level of
`_mutex`, `_caller_mutex`, `_cond` and `_blocker`. Each turn of the two loops
of `set_paths` is two steps (`SetOutput`, `SetOutputNotify`), because the
notify comes after the unlock. `_has_data` has any value at first: the
constructor does not set it. The graph may be interrupted and started again;
paths and `_has_data` survive that. `set_paths` may be called at any time, also
before the outputs have run `start()`, which then clears `_has_data` under a
post: `wiped` remembers the inputs this has happened to. `ConsumedOnceCopied`
and `SetPathsReturns` hold for all others, and `RouteWorks` shows what happens
to those.

### StreamBlock, Delay, StreamChain

`StreamBlock` is the stream side of `gnuradio::block` with one input and one
output: what `forecast` asks for (`fixed_rate_noutput_to_ninput`, with
`mylround`), what the scheduler may then ask of `work()` (`Asked`), the length
of the input that `work()` sees, and what `general_work` consumes for the items
that it returns. `kind` is a kind of block of `block_gateway.py` (sync, decim,
interp, basic) or one with a rate that is no whole number; a `basic` block has
manual consume and the default `forecast` of the gateway, which assigns its
answer to a local variable and so requires no input. An exception in `work()`
ends the thread. Rates are fractions and not doubles: at the lengths of a buffer
the doubles round alike.

`Delay` is `delay.cc`; an item is its place in the input. `set_delay` comes
between any two calls of `forecast` and `work`. `StreamChain` puts a block in
front of a delay, so that the delay sees its input arrive in the pieces that the
other block makes.

### PmtPython, PmtRpc, RpcHandler, Merge, ManyToOne, RpcBus, RpcValues

`PmtPython` has the two conversions row by row of `THE_TABLE`: the first row
that fits counts, and what is in no row passes unchanged or, in a container,
raises. `PmtRpc` is what `work()` of `pmt_rpc` makes of a request: `Answer`, with
each exception at its place. `RpcHandler` is the thread around it, for any table
`Answers` from requests to answers; an exception that `work()` does not
catch, `NoAnswer`, ends the thread. Two remarks on the code. The reply is the tuple
(request, result, error), which the test unpacks (`qa_pmt_rpc.py:55`) and
`RepliesMatch` describes; the docstring speaks of (args, kwargs, result, error) with
the args and kwargs passed before (`pmt_rpc.py:40-45`), which is `ReplyAsDocumented`,
violated in the run `rpc_reply`. A request whose arguments are no list, or whose
keywords are no dictionary, ends the handler and with it all service.

`ManyToOne` is `msg_many_to_one.cc`, whose promise is `Merge`. In `RpcBus` any
number of clients send their requests through it to one handler; `OneReplyEach`
follows each request from the client to its reply, whatever the answers are.
`RpcValues` fills in `PmtRpc` for the answers. `Fatal`, `Sendable` and
`Same` tell from a request, without the conversions, what will become of it;
`RepliesMatch` compares, and with that says which requests end the handler.

### DoxygenSchema, DoxygenText, DoxygenTree, DoxyXml, Iterate, SwigDoc, DoxygenCopy

The generated classes are alike but for their attributes and children, so
`DoxygenSchema` has one row for each of them and `DoxygenTree` interprets the
rows: `Build` and `Export` stand for the `build` and `export` of every class,
`description` for `text.py`. `map` names the lines of each row's class.
`DoxygenText` has the few tokens of a text that all these modules know.

`DoxyXml` has the objects of `base.py` and `doxyindex.py` on a heap, and each
method as an operator from a heap to the heap it leaves, with its value or its
exception in `val` and `exc`. `Then` goes on when there was no exception. An
object is read where the code reads it: at the first access to its contents. What
the generated classes make of a file are parameters of `DoxyXml` (`Malformed`,
`CompounddefOf`, `CompoundsOf`, `Description`), which `MCDoxygen` gives the values
of `DoxygenTree`: so `DoxyXml` and `SwigDoc` reach no recursive operator. Each `for`
of the code is an instance of `Iterate`, whose `Step` is the body of the loop
(`add_member`, `next_compound`, `look_up`, `next_block`, ...). `SwigDoc` has
the script, one step per entry that it tries to make, and a program that calls
the library in any order and goes on after an exception (`LibraryCall`; nothing
in the repository is that program, but the module says it can be used so).
`DoxygenCopy` is `compoundsuper.py` run on its own: it parses a file and exports
what it understood; the model reads the copy again.

Remarks on the code. A class whose file is not XML is left out, a header whose
file is not XML ends the script without output (`doxyindex.py:163` uses the data
before it looks at the error). An object whose reading raised an exception
passes for read afterwards, with what there was at that moment; so does that of a
file without a `compounddef` (`parse_bare`: the texts are set, to nothing, before the
first access to the missing element fails). Copies that
`compoundsuper.py` writes replace the title of a compound by what Python prints
for the object, write "None" for a missing version, kind or refid (`Always`), and do
not quote reserved characters in mixed content.

Where documents and code disagree on something that no property asserts: a
dictionary by name is said to map a name that two objects have to None
(`base.py:124-126`); the code enters the class `Duplicate` (`base.py:135`), of which
`get_member` makes an exception. `CachesFresh` says only what both have: such a name
leads to none of the objects, and any other to its one object.

## 4. Runs

| Run | Question | Instance |
|---|---|---|
| `fork` | order, wakeups and orderly ends when two connections lead to one queue; refinement of `MsgBus`; the inductive invariant; sourcers end when stopped | one output with two readers, which are the two inputs of one block; two posts, a buffer of 2 items |
| `live` | arrival and interruption, under fairness; no lost wakeup | a pair of blocks, two posts and a last message posted in `stop()`, a buffer of 2 items, so that a sinker collects several tags at once and reads items without a tag |
| `blob` | intact bytes with lagging consumers; the pool refills, bytes and stop arrive | a stream or a socket source, 2 blobs, 6 bytes in reads of 0 to 2, one `blob_to_stream` and one writer |
| `selector` | what was consumed was copied; old and new paths do not mix | two inputs share or swap two outputs, one call throws, chunks of 2 |
| `selector_live` | answers and wakeups, under fairness; no stale pointer after a restart | inputs take turns on one output, two calls, one restart |
| `streams` | consumption in step with output at every rate; the delay drops, inserts and copies the right items, and gets there; the chain ends | five kinds of blocks with history 1 and 2, 4 items of input, a buffer of 3, two calls of `set_delay` to 2 and to -1 |
| `rpc` | one reply per request, and what it says; merge of the clients; answers and orderly ends under fairness | one request of each of some hundred shapes; or two clients with three requests of which the first is served, refused or fatal |
| `doxygen` | when the script gives up and what it writes otherwise; caches, shared objects and members against the files; nothing is read twice; copies of every element | all combinations of a class, a header and an index that are fine, corrupt, missing, without a compound or odd; two calls of the library; a sample of each class at three depths, with and without attributes and a reserved character |

Runs that show a disagreement of code and comments ("violation"):

| Run | Shows |
|---|---|
| `stop_lost` | `stop()` between the sourcer's test of `_done` and its wait: the notify is lost (`block.cc:103`) |
| `blob_filedes` | the resize after the read writes zeros over bytes just read (`filedes_to_blob.cc:98`) |
| `rpc_reply` | the reply of `pmt_rpc` is (request, result, error), with the programs among the keywords of the request replaced, and not (args, kwargs, result, error) with those passed before (`pmt_rpc.py:42`, `:129`) |
| `selector_start` | `start()` of an output wipes a post; both sides wait for ever (`stream_selector.cc:64`) |

The models also reach these, which no run of its own shows: `start()` of a
sourcer undoes a stop that came first (`block.cc:97`); a block that ends because
its stream inputs ended leaves its sourcers waiting (`block.cc:269`); with
`ItemSize` that does not divide the length of a blob, `blob_to_stream` reads no
message again, and a blob shorter than one item, which leaves `_offset` at 0, is
taken for copied and dropped (`blob_to_stream.cc:63`); with `ShortWrites` the rest of a partial
write is lost (`blob_to_filedes.cc:61`), and of a write that fails all is. Interrupting the flow graph still ends
the threads in all of them (`InterruptEndsAll`), which is why ordinary use does
not notice the first two.

**Bounds.** `MaxPosts`, `MaxBytes`, `MaxItems`, `MaxCalls` and `MaxRestarts`
bound how much enters the system. Two messages, each in flight on two
connections to one queue, are enough for every order of two messages and for each
queue, tag store and `_tags` to hold more than one; blocks that post a last message
in `stop()` are in `live`, where `DrainedWhenDone` would say nothing of them. The
proofs cover all larger networks and buffers, and queues with several producers. A pool of two blobs makes every blob come back with
another length and makes the producer wait; the code's 64 only make that rarer.
A chunk of two items lets a copy be shorter than the offer. With two calls of
`set_paths` the second meets the routes of the first.

The documentation of `doxygen` has one block with its header, one class, one
group and one file that is left out: each failure the code distinguishes is a
variant of one of them, and the group refers to a class before or after the
index does. The block is described by itself, by its make function alone, or by
nothing; the other class has a qualified friend `make`. Two calls are enough for one to leave what the next one finds. The
rates of `streams` are the whole ones, their inverses and one that is neither;
a buffer of 3 items makes calls end in the middle of what was asked for.

**Deadlock** is checked in all runs but `doxygen`, whose programs end. The stuttering steps `Terminated` and
`Idle` stand for a system that has rightly stopped: all threads are done, or no
message is on its way and the producer has ended, waits for its source, or
spins because consumers that left on an empty blob keep the pool's blobs in
their queues. In `MsgPassing` and `StreamSelector` a spurious wakeup is always
possible in a wait, so a lost wakeup shows as a violation of a liveness property
or of `PostWakesSourcer` and `PushWakesPop`, not as a deadlock.

**Fairness.** Weak fairness of each thread: an enabled thread of the operating
system runs at last. Not assumed: that `work()` posts, checks or returns, that
`set_paths` or `stop` is called, that a wait ends spuriously, that a stream
ends. `BlobPath` assumes that downstream of a `blob_to_stream` there is space
again and that a tag is dropped once a later one exists. `streams` and `rpc` have the same: each thread runs,
`work()` of the block in front of the delay returns items when it can, and an
interrupted thread ends where it waits; that the scheduler tells the delay of a block
in front that has ended is assumed, of one that has died by an exception it is not; clients need not ask and nobody need
stop the flow graph. `doxygen` has no liveness: a program that ends by itself
ends. No strong fairness is
assumed: streams are finite in the models, so no thread keeps another from a
mutex for ever.

## 5. Proofs

`MsgPassing_proofs` proves for every finite or infinite network that satisfies
the assumptions in `MsgPassing`, for all bounds and buffer sizes:
`TypeCorrect`, `InOrderOnceCorrect`, `PostWakesSourcerCorrect`,
`PushWakesPopCorrect`, `CheckThenPopCorrect`, `DrainedWhenDoneCorrect`, each
`Spec => []...`.

`InOrderOnce` says nothing of messages on their way and is not inductive.
`TransferInv` says where they are: `SourceInv` (the sourcer's queue holds the
last posts), `StreamInv` (one tag per sent message, at ascending offsets),
`SinkInv` (a sinker has pushed or still holds exactly the tags behind its read
position), `QueueInv` (for each input, the block's queue holds what was pushed
and not popped, in order) and `GotInv`. `WakeInv` adds to `PostWakesSourcer`
that a sourcer about to wait has an empty queue: the mutex it holds keeps posts
out. `EndInv` is the order in which threads end. Each is preserved by the steps
of each thread; the lemmas follow the threads (`PostTransfer`, `SendTransfer`,
`CollectTransfer`, `PushTransfer`, `PopTransfer`, and so on). `IInv`, their
conjunction, is checked by TLC in `fork` and proved as `IInvCorrect`.

It also proves `ImplementsBusCorrect`, that `MsgPassing` implements
`MsgBus`, in two halves. The first takes for the channel the messages posted and
not popped (`Backlog`): `InOrderOnce` makes each step a post, a take or a stutter
of it. The second (`ChannelsAreSame`) shows that the channel of `MsgPassingBus`,
which is put together from what the code's four places hold, is the same: by
`TransferInv` each place holds a run of consecutive messages, and the runs adjoin.
`OnePlaceCorrect` says the same of each message: it is at exactly one place.

`StreamSelector_proofs` proves, for any numbers of inputs and outputs, sets of paths
and bounds:

- `SwitchoverCorrect`. `PathsInv` says how far `set_paths()` has come: the inputs it
  has passed in its first loop are blocked and use no output, and remain so until
  the second loop reaches them.
- `PointerAliveCorrect`. `CallerInv`: `_caller_mutex` is held exactly by the input
  that waits in `post_output()`, and `_mem` is at its next item. `AliveInv`: while
  the graph runs, `_has_data` of an output that is past `start()` belongs to such an
  input.
- `OnceInOrderCorrect`. A stop in the middle of a post leaves data whose owner is
  gone, so `LiveInv` allows for them till the restart: they were not produced yet,
  and no other output has data of that input. `ReachedInv` bounds what was produced
  by what was consumed and the copy whose `post_output()` has not returned.
- `ConsumedOnceCopiedCorrect`. `CopiedInv`: what `post_output()` is about to return
  was produced.
- `SleepsRightlyCorrect`. No notify is lost: who sleeps has nothing to wake for, or
  is about to be notified, or waits for a post that `start()` has cleared. This is
  the safety half of the run `selector_live`.

`BlobPath_proofs` proves, for pools, consumers, sizes and sources of any kind,
`TypeCorrect` and `WrittenAloneCorrect`: the count of a blob is exactly the number
of those who refer to it, and `Acquire` takes it when nobody else does. Two more
hold under `NoLoss`, each part of which excludes a loss that the code has: a
producer that resizes after it read (run `blob_filedes`), writers that drop the rest
of a partial write, and reads shorter than one item.

- `IntactCorrect`. `SourceInv`: there is a sequence of places in the source at which
  the blobs on the way to a consumer start, each behind the last, from where its
  output and the rest of its present blob end to what was posted.
- `EndsCompleteCorrect`. Consumers of a `stream_to_blob` end only after it has
  stopped, and with all its bytes: its empty blob is the last on every channel.
  This is the safety half of `StopReachesAll`.

`StreamChain_proofs` proves `InStepCorrect` and `ShiftedCorrect` for every rate
that is a fraction, every history and delay, and streams and buffers of every
length; a `basic` block is assumed to have the rate of the constructor, 1.

- `InStep` is inductive with `BlockType` and `nread >= 0`. `ConsumedIsThere`:
  `forecast` asks for the rounded input of `n` outputs and the history apart
  (`LroundShift`), and rounding is monotone, so that fewer outputs never consume
  more than there is. `ConsumedExactly`: at a whole rate rounding loses nothing,
  because `work()` returns whole multiples. `MadeInStep`: then each output that
  a call adds is made of the input it corresponds to from the beginning of the
  stream. `ConsumedBounds`: at another rate a call adds at most half an input.
- `Shifted` says nothing of the delay that is set now. `ShiftInv` adds that no
  item is written before its input is read, that a call of `set_delay` is seen
  in every item behind it, and that after an item was copied under the present
  delay the delay is in step and nothing but copies follows. `DropShifts`,
  `InsertShifts`, `CopyShifts` and `SetShifts` are its steps.

`RpcBus_proofs` proves, for any clients, requests, answers and length of the
stream's chunks, two theorems of `msg_many_to_one` and the handler behind it.

- `ImplementsMergeCorrect`. What is pending at an input is what `work()` holds in its
  local `tags`, then what is in the stream; what is merged is what the output has
  written, then the queue. `M21Inv` adds that an input's loop ends with nothing
  left, which is what makes `InputWork` a stutter.
- `OneReplyEachCorrect`. `PostInv`: what a client has posted is what was merged of it,
  followed by what is pending. `HandledInv`: the handler has popped the messages up to its place
  in the stream. `ReplyInv`: each of them has its answer but the one in its call.

`SwigDoc_proofs` proves, for every documentation and every order of calls,
`SharedByRefidCorrect`, `MembersOfFileCorrect`, `CachesFreshCorrect` and
`ReadOnceCorrect`, of the script and of the other program. What the generated
classes make of a file is a parameter, so that the proofs hold for any XML that
satisfies `DocsAssumption`, which is what doxygen's schemas and its way of writing
say: children come in lists, a name has a part, members and compounds have
descriptions, which may be empty, and kinds of their own, members have no refid, an
entry of the index has one of its own, which is not the name of the index, and no
two classes have one name. (A file may be missing, corrupt, malformed or without a
compound, `Bare`.) The first is checked by the generated classes, which make
nothing else; without refids that differ, two objects could have one.
`NamesAssumption` says that a name that is asked for is split into its parts.

- None of the four is inductive: a call reads, caches and fails in the middle of
  other calls. `Good` says what holds of the heap between any two of them.
  `Referenced`: the cache of references and the objects agree in both directions,
  which is `SharedByRefid`. `MadeOf`: what an object was made of determines its
  class, and a refid its entry of the index. `Fresh`: an object that was not read has
  nothing, and has not failed. `Adopted` and `Childless`: members are objects or
  None, and only compounds have some. `FileRead` is `MembersOfFile`.
- `Caches` has `CachesFresh` with `Held`, which says what the dictionary has at a
  name that two objects share, and `Listed`: a dictionary is of a list that the object
  keeps, and every element of such a list has a name of its own; this is why the
  dictionary stays right when an object in it is read later.
- What a call does to the heap is `Leads`: the heap is good again, the objects there
  were remain what they were, and those that were read are untouched but for
  their caches (`Extends`), which is `ReadOnce`. Each method has a lemma that it
  leads from a good heap to another, also when it raises. The call that reads an
  object is the hard one: between the flag and the last member the heap is not good,
  and `Reading` and `Filling` say what it has so far.
- Loops are by `LoopKeeps` of `Iterate_proofs`: what the body keeps holds at the
  end. It needs that a function defined by recursion on the number of elements
  exists (`RunIs`), which is shown with the least counterexample.
- `SwigInv` adds the script: it starts each step without an exception that it has
  caught, and the objects that its loops have left are there and have the names that
  it asks them for. TLC finds it true in all states of the instance of `doxygen`.
- `BlocksFresh` is the longest: that the list of the blocks has the members whose
  file shows a friend `make` needs what `has_member` answers on an object that is
  read in the course of it (`FriendNames`, `BlockIs`). A class in a namespace has a
  qualified name, and `get_member` looks for its first part, the namespace, among
  the friends: such a class is no block (`Befriends`), which `BlockClasses` says.

`Ascending_proofs` has what all of them need of `Enumerated` and `Picked`: that a finite
set of numbers is listed in ascending order, and that picking from a concatenation
is picking from its parts. Such facts want induction, which the library offers only
with operators as parameters. Here it is a choice of the least counterexample
(`LeastMember`), and the place of an element is counted by cardinalities: this is
why these modules do not take the recursive `SelectSeq` or `SetToSortSeq`.

Only model-checked:

- everything that needs fairness, which TLAPS cannot do;
- `RepliesMatch`: the conversions of `PmtPython` are recursive over data;
- `CopySaysTheSame`: `Build` and `Export` of `DoxygenTree` are recursive over elements;
- `AbortsExactly` and `OutputComplete`: they relate the end of the script to all files
  at once, and need the exact result of each of its calls, where `SwigInv` says only
  what a call keeps. The half that concerns the heap is proved (no list that a
  loop goes through is stale), the output is not followed.

## 6. Not modelled

The stream scheduler is outside the repository and appears only as the steps
named above. The contents of messages, tag keys and source identifiers play no
role in message passing. Real descriptors, sockets and devices are reduced to
how many bytes a call takes or gives. Of the documentation
programs `exportLiteral` (a dump that nothing calls), CDATA sections, the `find`
methods, encodings and qualified names are left out; of the gateway the
signatures and the wrapping of memory as arrays; of `pmt_rpc` the variant
without result messages, and tuples of more than ten elements, which PMT does
not have. `packet_framer` cuts and searches bits with `packet_utils` and blocks
of gr-digital, which are not in this repository; what remains of it is the loop
of a blob consumer. The server thread of `socket_msg` assigns shared pointers
that two other threads read, without a lock: any outcome is possible, so that no
property of it could hold. Components without a module are listed
with their reason in `PROJECT.json`.
