------------------------------ MODULE BlobPath ------------------------------
(***************************************************************************)
(* Blobs of a pool on their way from one producer to its consumers.        *)
(*                                                                         *)
(* A producer (stream_to_blob, socket_to_blob, filedes_to_blob, the        *)
(* receiving half of socket_msg) has POOL_SIZE blobs managed by a pmt_mgr. *)
(* For each piece of data it acquires one that nobody else refers to,      *)
(* writes the data into it, and posts it.  A consumer (blob_to_stream,     *)
(* blob_to_filedes, blob_to_socket) pops blobs and copies them out.        *)
(* A blob returns to the pool by itself, when the last reference is gone:  *)
(* no lock protects the memory, only the count of the references does.     *)
(*                                                                         *)
(* A message travels from post_msg to pop_msg_queue as MsgBus says, which  *)
(* MsgPassing implements.  The tag that carries it is dropped by the       *)
(* scheduler, which the source does not contain: here the oldest tag may   *)
(* be dropped at any time, and must be only when a later one exists.       *)
(* Bytes are known by their turn in the source; 0 is a zero byte.          *)
(***************************************************************************)
EXTENDS Integers, Sequences, FiniteSets

CONSTANTS
    Blobs,       \* the pool
    StopBlob,    \* the blob that stream_to_blob::stop() makes, length 0
    NoBlob,      \* no reference
    Streams,     \* the consumers that are blob_to_stream blocks
    Writers,     \* the consumers that write to a descriptor or a socket
    Kinds,       \* the kinds of producer to choose from
    Mtu,         \* _mtu
    ReadSizes,   \* how many bytes one read of the source can give
    ItemSize,    \* _item_size of the blob_to_stream blocks
    ShortWrites, \* whether write() and send() may take a part only, or fail
    MaxBytes     \* bound: bytes in the source

Consumers == Streams \cup Writers

ASSUME BlobsAssumption ==
    /\ IsFiniteSet(Blobs)
    /\ StopBlob \notin Blobs
    /\ NoBlob \notin Blobs \cup {StopBlob}
ASSUME ConsumersAssumption ==
    /\ IsFiniteSet(Streams) /\ IsFiniteSet(Writers)
    /\ Streams \cap Writers = {}
ASSUME KindsAssumption == Kinds \subseteq {"stream", "socket", "filedes"}
ASSUME MtuAssumption == Mtu \in Nat \ {0}
ASSUME ReadSizesAssumption == ReadSizes \subseteq 0..Mtu
ASSUME ItemSizeAssumption == ItemSize \in Nat \ {0}
ASSUME ShortWritesAssumption == ShortWrites \in BOOLEAN
ASSUME MaxBytesAssumption == MaxBytes \in Nat

VARIABLES
    \* the producer
    kind,      \* which block it is
    producer,  \* where its work() is
    blob,      \* its local variable
    sent,      \* bytes taken from the source so far
    \* the memory of the blobs; the length of a blob is that of the sequence
    mem,
    \* messages on their way
    store,     \* blobs that tags refer to, in the order of the posts
    chan,      \* blobs not yet popped, for each consumer
    \* the consumers
    consumer,  \* where its work() is
    msg,       \* _msg, or the local msg
    offset,    \* _offset
    out        \* bytes copied out so far

producerVars == <<kind, producer, blob, sent>>
consumerVars == <<consumer, msg, offset, out>>
vars == <<kind, producer, blob, sent, mem, store, chan, consumer, msg, offset, out>>

Init ==
    /\ kind \in Kinds
    /\ producer = "acquire"
    /\ blob = NoBlob
    /\ sent = 0
    /\ mem = [b \in Blobs |-> [k \in 1..Mtu |-> 0]]
    /\ store = <<>>
    /\ chan = [c \in Consumers |-> <<>>]
    /\ consumer = [c \in Consumers |-> "pop"]
    /\ msg = [c \in Consumers |-> NoBlob]
    /\ offset = [c \in Consumers |-> 0]
    /\ out = [c \in Consumers |-> <<>>]

-----------------------------------------------------------------------------
(* The memory of a blob *)

Least(m, n) == IF m < n THEN m ELSE n

\* pmt_blob_resize: a vector that grows is filled with zeros.
Resized(v, n) == [k \in 1..n |-> IF k <= Len(v) THEN v[k] ELSE 0]

\* Bytes written to the memory of a vector: behind its end they are not in it.
Overwritten(v, bytes) == [k \in 1..Len(v) |-> IF k <= Len(bytes) THEN bytes[k] ELSE v[k]]

\* The next n bytes of the source.
SourceBytes(n) == [k \in 1..n |-> sent + k]

\* stream_to_blob: resize, then memcpy.
FilledByStream(v, n) == Overwritten(Resized(v, n), SourceBytes(n))

\* Mutant: the blob is not made as long as the receive may need.
FilledBySocket_NotEnlarged(v, n) == Resized(Overwritten(v, SourceBytes(n)), n)

\* socket_to_blob and socket_msg: resize to _mtu, receive, resize.
FilledBySocket(v, n) == Resized(Overwritten(Resized(v, Mtu), SourceBytes(n)), n)

\* filedes_to_blob: read, then resize.
FilledByFiledes(v, n) == Resized(Overwritten(v, SourceBytes(n)), n)

\* A blob after n bytes have been read into it.
Filled(v, n) ==
    CASE kind = "stream"  -> FilledByStream(v, n)
      [] kind = "socket"  -> FilledBySocket(v, n)
      [] kind = "filedes" -> FilledByFiledes(v, n)

\* The contents of what a consumer has popped.
Contents(b) == IF b = StopBlob THEN <<>> ELSE mem[b]

-----------------------------------------------------------------------------
(* The pool *)

\* Mutants: the messages on their way are not counted; the reference of the
\* pool is counted twice.
count__InFlightUncounted(b) ==
    1 + Cardinality({x \in {blob} : x = b}) + Cardinality({c \in Consumers : msg[c] = b})
count__PoolTwice(b) ==
    2 + Cardinality({x \in {blob} : x = b}) + Cardinality({c \in Consumers : msg[c] = b})

\* count_ of a managed blob: the reference of the pool, the producer's, those
\* of the tags, of the queued messages and of the consumers.
count_(b) ==
    1 + Cardinality({x \in {blob} : x = b})
      + Cardinality({k \in DOMAIN store : store[k] = b})
      + Cardinality(UNION {{<<c, k>> : k \in {j \in DOMAIN chan[c] : chan[c][j] = b}} : c \in Consumers})
      + Cardinality({c \in Consumers : msg[c] = b})

\* acquire(true) finds b.  The scan meets the blobs in some order while other
\* threads let go of theirs, so any free one may be the first it finds; while
\* there is none it spins.
Acquire(b) ==
    /\ producer = "acquire"
    /\ sent < MaxBytes
    /\ count_(b) = 1
    /\ blob' = b
    /\ producer' = "write"
    /\ UNCHANGED <<kind, sent, mem, store, chan, consumerVars>>

-----------------------------------------------------------------------------
(* The producer *)

\* The memory is resized and filled as the kind of the producer does it; only
\* a read of a descriptor or a socket may give nothing.
Write(n) ==
    /\ producer = "write"
    /\ kind = "stream" => n > 0
    /\ sent + n <= MaxBytes
    /\ mem' = [mem EXCEPT ![blob] = Filled(@, n)]
    /\ sent' = sent + n
    /\ producer' = "post"
    /\ UNCHANGED <<kind, blob, store, chan, consumerVars>>

\* post_msg(0, BLOB_KEY, blob, _id); then the local variable goes.
Post ==
    /\ producer = "post"
    /\ store' = Append(store, blob)
    /\ chan' = [c \in Consumers |-> Append(chan[c], blob)]
    /\ blob' = NoBlob
    /\ producer' = "acquire"
    /\ UNCHANGED <<kind, sent, mem, consumerVars>>

\* Mutant: stop() posts nothing.
PostStop_Silent ==
    /\ kind = "stream"
    /\ producer = "acquire"
    /\ producer' = "done"
    /\ UNCHANGED <<kind, blob, sent, mem, store, chan, consumerVars>>

\* The stream has ended: stream_to_blob::stop() posts an empty blob.
PostStop ==
    /\ kind = "stream"
    /\ producer = "acquire"
    /\ chan' = [c \in Consumers |-> Append(chan[c], StopBlob)]
    /\ producer' = "done"
    /\ UNCHANGED <<kind, blob, sent, mem, store, consumerVars>>

\* The scheduler drops the oldest tag.
DropTag ==
    /\ store # <<>>
    /\ store' = Tail(store)
    /\ UNCHANGED <<producerVars, mem, chan, consumerVars>>

-----------------------------------------------------------------------------
(* The consumers *)

\* pop_msg_queue(); while it blocks, a blob_to_stream still has its last _msg.
PopMsg(c) ==
    /\ consumer[c] = "pop"
    /\ chan[c] # <<>>
    /\ msg' = [msg EXCEPT ![c] = Head(chan[c])]
    /\ chan' = [chan EXCEPT ![c] = Tail(@)]
    /\ consumer' = [consumer EXCEPT ![c] = "copy"]
    /\ UNCHANGED <<producerVars, mem, store, offset, out>>

\* An empty blob: work() returns -1 and is not called again.
LeaveOnEmpty(c) ==
    /\ consumer[c] = "copy"
    /\ Contents(msg[c]) = <<>>
    /\ consumer' = [consumer EXCEPT ![c] = "done"]
    /\ msg' = [msg EXCEPT ![c] = IF c \in Streams THEN @ ELSE NoBlob]
    /\ UNCHANGED <<producerVars, mem, store, chan, offset, out>>

\* Mutants: the offset stays when the blob ends; the rest of a blob for which
\* the output has no space is dropped.
NextOffset_Kept(c, m) == offset[c] + m
NextOffset_RestDropped(c, m) == 0

\* Where the offset goes when m bytes were copied: back to 0 at the end.
NextOffset(c, m) ==
    IF offset[c] + m = Len(Contents(msg[c])) THEN 0 ELSE offset[c] + m

\* blob_to_stream's work() with space for n items: whole items are copied, and
\* the next call pops the next message when _offset is 0.
CopyToStream(c, n) ==
    /\ c \in Streams
    /\ consumer[c] = "copy"
    /\ Contents(msg[c]) # <<>>
    /\ LET data == Contents(msg[c])
           m == ItemSize * Least(n, (Len(data) - offset[c]) \div ItemSize)
       IN  /\ out' = [out EXCEPT ![c] = @ \o SubSeq(data, offset[c] + 1, offset[c] + m)]
           /\ offset' = [offset EXCEPT ![c] = NextOffset(c, m)]
           /\ consumer' = [consumer EXCEPT ![c] = IF offset'[c] = 0 THEN "pop" ELSE "copy"]
    /\ UNCHANGED <<producerVars, mem, store, chan, msg>>

\* write() or send() of the whole blob takes m bytes, none when a write() fails,
\* which is only printed; the rest is not retried.
WriteOut(c, m) ==
    /\ c \in Writers
    /\ consumer[c] = "copy"
    /\ Contents(msg[c]) # <<>>
    /\ m \in 0..Len(Contents(msg[c]))
    /\ ShortWrites \/ m = Len(Contents(msg[c]))
    /\ out' = [out EXCEPT ![c] = @ \o SubSeq(Contents(msg[c]), 1, m)]
    /\ msg' = [msg EXCEPT ![c] = NoBlob]
    /\ consumer' = [consumer EXCEPT ![c] = "pop"]
    /\ UNCHANGED <<producerVars, mem, store, chan, offset>>

-----------------------------------------------------------------------------
\* Nothing is on its way to a consumer that still works, and the producer has
\* ended, or its source is silent, or blobs are stuck with those that left.
Quiet ==
    /\ \A c \in Consumers : consumer[c] = "done" \/ chan[c] = <<>>
    /\ \/ producer = "done"
       \/ producer = "acquire" /\ sent = MaxBytes
       \/ producer = "acquire" /\ \E c \in Consumers : consumer[c] = "done"

Idle == Quiet /\ UNCHANGED vars

ProducerStep ==
    \/ \E b \in Blobs : Acquire(b)
    \/ \E n \in ReadSizes : Write(n)
    \/ Post
ConsumerStep(c) ==
    \/ PopMsg(c) \/ LeaveOnEmpty(c)
    \/ \E n \in 1..Mtu : CopyToStream(c, n)
    \/ \E m \in 0..Mtu : WriteOut(c, m)

Next ==
    \/ ProducerStep \/ PostStop
    \/ DropTag
    \/ \E c \in Consumers : ConsumerStep(c)
    \/ Idle

Spec == Init /\ [][Next]_vars

\* Producer and consumers run when they can; a tag is dropped when another one
\* came after it.  The input stream of stream_to_blob need not end.
Fairness ==
    /\ WF_vars(ProducerStep)
    /\ \A c \in Consumers : WF_vars(ConsumerStep(c))
    /\ WF_vars(Len(store) > 1 /\ DropTag)

FairSpec == Spec /\ Fairness

-----------------------------------------------------------------------------
(* Properties *)

SomeBlob == Blobs \cup {StopBlob}

\* Every variable has its type.
TypeOK ==
    /\ kind \in Kinds
    /\ producer \in {"acquire", "write", "post", "done"}
    /\ blob \in Blobs \cup {NoBlob}
    /\ producer \in {"write", "post"} <=> blob # NoBlob
    /\ sent \in 0..MaxBytes
    /\ mem \in [Blobs -> Seq(0..MaxBytes)]
    /\ store \in Seq(Blobs)
    /\ chan \in [Consumers -> Seq(SomeBlob)]
    /\ consumer \in [Consumers -> {"pop", "copy", "done"}]
    /\ msg \in [Consumers -> SomeBlob \cup {NoBlob}]
    /\ \A c \in Consumers : consumer[c] = "copy" => msg[c] # NoBlob
    /\ offset \in [Consumers -> 0..(Mtu - 1)]
    /\ out \in [Consumers -> Seq(0..MaxBytes)]

\* What a consumer has copied out is an initial part of what the producer took
\* from the source: no blob is written again before every consumer has copied
\* it, although only the count of the references says so.
Intact ==
    \A c \in Consumers :
        /\ Len(out[c]) <= sent
        /\ \A k \in 1..Len(out[c]) : out[c][k] = k

\* The memory that the producer may write is referred to by nobody else.
WrittenAlone ==
    blob # NoBlob =>
        /\ \A c \in Consumers : msg[c] # blob
        /\ \A c \in Consumers : \A k \in DOMAIN chan[c] : chan[c][k] # blob
        /\ \A k \in DOMAIN store : store[k] # blob

\* The producer, which spins when all blobs are taken, gets one again: a
\* consumer that waits for a message keeps only the last it had, and all that
\* wait have the same one (pmt_mgr.h: "An upstream producer can block until
\* resources become released").  Only the blobs queued for a consumer that has
\* left on an empty blob are lost to the pool.
PoolRefills ==
    (producer = "acquire" /\ sent < MaxBytes) ~>
        (producer # "acquire" \/ \E c \in Consumers : consumer[c] = "done")

\* Every byte taken from the source reaches every consumer that has not left.
AllArrive ==
    \A c \in Consumers : \A n \in 1..MaxBytes :
        (sent >= n) ~> (Len(out[c]) >= n \/ (consumer[c] = "done" /\ kind # "stream"))

\* After the stop of a stream_to_blob every consumer's work() exits, after it
\* has copied all that was posted (blob_to_stream.h: "An empty blob (length 0
\* bytes) tells the work to exit").
StopReachesAll ==
    (producer = "done") ~> \A c \in Consumers : consumer[c] = "done" /\ Len(out[c]) = sent

\* "This block reads incoming messages from the queue, and copies the blob
\* contents into the outgoing stream" (blob_to_stream.h:37): a popped blob is
\* copied to its end, and the next message is read.
ReadsOn == \A c \in Streams : (consumer[c] = "copy") ~> (consumer[c] # "copy")
=============================================================================
