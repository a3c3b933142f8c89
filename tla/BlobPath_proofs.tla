-------------------------- MODULE BlobPath_proofs --------------------------
(***************************************************************************)
(* Proofs about BlobPath for any pool, any consumers, any size of the      *)
(* blobs, of the items and of the reads, and any number of bytes.          *)
(***************************************************************************)
EXTENDS BlobPath, SequenceTheorems, FiniteSetTheorems, TLAPS

Bytes == 0..MaxBytes

USE DEF producerVars, consumerVars

-----------------------------------------------------------------------------
(* The operators *)

LEMMA FunctionIsSeq ==
    ASSUME NEW S, NEW n \in Nat, NEW f \in [1..n -> S]
    PROVE  f \in Seq(S) /\ Len(f) = n /\ DOMAIN f = 1..n
BY SeqDef

\* A resized vector has the bytes that it had, and zeros behind them.
LEMMA ResizedType ==
    ASSUME NEW v \in Seq(Bytes), NEW n \in Nat
    PROVE  /\ Resized(v, n) \in Seq(Bytes) /\ Len(Resized(v, n)) = n
           /\ \A k \in 1..n : Resized(v, n)[k] = IF k <= Len(v) THEN v[k] ELSE 0
<1>1. \A k \in 1..n : k <= Len(v) => v[k] \in Bytes
  <2>1. \A k \in 1..Len(v) : v[k] \in Bytes
    BY ElementOfSeq
  <2>2. Len(v) \in Nat
    BY LenProperties
  <2> QED
    BY <2>1, <2>2
<1>2. 0 \in Bytes
  BY MaxBytesAssumption DEF Bytes
<1> HIDE DEF Bytes
<1>3. Resized(v, n) \in [1..n -> Bytes]
  BY <1>1, <1>2 DEF Resized
<1> QED
  BY <1>3, FunctionIsSeq DEF Resized

\* Bytes written to a vector leave its length, and are in it as far as it goes.
LEMMA OverwrittenType ==
    ASSUME NEW v \in Seq(Bytes), NEW bytes \in Seq(Bytes)
    PROVE  /\ Overwritten(v, bytes) \in Seq(Bytes)
           /\ Len(Overwritten(v, bytes)) = Len(v)
           /\ \A k \in 1..Len(v) :
                 Overwritten(v, bytes)[k] = IF k <= Len(bytes) THEN bytes[k] ELSE v[k]
<1>1. \A k \in 1..Len(v) : v[k] \in Bytes
  BY ElementOfSeq
<1>2. \A k \in 1..Len(bytes) : bytes[k] \in Bytes
  BY ElementOfSeq
<1>3. Len(v) \in Nat /\ Len(bytes) \in Nat
  BY LenProperties
<1> HIDE DEF Bytes
<1>4. Overwritten(v, bytes) \in [1..Len(v) -> Bytes]
  BY <1>1, <1>2, <1>3 DEF Overwritten
<1> QED
  BY <1>3, <1>4, FunctionIsSeq DEF Overwritten

LEMMA SourceBytesType ==
    ASSUME sent \in Nat, NEW n \in Nat, sent + n <= MaxBytes
    PROVE  /\ SourceBytes(n) \in Seq(Bytes) /\ Len(SourceBytes(n)) = n
           /\ \A k \in 1..n : SourceBytes(n)[k] = sent + k
<1>1. \A k \in 1..n : sent + k \in Bytes
  BY MaxBytesAssumption DEF Bytes
<1> HIDE DEF Bytes
<1>2. SourceBytes(n) \in [1..n -> Bytes]
  BY <1>1 DEF SourceBytes
<1> QED
  BY <1>2, FunctionIsSeq DEF SourceBytes

\* A read of n bytes makes a blob of n bytes; they are those of the source unless
\* the blob was too short for them, which happens to a filedes_to_blob only.
LEMMA FilledType ==
    ASSUME kind \in Kinds, sent \in Nat, NEW n \in ReadSizes, sent + n <= MaxBytes,
           NEW v \in Seq(Bytes)
    PROVE  /\ Filled(v, n) \in Seq(Bytes) /\ Len(Filled(v, n)) = n /\ n \in Nat /\ n <= Mtu
           /\ kind # "filedes" => \A k \in 1..n : Filled(v, n)[k] = sent + k
<1>0. n \in Nat /\ n <= Mtu /\ Mtu \in Nat
  BY ReadSizesAssumption, MtuAssumption
<1> HIDE DEF Bytes
<1>1. /\ SourceBytes(n) \in Seq(Bytes) /\ Len(SourceBytes(n)) = n
      /\ \A k \in 1..n : SourceBytes(n)[k] = sent + k
  BY <1>0, SourceBytesType
<1>2. CASE kind = "stream"
  <2> DEFINE w == Resized(v, n)
  <2>1. Filled(v, n) = Overwritten(w, SourceBytes(n))
    BY <1>2 DEF Filled, FilledByStream
  <2>2. w \in Seq(Bytes) /\ Len(w) = n
    BY <1>0, ResizedType
  <2> HIDE DEF w
  <2>3. /\ Overwritten(w, SourceBytes(n)) \in Seq(Bytes)
        /\ Len(Overwritten(w, SourceBytes(n))) = n
        /\ \A k \in 1..n : Overwritten(w, SourceBytes(n))[k] = SourceBytes(n)[k]
    <3>1. /\ Overwritten(w, SourceBytes(n)) \in Seq(Bytes)
          /\ Len(Overwritten(w, SourceBytes(n))) = Len(w)
          /\ \A k \in 1..Len(w) : Overwritten(w, SourceBytes(n))[k] =
                IF k <= Len(SourceBytes(n)) THEN SourceBytes(n)[k] ELSE w[k]
      BY <1>1, <2>2, OverwrittenType
    <3> QED
      BY <1>0, <1>1, <2>2, <3>1
  <2> QED
    BY <1>0, <1>1, <2>1, <2>3
<1>3. CASE kind = "socket"
  <2> DEFINE w == Resized(v, Mtu)
             u == Overwritten(w, SourceBytes(n))
  <2>1. Filled(v, n) = Resized(u, n)
    BY <1>3 DEF Filled, FilledBySocket
  <2>2. w \in Seq(Bytes) /\ Len(w) = Mtu
    BY <1>0, ResizedType
  <2> HIDE DEF w
  <2>3. /\ u \in Seq(Bytes) /\ Len(u) = Mtu
        /\ \A k \in 1..n : u[k] = SourceBytes(n)[k]
    BY <1>0, <1>1, <2>2, OverwrittenType
  <2> HIDE DEF u
  <2>4. /\ Resized(u, n) \in Seq(Bytes) /\ Len(Resized(u, n)) = n
        /\ \A k \in 1..n : Resized(u, n)[k] = u[k]
    <3>1. /\ Resized(u, n) \in Seq(Bytes) /\ Len(Resized(u, n)) = n
          /\ \A k \in 1..n : Resized(u, n)[k] = IF k <= Len(u) THEN u[k] ELSE 0
      BY <1>0, <2>3, ResizedType
    <3> QED
      BY <1>0, <2>3, <3>1
  <2> QED
    BY <1>0, <1>1, <2>1, <2>3, <2>4
<1>4. CASE kind = "filedes"
  <2> DEFINE u == Overwritten(v, SourceBytes(n))
  <2>1. Filled(v, n) = Resized(u, n)
    BY <1>4 DEF Filled, FilledByFiledes
  <2>2. u \in Seq(Bytes)
    BY <1>1, OverwrittenType
  <2> HIDE DEF u
  <2>3. Resized(u, n) \in Seq(Bytes) /\ Len(Resized(u, n)) = n
    BY <1>0, <2>2, ResizedType
  <2> QED
    BY <1>0, <1>4, <2>1, <2>3
<1> QED
  BY <1>2, <1>3, <1>4, KindsAssumption

\* A count of 1 is that of the pool: nobody else refers to the blob.
LEMMA CountIsExact ==
    ASSUME NEW b, count_(b) = 1, store \in Seq(Blobs), chan \in [Consumers -> Seq(SomeBlob)]
    PROVE  /\ b # blob
           /\ \A c \in Consumers : msg[c] # b
           /\ \A c \in Consumers : \A k \in DOMAIN chan[c] : chan[c][k] # b
           /\ \A k \in DOMAIN store : store[k] # b
<1> DEFINE Local == {x \in {blob} : x = b}
           Tags == {k \in DOMAIN store : store[k] = b}
           Queued(c) == {<<c, k>> : k \in {j \in DOMAIN chan[c] : chan[c][j] = b}}
           InQueues == {Queued(c) : c \in Consumers}
           Held == {c \in Consumers : msg[c] = b}
<1>0. IsFiniteSet(Consumers)
  BY ConsumersAssumption, FS_Union DEF Consumers
<1>1. IsFiniteSet(Local)
  BY FS_Singleton, FS_Subset
<1>2. IsFiniteSet(Tags)
  <2>1. DOMAIN store = 1..Len(store) /\ Len(store) \in Nat
    BY LenProperties
  <2>2. IsFiniteSet(1..Len(store))
    BY <2>1, FS_Interval
  <2> QED
    BY <2>1, <2>2, FS_Subset
<1>3. ASSUME NEW c \in Consumers PROVE IsFiniteSet(Queued(c))
  <2>1. DOMAIN chan[c] = 1..Len(chan[c]) /\ Len(chan[c]) \in Nat
    BY LenProperties
  <2>2. IsFiniteSet({c} \X (1..Len(chan[c])))
    <3>1. IsFiniteSet({c})
      BY FS_Singleton
    <3>2. IsFiniteSet(1..Len(chan[c]))
      BY <2>1, FS_Interval
    <3> QED
      BY <3>1, <3>2, FS_Product
  <2>3. Queued(c) \subseteq {c} \X (1..Len(chan[c]))
    BY <2>1
  <2> QED
    BY <2>2, <2>3, FS_Subset
<1>4. IsFiniteSet(InQueues)
  <2> DEFINE f == [c \in Consumers |-> Queued(c)]
  <2>1. f \in Surjection(Consumers, InQueues)
    <3>1. f \in [Consumers -> InQueues]
      BY Zenon
    <3>2. ASSUME NEW t \in InQueues PROVE \E c \in Consumers : f[c] = t
      BY <3>2, Zenon
    <3> HIDE DEF f, InQueues
    <3> QED
      BY <3>1, <3>2 DEF Surjection
  <2> HIDE DEF f, InQueues
  <2> QED
    BY <1>0, <2>1, FS_Surjection
<1>5. IsFiniteSet(UNION InQueues)
  BY <1>3, <1>4, FS_UNION
<1>6. IsFiniteSet(Held)
  BY <1>0, FS_Subset
<1>7. 1 + Cardinality(Local) + Cardinality(Tags) + Cardinality(UNION InQueues)
        + Cardinality(Held) = 1
  BY DEF count_
<1> HIDE DEF Local, Tags, InQueues, Held
<1>8. Local = {} /\ Tags = {} /\ UNION InQueues = {} /\ Held = {}
  <2>1. /\ Cardinality(Local) \in Nat /\ Cardinality(Tags) \in Nat
        /\ Cardinality(UNION InQueues) \in Nat /\ Cardinality(Held) \in Nat
    BY <1>1, <1>2, <1>5, <1>6, FS_CardinalityType
  <2>2. /\ Cardinality(Local) = 0 /\ Cardinality(Tags) = 0
        /\ Cardinality(UNION InQueues) = 0 /\ Cardinality(Held) = 0
    BY <1>7, <2>1
  <2> QED
    BY <1>1, <1>2, <1>5, <1>6, <2>2, FS_EmptySet
<1>9. ASSUME NEW c \in Consumers, NEW k \in DOMAIN chan[c] PROVE chan[c][k] # b
  <2>1. CASE chan[c][k] = b
    <3>1. <<c, k>> \in Queued(c)
      BY <2>1
    <3>2. Queued(c) \in InQueues
      BY DEF InQueues
    <3> QED
      BY <1>8, <3>1, <3>2
  <2> QED
    BY <2>1
<1> QED
  BY <1>8, <1>9 DEF Local, Tags, Held

-----------------------------------------------------------------------------
(* Types, and WrittenAlone, which they need: the blob that a consumer is copying *)
(* does not become shorter.                                                *)

\* _offset is in the blob that is being copied, and 0 between two blobs; a consumer
\* that writes to a descriptor has none.
OffsetInv ==
    /\ \A c \in Writers : offset[c] = 0
    /\ \A c \in Consumers :
          offset[c] # 0 => consumer[c] = "copy" /\ offset[c] < Len(Contents(msg[c]))

Typed ==
    /\ TypeOK
    /\ \A b \in Blobs : Len(mem[b]) <= Mtu
    /\ WrittenAlone
    /\ OffsetInv

LEMMA InitTyped == Init => Typed
<1> SUFFICES ASSUME Init PROVE Typed
  OBVIOUS
<1>1. Mtu \in Nat /\ Mtu > 0 /\ MaxBytes \in Nat
  BY MtuAssumption, MaxBytesAssumption
<1>2. /\ [k \in 1..Mtu |-> 0] \in Seq(0..MaxBytes)
      /\ Len([k \in 1..Mtu |-> 0]) = Mtu
  <2>1. [k \in 1..Mtu |-> 0] \in [1..Mtu -> 0..MaxBytes]
    BY <1>1
  <2> QED
    BY <1>1, <2>1, FunctionIsSeq
<1>3. /\ mem \in [Blobs -> Seq(0..MaxBytes)]
      /\ \A b \in Blobs : Len(mem[b]) <= Mtu
  BY <1>1, <1>2 DEF Init
<1>4. /\ store \in Seq(Blobs) /\ chan \in [Consumers -> Seq(SomeBlob)]
      /\ out \in [Consumers -> Seq(0..MaxBytes)]
  BY EmptySeq DEF Init
<1>5. TypeOK
  BY <1>1, <1>3, <1>4 DEF Init, TypeOK
<1>6. WrittenAlone
  BY DEF Init, WrittenAlone
<1>7. OffsetInv
  BY ConsumersAssumption DEF Init, OffsetInv, Consumers
<1> QED
  BY <1>3, <1>5, <1>6, <1>7 DEF Typed

LEMMA ContentsType ==
    ASSUME Typed, NEW b \in SomeBlob
    PROVE  Contents(b) \in Seq(0..MaxBytes) /\ Len(Contents(b)) \in Nat /\ Len(Contents(b)) <= Mtu
<1>1. CASE b = StopBlob
  BY <1>1, EmptySeq, MtuAssumption DEF Contents
<1>2. CASE b # StopBlob
  BY <1>2, LenProperties DEF Contents, SomeBlob, Typed, TypeOK
<1> QED
  BY <1>1, <1>2

\* The whole items that fit in the output are in the rest of a blob, and there are
\* some if the rest is not shorter than one.
LEMMA WholeItems ==
    ASSUME NEW n \in Nat \ {0}, NEW r \in Nat
    PROVE  LET m == ItemSize * Least(n, r \div ItemSize)
           IN  m \in Nat /\ m <= r /\ (r >= ItemSize => m > 0)
<1> DEFINE q == r \div ItemSize
<1>1. ItemSize \in Nat /\ ItemSize > 0
  BY ItemSizeAssumption
<1>2. q \in Nat /\ ItemSize * q <= r /\ (r >= ItemSize => q > 0)
  BY <1>1, SMT
<1> HIDE DEF q
<1>3. Least(n, q) \in Nat /\ Least(n, q) <= q
  BY <1>2 DEF Least
<1>4. PICK l \in Nat : l = Least(n, q)
  BY <1>3
<1>5. l <= q
  BY <1>3, <1>4
<1>6. PICK d \in Nat : q = l + d
  BY <1>2, <1>5
<1>7. ItemSize * q = ItemSize * l + ItemSize * d /\ ItemSize * l \in Nat /\ ItemSize * d \in Nat
  BY <1>1, <1>6
<1>8. ItemSize * l \in Nat /\ ItemSize * l <= r
  BY <1>1, <1>2, <1>7
<1>9. r >= ItemSize => ItemSize * l > 0
  <2>1. r >= ItemSize => l > 0
    BY <1>2, <1>4 DEF Least
  <2>2. l > 0 => ItemSize * l > 0
    BY <1>1
  <2> QED
    BY <2>1, <2>2
<1> QED
  BY <1>4, <1>8, <1>9 DEF q

\* What CopyToStream does with the rest of a blob.
LEMMA CopyTyped ==
    ASSUME Typed, NEW c \in Consumers, NEW n \in 1..Mtu, CopyToStream(c, n)
    PROVE  \E m \in Nat :
              /\ c \in Streams /\ msg[c] \in SomeBlob
              /\ offset[c] \in Nat /\ offset[c] < Len(Contents(msg[c]))
              /\ offset[c] + m <= Len(Contents(msg[c]))
              /\ out' = [out EXCEPT ![c] =
                            @ \o SubSeq(Contents(msg[c]), offset[c] + 1, offset[c] + m)]
              /\ offset' = [offset EXCEPT ![c] =
                               IF offset[c] + m = Len(Contents(msg[c])) THEN 0 ELSE offset[c] + m]
              /\ consumer' = [consumer EXCEPT ![c] = IF offset'[c] = 0 THEN "pop" ELSE "copy"]
              /\ UNCHANGED <<producerVars, mem, store, chan, msg>>
              /\ Len(Contents(msg[c])) - offset[c] >= ItemSize => m > 0
<1> DEFINE data == Contents(msg[c])
           m == ItemSize * Least(n, (Len(data) - offset[c]) \div ItemSize)
<1>1. c \in Streams /\ consumer[c] = "copy" /\ data # <<>>
  BY DEF CopyToStream
<1>2. msg[c] \in SomeBlob
  BY <1>1 DEF Typed, TypeOK
<1>3. data \in Seq(0..MaxBytes) /\ Len(data) \in Nat /\ Len(data) > 0
  <2>1. data \in Seq(0..MaxBytes)
    BY <1>2, ContentsType
  <2> HIDE DEF data
  <2>2. Len(data) \in Nat \ {0}
    BY <1>1, <2>1, EmptySeq
  <2> QED
    BY <2>1, <2>2
<1>4. offset[c] \in Nat /\ offset[c] < Len(data)
  BY <1>3, MtuAssumption DEF Typed, TypeOK, OffsetInv
<1>5. m \in Nat /\ m <= Len(data) - offset[c] /\ (Len(data) - offset[c] >= ItemSize => m > 0)
  <2>1. n \in Nat \ {0} /\ Len(data) - offset[c] \in Nat
    BY <1>3, <1>4, MtuAssumption
  <2> HIDE DEF data
  <2> QED
    BY <2>1, WholeItems
<1>6. offset[c] + m <= Len(data)
  <2> HIDE DEF m, data
  <2> QED
    BY <1>3, <1>4, <1>5
<1>7. /\ out' = [out EXCEPT ![c] = @ \o SubSeq(data, offset[c] + 1, offset[c] + m)]
      /\ offset' = [offset EXCEPT ![c] =
                       IF offset[c] + m = Len(data) THEN 0 ELSE offset[c] + m]
      /\ consumer' = [consumer EXCEPT ![c] = IF offset'[c] = 0 THEN "pop" ELSE "copy"]
      /\ UNCHANGED <<producerVars, mem, store, chan, msg>>
  BY DEF CopyToStream, NextOffset
<1> HIDE DEF m
<1> QED
  BY <1>1, <1>2, <1>4, <1>5, <1>6, <1>7

\* The steps of the producer, and of the scheduler.
LEMMA ProducerTyped == Typed /\ (ProducerStep \/ PostStop \/ DropTag) => Typed'
<1> SUFFICES ASSUME Typed, ProducerStep \/ PostStop \/ DropTag PROVE Typed'
  OBVIOUS
<1>1. ASSUME NEW b \in Blobs, Acquire(b) PROVE Typed'
  <2>1. /\ \A c \in Consumers : msg[c] # b
        /\ \A c \in Consumers : \A k \in DOMAIN chan[c] : chan[c][k] # b
        /\ \A k \in DOMAIN store : store[k] # b
    BY <1>1, CountIsExact DEF Acquire, Typed, TypeOK
  <2>2. TypeOK'
    BY <1>1, BlobsAssumption DEF Acquire, Typed, TypeOK
  <2>3. WrittenAlone'
    BY <1>1, <2>1 DEF Acquire, WrittenAlone
  <2>4. OffsetInv'
    BY <1>1 DEF Acquire, Typed, OffsetInv, Contents
  <2> QED
    BY <1>1, <2>2, <2>3, <2>4 DEF Typed, Acquire
<1>2. ASSUME NEW n \in ReadSizes, Write(n) PROVE Typed'
  <2>1. /\ blob \in Blobs /\ mem[blob] \in Seq(0..MaxBytes)
        /\ mem' = [mem EXCEPT ![blob] = Filled(mem[blob], n)]
        /\ sent \in Nat /\ n \in Nat /\ sent + n <= MaxBytes /\ sent' = sent + n
    BY <1>2, ReadSizesAssumption, MtuAssumption, MaxBytesAssumption DEF Write, Typed, TypeOK
  <2>2. /\ Filled(mem[blob], n) \in Seq(0..MaxBytes) /\ Len(Filled(mem[blob], n)) = n /\ n <= Mtu
    BY <2>1, FilledType DEF Typed, TypeOK, Bytes
  <2>3. mem' \in [Blobs -> Seq(0..MaxBytes)] /\ \A b \in Blobs : Len(mem'[b]) <= Mtu
    BY <2>1, <2>2 DEF Typed, TypeOK
  <2>4. sent' \in 0..MaxBytes
    BY <2>1, MaxBytesAssumption
  <2>5. TypeOK'
    BY <1>2, <2>1, <2>3, <2>4, BlobsAssumption DEF Write, Typed, TypeOK
  <2>6. WrittenAlone'
    BY <1>2 DEF Write, Typed, WrittenAlone
  <2>7. OffsetInv'
    <3>1. ASSUME NEW c \in Consumers, offset[c] # 0
          PROVE  consumer[c] = "copy" /\ offset[c] < Len(Contents(msg[c])')
      <4>1. consumer[c] = "copy" /\ offset[c] < Len(Contents(msg[c])) /\ msg[c] \in SomeBlob
        BY <3>1 DEF Typed, TypeOK, OffsetInv
      <4>2. msg[c] # blob
        BY <2>1, BlobsAssumption DEF Typed, WrittenAlone
      <4>3. Contents(msg[c])' = Contents(msg[c])
        BY <1>2, <2>1, <4>1, <4>2 DEF Write, Contents, SomeBlob, Typed, TypeOK
      <4> QED
        BY <4>1, <4>3
    <3> QED
      BY <1>2, <3>1 DEF Write, Typed, OffsetInv
  <2> QED
    BY <2>3, <2>5, <2>6, <2>7 DEF Typed
<1>3. CASE Post
  <2>1. blob \in Blobs
    BY <1>3 DEF Post, Typed, TypeOK
  <2>2. store' \in Seq(Blobs) /\ chan' \in [Consumers -> Seq(SomeBlob)]
    BY <1>3, <2>1 DEF Post, Typed, TypeOK, SomeBlob
  <2>3. TypeOK'
    BY <1>3, <2>2, BlobsAssumption DEF Post, Typed, TypeOK
  <2>4. WrittenAlone'
    BY <1>3 DEF Post, WrittenAlone
  <2> QED
    BY <1>3, <2>3, <2>4 DEF Post, Typed, OffsetInv, Contents
<1>4. CASE PostStop
  <2>1. chan' \in [Consumers -> Seq(SomeBlob)]
    BY <1>4 DEF PostStop, Typed, TypeOK, SomeBlob
  <2>2. TypeOK' /\ blob' = NoBlob
    BY <1>4, <2>1, BlobsAssumption DEF PostStop, Typed, TypeOK
  <2>3. WrittenAlone'
    BY <2>2 DEF WrittenAlone
  <2> QED
    BY <1>4, <2>2, <2>3 DEF PostStop, Typed, OffsetInv, Contents
<1>5. CASE DropTag
  <2>1. /\ store \in Seq(Blobs) /\ store' = Tail(store) /\ store # <<>>
        /\ UNCHANGED <<producerVars, mem, chan, consumerVars>>
    BY <1>5 DEF DropTag, Typed, TypeOK
  <2>2. /\ store' \in Seq(Blobs) /\ Len(store') = Len(store) - 1
        /\ \A k \in 1..Len(store') : store'[k] = store[k + 1]
    BY <2>1, HeadTailProperties
  <2>3. /\ DOMAIN store' = 1..Len(store') /\ DOMAIN store = 1..Len(store)
        /\ Len(store) \in Nat /\ Len(store') \in Nat
    BY <2>1, <2>2, LenProperties
  <2>4. \A k \in DOMAIN store' : k + 1 \in DOMAIN store /\ store'[k] = store[k + 1]
    BY <2>2, <2>3
  <2>5. TypeOK'
    BY <2>1, <2>2 DEF Typed, TypeOK
  <2>6. WrittenAlone'
    BY <2>1, <2>4 DEF Typed, WrittenAlone
  <2> QED
    BY <2>1, <2>5, <2>6 DEF Typed, OffsetInv, Contents
<1> QED
  BY <1>1, <1>2, <1>3, <1>4, <1>5 DEF ProducerStep

\* The steps of a consumer.
LEMMA ConsumerTyped ==
    ASSUME Typed, NEW c \in Consumers, ConsumerStep(c) PROVE Typed'
<1>0. Mtu \in Nat /\ Mtu > 0
  BY MtuAssumption
<1>1. CASE PopMsg(c)
  <2>1. /\ chan[c] \in Seq(SomeBlob) /\ chan[c] # <<>>
        /\ chan' = [chan EXCEPT ![c] = Tail(chan[c])]
        /\ msg' = [msg EXCEPT ![c] = Head(chan[c])]
        /\ consumer' = [consumer EXCEPT ![c] = "copy"]
        /\ UNCHANGED <<producerVars, mem, store, offset, out>>
    BY <1>1 DEF PopMsg, Typed, TypeOK
  <2>2. /\ Tail(chan[c]) \in Seq(SomeBlob) /\ Len(Tail(chan[c])) = Len(chan[c]) - 1
        /\ Head(chan[c]) \in SomeBlob
        /\ \A k \in 1..Len(Tail(chan[c])) : Tail(chan[c])[k] = chan[c][k + 1]
    BY <2>1, HeadTailProperties
  <2>3. /\ DOMAIN chan[c] = 1..Len(chan[c]) /\ Len(chan[c]) \in Nat
        /\ DOMAIN Tail(chan[c]) = 1..Len(Tail(chan[c]))
    BY <2>1, <2>2, LenProperties
  <2>4. 1 \in DOMAIN chan[c] /\ Head(chan[c]) = chan[c][1]
    BY <2>1, <2>3
  <2>5. TypeOK'
    <3>1. NoBlob \notin SomeBlob
      BY BlobsAssumption DEF SomeBlob
    <3> QED
      BY <2>1, <2>2, <3>1 DEF Typed, TypeOK
  <2>6. WrittenAlone'
    <3> SUFFICES ASSUME blob # NoBlob
                 PROVE  /\ \A d \in Consumers : msg'[d] # blob
                        /\ \A d \in Consumers : \A k \in DOMAIN chan'[d] : chan'[d][k] # blob
                        /\ \A k \in DOMAIN store : store[k] # blob
      BY <2>1 DEF WrittenAlone
    <3>1. /\ \A d \in Consumers : msg[d] # blob
          /\ \A d \in Consumers : \A k \in DOMAIN chan[d] : chan[d][k] # blob
          /\ \A k \in DOMAIN store : store[k] # blob
      BY DEF Typed, WrittenAlone
    <3>2. \A k \in DOMAIN Tail(chan[c]) : k + 1 \in DOMAIN chan[c] /\ Tail(chan[c])[k] = chan[c][k + 1]
      BY <2>2, <2>3
    <3>3. \A d \in Consumers : msg'[d] # blob
      BY <2>1, <2>4, <3>1 DEF Typed, TypeOK
    <3>4. \A d \in Consumers : \A k \in DOMAIN chan'[d] : chan'[d][k] # blob
      BY <2>1, <3>1, <3>2 DEF Typed, TypeOK
    <3> QED
      BY <3>1, <3>3, <3>4
  <2>7. OffsetInv'
    <3>1. offset[c] = 0
      BY <1>1 DEF PopMsg, Typed, OffsetInv
    <3> QED
      BY <2>1, <3>1 DEF Typed, TypeOK, OffsetInv, Contents
  <2> QED
    BY <2>1, <2>5, <2>6, <2>7 DEF Typed
<1>2. CASE LeaveOnEmpty(c)
  <2>1. /\ consumer[c] = "copy" /\ Contents(msg[c]) = <<>>
        /\ consumer' = [consumer EXCEPT ![c] = "done"]
        /\ msg' = [msg EXCEPT ![c] = IF c \in Streams THEN @ ELSE NoBlob]
        /\ UNCHANGED <<producerVars, mem, store, chan, offset, out>>
    BY <1>2 DEF LeaveOnEmpty
  <2>2. offset[c] = 0
    BY <1>0, <2>1 DEF Typed, TypeOK, OffsetInv
  <2>3. TypeOK'
    BY <2>1 DEF Typed, TypeOK
  <2>4. WrittenAlone'
    BY <2>1 DEF Typed, TypeOK, WrittenAlone
  <2>5. OffsetInv'
    BY <2>1, <2>2 DEF Typed, TypeOK, OffsetInv, Contents
  <2> QED
    BY <2>1, <2>3, <2>4, <2>5 DEF Typed
<1>3. ASSUME NEW n \in 1..Mtu, CopyToStream(c, n) PROVE Typed'
  <2>1. PICK m \in Nat :
           /\ c \in Streams /\ msg[c] \in SomeBlob
           /\ offset[c] \in Nat /\ offset[c] < Len(Contents(msg[c]))
           /\ offset[c] + m <= Len(Contents(msg[c]))
           /\ out' = [out EXCEPT ![c] =
                         @ \o SubSeq(Contents(msg[c]), offset[c] + 1, offset[c] + m)]
           /\ offset' = [offset EXCEPT ![c] =
                            IF offset[c] + m = Len(Contents(msg[c])) THEN 0 ELSE offset[c] + m]
           /\ consumer' = [consumer EXCEPT ![c] = IF offset'[c] = 0 THEN "pop" ELSE "copy"]
           /\ UNCHANGED <<producerVars, mem, store, chan, msg>>
    BY <1>3, CopyTyped
  <2> DEFINE data == Contents(msg[c])
  <2>2. data \in Seq(0..MaxBytes) /\ Len(data) \in Nat /\ Len(data) <= Mtu
    BY <2>1, ContentsType
  <2>3. SubSeq(data, offset[c] + 1, offset[c] + m) \in Seq(0..MaxBytes)
    <3> HIDE DEF data
    <3>1. \A k \in (offset[c] + 1)..(offset[c] + m) : data[k] \in 0..MaxBytes
      <4>1. \A k \in (offset[c] + 1)..(offset[c] + m) : k \in 1..Len(data)
        BY <2>1, <2>2 DEF data
      <4> QED
        BY <2>2, <4>1, ElementOfSeq
    <3> QED
      BY <2>1, <3>1, SubSeqProperties
  <2>4. out' \in [Consumers -> Seq(0..MaxBytes)]
    BY <2>1, <2>3, ConcatProperties DEF Typed, TypeOK
  <2>5. offset' \in [Consumers -> 0..(Mtu - 1)]
    <3>1. (IF offset[c] + m = Len(data) THEN 0 ELSE offset[c] + m) \in 0..(Mtu - 1)
      BY <1>0, <2>1, <2>2
    <3> QED
      BY <2>1, <3>1 DEF Typed, TypeOK
  <2>6. TypeOK'
    BY <1>3, <2>1, <2>4, <2>5 DEF CopyToStream, Typed, TypeOK
  <2>7. WrittenAlone'
    BY <2>1 DEF Typed, WrittenAlone
  <2>8. OffsetInv'
    <3>1. offset'[c] # 0 => consumer'[c] = "copy" /\ offset'[c] < Len(data)
      BY <2>1, <2>2 DEF Typed, TypeOK
    <3>2. ASSUME NEW d \in Consumers, d # c, offset[d] # 0
          PROVE  consumer'[d] = "copy" /\ offset'[d] < Len(Contents(msg[d]))
      BY <2>1, <3>2 DEF Typed, TypeOK, OffsetInv
    <3>3. \A d \in Writers : offset'[d] = 0
      BY <2>1, ConsumersAssumption DEF Typed, TypeOK, OffsetInv, Consumers
    <3>4. \A d \in Consumers : d # c => offset'[d] = offset[d]
      BY <2>1 DEF Typed, TypeOK
    <3>5. mem' = mem /\ msg' = msg
      BY <2>1
    <3>6. \A d \in Consumers : offset'[d] # 0 => consumer'[d] = "copy" /\ offset'[d] < Len(Contents(msg[d]))
      BY <3>1, <3>2, <3>4
    <3> QED
      BY <3>3, <3>5, <3>6 DEF OffsetInv, Contents
  <2> QED
    BY <2>1, <2>6, <2>7, <2>8 DEF Typed
<1>4. ASSUME NEW n \in 0..Mtu, WriteOut(c, n) PROVE Typed'
  <2> DEFINE data == Contents(msg[c])
  <2>1. /\ c \in Writers /\ consumer[c] = "copy" /\ n \in 0..Len(data)
        /\ out' = [out EXCEPT ![c] = @ \o SubSeq(data, 1, n)]
        /\ msg' = [msg EXCEPT ![c] = NoBlob]
        /\ consumer' = [consumer EXCEPT ![c] = "pop"]
        /\ UNCHANGED <<producerVars, mem, store, chan, offset>>
    BY <1>4 DEF WriteOut
  <2>2. data \in Seq(0..MaxBytes) /\ Len(data) \in Nat
    <3>1. msg[c] \in SomeBlob
      BY <2>1 DEF Typed, TypeOK
    <3> QED
      BY <3>1, ContentsType
  <2>3. SubSeq(data, 1, n) \in Seq(0..MaxBytes)
    <3> HIDE DEF data
    <3>1. \A k \in 1..n : data[k] \in 0..MaxBytes
      <4>1. \A k \in 1..n : k \in 1..Len(data)
        BY <2>1, <2>2
      <4> QED
        BY <2>2, <4>1, ElementOfSeq
    <3> QED
      BY <2>1, <2>2, <3>1, SubSeqProperties
  <2>4. out' \in [Consumers -> Seq(0..MaxBytes)]
    BY <2>1, <2>3, ConcatProperties DEF Typed, TypeOK
  <2>5. TypeOK'
    BY <2>1, <2>4 DEF Typed, TypeOK
  <2>6. WrittenAlone'
    BY <2>1 DEF Typed, TypeOK, WrittenAlone
  <2>7. OffsetInv'
    <3>1. offset[c] = 0
      BY <2>1 DEF Typed, OffsetInv
    <3> QED
      BY <2>1, <3>1 DEF Typed, TypeOK, OffsetInv, Contents
  <2> QED
    BY <2>1, <2>5, <2>6, <2>7 DEF Typed
<1> QED
  BY <1>1, <1>2, <1>3, <1>4 DEF ConsumerStep

LEMMA NextTyped == Typed /\ [Next]_vars => Typed'
<1> SUFFICES ASSUME Typed, [Next]_vars PROVE Typed'
  OBVIOUS
<1>1. CASE UNCHANGED vars
  BY <1>1 DEF vars, Typed, TypeOK, WrittenAlone, OffsetInv, Contents
<1>2. CASE Idle
  BY <1>1, <1>2 DEF Idle
<1> QED
  BY <1>1, <1>2, ProducerTyped, ConsumerTyped DEF Next

\* Every variable keeps its type: no read makes a blob longer than _mtu, and _offset
\* stays inside the blob that is being copied.
THEOREM TypeCorrect == Spec => []TypeOK
<1>1. Typed => TypeOK
  BY DEF Typed
<1> QED
  BY <1>1, InitTyped, NextTyped, PTL DEF Spec

\* The pool gives out no blob that anyone else refers to, and nobody comes to refer to
\* it before it is posted.
THEOREM WrittenAloneCorrect == Spec => []WrittenAlone
<1>1. Typed => WrittenAlone
  BY DEF Typed
<1> QED
  BY <1>1, InitTyped, NextTyped, PTL DEF Spec

-----------------------------------------------------------------------------
(* Intact *)

\* No byte is lost on the way: not at the end of a blob that is too short for what
\* is read into it, nor behind the part that a write() took, nor with a blob too
\* short for one item, which leaves _offset at 0 and so is taken for copied.
NoLoss ==
    /\ "filedes" \notin Kinds
    /\ ShortWrites => Writers = {}
    /\ \A n \in ReadSizes : n = 0 \/ n >= ItemSize

\* The bytes that were taken from the source and posted.
Posted == sent - (IF producer = "post" THEN Len(mem[blob]) ELSE 0)

\* What a consumer has not yet copied of the blob it has popped.
Rest(c) == IF consumer[c] = "copy" THEN Len(Contents(msg[c])) - offset[c] ELSE 0

\* From where in the source the blobs are that a consumer has not popped yet: where
\* each of them starts, and behind them, where the next one will.
Follows(c, start) ==
    LET n == Len(chan[c]) IN
    /\ start \in [1..(n + 1) -> Nat]
    /\ start[1] = Len(out[c]) + Rest(c)
    /\ start[n + 1] = Posted
    /\ \A k \in 1..(n + 1) : start[k] <= Posted
    /\ \A k \in 1..n :
          /\ start[k + 1] = start[k] + Len(Contents(chan[c][k]))
          /\ \A j \in 1..Len(Contents(chan[c][k])) : Contents(chan[c][k])[j] = start[k] + j

QueueInv == \A c \in Consumers : \E start \in [1..(Len(chan[c]) + 1) -> Nat] : Follows(c, start)

\* The blob being copied goes on where the output ends.
CopyInv == \A c \in Consumers : consumer[c] = "copy" =>
    \A j \in (offset[c] + 1)..Len(Contents(msg[c])) :
        Contents(msg[c])[j] = Len(out[c]) - offset[c] + j

\* The blob about to be posted has the last bytes of the source.
PostInv == producer = "post" =>
    /\ Len(mem[blob]) <= sent
    /\ \A j \in 1..Len(mem[blob]) : mem[blob][j] = sent - Len(mem[blob]) + j

\* A blob with data has an item at least.
HasItem(b) == Contents(b) = <<>> \/ Len(Contents(b)) >= ItemSize
SizeInv ==
    /\ \A c \in Consumers : consumer[c] = "copy" => HasItem(msg[c])
    /\ \A c \in Consumers : \A k \in 1..Len(chan[c]) : HasItem(chan[c][k])
    /\ producer = "post" => HasItem(blob)

OutInv == \A c \in Consumers : \A k \in 1..Len(out[c]) : out[c][k] = k

SourceInv == QueueInv /\ CopyInv /\ PostInv /\ SizeInv /\ OutInv

LEMMA InitSource == Init => SourceInv
<1> SUFFICES ASSUME Init PROVE SourceInv
  OBVIOUS
<1>1. ASSUME NEW c \in Consumers
      PROVE  \E start \in [1..(Len(chan[c]) + 1) -> Nat] : Follows(c, start)
  <2>1. Len(chan[c]) = 0 /\ Len(out[c]) = 0 /\ Posted = 0 /\ Rest(c) = 0
    BY DEF Init, Posted, Rest
  <2> DEFINE start == [k \in 1..1 |-> 0]
  <2>2. start \in [1..1 -> Nat] /\ start[1] = 0
    OBVIOUS
  <2> HIDE DEF start
  <2>3. Follows(c, start)
    BY <2>1, <2>2 DEF Follows
  <2> QED
    BY <2>1, <2>2, <2>3
<1>2. CopyInv /\ PostInv /\ SizeInv /\ OutInv
  BY DEF Init, CopyInv, PostInv, SizeInv, OutInv
<1> QED
  BY <1>1, <1>2 DEF SourceInv, QueueInv

\* The number of bytes that were posted.
LEMMA PostedType ==
    ASSUME Typed, PostInv
    PROVE  Posted \in Nat /\ sent \in Nat /\ Posted <= sent
<1>1. sent \in Nat
  BY MaxBytesAssumption DEF Typed, TypeOK
<1>2. producer = "post" => Len(mem[blob]) \in Nat /\ Len(mem[blob]) <= sent
  <2> SUFFICES ASSUME producer = "post" PROVE Len(mem[blob]) \in Nat /\ Len(mem[blob]) <= sent
    OBVIOUS
  <2>1. blob \in Blobs
    BY DEF Typed, TypeOK
  <2>2. mem[blob] \in Seq(0..MaxBytes)
    BY <2>1 DEF Typed, TypeOK
  <2> QED
    BY <2>2, LenProperties DEF PostInv
<1> QED
  BY <1>1, <1>2 DEF Posted

\* Intact follows, as no blob starts behind what was posted.
LEMMA SourceIntact == Typed /\ SourceInv => Intact
<1> SUFFICES ASSUME Typed, SourceInv, NEW c \in Consumers
             PROVE  Len(out[c]) <= sent /\ \A k \in 1..Len(out[c]) : out[c][k] = k
  BY DEF Intact
<1>1. PICK start \in [1..(Len(chan[c]) + 1) -> Nat] : Follows(c, start)
  BY DEF SourceInv, QueueInv
<1>2. Len(chan[c]) \in Nat /\ Len(out[c]) \in Nat
  BY LenProperties DEF Typed, TypeOK
<1>3. start[1] <= Posted /\ start[1] = Len(out[c]) + Rest(c)
  BY <1>1, <1>2 DEF Follows
<1>4. Rest(c) \in Nat
  <2>1. CASE consumer[c] = "copy"
    <3>1. msg[c] \in SomeBlob /\ offset[c] \in Nat
      BY <2>1, MtuAssumption DEF Typed, TypeOK
    <3>2. Len(Contents(msg[c])) \in Nat
      BY <3>1, ContentsType
    <3>3. offset[c] <= Len(Contents(msg[c]))
      BY <3>1, <3>2 DEF Typed, OffsetInv
    <3> QED
      BY <2>1, <3>1, <3>2, <3>3 DEF Rest
  <2> QED
    BY <2>1 DEF Rest
<1>5. Posted \in Nat /\ sent \in Nat /\ Posted <= sent
  BY PostedType DEF SourceInv
<1> QED
  BY <1>2, <1>3, <1>4, <1>5 DEF SourceInv, OutInv

\* A step that posts nothing, pops nothing and copies nothing.
LEMMA QueueKept ==
    ASSUME Typed, QueueInv, CopyInv, OutInv, SizeInv, Posted' = Posted,
           UNCHANGED <<chan, out, consumer, offset>>,
           \A c \in Consumers : consumer[c] = "copy" => msg'[c] = msg[c],
           \A b \in SomeBlob : b # blob => Contents(b)' = Contents(b)
    PROVE  /\ QueueInv' /\ CopyInv' /\ OutInv'
           /\ \A c \in Consumers : consumer'[c] = "copy" => HasItem(msg[c])'
           /\ \A c \in Consumers : \A k \in 1..Len(chan'[c]) : HasItem(chan[c][k])'
<1>0. ASSUME NEW c \in Consumers, NEW k \in 1..Len(chan[c])
      PROVE  Contents(chan[c][k])' = Contents(chan[c][k])
  <2>1. chan[c] \in Seq(SomeBlob)
    BY DEF Typed, TypeOK
  <2>2. chan[c][k] \in SomeBlob /\ k \in DOMAIN chan[c]
    BY <2>1, ElementOfSeq, LenProperties
  <2>3. chan[c][k] # blob
    BY <2>2, BlobsAssumption DEF Typed, WrittenAlone, SomeBlob
  <2>4. PICK b \in SomeBlob : b = chan[c][k]
    BY <2>2
  <2>5. Contents(b)' = Contents(b)
    BY <2>3, <2>4
  <2> QED
    BY <2>4, <2>5
<1>1. ASSUME NEW c \in Consumers, consumer[c] = "copy"
      PROVE  Contents(msg[c])' = Contents(msg[c])
  <2>1. msg[c] \in SomeBlob /\ msg[c] # blob
    BY <1>1, BlobsAssumption DEF Typed, TypeOK, WrittenAlone, SomeBlob
  <2>2. PICK b \in SomeBlob : b = msg[c] /\ b = msg'[c] /\ b # blob
    BY <1>1, <2>1
  <2>3. Contents(b)' = Contents(b)
    BY <2>2
  <2> QED
    BY <2>2, <2>3
<1>2. \A c \in Consumers : Rest(c)' = Rest(c)
  BY <1>1 DEF Rest
<1>3. ASSUME NEW c \in Consumers
      PROVE  \E start \in [1..(Len(chan[c]) + 1) -> Nat] : Follows(c, start)'
  <2>1. PICK start \in [1..(Len(chan[c]) + 1) -> Nat] : Follows(c, start)
    BY DEF QueueInv
  <2>2. Follows(c, start)'
    BY <1>0, <1>2, <2>1 DEF Follows
  <2> QED
    BY <2>2
<1>4. QueueInv'
  BY <1>3 DEF QueueInv
<1>5. CopyInv'
  BY <1>1 DEF CopyInv
<1>6. \A c \in Consumers : consumer'[c] = "copy" => HasItem(msg[c])'
  BY <1>1 DEF SizeInv, HasItem
<1>7. \A c \in Consumers : \A k \in 1..Len(chan'[c]) : HasItem(chan[c][k])'
  BY <1>0 DEF SizeInv, HasItem
<1> QED
  BY <1>4, <1>5, <1>6, <1>7 DEF OutInv

\* The next blob joins the queues.
LEMMA AppendKept ==
    ASSUME Typed, SourceInv, NEW b \in SomeBlob, Posted' = Posted + Len(Contents(b)),
           chan' = [c \in Consumers |-> Append(chan[c], b)],
           UNCHANGED <<mem, consumer, msg, offset, out>>, producer' # "post", HasItem(b),
           \A j \in 1..Len(Contents(b)) : Contents(b)[j] = Posted + j
    PROVE  SourceInv'
<1>0. /\ Posted \in Nat /\ Len(Contents(b)) \in Nat
      /\ \A d \in SomeBlob : Contents(d)' = Contents(d)
  BY PostedType, ContentsType DEF SourceInv, Contents
<1>1. ASSUME NEW c \in Consumers
      PROVE  /\ Len(chan[c]) \in Nat /\ Len(chan'[c]) = Len(chan[c]) + 1
             /\ \A k \in 1..Len(chan[c]) : chan[c][k] \in SomeBlob /\ chan'[c][k] = chan[c][k]
             /\ chan'[c][Len(chan[c]) + 1] = b
  <2>1. chan[c] \in Seq(SomeBlob) /\ chan'[c] = Append(chan[c], b)
    BY DEF Typed, TypeOK
  <2> QED
    BY <2>1, LenProperties, ElementOfSeq, AppendProperties
<1>2. \A c \in Consumers : Rest(c)' = Rest(c)
  BY DEF Rest, Contents
<1>3. ASSUME NEW c \in Consumers
      PROVE  \E start \in [1..(Len(chan'[c]) + 1) -> Nat] : Follows(c, start)'
  <2>0. PICK n \in Nat : n = Len(chan[c])
    BY <1>1
  <2>1. PICK old \in [1..(n + 1) -> Nat] : Follows(c, old)
    BY <2>0 DEF SourceInv, QueueInv
  <2>2. /\ old[1] = Len(out[c]) + Rest(c) /\ old[n + 1] = Posted
        /\ \A k \in 1..(n + 1) : old[k] \in Nat /\ old[k] <= Posted
        /\ \A k \in 1..n :
              /\ old[k + 1] = old[k] + Len(Contents(chan[c][k]))
              /\ \A j \in 1..Len(Contents(chan[c][k])) : Contents(chan[c][k])[j] = old[k] + j
    BY <2>0, <2>1 DEF Follows
  <2>3. PICK next \in Nat : next = Posted + Len(Contents(b))
    BY <1>0
  <2> DEFINE new == [k \in 1..(n + 2) |-> IF k <= n + 1 THEN old[k] ELSE next]
  <2>4. /\ new \in [1..((n + 1) + 1) -> Nat]
        /\ \A k \in 1..(n + 1) : new[k] = old[k]
        /\ new[n + 2] = next
    BY <2>2
  <2> HIDE DEF new
  <2>5. PICK start \in [1..((n + 1) + 1) -> Nat] : start = new
    BY <2>4
  <2>6. /\ \A k \in 1..(n + 1) : start[k] = old[k]
        /\ start[n + 2] = next
    BY <2>4, <2>5
  <2>7. start[1] = Len(out[c]) + Rest(c) /\ start[(n + 1) + 1] = Posted'
    BY <2>2, <2>3, <2>6
  <2>8. \A k \in 1..((n + 1) + 1) : start[k] <= Posted'
    <3>1. ASSUME NEW k \in 1..((n + 1) + 1) PROVE start[k] <= Posted'
      <4>1. CASE k \in 1..(n + 1)
        BY <1>0, <2>2, <2>6, <4>1
      <4>2. CASE k = n + 2
        BY <1>0, <2>3, <2>6, <4>2
      <4> QED
        BY <4>1, <4>2
    <3> QED
      BY <3>1
  <2>9. ASSUME NEW k \in 1..(n + 1)
        PROVE  /\ start[k + 1] = start[k] + Len(Contents(chan'[c][k]))
               /\ \A j \in 1..Len(Contents(chan'[c][k])) : Contents(chan'[c][k])[j] = start[k] + j
    <3>1. CASE k \in 1..n
      <4>1. chan'[c][k] = chan[c][k]
        BY <1>1, <2>0, <3>1
      <4>2. k \in 1..(n + 1) /\ k + 1 \in 1..(n + 1)
        BY <3>1
      <4>3. start[k] = old[k] /\ start[k + 1] = old[k + 1]
        BY <2>6, <4>2
      <4> QED
        BY <2>2, <3>1, <4>1, <4>3
    <3>2. CASE k = n + 1
      <4>1. chan'[c][n + 1] = b
        BY <1>1, <2>0
      <4>2. n + 1 \in 1..(n + 1) /\ (n + 1) + 1 = n + 2
        OBVIOUS
      <4>3. start[n + 1] = Posted /\ start[(n + 1) + 1] = next
        BY <2>2, <2>6, <4>2
      <4> QED
        BY <2>3, <3>2, <4>1, <4>3
    <3>3. k \in 1..n \/ k = n + 1
      OBVIOUS
    <3> QED
      BY <3>1, <3>2, <3>3
  <2>10. Len(chan'[c]) = n + 1
    BY <1>1, <2>0
  <2>11. Rest(c)' = Rest(c) /\ out' = out
    BY <1>2
  <2>12. \A d : Contents(d)' = Contents(d)
    BY DEF Contents
  <2>13. Follows(c, start)'
    BY <2>5, <2>7, <2>8, <2>9, <2>10, <2>11, <2>12 DEF Follows, Contents
  <2> QED
    BY <2>10, <2>13
<1>4. QueueInv'
  BY <1>3 DEF QueueInv
<1>5. CopyInv' /\ OutInv' /\ PostInv'
  BY DEF SourceInv, CopyInv, OutInv, PostInv, Contents
<1>6. SizeInv'
  <2>1. ASSUME NEW c \in Consumers, NEW k \in 1..Len(chan'[c]) PROVE HasItem(chan'[c][k])
    <3>1. CASE k \in 1..Len(chan[c])
      BY <1>1, <3>1 DEF SourceInv, SizeInv
    <3>2. CASE k = Len(chan[c]) + 1
      BY <1>1, <3>2
    <3> QED
      BY <1>1, <3>1, <3>2
  <2>2. \A c \in Consumers : consumer[c] = "copy" => HasItem(msg[c])
    BY DEF SourceInv, SizeInv
  <2> QED
    BY <2>1, <2>2 DEF SizeInv, HasItem, Contents
<1> QED
  BY <1>4, <1>5, <1>6 DEF SourceInv

\* A blob leaves the queue of one consumer, which begins to copy it.
LEMMA PopKept ==
    ASSUME Typed, SourceInv, NEW c \in Consumers, PopMsg(c) PROVE SourceInv'
<1>1. /\ chan[c] \in Seq(SomeBlob) /\ chan[c] # <<>>
      /\ chan' = [chan EXCEPT ![c] = Tail(chan[c])]
      /\ msg' = [msg EXCEPT ![c] = Head(chan[c])]
      /\ consumer[c] = "pop" /\ consumer' = [consumer EXCEPT ![c] = "copy"]
      /\ UNCHANGED <<producerVars, mem, store, offset, out>>
  BY DEF PopMsg, Typed, TypeOK
<1>2. PICK n \in Nat : Len(chan[c]) = n + 1
  <2>1. Len(chan[c]) \in Nat \ {0}
    BY <1>1, EmptySeq
  <2> QED
    BY <2>1
<1>3. /\ Len(Tail(chan[c])) = n /\ Head(chan[c]) \in SomeBlob /\ Head(chan[c]) = chan[c][1]
      /\ \A k \in 1..n : Tail(chan[c])[k] = chan[c][k + 1]
  BY <1>1, <1>2, HeadTailProperties
<1>4. offset[c] = 0
  BY <1>1 DEF Typed, OffsetInv
<1>5. PICK b \in SomeBlob : b = Head(chan[c])
  BY <1>3
<1>6. chan'[c] = Tail(chan[c]) /\ msg'[c] = b /\ consumer'[c] = "copy" /\ chan[c][1] = b
  BY <1>1, <1>3, <1>5 DEF Typed, TypeOK
<1>7. \A d \in Consumers : d # c =>
         chan'[d] = chan[d] /\ msg'[d] = msg[d] /\ consumer'[d] = consumer[d]
  BY <1>1 DEF Typed, TypeOK
<1>8. Posted' = Posted
  BY <1>1 DEF Posted
<1>9. PICK l \in Nat : l = Len(out[c])
  BY LenProperties DEF Typed, TypeOK
<1>10. Len(Contents(b)) \in Nat /\ out' = out /\ mem' = mem /\ offset' = offset
  BY <1>1, ContentsType
<1>11. PICK old \in [1..((n + 1) + 1) -> Nat] : Follows(c, old)
  BY <1>2 DEF SourceInv, QueueInv
<1>12. /\ old[1] = l /\ old[(n + 1) + 1] = Posted
       /\ \A k \in 1..((n + 1) + 1) : old[k] \in Nat /\ old[k] <= Posted
       /\ \A k \in 1..(n + 1) :
             /\ old[k + 1] = old[k] + Len(Contents(chan[c][k]))
             /\ \A j \in 1..Len(Contents(chan[c][k])) : Contents(chan[c][k])[j] = old[k] + j
  <2>1. Rest(c) = 0
    BY <1>1 DEF Rest
  <2> QED
    BY <1>2, <1>9, <1>11, <2>1 DEF Follows
<1>13. /\ old[2] = l + Len(Contents(b))
       /\ \A j \in 1..Len(Contents(b)) : Contents(b)[j] = l + j
  <2>1. 1 \in 1..(n + 1) /\ 1 + 1 = 2
    OBVIOUS
  <2> QED
    BY <1>6, <1>12, <2>1
<1>14. \E start \in [1..(Len(chan'[c]) + 1) -> Nat] : Follows(c, start)'
  <2> DEFINE new == [k \in 1..(n + 1) |-> old[k + 1]]
  <2>1. new \in [1..(n + 1) -> Nat] /\ \A k \in 1..(n + 1) : new[k] = old[k + 1]
    BY <1>12
  <2> HIDE DEF new
  <2>2. PICK start \in [1..(n + 1) -> Nat] : start = new
    BY <2>1
  <2>3. \A k \in 1..(n + 1) : start[k] = old[k + 1]
    BY <2>1, <2>2
  <2>4. Rest(c)' = Len(Contents(b))
    BY <1>4, <1>6, <1>10 DEF Rest, Contents
  <2>5. start[1] = l + Len(Contents(b)) /\ start[n + 1] = Posted
    <3>1. 1 \in 1..(n + 1) /\ n + 1 \in 1..(n + 1) /\ 1 + 1 = 2
      OBVIOUS
    <3> QED
      BY <1>12, <1>13, <2>3, <3>1
  <2>6. \A k \in 1..(n + 1) : start[k] <= Posted
    BY <1>12, <2>3
  <2>7. ASSUME NEW k \in 1..n
        PROVE  /\ start[k + 1] = start[k] + Len(Contents(chan'[c][k]))
               /\ \A j \in 1..Len(Contents(chan'[c][k])) : Contents(chan'[c][k])[j] = start[k] + j
    <3>1. chan'[c][k] = chan[c][k + 1]
      BY <1>3, <1>6
    <3>2. k \in 1..(n + 1) /\ k + 1 \in 1..(n + 1)
      OBVIOUS
    <3>3. start[k] = old[k + 1] /\ start[k + 1] = old[(k + 1) + 1]
      BY <2>3, <3>2
    <3> QED
      BY <1>12, <3>1, <3>2, <3>3
  <2>8. Len(chan'[c]) = n /\ Len(out'[c]) = l
    BY <1>3, <1>6, <1>9, <1>10
  <2>9. Follows(c, start)'
    BY <1>8, <1>10, <2>2, <2>4, <2>5, <2>6, <2>7, <2>8 DEF Follows, Contents
  <2> QED
    BY <2>8, <2>9
<1>15. ASSUME NEW d \in Consumers, d # c
       PROVE  \E start \in [1..(Len(chan'[d]) + 1) -> Nat] : Follows(d, start)'
  <2>1. PICK start \in [1..(Len(chan[d]) + 1) -> Nat] : Follows(d, start)
    BY DEF SourceInv, QueueInv
  <2>2. Rest(d)' = Rest(d)
    BY <1>7, <1>10, <1>15 DEF Rest, Contents
  <2>3. Follows(d, start)'
    BY <1>7, <1>8, <1>10, <1>15, <2>1, <2>2 DEF Follows, Contents
  <2> QED
    BY <1>7, <1>15, <2>3
<1>16. QueueInv'
  BY <1>14, <1>15 DEF QueueInv
<1>17. CopyInv'
  <2>1. ASSUME NEW d \in Consumers, consumer'[d] = "copy",
               NEW j \in (offset[d] + 1)..Len(Contents(msg'[d]))
        PROVE  Contents(msg'[d])[j] = Len(out[d]) - offset[d] + j
    <3>1. CASE d = c
      <4>1. j \in 1..Len(Contents(b)) /\ msg'[d] = b
        BY <1>4, <1>6, <2>1, <3>1
      <4>2. Contents(b)[j] = l + j
        BY <1>13, <4>1
      <4>3. Len(out[d]) - offset[d] + j = l + j
        BY <1>4, <1>9, <1>10, <3>1, <4>1
      <4> QED
        BY <4>1, <4>2, <4>3
    <3>2. CASE d # c
      BY <1>7, <2>1, <3>2 DEF SourceInv, CopyInv
    <3> QED
      BY <3>1, <3>2
  <2> QED
    BY <1>10, <2>1 DEF CopyInv, Contents
<1>18. SizeInv'
  <2>1. ASSUME NEW d \in Consumers
        PROVE  /\ consumer'[d] = "copy" => HasItem(msg'[d])
               /\ \A k \in 1..Len(chan'[d]) : HasItem(chan'[d][k])
    <3>1. CASE d = c
      <4>1. \A k \in 1..(n + 1) : HasItem(chan[c][k])
        BY <1>2 DEF SourceInv, SizeInv
      <4>2. HasItem(b)
        BY <1>6, <4>1
      <4>3. \A k \in 1..n : k + 1 \in 1..(n + 1) /\ chan'[c][k] = chan[c][k + 1]
        BY <1>3, <1>6
      <4>4. Len(chan'[c]) = n
        BY <1>3, <1>6
      <4> QED
        BY <1>6, <3>1, <4>1, <4>2, <4>3, <4>4
    <3>2. CASE d # c
      BY <1>7, <3>2 DEF SourceInv, SizeInv
    <3> QED
      BY <3>1, <3>2
  <2>2. producer' = producer /\ blob' = blob
    BY <1>1
  <2>3. producer = "post" => HasItem(blob)
    BY DEF SourceInv, SizeInv
  <2> QED
    BY <1>10, <2>1, <2>2, <2>3 DEF SizeInv, HasItem, Contents
<1>19. PostInv' /\ OutInv'
  BY <1>1 DEF SourceInv, PostInv, OutInv
<1> QED
  BY <1>16, <1>17, <1>18, <1>19 DEF SourceInv

\* A consumer copies the next m bytes of its blob.
LEMMA CopyKept ==
    ASSUME Typed, SourceInv, NEW c \in Consumers, NEW m \in Nat, consumer[c] = "copy",
           offset[c] + m <= Len(Contents(msg[c])),
           out' = [out EXCEPT ![c] = @ \o SubSeq(Contents(msg[c]), offset[c] + 1, offset[c] + m)],
           UNCHANGED <<producerVars, mem, chan>>, Rest(c)' = Rest(c) - m,
           consumer'[c] = "copy" => msg'[c] = msg[c] /\ offset'[c] = offset[c] + m,
           \A d \in Consumers : d # c =>
               consumer'[d] = consumer[d] /\ msg'[d] = msg[d] /\ offset'[d] = offset[d]
    PROVE  SourceInv'
<1>1. PICK data \in Seq(0..MaxBytes) : data = Contents(msg[c])
  BY ContentsType DEF Typed, TypeOK
<1>2. PICK f \in Nat : f = offset[c]
  BY MtuAssumption DEF Typed, TypeOK
<1>3. PICK l \in Nat : l = Len(out[c])
  BY LenProperties DEF Typed, TypeOK
<1>4. Len(data) \in Nat /\ f + m <= Len(data) /\ Rest(c) = Len(data) - f
  BY <1>1, <1>2, LenProperties DEF Rest
<1>5. \A j \in (f + 1)..Len(data) : data[j] = l - f + j
  BY <1>1, <1>2, <1>3 DEF SourceInv, CopyInv
<1> DEFINE part == SubSeq(data, f + 1, f + m)
<1>6. part \in Seq(0..MaxBytes) /\ Len(part) = m /\ \A j \in 1..m : part[j] = data[f + j]
  <2>1. \A j \in (f + 1)..(f + m) : data[j] \in 0..MaxBytes
    <3>1. \A j \in (f + 1)..(f + m) : j \in 1..Len(data)
      BY <1>4
    <3> QED
      BY <3>1, ElementOfSeq
  <2>2. /\ part \in Seq(0..MaxBytes)
        /\ Len(part) = IF f + 1 <= f + m THEN (f + m) - (f + 1) + 1 ELSE 0
        /\ \A j \in 1..((f + m) - (f + 1) + 1) : part[j] = data[(f + 1) + j - 1]
    BY <2>1, SubSeqProperties
  <2> HIDE DEF part
  <2>3. Len(part) = m
    BY <2>2
  <2>4. \A j \in 1..m : j \in 1..((f + m) - (f + 1) + 1) /\ (f + 1) + j - 1 = f + j
    OBVIOUS
  <2> QED
    BY <2>2, <2>3, <2>4
<1> HIDE DEF part
<1>7. out[c] \in Seq(0..MaxBytes) /\ out'[c] = out[c] \o part
  BY <1>1, <1>2 DEF Typed, TypeOK, part
<1>8. /\ Len(out'[c]) = l + m
      /\ \A k \in 1..(l + m) : out'[c][k] = IF k <= l THEN out[c][k] ELSE part[k - l]
  <2>1. /\ Len(out[c] \o part) = Len(out[c]) + Len(part)
        /\ \A k \in 1..(Len(out[c]) + Len(part)) : (out[c] \o part)[k] =
              IF k <= Len(out[c]) THEN out[c][k] ELSE part[k - Len(out[c])]
    <3> DEFINE B == 0..MaxBytes
    <3>1. out[c] \in Seq(B) /\ part \in Seq(B)
      BY <1>6, <1>7
    <3> HIDE DEF B
    <3> QED
      BY <3>1, ConcatProperties
  <2> QED
    BY <1>3, <1>6, <1>7, <2>1
<1>9. \A d \in Consumers : d # c => out'[d] = out[d]
  BY DEF Typed, TypeOK
<1>10. OutInv'
  <2>1. ASSUME NEW k \in 1..(l + m) PROVE out'[c][k] = k
    <3>1. CASE k <= l
      BY <1>3, <1>8, <3>1 DEF SourceInv, OutInv
    <3>2. CASE ~(k <= l)
      <4>1. k - l \in 1..m /\ f + (k - l) \in (f + 1)..Len(data)
        BY <1>4, <3>2
      <4>2. out'[c][k] = data[f + (k - l)]
        BY <1>6, <1>8, <3>2, <4>1
      <4>3. l - f + (f + (k - l)) = k
        OBVIOUS
      <4> QED
        BY <1>5, <4>1, <4>2, <4>3
    <3> QED
      BY <3>1, <3>2
  <2> QED
    BY <1>8, <1>9, <2>1 DEF SourceInv, OutInv
<1>11. Posted' = Posted /\ \A b : Contents(b)' = Contents(b)
  BY DEF Posted, Contents
<1>12. ASSUME NEW d \in Consumers
       PROVE  \E start \in [1..(Len(chan[d]) + 1) -> Nat] : Follows(d, start)'
  <2>1. PICK start \in [1..(Len(chan[d]) + 1) -> Nat] : Follows(d, start)
    BY DEF SourceInv, QueueInv
  <2>2. CASE d # c
    <3>1. Rest(d)' = Rest(d)
      BY <2>2 DEF Rest, Contents
    <3>2. Follows(d, start)'
      BY <1>9, <1>11, <2>1, <2>2, <3>1 DEF Follows, Contents
    <3> QED
      BY <3>2
  <2>3. CASE d = c
    <3>1. PICK from \in [1..(Len(chan[c]) + 1) -> Nat] : Follows(c, from)
      BY <2>1, <2>3
    <3>2. Len(out'[c]) + Rest(c)' = Len(out[c]) + Rest(c)
      <4>1. PICK r \in Int : r = Rest(c)
        BY <1>4
      <4>2. Rest(c)' = r - m
        BY <4>1
      <4>3. (l + m) + (r - m) = l + r
        OBVIOUS
      <4> QED
        BY <1>3, <1>8, <4>1, <4>2, <4>3
    <3>3. Follows(c, from)'
      BY <1>11, <3>1, <3>2 DEF Follows, Contents
    <3> QED
      BY <2>3, <3>3
  <2> QED
    BY <2>2, <2>3
<1>13. CopyInv'
  <2>1. ASSUME NEW d \in Consumers, consumer'[d] = "copy",
               NEW j \in (offset'[d] + 1)..Len(Contents(msg'[d]))
        PROVE  Contents(msg'[d])[j] = Len(out'[d]) - offset'[d] + j
    <3>1. CASE d = c
      <4>1. /\ offset'[d] = f + m /\ Contents(msg'[d]) = data /\ Len(out'[d]) = l + m
        BY <1>1, <1>2, <1>8, <2>1, <3>1
      <4>2. j \in (f + 1)..Len(data) /\ (l + m) - (f + m) + j = l - f + j
        BY <2>1, <4>1, <1>4
      <4> QED
        BY <1>5, <4>1, <4>2
    <3>2. CASE d # c
      BY <1>9, <2>1, <3>2 DEF SourceInv, CopyInv
    <3> QED
      BY <3>1, <3>2
  <2> QED
    BY <2>1 DEF CopyInv, Contents
<1>14. SizeInv'
  <2>1. \A d \in Consumers : consumer'[d] = "copy" => HasItem(msg'[d])
    BY DEF SourceInv, SizeInv
  <2> QED
    BY <2>1 DEF SourceInv, SizeInv, HasItem, Contents
<1>15. PostInv'
  BY DEF SourceInv, PostInv
<1> QED
  BY <1>10, <1>12, <1>13, <1>14, <1>15 DEF SourceInv, QueueInv

\* The tags play no part.
LEMMA SourceKept ==
    ASSUME SourceInv, UNCHANGED <<producerVars, mem, chan, consumerVars>> PROVE SourceInv'
<1>1. Posted' = Posted
  BY DEF Posted
<1>2. \A c \in Consumers : Rest(c)' = Rest(c)
  BY DEF Rest, Contents
<1>3. ASSUME NEW c \in Consumers
      PROVE  \E start \in [1..(Len(chan[c]) + 1) -> Nat] : Follows(c, start)'
  <2>1. PICK start \in [1..(Len(chan[c]) + 1) -> Nat] : Follows(c, start)
    BY DEF SourceInv, QueueInv
  <2>2. Follows(c, start)'
    BY <1>1, <1>2, <2>1 DEF Follows, Contents
  <2> QED
    BY <2>2
<1>4. CopyInv' /\ PostInv' /\ OutInv'
  BY DEF SourceInv, CopyInv, PostInv, OutInv, Contents
<1>5. SizeInv'
  BY DEF SourceInv, SizeInv, HasItem, Contents
<1> QED
  BY <1>3, <1>4, <1>5 DEF SourceInv, QueueInv

\* The producer fills a blob with the next bytes, posts it, or ends.
LEMMA ProducerSource ==
    ASSUME NoLoss PROVE Typed /\ SourceInv /\ (ProducerStep \/ PostStop \/ DropTag) => SourceInv'
<1> SUFFICES ASSUME Typed, SourceInv, ProducerStep \/ PostStop \/ DropTag PROVE SourceInv'
  OBVIOUS
<1>1. ASSUME NEW b \in Blobs, Acquire(b) PROVE SourceInv'
  <2>1. Posted' = Posted /\ producer' # "post"
    BY <1>1 DEF Acquire, Posted
  <2>2. /\ QueueInv' /\ CopyInv' /\ OutInv'
        /\ \A c \in Consumers : consumer'[c] = "copy" => HasItem(msg[c])'
        /\ \A c \in Consumers : \A k \in 1..Len(chan'[c]) : HasItem(chan[c][k])'
    BY <1>1, <2>1, QueueKept DEF Acquire, SourceInv, Contents
  <2> QED
    BY <2>1, <2>2 DEF SourceInv, PostInv, SizeInv
<1>2. ASSUME NEW n \in ReadSizes, Write(n) PROVE SourceInv'
  <2>1. /\ blob \in Blobs /\ mem[blob] \in Seq(0..MaxBytes)
        /\ mem' = [mem EXCEPT ![blob] = Filled(mem[blob], n)]
        /\ sent \in Nat /\ n \in Nat /\ sent + n <= MaxBytes /\ sent' = sent + n
        /\ producer = "write" /\ producer' = "post" /\ blob' = blob
    BY <1>2, ReadSizesAssumption, MtuAssumption, MaxBytesAssumption DEF Write, Typed, TypeOK
  <2>2. /\ Len(Filled(mem[blob], n)) = n
        /\ \A k \in 1..n : Filled(mem[blob], n)[k] = sent + k
    BY <2>1, FilledType DEF Typed, TypeOK, Bytes, NoLoss
  <2>3. mem'[blob] = Filled(mem[blob], n)
    BY <2>1 DEF Typed, TypeOK
  <2>4. Posted' = Posted
    <3>1. Posted = sent
      BY <2>1 DEF Posted
    <3>2. Posted' = (sent + n) - n
      BY <2>1, <2>2, <2>3 DEF Posted
    <3> QED
      BY <2>1, <3>1, <3>2
  <2>5. \A b \in SomeBlob : b # blob => Contents(b)' = Contents(b)
    BY <2>1 DEF Contents, SomeBlob, Typed, TypeOK
  <2>6. /\ QueueInv' /\ CopyInv' /\ OutInv'
        /\ \A c \in Consumers : consumer'[c] = "copy" => HasItem(msg[c])'
        /\ \A c \in Consumers : \A k \in 1..Len(chan'[c]) : HasItem(chan[c][k])'
    BY <1>2, <2>4, <2>5, QueueKept DEF Write, SourceInv
  <2>7. PostInv'
    <3>1. Len(mem'[blob']) = n
      BY <2>1, <2>2, <2>3
    <3>2. \A j \in 1..n : mem'[blob'][j] = sent + j
      BY <2>1, <2>2, <2>3
    <3>3. sent' - n = sent /\ n <= sent'
      BY <2>1
    <3> QED
      BY <3>1, <3>2, <3>3 DEF PostInv
  <2>8. HasItem(blob)'
    <3>1. blob # StopBlob /\ Contents(blob)' = mem'[blob]
      BY <2>1, BlobsAssumption DEF Contents
    <3>2. mem'[blob] \in Seq(0..MaxBytes) /\ Len(mem'[blob]) = n
      BY <2>1, <2>2, <2>3, FilledType DEF Typed, TypeOK, Bytes
    <3>3. n = 0 => mem'[blob] = <<>>
      <4>1. mem'[blob] # <<>> => Len(mem'[blob]) # 0
        BY <3>2, EmptySeq
      <4> QED
        BY <3>2, <4>1
    <3>4. n = 0 \/ n >= ItemSize
      BY DEF NoLoss
    <3> QED
      BY <3>1, <3>2, <3>3, <3>4 DEF HasItem
  <2> QED
    BY <2>6, <2>7, <2>8 DEF SourceInv, SizeInv
<1>3. CASE Post
  <2>1. /\ producer = "post" /\ blob \in Blobs /\ blob # StopBlob
        /\ sent \in Nat /\ Len(mem[blob]) \in Nat
        /\ \A j \in 1..Len(mem[blob]) : mem[blob][j] = sent - Len(mem[blob]) + j
    <3>1. producer = "post" /\ blob \in Blobs /\ blob # StopBlob /\ sent \in Nat
      BY <1>3, BlobsAssumption, MaxBytesAssumption DEF Post, Typed, TypeOK
    <3>2. mem[blob] \in Seq(0..MaxBytes)
      BY <3>1 DEF Typed, TypeOK
    <3> QED
      BY <3>1, <3>2, LenProperties DEF SourceInv, PostInv
  <2>2. blob \in SomeBlob /\ Contents(blob) = mem[blob]
    BY <2>1 DEF SomeBlob, Contents
  <2>3. Posted = sent - Len(mem[blob]) /\ Posted' = sent
    BY <1>3, <2>1 DEF Post, Posted
  <2>4. PICK b \in SomeBlob : b = blob
    BY <2>2
  <2>5. /\ Posted' = Posted + Len(Contents(b))
        /\ \A j \in 1..Len(Contents(b)) : Contents(b)[j] = Posted + j
    <3>1. Contents(b) = mem[blob]
      BY <2>2, <2>4
    <3>2. Posted' = Posted + Len(mem[blob])
      BY <2>1, <2>3
    <3>3. \A j \in 1..Len(mem[blob]) : mem[blob][j] = Posted + j
      BY <2>1, <2>3
    <3> QED
      BY <3>1, <3>2, <3>3
  <2>6. HasItem(b)
    BY <2>1, <2>4 DEF SourceInv, SizeInv
  <2> QED
    BY <1>3, <2>4, <2>5, <2>6, AppendKept DEF Post
<1>4. CASE PostStop
  <2>1. /\ StopBlob \in SomeBlob /\ Contents(StopBlob) = <<>> /\ Len(Contents(StopBlob)) = 0
        /\ HasItem(StopBlob)
    BY DEF SomeBlob, Contents, HasItem
  <2>2. Posted' = Posted /\ Posted \in Nat
    BY <1>4, PostedType DEF PostStop, Posted, SourceInv
  <2>3. /\ Posted' = Posted + Len(Contents(StopBlob))
        /\ \A j \in 1..Len(Contents(StopBlob)) : Contents(StopBlob)[j] = Posted + j
    BY <2>1, <2>2
  <2> QED
    BY <1>4, <2>1, <2>3, AppendKept DEF PostStop
<1>5. CASE DropTag
  BY <1>5, SourceKept DEF DropTag
<1> QED
  BY <1>1, <1>2, <1>3, <1>4, <1>5 DEF ProducerStep

\* A consumer pops a blob, copies of it, or leaves.
LEMMA ConsumerSource ==
    ASSUME NoLoss, Typed, SourceInv, NEW c \in Consumers, ConsumerStep(c) PROVE SourceInv'
<1>1. CASE PopMsg(c)
  BY <1>1, PopKept
<1>2. CASE LeaveOnEmpty(c)
  <2>1. /\ consumer[c] = "copy" /\ Contents(msg[c]) = <<>>
        /\ consumer' = [consumer EXCEPT ![c] = "done"]
        /\ msg' = [msg EXCEPT ![c] = IF c \in Streams THEN @ ELSE NoBlob]
        /\ UNCHANGED <<producerVars, mem, store, chan, offset, out>>
    BY <1>2 DEF LeaveOnEmpty
  <2>2. Len(Contents(msg[c])) = 0 /\ offset[c] = 0
    BY <2>1, MtuAssumption DEF Typed, TypeOK, OffsetInv
  <2>3. /\ consumer'[c] = "done"
        /\ \A d \in Consumers : d # c => consumer'[d] = consumer[d] /\ msg'[d] = msg[d]
    BY <2>1 DEF Typed, TypeOK
  <2>4. ASSUME NEW d \in Consumers
        PROVE  \E start \in [1..(Len(chan[d]) + 1) -> Nat] : Follows(d, start)'
    <3>1. PICK start \in [1..(Len(chan[d]) + 1) -> Nat] : Follows(d, start)
      BY DEF SourceInv, QueueInv
    <3>2. Rest(d)' = Rest(d)
      <4>1. CASE d = c
        BY <2>1, <2>2, <2>3, <4>1 DEF Rest
      <4>2. CASE d # c
        BY <2>1, <2>3, <4>2 DEF Rest, Contents
      <4> QED
        BY <4>1, <4>2
    <3>3. Follows(d, start)'
      BY <2>1, <3>1, <3>2 DEF Follows, Posted, Contents
    <3> QED
      BY <3>3
  <2>5. CopyInv' /\ SizeInv'
    <3>1. \A d \in Consumers : consumer'[d] = "copy" =>
             d # c /\ consumer[d] = "copy" /\ msg'[d] = msg[d]
      BY <2>3
    <3> QED
      BY <2>1, <3>1 DEF SourceInv, CopyInv, SizeInv, HasItem, Contents
  <2> QED
    BY <2>1, <2>4, <2>5 DEF SourceInv, QueueInv, PostInv, OutInv
<1>3. ASSUME NEW n \in 1..Mtu, CopyToStream(c, n) PROVE SourceInv'
  <2>1. PICK m \in Nat :
           /\ c \in Streams /\ msg[c] \in SomeBlob
           /\ offset[c] \in Nat /\ offset[c] < Len(Contents(msg[c]))
           /\ offset[c] + m <= Len(Contents(msg[c]))
           /\ out' = [out EXCEPT ![c] =
                         @ \o SubSeq(Contents(msg[c]), offset[c] + 1, offset[c] + m)]
           /\ offset' = [offset EXCEPT ![c] =
                            IF offset[c] + m = Len(Contents(msg[c])) THEN 0 ELSE offset[c] + m]
           /\ consumer' = [consumer EXCEPT ![c] = IF offset'[c] = 0 THEN "pop" ELSE "copy"]
           /\ UNCHANGED <<producerVars, mem, store, chan, msg>>
           /\ Len(Contents(msg[c])) - offset[c] >= ItemSize => m > 0
    BY <1>3, CopyTyped
  <2>2. consumer[c] = "copy" /\ Len(Contents(msg[c])) \in Nat
    BY <1>3, <2>1, ContentsType DEF CopyToStream
  <2>3. \A d \in Consumers : d # c =>
           consumer'[d] = consumer[d] /\ msg'[d] = msg[d] /\ offset'[d] = offset[d]
    BY <2>1 DEF Typed, TypeOK
  <2>4. /\ offset'[c] = IF offset[c] + m = Len(Contents(msg[c])) THEN 0 ELSE offset[c] + m
        /\ consumer'[c] = IF offset'[c] = 0 THEN "pop" ELSE "copy"
    BY <2>1 DEF Typed, TypeOK
  <2>5. CASE offset[c] + m = Len(Contents(msg[c]))
    <3>1. Rest(c)' = Rest(c) - m /\ consumer'[c] = "pop"
      BY <2>1, <2>2, <2>4, <2>5 DEF Rest
    <3> QED
      BY <2>1, <2>2, <2>3, <3>1, CopyKept
  <2>6. CASE offset[c] + m # Len(Contents(msg[c]))
    <3>0. offset[c] = 0 => m > 0
      <4>1. Len(Contents(msg[c])) >= ItemSize
        BY <2>1, <2>2 DEF SourceInv, SizeInv, HasItem
      <4> QED
        BY <2>1, <2>2, <4>1, ItemSizeAssumption
    <3>1. offset'[c] = offset[c] + m /\ offset'[c] # 0 /\ consumer'[c] = "copy"
      BY <2>1, <2>4, <2>6, <3>0
    <3>2. Rest(c)' = Rest(c) - m
      BY <2>1, <2>2, <3>1 DEF Rest, Contents
    <3> QED
      BY <2>1, <2>2, <2>3, <3>1, <3>2, CopyKept
  <2> QED
    BY <2>5, <2>6
<1>4. ASSUME NEW n \in 0..Mtu, WriteOut(c, n) PROVE SourceInv'
  <2>1. /\ c \in Writers /\ consumer[c] = "copy" /\ n = Len(Contents(msg[c]))
        /\ out' = [out EXCEPT ![c] = @ \o SubSeq(Contents(msg[c]), 1, n)]
        /\ msg' = [msg EXCEPT ![c] = NoBlob]
        /\ consumer' = [consumer EXCEPT ![c] = "pop"]
        /\ UNCHANGED <<producerVars, mem, store, chan, offset>>
    BY <1>4 DEF WriteOut, NoLoss
  <2>2. offset[c] = 0 /\ n \in Nat
    BY <2>1, MtuAssumption DEF Typed, OffsetInv
  <2>3. /\ consumer'[c] = "pop"
        /\ \A d \in Consumers : d # c =>
              consumer'[d] = consumer[d] /\ msg'[d] = msg[d] /\ offset'[d] = offset[d]
    BY <2>1 DEF Typed, TypeOK
  <2>4. Rest(c)' = Rest(c) - n
    BY <2>1, <2>2, <2>3 DEF Rest
  <2>5. /\ offset[c] + n <= Len(Contents(msg[c]))
        /\ out' = [out EXCEPT ![c] = @ \o SubSeq(Contents(msg[c]), offset[c] + 1, offset[c] + n)]
    <3>1. offset[c] + 1 = 1 /\ offset[c] + n = n
      BY <2>2
    <3> QED
      BY <2>1, <2>2, <3>1
  <2>6. UNCHANGED <<producerVars, mem, chan>> /\ consumer'[c] # "copy"
    BY <2>1, <2>3
  <2> QED
    BY <2>1, <2>2, <2>3, <2>4, <2>5, <2>6, CopyKept
<1> QED
  BY <1>1, <1>2, <1>3, <1>4 DEF ConsumerStep

LEMMA NextSource == ASSUME NoLoss PROVE Typed /\ SourceInv /\ [Next]_vars => SourceInv'
<1> SUFFICES ASSUME Typed, SourceInv, [Next]_vars PROVE SourceInv'
  OBVIOUS
<1>1. CASE UNCHANGED vars
  BY <1>1, SourceKept DEF vars
<1>2. CASE Idle
  BY <1>1, <1>2 DEF Idle
<1> QED
  BY <1>1, <1>2, ProducerSource, ConsumerSource DEF Next

\* What the consumers copy out is an initial part of the source, where no read, write
\* or item size loses bytes.
THEOREM IntactCorrect == ASSUME NoLoss PROVE Spec => []Intact
<1> QED
  BY InitTyped, NextTyped, InitSource, NextSource, SourceIntact, PTL DEF Spec

-----------------------------------------------------------------------------
(* The stop of a stream_to_blob *)

\* The empty blob that stop() posts is the last on every way, behind blobs that have
\* data, and who has met it has met all the others.
StopsAt(c) ==
    /\ \A k \in 1..Len(chan[c]) :
          IF chan[c][k] = StopBlob THEN k = Len(chan[c]) /\ producer = "done"
                                   ELSE Contents(chan[c][k]) # <<>>
    /\ consumer[c] = "copy" =>
          IF msg[c] = StopBlob THEN chan[c] = <<>> /\ producer = "done"
                               ELSE Contents(msg[c]) # <<>>
    /\ consumer[c] = "done" => chan[c] = <<>> /\ producer = "done"

StopInv ==
    kind = "stream" =>
        /\ producer = "post" => Contents(blob) # <<>>
        /\ \A c \in Consumers : StopsAt(c)

\* A stream_to_blob's consumers end only after it has, and with all its bytes.
EndsComplete ==
    kind = "stream" =>
        \A c \in Consumers :
            consumer[c] = "done" => producer = "done" /\ Len(out[c]) = sent

LEMMA ProducerStop == Typed /\ StopInv /\ (ProducerStep \/ PostStop \/ DropTag) => StopInv'
<1> SUFFICES ASSUME Typed, StopInv, ProducerStep \/ PostStop \/ DropTag, kind' = "stream"
             PROVE  /\ producer' = "post" => Contents(blob)' # <<>>
                    /\ \A c \in Consumers : StopsAt(c)'
  BY DEF StopInv
<1>0. kind = "stream"
  BY DEF ProducerStep, PostStop, DropTag, Acquire, Write, Post, producerVars
<1>1. ASSUME NEW b \in Blobs, Acquire(b)
      PROVE  producer' # "post" /\ \A c \in Consumers : StopsAt(c)'
  BY <1>0, <1>1 DEF Acquire, StopInv, StopsAt, consumerVars, Contents
<1>2. ASSUME NEW n \in ReadSizes, Write(n)
      PROVE  Contents(blob)' # <<>> /\ \A c \in Consumers : StopsAt(c)'
  <2>1. /\ blob \in Blobs /\ blob # NoBlob /\ mem[blob] \in Seq(0..MaxBytes)
        /\ mem' = [mem EXCEPT ![blob] = Filled(mem[blob], n)]
        /\ sent \in Nat /\ n \in Nat /\ n > 0 /\ sent + n <= MaxBytes
        /\ producer = "write" /\ producer' = "post" /\ blob' = blob
        /\ UNCHANGED <<chan, consumer, msg>>
    BY <1>0, <1>2, BlobsAssumption, ReadSizesAssumption, MtuAssumption, MaxBytesAssumption
       DEF Write, Typed, TypeOK, consumerVars
  <2>2. Len(Filled(mem[blob], n)) = n
    BY <2>1, FilledType DEF Typed, TypeOK, Bytes
  <2>3. mem'[blob] = Filled(mem[blob], n) /\ \A b \in Blobs : b # blob => mem'[b] = mem[b]
    BY <2>1 DEF Typed, TypeOK
  <2>4. mem'[blob] # <<>>
    BY <2>1, <2>2, <2>3
  <2>5. Contents(blob)' # <<>>
    BY <2>1, <2>4, BlobsAssumption DEF Contents
  <2>6. \A b \in SomeBlob : b # blob => Contents(b)' = Contents(b)
    BY <2>3 DEF SomeBlob, Contents
  <2>7. ASSUME NEW c \in Consumers PROVE StopsAt(c)'
    <3>1. StopsAt(c)
      BY <1>0 DEF StopInv
    <3>2. consumer[c] # "done"
      BY <2>1, <3>1 DEF StopsAt
    <3>3. \A k \in 1..Len(chan[c]) : chan[c][k] \in SomeBlob /\ chan[c][k] # blob /\ chan[c][k] # StopBlob
      <4>1. chan[c] \in Seq(SomeBlob)
        BY DEF Typed, TypeOK
      <4>2. DOMAIN chan[c] = 1..Len(chan[c])
        BY <4>1, LenProperties
      <4>3. \A k \in 1..Len(chan[c]) : chan[c][k] \in SomeBlob
        BY <4>1, ElementOfSeq
      <4>4. \A k \in 1..Len(chan[c]) : chan[c][k] # blob
        BY <2>1, <4>2 DEF Typed, WrittenAlone
      <4>5. \A k \in 1..Len(chan[c]) : chan[c][k] # StopBlob
        BY <2>1, <3>1 DEF StopsAt
      <4> QED
        BY <4>3, <4>4, <4>5
    <3>4. consumer[c] = "copy" => msg[c] \in SomeBlob /\ msg[c] # blob /\ msg[c] # StopBlob
      BY <2>1, <3>1 DEF StopsAt, Typed, TypeOK, WrittenAlone
    <3>5. ASSUME NEW k \in 1..Len(chan[c])
          PROVE  chan[c][k] # StopBlob /\ Contents(chan[c][k])' # <<>>
      <4>1. Contents(chan[c][k]) # <<>> /\ chan'[c][k] = chan[c][k]
        BY <2>1, <3>1, <3>3 DEF StopsAt
      <4> QED
        BY <2>3, <3>3, <4>1 DEF Contents, SomeBlob
    <3>6. ASSUME consumer[c] = "copy"
          PROVE  msg[c] # StopBlob /\ Contents(msg[c])' # <<>>
      <4>1. Contents(msg[c]) # <<>> /\ msg'[c] = msg[c]
        BY <2>1, <3>1, <3>4, <3>6 DEF StopsAt
      <4> QED
        BY <2>3, <3>4, <3>6, <4>1 DEF Contents, SomeBlob
    <3> QED
      BY <2>1, <3>2, <3>5, <3>6 DEF StopsAt, Contents
  <2> QED
    BY <2>5, <2>7
<1>3. CASE Post
  <2>1. /\ producer = "post" /\ producer' = "acquire" /\ blob \in Blobs
        /\ chan' = [c \in Consumers |-> Append(chan[c], blob)]
        /\ UNCHANGED <<mem, consumer, msg>> /\ Contents(blob) # <<>> /\ blob # StopBlob
    BY <1>0, <1>3, BlobsAssumption DEF Post, StopInv, Typed, TypeOK, consumerVars
  <2>2. ASSUME NEW c \in Consumers PROVE StopsAt(c)'
    <3>1. StopsAt(c)
      BY <1>0 DEF StopInv
    <3>2. /\ chan[c] \in Seq(SomeBlob) /\ blob \in SomeBlob /\ chan'[c] = Append(chan[c], blob)
      BY <2>1 DEF Typed, TypeOK, SomeBlob
    <3>3. PICK n \in Nat : n = Len(chan[c])
      BY <3>2, LenProperties
    <3>4. /\ Len(chan'[c]) = n + 1
          /\ \A k \in 1..n : chan'[c][k] = chan[c][k]
          /\ chan'[c][n + 1] = blob
      BY <3>2, <3>3, AppendProperties
    <3>5. \A k \in 1..n : chan[c][k] # StopBlob /\ Contents(chan[c][k]) # <<>>
      BY <2>1, <3>1, <3>3 DEF StopsAt
    <3>6. \A k \in 1..(n + 1) : chan'[c][k] # StopBlob /\ Contents(chan'[c][k]) # <<>>
      <4>1. \A k \in 1..(n + 1) : k \in 1..n \/ k = n + 1
        OBVIOUS
      <4> QED
        BY <2>1, <3>4, <3>5, <4>1
    <3>7. consumer[c] = "copy" => msg[c] # StopBlob /\ Contents(msg[c]) # <<>>
      BY <2>1, <3>1 DEF StopsAt
    <3>8. consumer[c] # "done"
      BY <2>1, <3>1 DEF StopsAt
    <3> QED
      BY <2>1, <3>4, <3>6, <3>7, <3>8 DEF StopsAt, Contents
  <2> QED
    BY <2>1, <2>2
<1>4. CASE PostStop
  <2>1. /\ producer = "acquire" /\ producer' = "done"
        /\ chan' = [c \in Consumers |-> Append(chan[c], StopBlob)]
        /\ UNCHANGED <<mem, consumer, msg>>
    BY <1>4 DEF PostStop, consumerVars
  <2>2. ASSUME NEW c \in Consumers PROVE StopsAt(c)'
    <3>1. StopsAt(c)
      BY <1>0 DEF StopInv
    <3>2. /\ chan[c] \in Seq(SomeBlob) /\ StopBlob \in SomeBlob /\ chan'[c] = Append(chan[c], StopBlob)
      BY <2>1 DEF Typed, TypeOK, SomeBlob
    <3>3. PICK n \in Nat : n = Len(chan[c])
      BY <3>2, LenProperties
    <3>4. /\ Len(chan'[c]) = n + 1
          /\ \A k \in 1..n : chan'[c][k] = chan[c][k]
          /\ chan'[c][n + 1] = StopBlob
      BY <3>2, <3>3, AppendProperties
    <3>5. \A k \in 1..n : chan[c][k] # StopBlob /\ Contents(chan[c][k]) # <<>>
      BY <2>1, <3>1, <3>3 DEF StopsAt
    <3>6. \A k \in 1..(n + 1) :
             IF chan'[c][k] = StopBlob THEN k = n + 1 ELSE Contents(chan'[c][k]) # <<>>
      <4>1. \A k \in 1..(n + 1) : k \in 1..n \/ k = n + 1
        OBVIOUS
      <4> QED
        BY <3>4, <3>5, <4>1
    <3>7. consumer[c] = "copy" => msg[c] # StopBlob /\ Contents(msg[c]) # <<>>
      BY <2>1, <3>1 DEF StopsAt
    <3>8. consumer[c] # "done"
      BY <2>1, <3>1 DEF StopsAt
    <3> QED
      BY <2>1, <3>4, <3>6, <3>7, <3>8 DEF StopsAt, Contents
  <2> QED
    BY <2>1, <2>2
<1>5. CASE DropTag
  BY <1>0, <1>5 DEF DropTag, StopInv, StopsAt, producerVars, consumerVars, Contents
<1> QED
  BY <1>1, <1>2, <1>3, <1>4, <1>5 DEF ProducerStep, Write

LEMMA ConsumerStop ==
    ASSUME Typed, StopInv, NEW c \in Consumers, ConsumerStep(c) PROVE StopInv'
<1> SUFFICES ASSUME kind' = "stream"
             PROVE  /\ producer' = "post" => Contents(blob)' # <<>>
                    /\ \A d \in Consumers : StopsAt(d)'
  BY DEF StopInv
<1>1. UNCHANGED <<kind, producer, blob, mem>>
  BY DEF ConsumerStep, PopMsg, LeaveOnEmpty, CopyToStream, WriteOut, producerVars
<1>2. /\ producer' = "post" => Contents(blob)' # <<>>
      /\ \A d \in Consumers : StopsAt(d)
  BY <1>1 DEF StopInv, Contents
<1>3. ASSUME NEW d \in Consumers, d # c PROVE StopsAt(d)'
  <2>1. chan'[d] = chan[d] /\ consumer'[d] = consumer[d] /\ msg'[d] = msg[d]
    <3>1. CASE PopMsg(c)
      BY <1>3, <3>1 DEF PopMsg, Typed, TypeOK
    <3>2. CASE LeaveOnEmpty(c)
      BY <1>3, <3>2 DEF LeaveOnEmpty, Typed, TypeOK
    <3>3. ASSUME NEW n \in 1..Mtu, CopyToStream(c, n) PROVE <2>1
      BY <1>3, <3>3 DEF CopyToStream, Typed, TypeOK
    <3>4. ASSUME NEW n \in 0..Mtu, WriteOut(c, n) PROVE <2>1
      BY <1>3, <3>4 DEF WriteOut, Typed, TypeOK
    <3> QED
      BY <3>1, <3>2, <3>3, <3>4 DEF ConsumerStep
  <2> QED
    BY <1>1, <1>2, <2>1 DEF StopsAt, Contents
<1>4. StopsAt(c)'
  <2>1. CASE PopMsg(c)
    <3>1. /\ chan[c] \in Seq(SomeBlob) /\ chan[c] # <<>>
          /\ chan'[c] = Tail(chan[c]) /\ msg'[c] = Head(chan[c]) /\ consumer'[c] = "copy"
      BY <2>1 DEF PopMsg, Typed, TypeOK
    <3>2. PICK n \in Nat : Len(chan[c]) = n + 1
      <4>1. Len(chan[c]) \in Nat \ {0}
        BY <3>1, EmptySeq
      <4>2. Len(chan[c]) - 1 \in Nat /\ Len(chan[c]) = (Len(chan[c]) - 1) + 1
        BY <4>1
      <4> QED
        BY <4>2
    <3>3. /\ Len(chan'[c]) = n /\ \A k \in 1..n : chan'[c][k] = chan[c][k + 1]
          /\ chan'[c] \in Seq(SomeBlob) /\ Head(chan[c]) = chan[c][1]
      BY <3>1, <3>2, HeadTailProperties
    <3>4. \A k \in 1..(n + 1) :
             IF chan[c][k] = StopBlob THEN k = n + 1 /\ producer = "done"
                                      ELSE Contents(chan[c][k]) # <<>>
      BY <1>2, <3>2 DEF StopsAt
    <3>5. \A k \in 1..n :
             IF chan'[c][k] = StopBlob THEN k = n /\ producer = "done"
                                       ELSE Contents(chan'[c][k]) # <<>>
      <4> SUFFICES ASSUME NEW k \in 1..n
                   PROVE  IF chan'[c][k] = StopBlob THEN k = n /\ producer = "done"
                                                    ELSE Contents(chan'[c][k]) # <<>>
        OBVIOUS
      <4>1. k + 1 \in 1..(n + 1) /\ chan'[c][k] = chan[c][k + 1]
        BY <3>3
      <4>2. CASE chan'[c][k] = StopBlob
        <5>1. k + 1 = n + 1 /\ producer = "done"
          BY <3>4, <4>1, <4>2
        <5> QED
          BY <4>2, <5>1
      <4>3. CASE chan'[c][k] # StopBlob
        BY <3>4, <4>1, <4>3
      <4> QED
        BY <4>2, <4>3
    <3>6. IF msg'[c] = StopBlob THEN chan'[c] = <<>> /\ producer = "done"
                                ELSE Contents(msg'[c]) # <<>>
      <4>1. 1 \in 1..(n + 1) /\ msg'[c] = chan[c][1]
        BY <3>1, <3>3
      <4>2. CASE msg'[c] = StopBlob
        <5>1. 1 = n + 1 /\ producer = "done"
          BY <3>4, <4>1, <4>2
        <5>2. Len(chan'[c]) = 0
          BY <3>3, <5>1
        <5>3. chan'[c] = <<>>
          BY <3>3, <5>2, EmptySeq
        <5> QED
          BY <4>2, <5>1, <5>3
      <4>3. CASE msg'[c] # StopBlob
        BY <3>4, <4>1, <4>3
      <4> QED
        BY <4>2, <4>3
    <3> QED
      BY <1>1, <3>1, <3>3, <3>5, <3>6 DEF StopsAt, Contents
  <2>2. CASE LeaveOnEmpty(c)
    <3>1. consumer[c] = "copy" /\ Contents(msg[c]) = <<>> /\ consumer'[c] = "done" /\ chan' = chan
      BY <2>2 DEF LeaveOnEmpty, Typed, TypeOK
    <3>2. chan[c] = <<>> /\ producer = "done"
      BY <1>2, <3>1 DEF StopsAt
    <3> QED
      BY <1>1, <3>1, <3>2 DEF StopsAt
  <2>3. ASSUME NEW n \in 1..Mtu, CopyToStream(c, n) PROVE StopsAt(c)'
    <3>1. /\ chan' = chan /\ msg' = msg /\ consumer'[c] \in {"pop", "copy"} /\ consumer[c] = "copy"
      BY <2>3 DEF CopyToStream, Typed, TypeOK
    <3> QED
      BY <1>1, <1>2, <3>1 DEF StopsAt, Contents
  <2>4. ASSUME NEW n \in 0..Mtu, WriteOut(c, n) PROVE StopsAt(c)'
    <3>1. chan' = chan /\ consumer'[c] = "pop"
      BY <2>4 DEF WriteOut, Typed, TypeOK
    <3> QED
      BY <1>1, <1>2, <3>1 DEF StopsAt, Contents
  <2> QED
    BY <2>1, <2>2, <2>3, <2>4 DEF ConsumerStep
<1> QED
  BY <1>2, <1>3, <1>4

LEMMA NextStop == Typed /\ StopInv /\ [Next]_vars => StopInv'
<1> SUFFICES ASSUME Typed, StopInv, [Next]_vars PROVE StopInv'
  OBVIOUS
<1>1. CASE UNCHANGED vars
  BY <1>1 DEF vars, StopInv, StopsAt, Contents
<1>2. CASE Idle
  BY <1>1, <1>2 DEF Idle
<1> QED
  BY <1>1, <1>2, ProducerStop, ConsumerStop DEF Next

\* Where no bytes are lost, the consumers of a stream_to_blob do not end before it has
\* stopped, and not before they have copied out every byte that it took from its stream.
THEOREM EndsCompleteCorrect == ASSUME NoLoss PROVE Spec => []EndsComplete
<1>1. Init => StopInv
  <2> SUFFICES ASSUME Init PROVE StopInv
    OBVIOUS
  <2>1. producer = "acquire"
    BY DEF Init
  <2>2. ASSUME NEW c \in Consumers PROVE StopsAt(c)
    <3>1. Len(chan[c]) = 0 /\ consumer[c] = "pop"
      BY DEF Init
    <3>2. 1..Len(chan[c]) = {}
      BY <3>1
    <3> QED
      BY <3>1, <3>2 DEF StopsAt
  <2> QED
    BY <2>1, <2>2 DEF StopInv
<1>2. Typed /\ SourceInv /\ StopInv => EndsComplete
  <2> SUFFICES ASSUME Typed, SourceInv, StopInv, kind = "stream",
                      NEW c \in Consumers, consumer[c] = "done"
               PROVE  producer = "done" /\ Len(out[c]) = sent
    BY DEF EndsComplete
  <2>1. chan[c] = <<>> /\ producer = "done"
    BY DEF StopInv, StopsAt
  <2>2. PICK start \in [1..(Len(chan[c]) + 1) -> Nat] : Follows(c, start)
    BY DEF SourceInv, QueueInv
  <2>3. start[1] = Len(out[c]) + Rest(c) /\ start[0 + 1] = Posted
    BY <2>1, <2>2 DEF Follows
  <2>4. Rest(c) = 0 /\ Posted = sent - 0
    BY <2>1 DEF Rest, Posted
  <2>5. Len(out[c]) \in Nat /\ sent \in Nat
    BY LenProperties, MaxBytesAssumption DEF Typed, TypeOK
  <2> QED
    BY <2>1, <2>3, <2>4, <2>5
<1> QED
  BY <1>1, <1>2, InitTyped, NextTyped, InitSource, NextSource, NextStop, PTL DEF Spec
=============================================================================
