--------------------------- MODULE RpcBus_proofs ---------------------------
(***************************************************************************)
(* Proofs about msg_many_to_one and the calls that go through it: that it  *)
(* merges what it is sent, and that every call has its own reply, for any  *)
(* clients, requests and answers.                                          *)
(***************************************************************************)
EXTENDS RpcBus, Ascending_proofs

Items == Messages \cup {NoMsg}
Of(i) == {m \in Messages : m.from = i}
ItemsOf(i) == Of(i) \cup {NoMsg}

-----------------------------------------------------------------------------
(* Messages among items, requests of a client among others *)

LEMMA MsgsKept ==
    ASSUME NEW s \in Seq(Items)
    PROVE  MsgsOf(s) = Kept(s, Messages)
<1>1. \A k \in 1..Len(s) : s[k] \in Items
  BY ElementOfSeq
<1>2. \A x \in Items : IsMsg(x) <=> x \in Messages
  BY NoMsgAssumption DEF Items, IsMsg
<1>3. DOMAIN s = 1..Len(s)
  BY LenProperties
<1>4. {k \in DOMAIN s : IsMsg(s[k])} = {k \in DOMAIN s : s[k] \in Messages}
  BY <1>1, <1>2, <1>3
<1> QED
  BY <1>4, Zenon DEF MsgsOf, Kept

LEMMA MsgsNone == MsgsOf(<<>>) = <<>>
<1>1. <<>> \in Seq(Items) /\ <<>> \in Seq(Messages)
  BY EmptySeq
<1>2. Kept(<<>>, Messages) = <<>>
  BY <1>1, KeptAll
<1> QED
  BY <1>1, <1>2, MsgsKept

LEMMA MsgsConcat ==
    ASSUME NEW s \in Seq(Items), NEW t \in Seq(Items), NEW b, Joins(b, s, t)
    PROVE  Joins(MsgsOf(b), MsgsOf(s), MsgsOf(t))
<1>1. b \in Seq(Items)
  BY ConcatProperties DEF Joins
<1>2. /\ MsgsOf(b) = Kept(b, Messages) /\ MsgsOf(s) = Kept(s, Messages)
      /\ MsgsOf(t) = Kept(t, Messages)
  BY <1>1, MsgsKept
<1> QED
  BY <1>2, KeptConcat

\* What is in front of one input.
LEMMA MsgsOfOne ==
    ASSUME NEW i, NEW s \in Seq(ItemsOf(i))
    PROVE  s \in Seq(Items) /\ MsgsOf(s) \in Seq(Of(i)) /\ MsgsOf(s) = Kept(s, Of(i))
<1>1. ItemsOf(i) \subseteq Items
  BY DEF ItemsOf, Items, Of
<1>2. s \in Seq(Items)
  BY <1>1, SeqMonotonic
<1>3. \A k \in 1..Len(s) : s[k] \in ItemsOf(i)
  BY ElementOfSeq
<1>4. \A x \in ItemsOf(i) : IsMsg(x) <=> x \in Of(i)
  BY NoMsgAssumption DEF ItemsOf, IsMsg, Of
<1>5. {k \in DOMAIN s : IsMsg(s[k])} = {k \in DOMAIN s : s[k] \in Of(i)}
  BY <1>3, <1>4, LenProperties
<1>6. MsgsOf(s) = Kept(s, Of(i))
  BY <1>5, Zenon DEF MsgsOf, Kept
<1> QED
  BY <1>2, <1>6, KeptType

LEMMA MsgsType ==
    ASSUME NEW s \in Seq(Items)
    PROVE  MsgsOf(s) \in Seq(Messages)
BY MsgsKept, KeptType

\* The buffer of a message holds that message.
LEMMA MsgsBuffer ==
    ASSUME NEW i, NEW m \in Of(i)
    PROVE  Buffer(m) \in Seq(ItemsOf(i)) /\ MsgsOf(Buffer(m)) = <<m>>
<1> DEFINE rest == [k \in 1..(Chunk - 1) |-> NoMsg]
           one == <<m>>
<1>1. rest \in Seq(ItemsOf(i)) /\ Len(rest) = Chunk - 1 /\ \A k \in 1..Len(rest) : rest[k] = NoMsg
  <2>1. Chunk - 1 \in Nat
    BY ChunkAssumption
  <2>2. rest \in [1..(Chunk - 1) -> ItemsOf(i)]
    BY DEF ItemsOf
  <2>3. rest \in Seq(ItemsOf(i))
    BY <2>1, <2>2, SeqDef
  <2>4. Len(rest) = Chunk - 1
    BY <2>1, <2>2, <2>3, LenProperties
  <2> QED
    BY <2>3, <2>4
<1> HIDE DEF rest
<1>2. one \in Seq(Of(i)) /\ one \in Seq(ItemsOf(i))
  BY DEF ItemsOf
<1>3. MsgsOf(one) = one
  BY <1>2, MsgsOfOne, KeptAll
<1>4. MsgsOf(rest) = <<>>
  <2>1. NoMsg \notin Of(i)
    BY NoMsgAssumption DEF Of
  <2> QED
    BY <1>1, <2>1, MsgsOfOne, KeptNone
<1> HIDE DEF one
<1>5. Joins(Buffer(m), one, rest)
  BY DEF Joins, Buffer, one, rest
<1>6. Joins(MsgsOf(Buffer(m)), one, <<>>)
  BY <1>1, <1>2, <1>3, <1>4, <1>5, MsgsOfOne, MsgsConcat
<1>7. MsgsOf(Buffer(m)) = one
  BY <1>2, <1>6, ConcatEmptySeq DEF Joins
<1>8. Buffer(m) \in Seq(ItemsOf(i))
  BY <1>1, <1>2, <1>5, ConcatProperties DEF Joins
<1> QED
  BY <1>7, <1>8 DEF one

\* A sequence in two parts.
LEMMA Cut ==
    ASSUME NEW T, NEW s \in Seq(T), NEW n \in 0..Len(s)
    PROVE  /\ SubSeq(s, 1, n) \in Seq(T) /\ SubSeq(s, n + 1, Len(s)) \in Seq(T)
           /\ Joins(s, SubSeq(s, 1, n), SubSeq(s, n + 1, Len(s)))
           /\ Len(SubSeq(s, 1, n)) = n
<1>1. Len(s) \in Nat /\ n \in Nat /\ n <= Len(s) /\ \A k \in 1..Len(s) : s[k] \in T
  BY LenProperties, ElementOfSeq
<1>2. SubSeq(s, 1, n) \in Seq(T) /\ Len(SubSeq(s, 1, n)) = n
  BY <1>1, SubSeqProperties
<1>3. SubSeq(s, n + 1, Len(s)) \in Seq(T)
  BY <1>1, SubSeqProperties
<1>4. SubSeq(s, 1, n) \o SubSeq(s, n + 1, Len(s)) = SubSeq(s, 1, Len(s))
  <2>1. 1 \in 1..(Len(s) + 1) /\ n \in (1 - 1)..Len(s) /\ Len(s) \in n..Len(s)
    BY <1>1
  <2> QED
    BY <2>1, ConcatAdjacentSubSeq
<1>5. SubSeq(s, 1, Len(s)) = s
  BY SubSeqFull
<1> QED
  BY <1>2, <1>3, <1>4, <1>5 DEF Joins

\* A request goes to the end of those of its client, and to no others.
LEMMA FromKept ==
    ASSUME NEW s \in Seq(Messages), NEW i
    PROVE  FromClient(s, i) = Kept(s, Of(i)) /\ FromClient(s, i) \in Seq(Of(i))
<1>1. \A k \in 1..Len(s) : s[k] \in Messages
  BY ElementOfSeq
<1>2. {k \in DOMAIN s : s[k].from = i} = {k \in DOMAIN s : s[k] \in Of(i)}
  BY <1>1, LenProperties DEF Of
<1>3. FromClient(s, i) = Kept(s, Of(i))
  BY <1>2, Zenon DEF FromClient, Kept
<1> QED
  BY <1>3, KeptType

LEMMA FromConcat ==
    ASSUME NEW s \in Seq(Messages), NEW t \in Seq(Messages), NEW b, Joins(b, s, t), NEW i
    PROVE  Joins(FromClient(b, i), FromClient(s, i), FromClient(t, i))
<1>1. b \in Seq(Messages)
  BY ConcatProperties DEF Joins
<1> QED
  BY <1>1, FromKept, KeptConcat

LEMMA FromOwn ==
    ASSUME NEW i, NEW j, NEW s \in Seq(Of(j))
    PROVE  /\ s \in Seq(Messages)
           /\ FromClient(s, i) = IF i = j THEN s ELSE <<>>
<1>1. s \in Seq(Messages)
  <2>1. Of(j) \subseteq Messages
    BY DEF Of
  <2> QED
    BY <2>1, SeqMonotonic
<1>2. \A k \in 1..Len(s) : s[k] \in Of(j)
  BY ElementOfSeq
<1>3. \A k \in 1..Len(s) : s[k].from = j
  BY <1>2 DEF Of
<1>4. CASE i = j
  <2>1. {k \in DOMAIN s : s[k].from = i} = 1..Len(s)
    BY <1>3, <1>4, LenProperties
  <2> QED
    BY <1>1, <1>4, <2>1, PickedAll DEF FromClient
<1>5. CASE i # j
  <2>1. {k \in DOMAIN s : s[k].from = i} = {}
    BY <1>3, <1>5, LenProperties
  <2> QED
    BY <1>1, <1>5, <2>1, PickedNone DEF FromClient
<1> QED
  BY <1>4, <1>5

LEMMA Regroup ==
    ASSUME NEW T, NEW s \in Seq(T), NEW t \in Seq(T), NEW u \in Seq(T),
           NEW b, Joins(b, s, t), NEW c, Joins(c, t, u), NEW d
    PROVE  Joins(d, b, u) <=> Joins(d, s, c)
<1>1. (s \o t) \o u = s \o (t \o u)
  BY ConcatAssociative
<1> QED
  BY <1>1, Zenon DEF Joins

LEMMA AppendJoins ==
    ASSUME NEW T, NEW s \in Seq(T), NEW x \in T
    PROVE  Joins(Append(s, x), s, <<x>>) /\ <<x>> \in Seq(T)
<1>1. Append(s, x) = s \o <<x>>
  BY AppendIsConcat
<1>2. <<x>> \in Seq(T)
  OBVIOUS
<1> QED
  BY <1>1, <1>2, Zenon DEF Joins

LEMMA HeadThenTail ==
    ASSUME NEW T, NEW s \in Seq(T), s # <<>>
    PROVE  s = <<Head(s)>> \o Tail(s) /\ Head(s) \in T /\ Tail(s) \in Seq(T)
<1>1. Len(s) \in Nat /\ Len(s) # 0
  BY LenProperties, EmptySeq
<1>2. 1 \in 1..Len(s) /\ Len(s) \in 1..Len(s)
  BY <1>1
<1>3. SubSeq(s, 1, Len(s)) = <<s[1]>> \o SubSeq(s, 1 + 1, Len(s))
  BY <1>2, SubSeqRecursiveFirst
<1>4. SubSeq(s, 1, Len(s)) = s /\ Tail(s) = SubSeq(s, 1 + 1, Len(s))
  BY SubSeqFull, TailIsSubSeq
<1>5. Head(s) = s[1]
  OBVIOUS
<1> QED
  BY <1>3, <1>4, <1>5, HeadTailProperties

LEMMA Prefix ==
    ASSUME NEW T, NEW s \in Seq(T), NEW t \in Seq(T), NEW n \in 0..Len(s)
    PROVE  SubSeq(s \o t, 1, n) = SubSeq(s, 1, n)
<1>1. CASE n = 0
  BY <1>1, SubSeqEmpty
<1>2. CASE n # 0
  <2>1. 1 \in 1..Len(s) /\ n \in 1..Len(s)
    BY <1>2, LenProperties
  <2> QED
    BY <2>1, SubSeqOfConcat1
<1> QED
  BY <1>1, <1>2

LEMMA HeadTailConcat ==
    ASSUME NEW T, NEW s \in Seq(T), NEW t \in Seq(T), s # <<>>
    PROVE  /\ s \o t \in Seq(T) /\ s \o t # <<>> /\ Head(s \o t) = Head(s) /\ Head(s) \in T
           /\ Tail(s \o t) = Tail(s) \o t /\ Tail(s) \in Seq(T)
<1> DEFINE b == s \o t
           u == Tail(s)
           c == u \o t
<1>1. /\ Len(s) \in Nat /\ Len(t) \in Nat /\ Len(s) # 0
      /\ b \in Seq(T) /\ Len(b) = Len(s) + Len(t)
      /\ \A k \in 1..(Len(s) + Len(t)) : b[k] = IF k <= Len(s) THEN s[k] ELSE t[k - Len(s)]
  BY LenProperties, ConcatProperties, EmptySeq
<1>2. /\ u \in Seq(T) /\ Len(u) = Len(s) - 1 /\ \A k \in 1..Len(u) : u[k] = s[k + 1]
      /\ Head(s) = s[1] /\ Head(s) \in T
  <2>1. /\ Tail(s) \in Seq(T) /\ Len(Tail(s)) = Len(s) - 1 /\ Head(s) \in T
        /\ \A k \in 1..Len(Tail(s)) : Tail(s)[k] = s[k + 1]
    BY HeadTailProperties, Zenon
  <2>2. Head(s) = s[1]
    OBVIOUS
  <2> QED
    BY <2>1, <2>2
<1> HIDE DEF b, u
<1>3. /\ c \in Seq(T) /\ Len(c) = Len(s) - 1 + Len(t)
      /\ \A k \in 1..(Len(u) + Len(t)) : c[k] = IF k <= Len(u) THEN u[k] ELSE t[k - Len(u)]
  <2>1. /\ c \in Seq(T) /\ Len(c) = Len(u) + Len(t)
        /\ \A k \in 1..(Len(u) + Len(t)) : c[k] = IF k <= Len(u) THEN u[k] ELSE t[k - Len(u)]
    <3>1. u \in Seq(T)
      BY <1>2
    <3> QED
      BY <3>1, ConcatProperties
  <2> HIDE DEF c
  <2> QED
    BY <1>2, <2>1
<1>4. b # <<>> /\ Head(b) = s[1]
  <2>1. Len(b) # 0 /\ 1 \in 1..(Len(s) + Len(t)) /\ 1 <= Len(s)
    BY <1>1
  <2> QED
    BY <1>1, <2>1, EmptySeq
<1>5. /\ Tail(b) \in Seq(T) /\ Len(Tail(b)) = Len(b) - 1
      /\ \A k \in 1..Len(Tail(b)) : Tail(b)[k] = b[k + 1]
  BY <1>1, <1>4, HeadTailProperties
<1> HIDE DEF c
<1>6. ASSUME NEW k \in 1..(Len(s) - 1 + Len(t)) PROVE Tail(b)[k] = c[k]
  <2>1. /\ k \in 1..Len(Tail(b)) /\ k + 1 \in 1..(Len(s) + Len(t)) /\ k \in 1..(Len(u) + Len(t))
        /\ (k <= Len(u)) <=> (k + 1 <= Len(s))
        /\ (k <= Len(u)) => k \in 1..Len(u)
        /\ (k + 1) - Len(s) = k - Len(u)
    BY <1>1, <1>2, <1>5
  <2> QED
    BY <1>1, <1>2, <1>3, <1>5, <2>1
<1>7. Tail(b) = c
  BY <1>1, <1>3, <1>5, <1>6, SeqEqual
<1> QED
  BY <1>1, <1>2, <1>4, <1>7 DEF b, u, c

-----------------------------------------------------------------------------
(* The steps of msg_many_to_one *)

Typed ==
    /\ stream \in [Inputs -> Seq(Items)]
    /\ input \in [Inputs -> {"idle", "push", "done"}]
    /\ tags \in [Inputs -> Seq(Messages)]
    /\ queue \in Seq(Messages)
    /\ output \in {"work", "wait", "woken", "done"}
    /\ written \in Seq(Items)
    /\ plan \in [Inputs -> Seq(Requests)]

\* What is in front of an input is its client's; and the loop of work() ends when
\* there is nothing left.
Loops == \A i \in Inputs :
    /\ stream[i] \in Seq(ItemsOf(i)) /\ tags[i] \in Seq(Of(i))
    /\ input[i] # "push" => tags[i] = <<>>

M21Inv == Typed /\ Loops

LEMMA PendingOf ==
    ASSUME M21Inv, NEW i \in Inputs
    PROVE  /\ Pending[i] = tags[i] \o MsgsOf(stream[i])
           /\ tags[i] \in Seq(Of(i)) /\ MsgsOf(stream[i]) \in Seq(Of(i))
           /\ Pending[i] \in Seq(Of(i))
<1>1. tags[i] \in Seq(Of(i)) /\ stream[i] \in Seq(ItemsOf(i))
  BY DEF M21Inv, Loops
<1>2. MsgsOf(stream[i]) \in Seq(Of(i))
  BY <1>1, MsgsOfOne
<1>3. Pending[i] = tags[i] \o MsgsOf(stream[i])
  BY DEF Pending
<1> QED
  BY <1>1, <1>2, <1>3, ConcatProperties

LEMMA MergedType ==
    ASSUME M21Inv
    PROVE  MsgsOf(written) \in Seq(Messages) /\ queue \in Seq(Messages) /\ Merged \in Seq(Messages)
<1>1. MsgsOf(written) \in Seq(Messages) /\ queue \in Seq(Messages)
  BY MsgsType DEF M21Inv, Typed
<1> QED
  BY <1>1, ConcatProperties DEF Merged

LEMMA InitM21 == Init => M21Inv
<1> SUFFICES ASSUME Init PROVE M21Inv
  OBVIOUS
<1>1. \A T : <<>> \in Seq(T)
  BY EmptySeq
<1>2. plan \in [Inputs -> Seq(Requests)]
  BY PlansAssumption DEF Init
<1> QED
  BY <1>1, <1>2 DEF Init, m21Init, M21Inv, Typed, Loops

\* The steps as another state sees them: what is pending, what is merged.
Asks(i, m) ==
    /\ m \in Of(i)
    /\ Pending' = [Pending EXCEPT ![i] = Append(@, m)] /\ Merged' = Merged
Merges(i) ==
    /\ Pending[i] # <<>> /\ Head(Pending[i]) \in Of(i)
    /\ Pending' = [Pending EXCEPT ![i] = Tail(@)]
    /\ Merged' = Append(Merged, Head(Pending[i]))

LEMMA AskAsks ==
    ASSUME M21Inv, NEW i \in Inputs, Ask(i)
    PROVE  M21Inv' /\ Asks(i, Sender(i, Head(plan[i])))
<1> DEFINE m == Sender(i, Head(plan[i]))
<1>1. /\ plan \in [Inputs -> Seq(Requests)] /\ plan[i] # <<>>
      /\ stream' = [stream EXCEPT ![i] = @ \o Buffer(m)]
      /\ plan' = [plan EXCEPT ![i] = Tail(@)]
      /\ stream \in [Inputs -> Seq(Items)] /\ stream[i] \in Seq(ItemsOf(i))
  BY DEF M21Inv, Typed, Loops, Ask, Sent
<1>2. UNCHANGED <<input, tags, queue, output, written>>
  BY DEF Ask
<1>3. Head(plan[i]) \in Requests /\ Tail(plan[i]) \in Seq(Requests)
  BY <1>1, HeadTailProperties
<1>4. m \in Of(i)
  BY <1>3 DEF Of, Messages, Sender
<1> HIDE DEF m
<1>5. Buffer(m) \in Seq(ItemsOf(i)) /\ MsgsOf(Buffer(m)) = <<m>>
  BY <1>4, MsgsBuffer
<1>6. /\ stream'[i] = stream[i] \o Buffer(m)
      /\ \A j \in Inputs : j # i => stream'[j] = stream[j]
  BY <1>1
<1>7. stream'[i] \in Seq(ItemsOf(i)) /\ stream'[i] \in Seq(Items)
  BY <1>1, <1>5, <1>6, ConcatProperties, MsgsOfOne
<1>8. M21Inv'
  <2>1. stream' \in [Inputs -> Seq(Items)]
    BY <1>1, <1>6, <1>7
  <2>2. plan' \in [Inputs -> Seq(Requests)]
    BY <1>1, <1>3
  <2>3. \A j \in Inputs : stream'[j] \in Seq(ItemsOf(j))
    BY <1>6, <1>7 DEF M21Inv, Loops
  <2> QED
    BY <1>2, <2>1, <2>2, <2>3 DEF M21Inv, Typed, Loops
<1>9. MsgsOf(stream'[i]) = Append(MsgsOf(stream[i]), m)
  <2>1. Joins(stream'[i], stream[i], Buffer(m))
    BY <1>6 DEF Joins
  <2>2. Joins(MsgsOf(stream'[i]), MsgsOf(stream[i]), MsgsOf(Buffer(m)))
    BY <1>1, <1>5, <2>1, MsgsOfOne, MsgsConcat
  <2>3. MsgsOf(stream[i]) \in Seq(Of(i))
    BY <1>1, MsgsOfOne
  <2> QED
    BY <1>4, <1>5, <2>2, <2>3, AppendIsConcat DEF Joins
<1>10. Pending'[i] = Append(Pending[i], m)
  <2> DEFINE s == tags[i]
             u == MsgsOf(stream[i])
  <2>1. s \in Seq(Of(i)) /\ u \in Seq(Of(i)) /\ Pending[i] = s \o u
    BY PendingOf
  <2>2. Pending'[i] = tags'[i] \o MsgsOf(stream'[i])
    BY DEF Pending
  <2>3. Pending'[i] = s \o Append(u, m)
    BY <1>2, <1>9, <2>2
  <2> HIDE DEF s, u
  <2>4. s \o Append(u, m) = Append(s \o u, m)
    <3>1. Append(u, m) = u \o <<m>> /\ <<m>> \in Seq(Of(i))
      BY <1>4, <2>1, AppendIsConcat
    <3>2. Append(s \o u, m) = (s \o u) \o <<m>>
      BY <1>4, <2>1, AppendIsConcat, ConcatProperties
    <3> QED
      BY <2>1, <3>1, <3>2, ConcatAssociative
  <2> QED
    BY <2>1, <2>3, <2>4
<1>11. \A j \in Inputs : j # i => Pending'[j] = Pending[j]
  BY <1>2, <1>6 DEF Pending
<1>12. Merged' = Merged
  BY <1>2 DEF Merged
<1>13. Pending' = [Pending EXCEPT ![i] = Append(@, m)]
  BY <1>10, <1>11 DEF Pending
<1> QED
  BY <1>4, <1>8, <1>12, <1>13 DEF Asks, m

LEMMA WorkKeeps ==
    ASSUME M21Inv, NEW i \in Inputs, NEW n \in 1..Len(stream[i]), InputWork(i, n), UNCHANGED plan
    PROVE  M21Inv' /\ Pending' = Pending /\ Merged' = Merged
<1> DEFINE u == SubSeq(stream[i], 1, n)
           v == SubSeq(stream[i], n + 1, Len(stream[i]))
<1>1. /\ stream \in [Inputs -> Seq(Items)] /\ stream[i] \in Seq(ItemsOf(i))
      /\ tags \in [Inputs -> Seq(Messages)] /\ tags[i] = <<>> /\ input[i] = "idle"
      /\ input \in [Inputs -> {"idle", "push", "done"}]
  BY DEF M21Inv, Typed, Loops, InputWork
<1>2. /\ tags' = [tags EXCEPT ![i] = MsgsOf(u)]
      /\ stream' = [stream EXCEPT ![i] = v]
      /\ input' = [input EXCEPT ![i] = "push"]
      /\ UNCHANGED <<queue, output, written>>
  BY DEF InputWork
<1>3. u \in Seq(ItemsOf(i)) /\ v \in Seq(ItemsOf(i)) /\ Joins(stream[i], u, v)
  <2>1. n \in 0..Len(stream[i])
    BY <1>1, LenProperties
  <2> QED
    BY <1>1, <2>1, Cut
<1> HIDE DEF u, v
<1>4. /\ u \in Seq(Items) /\ v \in Seq(Items) /\ MsgsOf(u) \in Seq(Of(i)) /\ MsgsOf(v) \in Seq(Of(i))
  BY <1>3, MsgsOfOne
<1>5. MsgsOf(u) \in Seq(Messages)
  BY <1>4, MsgsType
<1>6. /\ stream'[i] = v /\ tags'[i] = MsgsOf(u) /\ input'[i] = "push"
      /\ \A j \in Inputs : j # i =>
            stream'[j] = stream[j] /\ tags'[j] = tags[j] /\ input'[j] = input[j]
  BY <1>1, <1>2
<1>7. M21Inv'
  <2>1. /\ stream' \in [Inputs -> Seq(Items)] /\ tags' \in [Inputs -> Seq(Messages)]
        /\ input' \in [Inputs -> {"idle", "push", "done"}]
    BY <1>1, <1>2, <1>4, <1>5
  <2>2. \A j \in Inputs :
          /\ stream'[j] \in Seq(ItemsOf(j)) /\ tags'[j] \in Seq(Of(j))
          /\ input'[j] # "push" => tags'[j] = <<>>
    BY <1>3, <1>4, <1>6 DEF M21Inv, Loops
  <2> QED
    BY <1>2, <2>1, <2>2 DEF M21Inv, Typed, Loops
<1>8. Pending'[i] = Pending[i]
  <2>1. Pending'[i] = MsgsOf(u) \o MsgsOf(v)
    BY <1>6 DEF Pending
  <2>2. MsgsOf(stream[i]) = MsgsOf(u) \o MsgsOf(v)
    BY <1>3, <1>4, MsgsConcat DEF Joins
  <2>3. Pending[i] = <<>> \o MsgsOf(stream[i]) /\ MsgsOf(stream[i]) \in Seq(Of(i))
    BY <1>1, PendingOf
  <2>4. Pending[i] = MsgsOf(stream[i])
    BY <2>3, ConcatEmptySeq
  <2> QED
    BY <2>1, <2>2, <2>4, Zenon
<1>9. \A j \in Inputs : j # i => Pending'[j] = Pending[j]
  BY <1>6 DEF Pending
<1>10. Pending' = Pending
  BY <1>8, <1>9 DEF Pending
<1> QED
  BY <1>2, <1>7, <1>10 DEF Merged

LEMMA PushMerges ==
    ASSUME M21Inv, NEW i \in Inputs, InputPush(i), UNCHANGED plan
    PROVE  M21Inv' /\ Merges(i)
<1> DEFINE s == tags[i]
           u == MsgsOf(stream[i])
           m == Head(tags[i])
<1>1. /\ tags \in [Inputs -> Seq(Messages)] /\ s # <<>> /\ input[i] = "push"
      /\ queue \in Seq(Messages) /\ output \in {"work", "wait", "woken", "done"}
  BY DEF M21Inv, Typed, InputPush
<1>2. /\ tags' = [tags EXCEPT ![i] = Tail(@)] /\ queue' = Append(queue, m)
      /\ output' = Notified /\ UNCHANGED <<stream, input, written>>
  BY DEF InputPush
<1>3. s \in Seq(Of(i)) /\ u \in Seq(Of(i)) /\ Pending[i] = s \o u
  BY PendingOf
<1>4. /\ Pending[i] # <<>> /\ Head(Pending[i]) = m /\ m \in Of(i)
      /\ Tail(Pending[i]) = Tail(s) \o u /\ Tail(s) \in Seq(Of(i))
  BY <1>1, <1>3, HeadTailConcat
<1>5. m \in Messages
  BY <1>4 DEF Of
<1>6. tags'[i] = Tail(s) /\ \A j \in Inputs : j # i => tags'[j] = tags[j]
  BY <1>1, <1>2
<1>7. M21Inv'
  <2>1. tags' \in [Inputs -> Seq(Messages)]
    <3>1. Tail(s) \in Seq(Messages)
      BY <1>1, HeadTailProperties
    <3> QED
      BY <1>1, <1>2, <3>1
  <2>2. queue' \in Seq(Messages)
    BY <1>1, <1>2, <1>5, AppendProperties
  <2>3. output' \in {"work", "wait", "woken", "done"}
    BY <1>1, <1>2 DEF Notified
  <2>4. \A j \in Inputs : tags'[j] \in Seq(Of(j)) /\ (input[j] # "push" => tags'[j] = <<>>)
    BY <1>1, <1>4, <1>6 DEF M21Inv, Loops
  <2> QED
    BY <1>2, <2>1, <2>2, <2>3, <2>4 DEF M21Inv, Typed, Loops
<1>8. Pending'[i] = Tail(Pending[i])
  BY <1>2, <1>4, <1>6 DEF Pending
<1>9. ASSUME NEW j \in Inputs, j # i PROVE Pending'[j] = Pending[j]
  <2>1. /\ Pending'[j] = tags'[j] \o MsgsOf(stream'[j])
        /\ Pending[j] = tags[j] \o MsgsOf(stream[j])
    BY DEF Pending
  <2>2. tags'[j] = tags[j] /\ stream'[j] = stream[j]
    BY <1>2, <1>6, <1>9
  <2> QED
    BY <2>1, <2>2, Zenon
<1>10. Pending' = [Pending EXCEPT ![i] = Tail(@)]
  BY <1>8, <1>9 DEF Pending
<1>11. Merged' = Append(Merged, m)
  <2> DEFINE w == MsgsOf(written)
  <2>1. w \in Seq(Messages) /\ queue \in Seq(Messages) /\ Merged = w \o queue
    BY MergedType DEF Merged
  <2>2. Merged' = w \o Append(queue, m)
    BY <1>2 DEF Merged
  <2> HIDE DEF w, m
  <2>3. Append(queue, m) = queue \o <<m>> /\ <<m>> \in Seq(Messages)
    BY <1>5, <2>1, AppendIsConcat
  <2>4. Append(w \o queue, m) = (w \o queue) \o <<m>>
    BY <1>5, <2>1, AppendIsConcat, ConcatProperties
  <2>5. (w \o queue) \o <<m>> = w \o (queue \o <<m>>)
    BY <2>1, <2>3, ConcatAssociative
  <2> QED
    BY <2>1, <2>2, <2>3, <2>4, <2>5
<1> HIDE DEF s, u, m
<1> QED
  BY <1>4, <1>7, <1>10, <1>11 DEF Merges

LEMMA PopKeeps ==
    ASSUME M21Inv, OutputPop, UNCHANGED plan
    PROVE  /\ M21Inv' /\ Pending' = Pending /\ Merged' = Merged
           /\ \E b \in Seq(Items) : Joins(written', written, b)
<1> DEFINE m == Head(queue)
           b == Buffer(m)
           w == MsgsOf(written)
<1>1. /\ queue \in Seq(Messages) /\ queue # <<>> /\ written \in Seq(Items)
      /\ written' = written \o b /\ queue' = Tail(queue) /\ output' = "work"
      /\ UNCHANGED <<stream, input, tags>>
  BY DEF M21Inv, Typed, OutputPop
<1>2. m \in Messages /\ Tail(queue) \in Seq(Messages)
  BY <1>1, HeadTailProperties
<1>3. m \in Of(m.from)
  BY <1>2 DEF Of
<1> HIDE DEF m
<1>4. b \in Seq(Items) /\ MsgsOf(b) = <<m>>
  BY <1>3, MsgsBuffer, MsgsOfOne
<1> HIDE DEF b
<1>5. Joins(written', written, b)
  BY <1>1 DEF Joins
<1>6. written' \in Seq(Items)
  BY <1>1, <1>4, ConcatProperties
<1>7. M21Inv'
  BY <1>1, <1>2, <1>6 DEF M21Inv, Typed, Loops
<1>8. Pending' = Pending
  BY <1>1 DEF Pending
<1>9. Merged' = Merged
  <2>1. w \in Seq(Messages) /\ Merged = w \o queue
    BY MergedType DEF Merged
  <2>2. MsgsOf(written') = w \o <<m>>
    BY <1>1, <1>4, <1>5, MsgsConcat DEF Joins
  <2>3. Merged' = (w \o <<m>>) \o Tail(queue)
    BY <1>1, <2>2 DEF Merged
  <2> HIDE DEF w
  <2>4. queue = <<m>> \o Tail(queue)
    BY <1>1, HeadThenTail DEF m
  <2>5. <<m>> \in Seq(Messages)
    BY <1>2
  <2>6. (w \o <<m>>) \o Tail(queue) = w \o (<<m>> \o Tail(queue))
    BY <1>2, <2>1, <2>5, ConcatAssociative
  <2> QED
    BY <2>1, <2>3, <2>4, <2>6
<1> QED
  BY <1>4, <1>5, <1>7, <1>8, <1>9

\* The steps that move nothing.
LEMMA OtherKeeps ==
    ASSUME M21Inv, UNCHANGED <<stream, tags, queue, written, plan>>,
           output' \in {"work", "wait", "woken", "done"},
           input' \in [Inputs -> {"idle", "push", "done"}],
           \A i \in Inputs : input'[i] # "push" => tags[i] = <<>>
    PROVE  M21Inv' /\ Pending' = Pending /\ Merged' = Merged
BY DEF M21Inv, Typed, Loops, Pending, Merged

\* The messages of the output's stream stay where they are.
Grows == written' = written \/ \E b \in Seq(Items) : Joins(written', written, b)

LEMMA StepsOfM21 ==
    ASSUME M21Inv, [Next]_vars
    PROVE  /\ M21Inv' /\ Grows
           /\ \/ Pending' = Pending /\ Merged' = Merged
              \/ \E i \in Inputs : Ask(i) /\ Asks(i, Sender(i, Head(plan[i])))
              \/ \E i \in Inputs : InputPush(i) /\ Merges(i)
<1> DEFINE Kept_ == M21Inv' /\ Pending' = Pending /\ Merged' = Merged
<1> USE DEF Grows
<1>1. /\ input \in [Inputs -> {"idle", "push", "done"}]
      /\ output \in {"work", "wait", "woken", "done"}
      /\ \A i \in Inputs : input[i] # "push" => tags[i] = <<>>
  BY DEF M21Inv, Typed, Loops
<1>2. ASSUME NEW i \in Inputs, Ask(i)
      PROVE  M21Inv' /\ written' = written /\ Asks(i, Sender(i, Head(plan[i])))
  BY <1>2, AskAsks DEF Ask
<1>3. ASSUME NEW i \in Inputs, InputPush(i), UNCHANGED plan
      PROVE  M21Inv' /\ written' = written /\ Merges(i)
  BY <1>3, PushMerges DEF InputPush
<1>4. ASSUME NEW i \in Inputs, NEW n \in 1..Len(stream[i]), InputWork(i, n), UNCHANGED plan
      PROVE  Kept_ /\ written' = written
  BY <1>4, WorkKeeps DEF InputWork
<1>5. ASSUME OutputPop, UNCHANGED plan
      PROVE  Kept_ /\ Grows
  BY <1>5, PopKeeps
<1>6. ASSUME NEW i \in Inputs, InputReturn(i) \/ InputInterrupted(i), UNCHANGED plan
      PROVE  Kept_ /\ written' = written
  <2>1. /\ UNCHANGED <<stream, tags, queue, output, written, plan>>
        /\ \E x \in {"idle", "done"} : input' = [input EXCEPT ![i] = x]
        /\ tags[i] = <<>>
    BY <1>1, <1>6 DEF InputReturn, InputInterrupted
  <2>2. /\ input' \in [Inputs -> {"idle", "push", "done"}]
        /\ \A j \in Inputs : j # i => input'[j] = input[j]
    BY <1>1, <2>1
  <2>3. \A j \in Inputs : input'[j] # "push" => tags[j] = <<>>
    BY <1>1, <2>1, <2>2
  <2> QED
    BY <1>1, <2>1, <2>2, <2>3, OtherKeeps
<1>7. ASSUME OutputWait \/ OutputSpurious \/ OutputInterrupted, UNCHANGED plan
      PROVE  Kept_ /\ written' = written
  <2>1. /\ UNCHANGED <<stream, tags, queue, input, written, plan>>
        /\ output' \in {"work", "wait", "woken", "done"}
    BY <1>7 DEF OutputWait, OutputSpurious, OutputInterrupted
  <2> QED
    BY <1>1, <2>1, OtherKeeps
<1>8. ASSUME UNCHANGED <<m21Vars, plan>>
      PROVE  Kept_ /\ written' = written
  <2>1. UNCHANGED <<stream, tags, queue, input, output, written, plan>>
    BY <1>8 DEF m21Vars
  <2> QED
    BY <1>1, <2>1, OtherKeeps
<1> HIDE DEF Grows
<1>9. CASE \E i \in Inputs : Ask(i)
  BY <1>2, <1>9 DEF Grows
<1>10. CASE \E i \in Inputs : M21Step(i)
  <2>1. PICK i \in Inputs : InputStep(i) /\ UNCHANGED plan
    BY <1>10 DEF M21Step, busVars
  <2>2. CASE \E n \in 1..Len(stream[i]) : InputWork(i, n)
    BY <1>4, <2>1, <2>2 DEF Grows
  <2>3. CASE InputPush(i)
    BY <1>3, <2>1, <2>3 DEF Grows
  <2>4. CASE InputReturn(i)
    BY <1>6, <2>1, <2>4 DEF Grows
  <2> QED
    BY <2>1, <2>2, <2>3, <2>4 DEF InputStep
<1>11. CASE OutStep
  <2>1. OutputStep /\ UNCHANGED plan
    BY <1>11 DEF OutStep, busVars
  <2> QED
    BY <1>5, <1>7, <2>1 DEF OutputStep, Grows
<1>12. CASE Spurious
  BY <1>7, <1>12 DEF Spurious, busVars, Grows
<1>13. CASE HandlerStep \/ Stop \/ Over \/ UNCHANGED vars
  <2>1. UNCHANGED <<m21Vars, plan>>
    BY <1>13 DEF HandlerStep, Take, Stop, Over, vars, busVars
  <2> QED
    BY <1>8, <2>1 DEF Grows
<1>14. CASE Interrupted
  <2>1. CASE OutputInterrupted /\ UNCHANGED <<handlerVars, busVars>>
    BY <1>7, <2>1 DEF busVars, Grows
  <2>2. CASE \E i \in Inputs : InputInterrupted(i) /\ UNCHANGED <<handlerVars, busVars>>
    BY <1>6, <2>2 DEF busVars, Grows
  <2>3. CASE PopInterrupted /\ UNCHANGED <<m21Vars, busVars>>
    BY <1>8, <2>3 DEF busVars, Grows
  <2> QED
    BY <1>14, <2>1, <2>2, <2>3 DEF Interrupted
<1> QED
  BY <1>9, <1>10, <1>11, <1>12, <1>13, <1>14 DEF Next

LEMMA M21Correct == Spec => []M21Inv
<1>1. M21Inv /\ [Next]_vars => M21Inv'
  BY StepsOfM21
<1> QED
  BY <1>1, InitM21, PTL DEF Spec

LEMMA InitNone == Init => Pending = [i \in Inputs |-> <<>>] /\ Merged = <<>>
<1> SUFFICES ASSUME Init PROVE Pending = [i \in Inputs |-> <<>>] /\ Merged = <<>>
  OBVIOUS
<1>1. MsgsOf(<<>>) = <<>>
  BY MsgsNone
<1>2. \A i \in Inputs : Pending[i] = <<>> \o MsgsOf(<<>>)
  BY DEF Init, m21Init, Pending
<1>3. Merged = MsgsOf(<<>>) \o <<>>
  BY DEF Init, m21Init, Merged
<1>4. <<>> \o <<>> = <<>>
  BY EmptySeq, ConcatEmptySeq
<1>5. \A i \in Inputs : Pending[i] = <<>>
  BY <1>1, <1>2, <1>4, Zenon
<1>6. Pending = [i \in Inputs |-> <<>>]
  BY <1>5 DEF Pending
<1>7. Merged = <<>>
  BY <1>1, <1>3, <1>4, Zenon
<1> QED
  BY <1>6, <1>7

\* What msg_many_to_one puts out is a merge of what it is sent: whatever the threads
\* of the inputs and of the output do around the queue and its condition, and when
\* they are interrupted, no message is lost, repeated or passes another of its input.
THEOREM ImplementsMergeCorrect == Spec => ImplementsMerge
<1>1. Init => Merging!MergeInit
  BY InitNone DEF Merging!MergeInit
<1>2. M21Inv /\ [Next]_vars => [Merging!MergeNext]_<<Pending, Merged>>
  <2> SUFFICES ASSUME M21Inv, [Next]_vars PROVE [Merging!MergeNext]_<<Pending, Merged>>
    OBVIOUS
  <2>1. CASE Pending' = Pending /\ Merged' = Merged
    BY <2>1
  <2>2. ASSUME NEW i \in Inputs, NEW m, Asks(i, m) PROVE Merging!Send(i)
    <3>1. /\ Pending' = [Pending EXCEPT ![i] = Append(@, m)] /\ Merged' = Merged
          /\ m \in Of(i) /\ Pending[i] \in Seq(Of(i))
      BY <2>2, PendingOf DEF Asks
    <3>2. Pending'[i] = Append(Pending[i], m)
      BY <3>1 DEF Pending
    <3>3. Append(Pending[i], m) # <<>> /\ Append(Pending[i], m)[Len(Append(Pending[i], m))] = m
      BY <3>1, AppendProperties
    <3>4. Merging!Last(Pending'[i]) = m
      BY <3>2, <3>3, Zenon DEF Merging!Last
    <3> HIDE DEF Pending
    <3> QED
      BY <3>1, <3>2, <3>3, <3>4, Zenon DEF Merging!Send
  <2>3. ASSUME NEW i \in Inputs, Merges(i) PROVE Merging!MergeOne(i)
    BY <2>3 DEF Merges, Merging!MergeOne
  <2> QED
    BY <2>1, <2>2, <2>3, StepsOfM21 DEF Merging!MergeNext
<1> QED
  BY <1>1, <1>2, M21Correct, PTL DEF Spec, ImplementsMerge, Merging!MergeSpec

-----------------------------------------------------------------------------
(* What a client has posted, and how far it has come *)

PostInv ==
    /\ asked \in [Inputs -> Seq(Messages)]
    /\ \A i \in Inputs : asked[i] \in Seq(Of(i))
    /\ \A i \in Inputs : Joins(asked[i], FromClient(Merged, i), Pending[i])

LEMMA InitPost == Init => PostInv
<1> SUFFICES ASSUME Init PROVE PostInv
  OBVIOUS
<1>1. \A T : <<>> \in Seq(T)
  BY EmptySeq
<1>2. asked = [i \in Inputs |-> <<>>] /\ Pending = [i \in Inputs |-> <<>>] /\ Merged = <<>>
  BY InitNone DEF Init
<1>3. ASSUME NEW i \in Inputs PROVE Joins(asked[i], FromClient(Merged, i), Pending[i])
  <2>1. FromClient(<<>>, i) = <<>>
    BY <1>1, FromOwn
  <2>2. Joins(<<>>, <<>>, <<>>)
    BY <1>1, ConcatEmptySeq DEF Joins
  <2>3. asked[i] = <<>> /\ Pending[i] = <<>>
    BY <1>2
  <2> QED
    BY <1>2, <2>1, <2>2, <2>3, Zenon
<1>4. asked \in [Inputs -> Seq(Messages)] /\ \A i \in Inputs : asked[i] \in Seq(Of(i))
  BY <1>1, <1>2
<1> QED
  BY <1>3, <1>4 DEF PostInv

LEMMA NextPost == M21Inv /\ PostInv /\ [Next]_vars => PostInv'
<1> SUFFICES ASSUME M21Inv, PostInv, [Next]_vars PROVE PostInv'
  OBVIOUS
<1>1. /\ asked \in [Inputs -> Seq(Messages)]
      /\ Merged \in Seq(Messages)
      /\ \A i \in Inputs : /\ asked[i] \in Seq(Of(i)) /\ Pending[i] \in Seq(Of(i))
                            /\ FromClient(Merged, i) \in Seq(Of(i))
                            /\ Joins(asked[i], FromClient(Merged, i), Pending[i])
  BY MergedType, PendingOf, FromKept DEF PostInv
<1>2. CASE \E i \in Inputs : Ask(i)
  <2>1. PICK i \in Inputs : Ask(i)
    BY <1>2
  <2> DEFINE m == Sender(i, Head(plan[i]))
             u == FromClient(Merged, i)
  <2>2. /\ m \in Of(i) /\ Merged' = Merged
        /\ Pending' = [Pending EXCEPT ![i] = Append(@, m)]
    BY <2>1, AskAsks DEF Asks
  <2>3. asked' = [asked EXCEPT ![i] = Append(@, m)]
    BY <2>1 DEF Ask
  <2> HIDE DEF m, u
  <2>4. m \in Messages
    BY <2>2 DEF Of
  <2>5. /\ asked'[i] = Append(asked[i], m) /\ Pending'[i] = Append(Pending[i], m)
        /\ \A j \in Inputs : j # i => asked'[j] = asked[j] /\ Pending'[j] = Pending[j]
    BY <1>1, <2>2, <2>3 DEF Pending
  <2>6. /\ asked'[i] \in Seq(Of(i)) /\ asked' \in [Inputs -> Seq(Messages)]
    <3>1. Append(asked[i], m) \in Seq(Of(i)) /\ Append(asked[i], m) \in Seq(Messages)
      BY <1>1, <2>2, <2>4, AppendProperties
    <3> QED
      BY <1>1, <2>3, <2>5, <3>1
  <2>7. Joins(asked'[i], u, Pending'[i])
    <3>1. /\ u \in Seq(Of(i)) /\ Pending[i] \in Seq(Of(i)) /\ asked[i] \in Seq(Of(i))
          /\ Joins(asked[i], u, Pending[i])
      BY <1>1 DEF u
    <3>2. /\ Joins(Pending'[i], Pending[i], <<m>>) /\ <<m>> \in Seq(Of(i))
          /\ Joins(asked'[i], asked[i], <<m>>)
      BY <2>2, <2>5, <3>1, AppendJoins
    <3> DEFINE one == <<m>>
    <3>3. /\ Joins(Pending'[i], Pending[i], one) /\ one \in Seq(Of(i))
          /\ Joins(asked'[i], asked[i], one)
      BY <3>2, Zenon
    <3> HIDE DEF one
    <3> QED
      BY <3>1, <3>3, Regroup
  <2>8. ASSUME NEW j \in Inputs
        PROVE  asked'[j] \in Seq(Of(j)) /\ Joins(asked'[j], FromClient(Merged', j), Pending'[j])
    <3>1. CASE j = i
      BY <2>2, <2>6, <2>7, <3>1, Zenon DEF u
    <3>2. CASE j # i
      BY <1>1, <2>2, <2>5, <3>2, Zenon
    <3> QED
      BY <3>1, <3>2
  <2> QED
    BY <2>6, <2>8 DEF PostInv
<1>3. CASE ~ \E i \in Inputs : Ask(i)
  <2>1. asked' = asked
    BY <1>3 DEF Next, M21Step, OutStep, Spurious, HandlerStep, Take, Stop, Interrupted,
                Over, vars, busVars
  <2>2. CASE Pending' = Pending /\ Merged' = Merged
    <3>1. \A j \in Inputs : Joins(asked'[j], FromClient(Merged', j), Pending'[j])
      BY <2>1, <2>2, Zenon DEF PostInv
    <3> QED
      BY <1>1, <2>1, <3>1 DEF PostInv
  <2>3. ASSUME NEW i \in Inputs, Merges(i) PROVE PostInv'
    <3> DEFINE m == Head(Pending[i])
               u == FromClient(Merged, i)
    <3>1. /\ Pending[i] # <<>> /\ m \in Of(i) /\ Merged' = Append(Merged, m)
          /\ Pending' = [Pending EXCEPT ![i] = Tail(@)]
      BY <2>3 DEF Merges
    <3>2. m \in Messages /\ <<m>> \in Seq(Of(i)) /\ <<m>> \in Seq(Messages)
      BY <3>1 DEF Of
    <3>3. Pending[i] = <<m>> \o Tail(Pending[i]) /\ Tail(Pending[i]) \in Seq(Of(i))
      BY <1>1, <3>1, HeadThenTail
    <3> HIDE DEF m
    <3>4. Joins(Merged', Merged, <<m>>)
      BY <1>1, <3>1, <3>2, AppendIsConcat DEF Joins
    <3>5. /\ Pending'[i] = Tail(Pending[i])
          /\ \A j \in Inputs : j # i => Pending'[j] = Pending[j]
      BY <3>1 DEF Pending
    <3>6. ASSUME NEW j \in Inputs
          PROVE  Joins(asked[j], FromClient(Merged', j), Pending'[j])
      <4>1. Joins(FromClient(Merged', j), FromClient(Merged, j), FromClient(<<m>>, j))
        BY <1>1, <3>2, <3>4, FromConcat
      <4>2. CASE j = i
        <5>1. FromClient(<<m>>, j) = <<m>>
          BY <3>2, <4>2, FromOwn
        <5>2. Joins(FromClient(Merged', j), u, <<m>>)
          BY <4>1, <4>2, <5>1
        <5>3. Joins(Pending[i], <<m>>, Tail(Pending[i]))
          BY <3>3 DEF Joins
        <5>4. /\ u \in Seq(Of(i)) /\ Joins(asked[i], u, Pending[i])
          BY <1>1
        <5> HIDE DEF u
        <5>5. Joins(asked[i], FromClient(Merged', j), Tail(Pending[i]))
          <6> DEFINE one == <<m>>
                     rest == Tail(Pending[i])
          <6>1. rest \in Seq(Of(i)) /\ one \in Seq(Of(i))
            BY <3>2, <3>3, Zenon
          <6>2. Joins(FromClient(Merged', j), u, one) /\ Joins(Pending[i], one, rest)
            BY <5>2, <5>3, Zenon
          <6> HIDE DEF one, rest
          <6>3. Joins(asked[i], FromClient(Merged', j), rest)
            BY <5>4, <6>1, <6>2, Regroup
          <6> QED
            BY <6>3 DEF rest
        <5> QED
          BY <3>5, <4>2, <5>5, Zenon
      <4>3. CASE j # i
        <5>1. FromClient(<<m>>, j) = <<>>
          BY <3>2, <4>3, FromOwn
        <5>2. FromClient(Merged, j) \in Seq(Of(j))
          BY <1>1
        <5>3. FromClient(Merged', j) = FromClient(Merged, j)
          BY <4>1, <5>1, <5>2, ConcatEmptySeq DEF Joins
        <5>4. Pending'[j] = Pending[j] /\ Joins(asked[j], FromClient(Merged, j), Pending[j])
          BY <1>1, <3>5, <4>3
        <5> QED
          BY <5>3, <5>4, Zenon
      <4> QED
        BY <4>2, <4>3
    <3> QED
      BY <1>1, <2>1, <3>6 DEF PostInv
  <2> QED
    BY <1>3, <2>2, <2>3, StepsOfM21
<1> QED
  BY <1>2, <1>3

-----------------------------------------------------------------------------
(* What the handler has popped *)

HandledInv ==
    /\ nread \in 0..Len(written)
    /\ handled \in Seq(Messages) /\ handled = MsgsOf(SubSeq(written, 1, nread))

LEMMA TakeIs ==
    ASSUME M21Inv, HandledInv, Take
    PROVE  \E k \in (nread + 1)..Len(written) :
              /\ \A j \in (nread + 1)..(k - 1) : ~ IsMsg(written[j])
              /\ written[k] \in Messages /\ PopRequest(written[k])
              /\ nread' = k /\ handled' = Append(handled, written[k]) /\ written' = written
<1>1. /\ written \in Seq(Items) /\ Len(written) \in Nat /\ nread \in Nat
      /\ Ahead # {} /\ Ahead \subseteq Nat
  BY LenProperties DEF M21Inv, Typed, HandledInv, Ahead, Take
<1>2. PICK k \in Ahead : \A j \in Ahead : k <= j
  BY <1>1, LeastMember
<1>3. Min(Ahead) \in Ahead /\ \A j \in Ahead : Min(Ahead) <= j
  BY <1>2 DEF Min
<1> DEFINE m == Min(Ahead)
<1>4. /\ PopRequest(written[m]) /\ nread' = m
      /\ handled' = Append(handled, written[m]) /\ written' = written
  BY DEF Take, m21Vars
<1> HIDE DEF m
<1>5. m \in (nread + 1)..Len(written) /\ IsMsg(written[m]) /\ \A j \in Ahead : m <= j
  BY <1>3 DEF m, Ahead
<1>6. written[m] \in Messages
  <2>1. m \in 1..Len(written)
    BY <1>1, <1>5
  <2>2. written[m] \in Items
    BY <1>1, <2>1, ElementOfSeq
  <2> QED
    BY <1>5, <2>2 DEF Items, IsMsg
<1>7. ASSUME NEW j \in (nread + 1)..(m - 1) PROVE ~ IsMsg(written[j])
  <2>1. j \in (nread + 1)..Len(written) /\ ~ (m <= j)
    BY <1>1, <1>5
  <2>2. j \notin Ahead
    BY <1>5, <2>1
  <2> QED
    BY <2>1, <2>2 DEF Ahead
<1> QED
  BY <1>4, <1>5, <1>6, <1>7

LEMMA InitHandled == Init => HandledInv
<1> SUFFICES ASSUME Init PROVE HandledInv
  OBVIOUS
<1>1. written = <<>> /\ nread = 0 /\ handled = <<>>
  BY DEF Init, m21Init
<1>2. <<>> \in Seq(Items) /\ <<>> \in Seq(Messages) /\ Len(<<>>) = 0
  BY EmptySeq
<1>3. MsgsOf(<<>>) = <<>>
  BY MsgsNone
<1>4. SubSeq(<<>>, 1, 0) = <<>>
  BY SubSeqEmpty
<1>5. handled = MsgsOf(SubSeq(written, 1, nread))
  BY <1>1, <1>3, <1>4, Zenon
<1>6. nread \in 0..Len(written) /\ handled \in Seq(Messages)
  BY <1>1, <1>2
<1> QED
  BY <1>5, <1>6 DEF HandledInv

LEMMA NextHandled == M21Inv /\ HandledInv /\ [Next]_vars => HandledInv'
<1> SUFFICES ASSUME M21Inv, HandledInv, [Next]_vars PROVE HandledInv'
  OBVIOUS
<1>1. /\ written \in Seq(Items) /\ Len(written) \in Nat
      /\ nread \in 0..Len(written) /\ nread \in Nat
      /\ handled \in Seq(Messages) /\ handled = MsgsOf(SubSeq(written, 1, nread))
  BY LenProperties DEF M21Inv, Typed, HandledInv
<1>2. CASE Take
  <2>1. PICK k \in (nread + 1)..Len(written) :
          /\ \A j \in (nread + 1)..(k - 1) : ~ IsMsg(written[j])
          /\ written[k] \in Messages
          /\ nread' = k /\ handled' = Append(handled, written[k]) /\ written' = written
    BY <1>2, TakeIs
  <2> DEFINE s == SubSeq(written, 1, nread)
             t == SubSeq(written, nread + 1, k - 1)
             c == SubSeq(written, nread + 1, k)
             b == SubSeq(written, 1, k)
             m == written[k]
             one == <<m>>
  <2>2. \A j \in 1..Len(written) : written[j] \in Items
    BY <1>1, ElementOfSeq
  <2>3. k \in Nat /\ k \in 1..Len(written) /\ nread + 1 \in 1..Len(written) /\ k \in (nread + 1)..Len(written)
    BY <1>1
  <2>4. Joins(b, s, c)
    <3>1. 1 \in 1..(Len(written) + 1) /\ nread \in (1 - 1)..Len(written) /\ k \in nread..Len(written)
      BY <1>1, <2>3
    <3> QED
      BY <1>1, <3>1, ConcatAdjacentSubSeq DEF Joins
  <2>5. Joins(c, t, one)
    BY <1>1, <2>3, SubSeqRecursiveSecond DEF Joins
  <2>6. s \in Seq(Items)
    BY <1>1, <2>2, SubSeqProperties
  <2>7. /\ t \in Seq(Items)
        /\ \A j \in 1..Len(t) : t[j] \notin Messages
    <3>1. /\ t \in Seq(Items)
          /\ Len(t) = IF nread + 1 <= k - 1 THEN (k - 1) - (nread + 1) + 1 ELSE 0
          /\ \A j \in 1..((k - 1) - (nread + 1) + 1) : t[j] = written[(nread + 1) + j - 1]
      <4>1. nread + 1 \in Int /\ k - 1 \in Int /\ \A j \in (nread + 1)..(k - 1) : j \in 1..Len(written)
        BY <1>1, <2>3
      <4>2. \A j \in (nread + 1)..(k - 1) : written[j] \in Items
        BY <2>2, <4>1
      <4> QED
        BY <4>1, <4>2, SubSeqProperties
    <3> HIDE DEF t
    <3>2. ASSUME NEW j \in 1..Len(t) PROVE t[j] \notin Messages
      <4>1. /\ j \in 1..((k - 1) - (nread + 1) + 1)
            /\ (nread + 1) + j - 1 \in (nread + 1)..(k - 1)
        BY <1>1, <2>3, <3>1
      <4>2. PICK h \in (nread + 1)..(k - 1) : h = (nread + 1) + j - 1
        BY <4>1
      <4>3. t[j] = written[h] /\ ~ IsMsg(written[h])
        BY <2>1, <3>1, <4>1, <4>2
      <4> QED
        BY <4>3, NoMsgAssumption DEF IsMsg
    <3> QED
      BY <3>1, <3>2
  <2>8. m \in Messages /\ one \in Seq(Messages) /\ one \in Seq(Items)
    BY <2>1 DEF Items
  <2> HIDE DEF s, t, c, b, one, m
  <2>9. c \in Seq(Items) /\ b \in Seq(Items)
    BY <2>4, <2>5, <2>6, <2>7, <2>8, ConcatProperties DEF Joins
  <2>10. MsgsOf(t) = <<>> /\ MsgsOf(one) = one
    BY <2>7, <2>8, MsgsKept, KeptNone, KeptAll
  <2>11. MsgsOf(c) = one
    <3>1. Joins(MsgsOf(c), <<>>, one)
      BY <2>5, <2>7, <2>8, <2>10, MsgsConcat
    <3> QED
      BY <2>8, <3>1, ConcatEmptySeq DEF Joins
  <2>12. Joins(MsgsOf(b), MsgsOf(s), one)
    BY <2>4, <2>6, <2>9, <2>11, MsgsConcat
  <2>13. MsgsOf(b) = Append(handled, m)
    <3>1. handled = MsgsOf(s)
      BY <1>1 DEF s
    <3>2. Append(handled, m) = handled \o <<m>>
      BY <1>1, <2>8, AppendIsConcat
    <3> QED
      BY <2>12, <3>1, <3>2, Zenon DEF Joins, one
  <2>14. handled' = MsgsOf(SubSeq(written', 1, nread')) /\ nread' \in 0..Len(written')
    BY <1>1, <2>1, <2>13 DEF b, m
  <2>15. handled' \in Seq(Messages)
    BY <1>1, <2>1, AppendProperties
  <2> QED
    BY <2>14, <2>15 DEF HandledInv
<1>3. CASE ~ Take
  <2>1. nread' = nread /\ handled' = handled
    BY <1>3 DEF Next, Ask, M21Step, OutStep, Spurious, HandlerStep, Stop, Interrupted,
                Over, vars, busVars
  <2>2. CASE written' = written
    BY <1>1, <2>1, <2>2 DEF HandledInv
  <2>3. ASSUME NEW b \in Seq(Items), Joins(written', written, b) PROVE HandledInv'
    <3>1. SubSeq(written', 1, nread) = SubSeq(written, 1, nread)
      BY <1>1, <2>3, Prefix DEF Joins
    <3>2. Len(written') = Len(written) + Len(b) /\ Len(b) \in Nat
      BY <1>1, <2>3, ConcatProperties, LenProperties DEF Joins
    <3>3. nread \in 0..Len(written')
      BY <1>1, <3>2
    <3> QED
      BY <1>1, <2>1, <3>1, <3>3 DEF HandledInv
  <2> QED
    BY <2>2, <2>3, StepsOfM21 DEF Grows
<1> QED
  BY <1>2, <1>3

-----------------------------------------------------------------------------
(* What the handler has posted *)

Replies == {[key |-> m.key, value |-> known.answer] : m \in Messages, known \in Answers}

ReplyInv ==
    /\ handler \in {"pop", "call", "done", "dead"}
    /\ replies \in Seq(Replies)
    /\ Len(handled) = Len(replies) + (IF handler \in {"call", "dead"} THEN 1 ELSE 0)
    /\ \A k \in 1..Len(replies) : Answered(handled[k], replies[k])
    /\ handler = "call" => msg = handled[Len(handled)]
    /\ handler = "dead" => Unanswered(handled[Len(handled)])

LEMMA InitReply == Init => ReplyInv
<1> SUFFICES ASSUME Init PROVE ReplyInv
  OBVIOUS
<1>1. handler = "pop" /\ replies = <<>> /\ handled = <<>>
  BY DEF Init, HandlerInit
<1>2. <<>> \in Seq(Replies) /\ Len(<<>>) = 0
  BY EmptySeq
<1> QED
  BY <1>1, <1>2 DEF ReplyInv

LEMMA NextReply == M21Inv /\ HandledInv /\ ReplyInv /\ [Next]_vars => ReplyInv'
<1> SUFFICES ASSUME M21Inv, HandledInv, ReplyInv, [Next]_vars PROVE ReplyInv'
  OBVIOUS
<1> DEFINE h == Len(handled)
           r == Len(replies)
<1>1. /\ handled \in Seq(Messages) /\ h \in Nat
      /\ handler \in {"pop", "call", "done", "dead"}
      /\ replies \in Seq(Replies) /\ r \in Nat
      /\ h = r + (IF handler \in {"call", "dead"} THEN 1 ELSE 0)
      /\ \A k \in 1..r : Answered(handled[k], replies[k])
      /\ handler = "call" => msg = handled[h]
      /\ handler = "dead" => Unanswered(handled[h])
  BY LenProperties DEF HandledInv, ReplyInv
<1>2. CASE Take
  <2>1. PICK m \in Messages : PopRequest(m) /\ handled' = Append(handled, m)
    BY <1>2, TakeIs
  <2>2. handler = "pop" /\ handler' = "call" /\ msg' = m /\ replies' = replies
    BY <2>1 DEF PopRequest
  <2>3. /\ Len(handled') = h + 1 /\ handled'[h + 1] = m
        /\ \A k \in 1..h : handled'[k] = handled[k]
    BY <1>1, <2>1, AppendProperties
  <2>4. h = r
    BY <1>1, <2>2
  <2>5. \A k \in 1..r : Answered(handled'[k], replies'[k])
    BY <1>1, <2>2, <2>3, <2>4
  <2>6. /\ Len(handled') = Len(replies') + 1 /\ msg' = handled'[Len(handled')]
    BY <2>2, <2>3, <2>4
  <2> QED
    BY <1>1, <2>2, <2>5, <2>6 DEF ReplyInv
<1>3. CASE Handle /\ UNCHANGED <<m21Vars, busVars>>
  <2>1. PICK known \in Answers :
          /\ known.request = Requested(msg)
          /\ IF known.answer = NoAnswer THEN handler' = "dead" /\ replies' = replies
             ELSE /\ handler' = "pop"
                  /\ replies' = Append(replies, [key |-> msg.key, value |-> known.answer])
    BY <1>3 DEF Handle
  <2>2. handler = "call" /\ handled' = handled /\ msg = handled[h] /\ h = r + 1
    BY <1>1, <1>3 DEF Handle, busVars
  <2>3. CASE known.answer = NoAnswer
    <3>1. handler' = "dead" /\ replies' = replies /\ handled' = handled
      BY <2>1, <2>2, <2>3
    <3>2. Unanswered(handled[h])
      BY <2>1, <2>2, <2>3 DEF Unanswered
    <3> QED
      BY <1>1, <2>2, <3>1, <3>2 DEF ReplyInv
  <2>4. CASE known.answer # NoAnswer
    <3> DEFINE reply == [key |-> msg.key, value |-> known.answer]
    <3>1. handler' = "pop" /\ replies' = Append(replies, reply)
      BY <2>1, <2>4
    <3>2. Answered(handled[h], reply)
      BY <2>1, <2>2, <2>4 DEF Answered
    <3>3. reply \in Replies
      <4>1. h \in 1..Len(handled)
        BY <1>1, <2>2
      <4>2. msg \in Messages
        BY <1>1, <2>2, <4>1, ElementOfSeq
      <4> QED
        BY <4>2 DEF Replies
    <3> HIDE DEF reply
    <3>4. /\ replies' \in Seq(Replies) /\ Len(replies') = r + 1 /\ replies'[r + 1] = reply
          /\ \A k \in 1..r : replies'[k] = replies[k]
      BY <1>1, <3>1, <3>3, AppendProperties
    <3>5. ASSUME NEW k \in 1..(r + 1) PROVE Answered(handled'[k], replies'[k])
      <4>1. k \in 1..r \/ k = r + 1
        BY <1>1
      <4>2. CASE k \in 1..r
        BY <1>1, <2>2, <3>4, <4>2, Zenon
      <4>3. CASE k = r + 1
        BY <2>2, <3>2, <3>4, <4>3
      <4> QED
        BY <4>1, <4>2, <4>3
    <3> QED
      BY <1>1, <2>2, <3>1, <3>4, <3>5 DEF ReplyInv
  <2> QED
    BY <2>3, <2>4
<1>4. CASE PopInterrupted /\ UNCHANGED <<m21Vars, busVars>>
  <2>1. handler = "pop" /\ handler' = "done" /\ UNCHANGED <<msg, replies, handled>>
    BY <1>4 DEF PopInterrupted, busVars
  <2> QED
    BY <1>1, <2>1 DEF ReplyInv
<1>5. CASE UNCHANGED <<handlerVars, handled>>
  BY <1>5 DEF ReplyInv, handlerVars
<1> QED
  BY <1>2, <1>3, <1>4, <1>5 DEF Next, Ask, M21Step, OutStep, Spurious, HandlerStep, Stop,
     Interrupted, Over, vars, busVars

-----------------------------------------------------------------------------
(* The calls of a client *)

LEMMA CallsCorrect == Spec => [](M21Inv /\ PostInv /\ HandledInv /\ ReplyInv)
<1>1. Init => M21Inv /\ PostInv /\ HandledInv /\ ReplyInv
  BY InitM21, InitPost, InitHandled, InitReply
<1>2. M21Inv /\ PostInv /\ HandledInv /\ ReplyInv /\ [Next]_vars
      => (M21Inv /\ PostInv /\ HandledInv /\ ReplyInv)'
  BY StepsOfM21, NextPost, NextHandled, NextReply
<1> QED
  BY <1>1, <1>2, PTL DEF Spec

\* What the handler has popped of a client is the beginning of what it has posted.
LEMMA HisRequests ==
    ASSUME M21Inv, PostInv, HandledInv, NEW i \in Inputs
    PROVE  LET his == FromClient(handled, i) IN his = SubSeq(asked[i], 1, Len(his))
<1> DEFINE rest == MsgsOf(SubSeq(written, nread + 1, Len(written)))
           w == MsgsOf(written)
           his == FromClient(handled, i)
<1>1. /\ handled \in Seq(Messages) /\ rest \in Seq(Messages) /\ w \in Seq(Messages)
      /\ Joins(w, handled, rest)
  <2>1. written \in Seq(Items) /\ nread \in 0..Len(written)
    BY DEF M21Inv, Typed, HandledInv
  <2>2. /\ SubSeq(written, 1, nread) \in Seq(Items)
        /\ SubSeq(written, nread + 1, Len(written)) \in Seq(Items)
        /\ Joins(written, SubSeq(written, 1, nread), SubSeq(written, nread + 1, Len(written)))
    BY <2>1, Cut
  <2>3. handled = MsgsOf(SubSeq(written, 1, nread))
    BY DEF HandledInv
  <2> QED
    BY <2>1, <2>2, <2>3, MsgsConcat, MsgsType
<1>2. Merged \in Seq(Messages) /\ queue \in Seq(Messages) /\ Joins(Merged, w, queue)
  BY MergedType DEF Merged, Joins
<1> HIDE DEF rest, w
<1>3. /\ his \in Seq(Of(i)) /\ FromClient(rest, i) \in Seq(Of(i))
      /\ FromClient(w, i) \in Seq(Of(i)) /\ FromClient(queue, i) \in Seq(Of(i))
      /\ FromClient(Merged, i) \in Seq(Of(i)) /\ Pending[i] \in Seq(Of(i))
  BY <1>1, <1>2, FromKept, PendingOf
<1>4. /\ Joins(FromClient(w, i), his, FromClient(rest, i))
      /\ Joins(FromClient(Merged, i), FromClient(w, i), FromClient(queue, i))
      /\ Joins(asked[i], FromClient(Merged, i), Pending[i])
  BY <1>1, <1>2, FromConcat DEF PostInv
<1> HIDE DEF his
<1>5. PICK n \in Nat : n = Len(his)
  BY <1>3, LenProperties
<1>6. ASSUME NEW s \in Seq(Of(i)), NEW t \in Seq(Of(i)), NEW b, Joins(b, s, t), n <= Len(s)
      PROVE  SubSeq(b, 1, n) = SubSeq(s, 1, n) /\ n <= Len(b)
  <2>1. n \in 0..Len(s) /\ Len(s) \in Nat /\ Len(t) \in Nat
    BY <1>6, LenProperties
  <2>2. Len(b) = Len(s) + Len(t)
    BY <1>6, ConcatProperties DEF Joins
  <2> QED
    BY <1>6, <2>1, <2>2, Prefix DEF Joins
<1>7. /\ SubSeq(asked[i], 1, n) = SubSeq(FromClient(Merged, i), 1, n)
      /\ SubSeq(FromClient(Merged, i), 1, n) = SubSeq(FromClient(w, i), 1, n)
      /\ SubSeq(FromClient(w, i), 1, n) = SubSeq(his, 1, n)
  <2>1. n <= Len(his)
    BY <1>5
  <2>2. SubSeq(FromClient(w, i), 1, n) = SubSeq(his, 1, n) /\ n <= Len(FromClient(w, i))
    BY <1>3, <1>4, <1>6, <2>1
  <2>3. /\ SubSeq(FromClient(Merged, i), 1, n) = SubSeq(FromClient(w, i), 1, n)
        /\ n <= Len(FromClient(Merged, i))
    BY <1>3, <1>4, <1>6, <2>2
  <2>4. SubSeq(asked[i], 1, n) = SubSeq(FromClient(Merged, i), 1, n)
    BY <1>3, <1>4, <1>6, <2>3
  <2> QED
    BY <2>2, <2>3, <2>4
<1>8. SubSeq(his, 1, Len(his)) = his
  BY <1>3, SubSeqFull
<1>9. his = SubSeq(asked[i], 1, Len(his))
  BY <1>5, <1>7, <1>8, Zenon
<1> QED
  BY <1>9 DEF his

\* Every call has its own reply: the handler pops what each client has posted, once
\* and in its order, whatever the clients, the requests and the answers are, and
\* replies to one after the other; only the request it is at, or the one that ended
\* it, has no reply.
THEOREM OneReplyEachCorrect == Spec => []OneReplyEach
<1>1. M21Inv /\ PostInv /\ HandledInv /\ ReplyInv => OneReplyEach
  <2> SUFFICES ASSUME M21Inv, PostInv, HandledInv, ReplyInv PROVE OneReplyEach
    OBVIOUS
  <2>1. \A i \in Inputs : LET his == FromClient(handled, i) IN his = SubSeq(asked[i], 1, Len(his))
    BY HisRequests
  <2>2. DOMAIN replies = 1..Len(replies)
    BY LenProperties DEF ReplyInv
  <2> QED
    BY <2>1, <2>2 DEF OneReplyEach, HandledInv, ReplyInv
<1> QED
  BY <1>1, CallsCorrect, PTL
=============================================================================
