------------------------- MODULE StreamChain_proofs -------------------------
(***************************************************************************)
(* Proofs about StreamChain for every rate, history and delay, and for     *)
(* streams and buffers of every length.                                    *)
(***************************************************************************)
EXTENDS StreamChain, SequenceTheorems, TLAPS

-----------------------------------------------------------------------------
(* Types *)

\* The types of the block and of the delay; the delay records one delay per item.
BlockType ==
    /\ kind \in Kinds /\ history \in Histories
    /\ arrived \in Nat /\ nread \in Int /\ calls \in Nat
    /\ out \in Seq(Int)
DelayType ==
    /\ delay_items \in Int /\ nread_ \in Nat /\ sets \in Nat
    /\ offer \in Nat \X Nat
    /\ delayed \in Seq(Nat) /\ under \in Seq(Int \X Int)
    /\ Len(under) = Len(delayed)

LEMMA RateType ==
    ASSUME BlockType
    PROVE  /\ Up \in Nat /\ Up > 0 /\ Down \in Nat /\ Down > 0
           /\ history \in Nat /\ history > 0
BY StreamBlockAssumption DEF BlockType, Up, Down

\* lround gives an integer.
LEMMA LroundType == \A a \in Int : \A b \in Nat : b > 0 => mylround(a, b) \in Int
BY DEF mylround

LEMMA ConsumedType ==
    ASSUME BlockType, NEW r \in Nat PROVE Consumed(r) \in Int
<1>1. r * Down \in Int
  BY RateType
<1> QED
  BY <1>1, RateType, LroundType DEF Consumed

\* work() returns items.
LEMMA MadeType ==
    ASSUME BlockType, NEW r \in Nat
    PROVE  Made(r) \in Seq(Int) /\ Len(Made(r)) = r
<1>1. ASSUME NEW j \in 1..r PROVE InputItem(history + ((j - 1) * Down) \div Up) \in Int
  <2>1. ((j - 1) * Down) \div Up \in Int
    BY RateType
  <2> QED
    BY <2>1, RateType DEF InputItem, BlockType
<1> QED
  BY <1>1, SeqDef DEF Made

LEMMA BlockTypeStep == BlockType /\ [Next]_vars => BlockType'
<1> SUFFICES ASSUME BlockType, [Next]_vars PROVE BlockType'
  OBVIOUS
<1> USE DEF blockVars, BlockType
<1>1. CASE Source
  BY <1>1, StreamBlockAssumption DEF Source, Arrive
<1>2. CASE BlockWork
  <2>0. PICK n \in Asked(BufSize - Waiting) : \E r \in 0..n : GeneralWork(n, r)
    BY <1>2 DEF BlockWork
  <2>1. PICK r \in 0..n : GeneralWork(n, r)
    BY <2>0
  <2>2. n \in Int
    BY DEF Asked
  <2>3. r \in Nat
    BY <2>2
  <2>4. Made(r) \in Seq(Int) /\ Consumed(r) \in Int
    BY <2>3, MadeType, ConsumedType
  <2>5. out' \in Seq(Int)
    BY <2>1, <2>4, ConcatProperties DEF GeneralWork
  <2> QED
    BY <2>1, <2>4, <2>5 DEF GeneralWork
<1>3. CASE BlockEnds
  BY <1>3 DEF BlockEnds, WorkEnds
<1>4. CASE BlockDone
  BY <1>4 DEF BlockDone, InputDone
<1>5. CASE UNCHANGED blockVars
  BY <1>5
<1> QED
  BY <1>1, <1>2, <1>3, <1>4, <1>5 DEF Next, SetDelay, DelayCalled, DelayEnds, Over, vars

\* What Write does to each of the items.
LEMMA WriteItems ==
    ASSUME DelayType, NEW items \in Seq(Nat), NEW consumed \in Nat, Write(items, consumed)
    PROVE  /\ DelayType'
           /\ Len(delayed') = Len(delayed) + Len(items)
           /\ \A k \in 1..Len(delayed) : delayed'[k] = delayed[k] /\ under'[k] = under[k]
           /\ \A k \in (Len(delayed) + 1)..Len(delayed') :
                 /\ delayed'[k] = items[k - Len(delayed)]
                 /\ under'[k] = <<-delay_items, sets>>
<1> DEFINE U == [k \in 1..Len(items) |-> <<-delay_items, sets>>]
<1>1. U \in Seq(Int \X Int) /\ Len(U) = Len(items)
  BY SeqDef DEF DelayType
<1>2. /\ delayed' = delayed \o items /\ under' = under \o U
      /\ nread_' = nread_ + consumed /\ offer' = <<0, 0>>
      /\ UNCHANGED <<delay_items, sets>>
  BY DEF Write
<1> HIDE DEF U
<1>3. /\ delayed' \in Seq(Nat) /\ Len(delayed') = Len(delayed) + Len(items)
      /\ \A k \in 1..Len(delayed') :
            delayed'[k] = IF k <= Len(delayed) THEN delayed[k] ELSE items[k - Len(delayed)]
  BY <1>2, ConcatProperties DEF DelayType
<1>4. /\ under' \in Seq(Int \X Int) /\ Len(under') = Len(under) + Len(U)
      /\ \A k \in 1..(Len(under) + Len(U)) :
            under'[k] = IF k <= Len(under) THEN under[k] ELSE U[k - Len(under)]
  <2> DEFINE Pairs == Int \X Int
  <2>1. under \in Seq(Pairs) /\ U \in Seq(Pairs) /\ under' = under \o U
    BY <1>1, <1>2 DEF DelayType
  <2> HIDE DEF Pairs
  <2>2. /\ under' \in Seq(Pairs) /\ Len(under') = Len(under) + Len(U)
        /\ \A k \in 1..(Len(under) + Len(U)) :
              under'[k] = IF k <= Len(under) THEN under[k] ELSE U[k - Len(under)]
    BY <2>1, ConcatProperties
  <2> QED
    BY <2>2 DEF Pairs
<1>5. DelayType'
  BY <1>1, <1>2, <1>3, <1>4 DEF DelayType
<1>6. ASSUME NEW k \in (Len(delayed) + 1)..Len(delayed') PROVE under'[k] = <<-delay_items, sets>>
  <2>1. k - Len(under) \in 1..Len(items) /\ ~(k <= Len(under)) /\ k \in 1..Len(under')
    BY <1>1, <1>3, <1>4 DEF DelayType
  <2> QED
    BY <1>4, <2>1 DEF U
<1>7. \A k \in 1..Len(delayed) : delayed'[k] = delayed[k] /\ under'[k] = under[k]
  <2>1. ASSUME NEW k \in 1..Len(delayed)
        PROVE  delayed'[k] = delayed[k] /\ under'[k] = under[k]
    <3>1. k <= Len(delayed) /\ k <= Len(under) /\ k \in 1..Len(delayed')
          /\ k \in 1..(Len(under) + Len(U))
      BY <1>1, <1>3 DEF DelayType
    <3> QED
      BY <3>1, <1>3, <1>4
  <2> QED
    BY <2>1
<1>8. ASSUME NEW k \in (Len(delayed) + 1)..Len(delayed')
      PROVE  delayed'[k] = items[k - Len(delayed)]
  <2>1. k \in 1..Len(delayed') /\ ~(k <= Len(delayed))
    BY <1>3 DEF DelayType
  <2> QED
    BY ONLY <1>3, <2>1, Zenon
<1> QED
  BY <1>3, <1>5, <1>6, <1>7, <1>8

-----------------------------------------------------------------------------
(* Shifted *)

\* Where Shifted comes from: an item is not written before its input is read, a
\* call of set_delay is seen in every item behind it, and an item that was copied
\* under the present delay finds the delay in step, with nothing but copies since.
ShiftInv ==
    /\ \A k \in 1..Len(delayed) :
          /\ delayed[k] <= nread_
          /\ under[k][2] >= sets
          /\ under[k][2] = sets => under[k][1] = -delay_items
    /\ \A k \in 1..Len(delayed) :
          (delayed[k] # 0 /\ under[k][2] = sets) =>
             /\ delta = 0
             /\ \A i \in k..Len(delayed) : delayed[i] # 0

LEMMA DelayTypeStep == BlockType /\ DelayType /\ [Next]_vars => DelayType'
<1> SUFFICES ASSUME BlockType, DelayType, [Next]_vars PROVE DelayType'
  OBVIOUS
<1>1. CASE SetDelay
  <2>1. PICK n \in Delays : set_delay(n)
    BY <1>1 DEF SetDelay
  <2> QED
    BY <2>1, DelayAssumption DEF set_delay, DelayType
<1>2. ASSUME NEW n \in 1..MaxOut, DelayForecast(Waiting, n) PROVE DelayType'
  <2>1. Waiting \in Nat /\ n \in Nat
    BY <1>2, DelayAssumption DEF DelayForecast, Waiting, BlockType, DelayType
  <2> QED
    BY <1>2, <2>1 DEF DelayForecast, DelayType
<1>3. CASE DelayDrop
  <2>1. Lesser(offer[1], -delta) \in Nat
    BY <1>3 DEF DelayDrop, Lesser, delta, DelayType
  <2> QED
    BY <1>3, <2>1, WriteItems, EmptySeq DEF DelayDrop
<1>4. CASE DelayInsert
  <2> DEFINE items == [k \in 1..Lesser(offer[2], delta) |-> 0]
  <2>1. Lesser(offer[2], delta) \in Nat
    BY <1>4 DEF DelayInsert, Lesser, delta, DelayType
  <2>2. items \in Seq(Nat)
    BY <2>1, SeqDef
  <2> QED
    BY <1>4, <2>2, WriteItems DEF DelayInsert
<1>5. CASE DelayCopy
  <2> DEFINE n == Lesser(offer[1], offer[2])
             items == [k \in 1..n |-> nread_ + k]
  <2>1. n \in Nat
    BY DEF Lesser, DelayType
  <2>2. items \in Seq(Nat)
    <3>1. \A k \in 1..n : nread_ + k \in Nat
      BY <2>1 DEF DelayType
    <3> HIDE DEF n
    <3> QED
      BY <2>1, <3>1, SeqDef
  <2> QED
    BY <1>5, <2>1, <2>2, WriteItems DEF DelayCopy
<1>6. CASE DelayEnds
  BY <1>6 DEF DelayEnds, DelayDone, DelayType
<1>7. CASE UNCHANGED delayVars
  BY <1>7 DEF delayVars, DelayType
<1> QED
  BY <1>1, <1>2, <1>3, <1>4, <1>5, <1>6, <1>7
  DEF Next, Source, BlockWork, BlockEnds, BlockDone, DelayCalled, DelayWork, Over, vars

\* Shifted speaks of the items written only.
LEMMA ShiftedLocal ==
    ASSUME DelayType
    PROVE  Shifted <=> \A k \in 1..Len(delayed) : delayed[k] # 0 =>
              /\ k - delayed[k] = under[k][1]
              /\ \A j \in 1..(k - 1) : delayed[j] # 0 =>
                    /\ delayed[j] < delayed[k]
                    /\ under[j][2] = under[k][2] => \A i \in j..k : delayed[i] # 0
<1>1. DOMAIN delayed = 1..Len(delayed)
  BY DEF DelayType
<1> QED
  BY <1>1, Zenon DEF Shifted

LEMMA ShiftedNext ==
    ASSUME DelayType',
           \A k \in 1..Len(delayed') : delayed'[k] # 0 =>
              /\ k - delayed'[k] = under'[k][1]
              /\ \A j \in 1..(k - 1) : delayed'[j] # 0 =>
                    /\ delayed'[j] < delayed'[k]
                    /\ under'[j][2] = under'[k][2] => \A i \in j..k : delayed'[i] # 0
    PROVE  Shifted'
<1>1. DOMAIN delayed' = 1..Len(delayed')
  BY DEF DelayType
<1> QED
  BY <1>1, Zenon DEF Shifted

LEMMA KeptShifted ==
    ASSUME DelayType, Shifted, DelayType', Len(delayed') >= Len(delayed),
           \A k \in 1..Len(delayed) : delayed'[k] = delayed[k] /\ under'[k] = under[k]
    PROVE  \A k \in 1..Len(delayed) : delayed'[k] # 0 =>
              /\ k - delayed'[k] = under'[k][1]
              /\ \A j \in 1..(k - 1) : delayed'[j] # 0 =>
                    /\ delayed'[j] < delayed'[k]
                    /\ under'[j][2] = under'[k][2] => \A i \in j..k : delayed'[i] # 0
<1> SUFFICES ASSUME NEW k \in 1..Len(delayed), delayed'[k] # 0
             PROVE  /\ k - delayed'[k] = under'[k][1]
                    /\ \A j \in 1..(k - 1) : delayed'[j] # 0 =>
                          /\ delayed'[j] < delayed'[k]
                          /\ under'[j][2] = under'[k][2] => \A i \in j..k : delayed'[i] # 0
  OBVIOUS
<1>1. \A j \in 1..k : j \in 1..Len(delayed)
  BY DEF DelayType
<1>2. \A j \in 1..(k - 1) : j \in 1..k /\ \A i \in j..k : i \in 1..k
  OBVIOUS
<1> QED
  BY <1>1, <1>2, ShiftedLocal

LEMMA DropShifts ==
    ASSUME DelayType, ShiftInv, Shifted, DelayDrop PROVE ShiftInv' /\ Shifted'
<1>1. Lesser(offer[1], -delta) \in Nat /\ <<>> \in Seq(Nat) /\ Len(<<>>) = 0
  BY EmptySeq DEF DelayDrop, Lesser, delta, DelayType
<1>2. /\ Len(delayed') = Len(delayed) /\ nread_ <= nread_'
      /\ \A k \in 1..Len(delayed) : delayed'[k] = delayed[k] /\ under'[k] = under[k]
      /\ DelayType' /\ UNCHANGED <<delay_items, sets>>
  BY <1>1, WriteItems DEF DelayDrop, Write, DelayType
<1>3. \A k \in 1..Len(delayed) : ~(delayed[k] # 0 /\ under[k][2] = sets)
  <2>1. delta \in Int /\ delta < 0
    BY DEF DelayDrop, delta, DelayType
  <2>2. delta # 0
    BY <2>1
  <2> QED
    BY <2>2 DEF ShiftInv
<1>4. ShiftInv'
  <2>1. ASSUME NEW k \in 1..Len(delayed)
        PROVE  /\ delayed'[k] <= nread_' /\ under'[k][2] >= sets'
               /\ under'[k][2] = sets' => under'[k][1] = -delay_items'
               /\ ~(delayed'[k] # 0 /\ under'[k][2] = sets')
    <3>1. delayed[k] \in Nat /\ nread_ \in Nat /\ nread_' \in Nat
      BY <1>2, ElementOfSeq DEF DelayType
    <3> QED
      BY <1>2, <1>3, <3>1 DEF ShiftInv
  <2> QED
    BY <1>2, <2>1 DEF ShiftInv
<1>5. Shifted'
  BY <1>2, KeptShifted, ShiftedNext
<1> QED
  BY <1>4, <1>5

LEMMA InsertShifts ==
    ASSUME DelayType, ShiftInv, Shifted, DelayInsert PROVE ShiftInv' /\ Shifted'
<1> DEFINE n == Lesser(offer[2], delta)
           items == [k \in 1..n |-> 0]
<1>1. n \in Nat
  BY DEF DelayInsert, Lesser, delta, DelayType
<1>2. Write(items, 0)
  BY DEF DelayInsert
<1> HIDE DEF n
<1>3. items \in Seq(Nat) /\ Len(items) = n /\ \A k \in 1..n : items[k] = 0
  BY <1>1, SeqDef
<1> HIDE DEF items
<1>4. /\ DelayType' /\ Len(delayed') = Len(delayed) + n
      /\ \A k \in 1..Len(delayed) : delayed'[k] = delayed[k] /\ under'[k] = under[k]
      /\ \A k \in (Len(delayed) + 1)..Len(delayed') :
            /\ delayed'[k] = items[k - Len(delayed)]
            /\ under'[k] = <<-delay_items, sets>>
      /\ nread_' = nread_ + 0 /\ UNCHANGED <<delay_items, sets>>
  <2>1. /\ DelayType'
        /\ Len(delayed') = Len(delayed) + Len(items)
        /\ \A k \in 1..Len(delayed) : delayed'[k] = delayed[k] /\ under'[k] = under[k]
        /\ \A k \in (Len(delayed) + 1)..Len(delayed') :
              /\ delayed'[k] = items[k - Len(delayed)]
              /\ under'[k] = <<-delay_items, sets>>
    BY <1>2, <1>3, WriteItems
  <2> QED
    BY <1>2, <1>3, <2>1 DEF Write
<1>5. \A k \in (Len(delayed) + 1)..Len(delayed') :
         delayed'[k] = 0 /\ under'[k] = <<-delay_items, sets>>
  <2> SUFFICES ASSUME NEW k \in (Len(delayed) + 1)..Len(delayed') PROVE delayed'[k] = 0
    BY <1>4
  <2>1. k - Len(delayed) \in 1..n
    BY <1>1, <1>4 DEF DelayType
  <2> QED
    BY <1>3, <1>4, <2>1
<1>6. \A k \in 1..Len(delayed) : ~(delayed[k] # 0 /\ under[k][2] = sets)
  <2>1. delta \in Int /\ delta > 0
    BY DEF DelayInsert, delta, DelayType
  <2>2. delta # 0
    BY <2>1
  <2> QED
    BY <2>2 DEF ShiftInv
<1>7. \A k \in 1..Len(delayed') :
         k \in 1..Len(delayed) \/ k \in (Len(delayed) + 1)..Len(delayed')
  BY <1>1, <1>4 DEF DelayType
<1>8. ShiftInv'
  <2>1. ASSUME NEW k \in 1..Len(delayed')
        PROVE  /\ delayed'[k] <= nread_' /\ under'[k][2] >= sets'
               /\ under'[k][2] = sets' => under'[k][1] = -delay_items'
               /\ ~(delayed'[k] # 0 /\ under'[k][2] = sets')
    <3>1. CASE k \in 1..Len(delayed)
      <4>1. delayed[k] \in Nat /\ nread_ \in Nat
        BY <3>1, ElementOfSeq DEF DelayType
      <4> QED
        BY <1>4, <1>6, <3>1, <4>1 DEF ShiftInv
    <3>2. CASE k \in (Len(delayed) + 1)..Len(delayed')
      <4>1. delayed'[k] = 0 /\ under'[k] = <<-delay_items, sets>>
        BY <1>5, <3>2
      <4>2. nread_' >= 0 /\ sets' = sets /\ delay_items' = delay_items /\ sets \in Nat
        BY <1>4 DEF DelayType
      <4> QED
        BY <4>1, <4>2
    <3> QED
      BY <1>7, <3>1, <3>2
  <2> QED
    BY <2>1 DEF ShiftInv
<1>9. Shifted'
  <2>1. Len(delayed') >= Len(delayed)
    BY <1>1, <1>4 DEF DelayType
  <2>2. \A k \in 1..Len(delayed') : delayed'[k] # 0 => k \in 1..Len(delayed)
    BY <1>5, <1>7
  <2> QED
    BY <1>4, <2>1, <2>2, KeptShifted, ShiftedNext
<1> QED
  BY <1>8, <1>9

\* The items that a copy adds are those behind the last one read, and as many
\* places further on as the delay says.
LEMMA CopyShifts ==
    ASSUME DelayType, ShiftInv, Shifted, DelayCopy PROVE ShiftInv' /\ Shifted'
<1> DEFINE n == Lesser(offer[1], offer[2])
           items == [k \in 1..n |-> nread_ + k]
<1>1. n \in Nat
  BY DEF Lesser, DelayType
<1>2. Write(items, n) /\ delta = 0
  BY DEF DelayCopy
<1> HIDE DEF n
<1>3. items \in Seq(Nat) /\ Len(items) = n /\ \A k \in 1..n : items[k] = nread_ + k
  <2>1. \A k \in 1..n : nread_ + k \in Nat
    BY <1>1 DEF DelayType
  <2> QED
    BY <1>1, <2>1, SeqDef
<1> HIDE DEF items
<1>4. /\ DelayType' /\ Len(delayed') = Len(delayed) + n
      /\ \A k \in 1..Len(delayed) : delayed'[k] = delayed[k] /\ under'[k] = under[k]
      /\ \A k \in (Len(delayed) + 1)..Len(delayed') :
            /\ delayed'[k] = items[k - Len(delayed)]
            /\ under'[k] = <<-delay_items, sets>>
      /\ nread_' = nread_ + n /\ UNCHANGED <<delay_items, sets>>
  <2>1. /\ DelayType'
        /\ Len(delayed') = Len(delayed) + Len(items)
        /\ \A k \in 1..Len(delayed) : delayed'[k] = delayed[k] /\ under'[k] = under[k]
        /\ \A k \in (Len(delayed) + 1)..Len(delayed') :
              /\ delayed'[k] = items[k - Len(delayed)]
              /\ under'[k] = <<-delay_items, sets>>
    BY <1>1, <1>2, <1>3, WriteItems
  <2> QED
    BY <1>2, <1>3, <2>1 DEF Write
<1>5. /\ Len(delayed) \in Nat /\ nread_ \in Nat /\ delay_items \in Int /\ sets \in Nat
      /\ nread_ - Len(delayed) - delay_items = 0
  BY <1>2 DEF delta, DelayType
<1>6. \A k \in (Len(delayed) + 1)..Len(delayed') :
         /\ delayed'[k] = nread_ + (k - Len(delayed)) /\ delayed'[k] # 0
         /\ delayed'[k] > nread_ /\ delayed'[k] <= nread_'
         /\ under'[k] = <<-delay_items, sets>>
         /\ k - delayed'[k] = under'[k][1]
  <2> SUFFICES ASSUME NEW k \in (Len(delayed) + 1)..Len(delayed')
               PROVE  /\ delayed'[k] = nread_ + (k - Len(delayed)) /\ delayed'[k] # 0
                      /\ delayed'[k] > nread_ /\ delayed'[k] <= nread_'
                      /\ under'[k] = <<-delay_items, sets>>
                      /\ k - delayed'[k] = under'[k][1]
    OBVIOUS
  <2>1. k - Len(delayed) \in 1..n
    BY <1>1, <1>4, <1>5
  <2>2. delayed'[k] = nread_ + (k - Len(delayed)) /\ under'[k] = <<-delay_items, sets>>
    BY <1>3, <1>4, <2>1
  <2> QED
    BY <1>1, <1>4, <1>5, <2>1, <2>2
<1>7. \A k \in 1..Len(delayed') :
         k \in 1..Len(delayed) \/ k \in (Len(delayed) + 1)..Len(delayed')
  BY <1>1, <1>4, <1>5
<1>8. \A k \in 1..Len(delayed) :
         /\ delayed[k] \in Nat /\ delayed[k] <= nread_ /\ under[k][2] >= sets
         /\ under[k][2] = sets => under[k][1] = -delay_items
         /\ (delayed[k] # 0 /\ under[k][2] = sets) =>
               \A i \in k..Len(delayed) : delayed[i] # 0
  BY ElementOfSeq DEF ShiftInv, DelayType
\* The items behind one that was copied under the present delay.
<1>9. ASSUME NEW k \in 1..Len(delayed'), delayed'[k] # 0, under'[k][2] = sets,
             NEW i \in k..Len(delayed')
      PROVE  delayed'[i] # 0
  <2>1. i \in 1..Len(delayed')
    BY <1>1, <1>4, <1>5
  <2>2. CASE i \in (Len(delayed) + 1)..Len(delayed')
    BY <2>2, <1>6
  <2>3. CASE i \in 1..Len(delayed)
    <3>1. k \in 1..Len(delayed) /\ i \in k..Len(delayed)
      BY <2>3, <1>1, <1>5
    <3>2. delayed[k] # 0 /\ under[k][2] = sets
      BY <1>4, <1>9, <3>1
    <3> QED
      BY <1>4, <1>8, <2>3, <3>1, <3>2
  <2> QED
    BY <1>7, <2>1, <2>2, <2>3
<1>10. ShiftInv'
  <2>1. ASSUME NEW k \in 1..Len(delayed')
        PROVE  /\ delayed'[k] <= nread_' /\ under'[k][2] >= sets'
               /\ under'[k][2] = sets' => under'[k][1] = -delay_items'
    <3>1. CASE k \in 1..Len(delayed)
      <4>1. delayed'[k] = delayed[k] /\ under'[k] = under[k]
            /\ sets' = sets /\ delay_items' = delay_items /\ nread_' = nread_ + n
        BY <1>4, <3>1
      <4>2. /\ delayed[k] \in Nat /\ delayed[k] <= nread_ /\ under[k][2] >= sets
            /\ under[k][2] = sets => under[k][1] = -delay_items
        BY <1>8, <3>1
      <4> QED
        BY <1>1, <1>5, <4>1, <4>2
    <3>2. CASE k \in (Len(delayed) + 1)..Len(delayed')
      BY <1>4, <1>5, <1>6, <3>2
    <3> QED
      BY <1>7, <3>1, <3>2
  <2>2. delta' = 0
    BY <1>1, <1>4, <1>5 DEF delta
  <2> QED
    BY <1>4, <1>9, <2>1, <2>2 DEF ShiftInv
<1>11. Shifted'
  <2>1. Len(delayed') >= Len(delayed)
    BY <1>1, <1>4, <1>5
  <2>2. ASSUME NEW k \in (Len(delayed) + 1)..Len(delayed'), NEW j \in 1..(k - 1),
               delayed'[j] # 0
        PROVE  /\ delayed'[j] < delayed'[k]
               /\ under'[j][2] = under'[k][2] => \A i \in j..k : delayed'[i] # 0
    <3>1. j \in 1..Len(delayed') /\ j < k
          /\ \A i \in j..k : i \in j..Len(delayed')
      BY <1>1, <1>4, <1>5
    <3>2. delayed'[j] < delayed'[k]
      <4>1. CASE j \in 1..Len(delayed)
        <5>1. delayed'[j] = delayed[j] /\ delayed[j] \in Nat /\ delayed[j] <= nread_
          BY <4>1, <1>4, <1>8
        <5>2. delayed'[k] = nread_ + (k - Len(delayed)) /\ delayed'[k] > nread_
              /\ k \in Int
          BY <1>5, <1>6
        <5> QED
          BY <5>1, <5>2, <1>5
      <4>2. CASE j \in (Len(delayed) + 1)..Len(delayed')
        <5>1. delayed'[j] = nread_ + (j - Len(delayed))
          BY <4>2, <1>6
        <5>2. delayed'[k] = nread_ + (k - Len(delayed))
          BY <1>6
        <5>3. j \in Int /\ k \in Int
          BY <4>2, <1>5
        <5> QED
          BY ONLY <5>1, <5>2, <5>3, <3>1, <1>5
      <4> QED
        BY <4>1, <4>2, <3>1, <1>7
    <3>3. under'[k][2] = sets
      BY <1>6
    <3> QED
      BY <1>9, <2>2, <3>1, <3>2, <3>3
  <2>3. \A k \in (Len(delayed) + 1)..Len(delayed') : k - delayed'[k] = under'[k][1]
    BY <1>6
  <2>4. \A k \in 1..Len(delayed) : delayed'[k] # 0 =>
           /\ k - delayed'[k] = under'[k][1]
           /\ \A j \in 1..(k - 1) : delayed'[j] # 0 =>
                 /\ delayed'[j] < delayed'[k]
                 /\ under'[j][2] = under'[k][2] => \A i \in j..k : delayed'[i] # 0
    BY <1>4, <2>1, KeptShifted
  <2>5. \A k \in 1..Len(delayed') : delayed'[k] # 0 =>
           /\ k - delayed'[k] = under'[k][1]
           /\ \A j \in 1..(k - 1) : delayed'[j] # 0 =>
                 /\ delayed'[j] < delayed'[k]
                 /\ under'[j][2] = under'[k][2] => \A i \in j..k : delayed'[i] # 0
    BY <1>7, <2>2, <2>3, <2>4
  <2> QED
    BY <1>4, <2>5, ShiftedNext
<1> QED
  BY <1>10, <1>11

LEMMA SetShifts ==
    ASSUME DelayType, ShiftInv, Shifted, SetDelay PROVE ShiftInv' /\ Shifted'
<1>1. PICK n \in Delays : set_delay(n)
  BY DEF SetDelay
<1>2. /\ sets' = sets - 1 /\ delayed' = delayed /\ under' = under /\ nread_' = nread_
      /\ sets \in Nat
  BY <1>1 DEF set_delay, DelayType
<1>3. ASSUME NEW k \in 1..Len(delayed)
      PROVE  delayed[k] <= nread_ /\ under[k][2] >= sets' /\ under[k][2] # sets'
  <2>1. under[k] \in Int \X Int
    BY ElementOfSeq DEF DelayType
  <2>2. under[k][2] \in Int /\ under[k][2] >= sets /\ delayed[k] <= nread_
    BY <2>1 DEF ShiftInv
  <2> QED
    BY <1>2, <2>2
<1>4. ShiftInv'
  BY <1>2, <1>3 DEF ShiftInv
<1> QED
  BY <1>2, <1>4 DEF Shifted

LEMMA ShiftStep ==
    BlockType /\ DelayType /\ ShiftInv /\ Shifted /\ [Next]_vars => ShiftInv' /\ Shifted'
<1> SUFFICES ASSUME BlockType, DelayType, ShiftInv, Shifted, [Next]_vars
             PROVE  ShiftInv' /\ Shifted'
  OBVIOUS
<1>1. CASE UNCHANGED <<delay_items, nread_, delayed, under, sets>>
  BY <1>1 DEF ShiftInv, Shifted, delta
<1>2. CASE DelayWork
  BY <1>2, DropShifts, InsertShifts, CopyShifts DEF DelayWork
<1>3. CASE SetDelay
  BY <1>3, SetShifts
<1> QED
  BY <1>1, <1>2, <1>3
  DEF Next, Source, BlockWork, BlockEnds, BlockDone, DelayCalled, DelayForecast,
      DelayEnds, DelayDone, Over, vars, delayVars

\* What the delay writes is its input in order, shifted as set_delay said, with
\* nothing left out or put in while the delay is not changed (delay.cc).
THEOREM ShiftedCorrect == Spec => []Shifted
<1>1. Init => BlockType /\ DelayType /\ ShiftInv /\ Shifted
  <2> SUFFICES ASSUME Init PROVE BlockType /\ DelayType /\ ShiftInv /\ Shifted
    OBVIOUS
  <2>1. BlockType
    BY EmptySeq DEF Init, StreamBlockInit, BlockType
  <2>2. delayed = <<>> /\ Len(delayed) = 0 /\ DelayType
    BY EmptySeq, DelayAssumption DEF Init, DelayInit, DelayType
  <2> QED
    BY <2>1, <2>2 DEF ShiftInv, Shifted
<1>2. BlockType /\ DelayType /\ ShiftInv /\ Shifted /\ [Next]_vars
         => (BlockType /\ DelayType /\ ShiftInv /\ Shifted)'
  BY BlockTypeStep, DelayTypeStep, ShiftStep
<1> QED
  BY <1>1, <1>2, PTL DEF Spec

-----------------------------------------------------------------------------
(* Division *)

LEMMA DivBounds ==
    ASSUME NEW a \in Int, NEW b \in Nat, b > 0
    PROVE  /\ a \div b \in Int
           /\ b * (a \div b) <= a /\ a < b * (a \div b) + b
OBVIOUS

LEMMA DivUnique ==
    ASSUME NEW a \in Int, NEW b \in Nat, b > 0, NEW q \in Int,
           b * q <= a, a < b * q + b
    PROVE  a \div b = q
<1> DEFINE p == a \div b
<1>1. p \in Int /\ b * p <= a /\ a < b * p + b
  BY DivBounds
<1> HIDE DEF p
<1>2. ~(p > q)
  <2>1. p > q => b * p >= b * (q + 1)
    BY <1>1
  <2>2. b * (q + 1) = b * q + b
    OBVIOUS
  <2> QED
    BY <1>1, <2>1, <2>2
<1>3. ~(p < q)
  <2>1. p < q => b * q >= b * (p + 1)
    BY <1>1
  <2>2. b * (p + 1) = b * p + b
    BY <1>1
  <2> QED
    BY <1>1, <2>1, <2>2
<1> QED
  BY <1>1, <1>2, <1>3 DEF p

LEMMA DivShift ==
    ASSUME NEW a \in Int, NEW b \in Nat, b > 0, NEW k \in Int
    PROVE  (b * k + a) \div b = k + a \div b
<1>1. a \div b \in Int /\ b * (a \div b) <= a /\ a < b * (a \div b) + b
  BY DivBounds
<1>2. b * (k + a \div b) = b * k + b * (a \div b)
  BY <1>1
<1>3. b * k + a \in Int /\ b * k \in Int /\ b * (a \div b) \in Int
  BY <1>1
<1>4. b * (k + a \div b) <= b * k + a /\ b * k + a < b * (k + a \div b) + b
  BY <1>1, <1>2, <1>3
<1> QED
  BY <1>1, <1>3, <1>4, DivUnique

LEMMA DivMonotone ==
    ASSUME NEW a \in Int, NEW c \in Int, a <= c, NEW b \in Nat, b > 0
    PROVE  a \div b <= c \div b
<1> DEFINE p == a \div b
           q == c \div b
<1>1. /\ p \in Int /\ b * p <= a /\ q \in Int /\ c < b * q + b
  BY DivBounds
<1> HIDE DEF p, q
<1>2. p > q => b * p >= b * (q + 1)
  BY <1>1
<1>3. b * (q + 1) = b * q + b
  BY <1>1
<1>4. p <= q
  BY <1>1, <1>2, <1>3
<1> QED
  BY <1>4 DEF p, q

\* mylround rounds: twice the error is at most the divisor.
LEMMA LroundBounds ==
    ASSUME NEW a \in Int, NEW b \in Nat, b > 0
    PROVE  /\ mylround(a, b) \in Int
           /\ 2 * (mylround(a, b) * b) <= 2 * a + b
           /\ 2 * a + b < 2 * (mylround(a, b) * b) + 2 * b
<1> DEFINE c == (2 * a + b) \div (2 * b)
<1>1. 2 * a + b \in Int /\ 2 * b \in Nat /\ 2 * b > 0
  OBVIOUS
<1>2. c \in Int /\ (2 * b) * c <= 2 * a + b /\ 2 * a + b < (2 * b) * c + 2 * b
  BY <1>1, DivBounds
<1>3. mylround(a, b) = c
  BY DEF mylround
<1> HIDE DEF c
<1>4. (2 * b) * c = 2 * (c * b)
  BY <1>2
<1> QED
  BY <1>2, <1>3, <1>4

LEMMA LroundUnique ==
    ASSUME NEW a \in Int, NEW b \in Nat, b > 0, NEW c \in Int, c * b = a
    PROVE  mylround(a, b) = c
<1>1. (2 * b) * c = 2 * a
  OBVIOUS
<1>2. 2 * a + b \in Int /\ 2 * b \in Nat /\ 2 * b > 0
  OBVIOUS
<1>3. (2 * b) * c <= 2 * a + b /\ 2 * a + b < (2 * b) * c + 2 * b
  BY <1>1
<1>4. (2 * a + b) \div (2 * b) = c
  BY <1>2, <1>3, DivUnique
<1> QED
  BY <1>4 DEF mylround

LEMMA LroundMonotone ==
    ASSUME NEW a \in Int, NEW c \in Int, a <= c, NEW b \in Nat, b > 0
    PROVE  mylround(a, b) <= mylround(c, b)
<1>1. 2 * a + b <= 2 * c + b /\ 2 * a + b \in Int /\ 2 * c + b \in Int
      /\ 2 * b \in Nat /\ 2 * b > 0
  OBVIOUS
<1> QED
  BY <1>1, DivMonotone DEF mylround

LEMMA LroundShift ==
    ASSUME NEW a \in Int, NEW b \in Nat, b > 0, NEW k \in Int
    PROVE  mylround(a + k * b, b) = mylround(a, b) + k
<1>1. 2 * (a + k * b) + b = (2 * b) * k + (2 * a + b)
  OBVIOUS
<1>2. 2 * a + b \in Int /\ 2 * b \in Nat /\ 2 * b > 0
  OBVIOUS
<1>3. ((2 * b) * k + (2 * a + b)) \div (2 * b) = k + (2 * a + b) \div (2 * b)
  BY <1>2, DivShift
<1>4. (2 * a + b) \div (2 * b) \in Int
  BY <1>2, DivBounds
<1> QED
  BY <1>1, <1>3, <1>4 DEF mylround

-----------------------------------------------------------------------------
(* InStep *)

\* What is consumed for r outputs: nothing for none, half an input more or less
\* at most, and no more than for n of them.
LEMMA ConsumedBounds ==
    ASSUME BlockType, NEW r \in Nat
    PROVE  /\ Consumed(r) \in Int /\ Consumed(r) >= 0
           /\ r = 0 => Consumed(r) = 0
           /\ 2 * (Consumed(r) * Up - r * Down) <= Up
           /\ 2 * (Consumed(r) * Up - r * Down) >= -Up
<1>1. /\ Up \in Nat /\ Up > 0 /\ Down \in Nat /\ Down > 0
  BY RateType
<1>2. r * Down \in Int /\ r * Down >= 0 /\ (r = 0 => r * Down = 0)
  BY <1>1
<1>3. CASE Automatic
  <2> DEFINE c == mylround(r * Down, Up)
  <2>1. Consumed(r) = c
    BY <1>3 DEF Consumed
  <2>2. c \in Int /\ 2 * (c * Up) <= 2 * (r * Down) + Up
        /\ 2 * (r * Down) + Up < 2 * (c * Up) + 2 * Up
    BY <1>1, <1>2, LroundBounds
  <2>3. r = 0 => c = 0
    BY <1>1, <1>2, LroundUnique
  <2>4. c >= 0
    <3>1. mylround(0, Up) = 0
      BY <1>1, LroundUnique
    <3> QED
      BY <1>1, <1>2, <3>1, LroundMonotone
  <2> HIDE DEF c
  <2>5. c * Up \in Int
    BY <1>1, <2>2
  <2> QED
    BY <1>1, <1>2, <2>1, <2>2, <2>3, <2>4, <2>5
<1>4. CASE ~Automatic
  <2>1. Up = 1 /\ Down = 1
    BY <1>4, StreamBlockAssumption DEF BlockType, Automatic, Up, Down
  <2> QED
    BY <1>4, <2>1 DEF Consumed
<1> QED
  BY <1>3, <1>4

\* At a whole rate no half is left over.
LEMMA ConsumedExactly ==
    ASSUME BlockType, NEW r \in Nat, r % OutputMultiple = 0,
           Up % Down = 0 \/ Down % Up = 0
    PROVE  Consumed(r) * Up = r * Down
<1>1. /\ Up \in Nat /\ Up > 0 /\ Down \in Nat /\ Down > 0
  BY RateType
<1>2. CASE ~Automatic
  <2>1. Up = 1 /\ Down = 1
    BY <1>2, StreamBlockAssumption DEF BlockType, Automatic, Up, Down
  <2> QED
    BY <1>2, <2>1 DEF Consumed
<1>3. CASE Automatic /\ Down % Up = 0
  <2> DEFINE q == Down \div Up
  <2>1. q \in Int /\ Down = Up * q
    BY <1>1, <1>3
  <2> HIDE DEF q
  <2>2. (r * q) * Up = r * Down /\ r * q \in Int /\ r * Down \in Int
    BY <1>1, <2>1
  <2>3. mylround(r * Down, Up) = r * q
    BY <1>1, <2>2, LroundUnique
  <2> QED
    BY <1>3, <2>2, <2>3 DEF Consumed
<1>4. CASE Automatic /\ Up % Down = 0
  <2> DEFINE q == Up \div Down
  <2>1. q \in Nat /\ Up = Down * q
    BY <1>1, <1>4
  <2>2. q > 0 /\ OutputMultiple = q
    <3>1. q # 0
      BY <1>1, <2>1
    <3> QED
      BY <2>1, <3>1 DEF OutputMultiple
  <2> HIDE DEF q
  <2> DEFINE m == r \div q
  <2>3. m \in Int /\ r = q * m
    BY <2>1, <2>2
  <2> HIDE DEF m
  <2>4. m * Up = r * Down /\ r * Down \in Int
    BY <1>1, <2>1, <2>3
  <2>5. mylround(r * Down, Up) = m
    BY <1>1, <2>3, <2>4, LroundUnique
  <2> QED
    BY <1>4, <2>4, <2>5 DEF Consumed
<1> QED
  BY <1>2, <1>3, <1>4

\* The rate or its inverse is a whole number, as that of each gateway block is.
WholeRate == Up % Down = 0 \/ Down % Up = 0

\* No input is consumed before it is there: forecast asked for those of n outputs,
\* and fewer outputs consume no more.
LEMMA ConsumedIsThere ==
    ASSUME BlockType, NEW n \in Nat, forecast(n) <= Available, NEW r \in 0..n,
           GeneralWork(n, r)
    PROVE  nread + Consumed(r) <= arrived
<1>1. /\ Up \in Nat /\ Up > 0 /\ Down \in Nat /\ Down > 0
      /\ history \in Nat /\ history > 0 /\ r \in Nat
  BY RateType
<1>2. Available = arrived + history - 1 - nread /\ arrived \in Int /\ nread \in Int
  BY DEF Available, BlockType
<1>3. CASE ~Automatic
  BY <1>1, <1>2, <1>3 DEF GeneralWork, InputLength, Consumed
<1>4. CASE Automatic
  <2>1. r * Down <= n * Down /\ r * Down \in Int /\ n * Down \in Int /\ history - 1 \in Int
    BY <1>1
  <2>2. /\ mylround(r * Down, Up) <= mylround(n * Down, Up)
        /\ mylround(r * Down, Up) \in Int /\ mylround(n * Down, Up) \in Int
    BY <1>1, <2>1, LroundMonotone, LroundType
  <2>3. mylround(n * Down + (history - 1) * Up, Up) = mylround(n * Down, Up) + (history - 1)
    BY <1>1, <2>1, LroundShift
  <2>4. mylround(n * Down, Up) + (history - 1) <= Available
    BY <1>4, <2>3 DEF forecast, fixed_rate_noutput_to_ninput
  <2>5. Consumed(r) = mylround(r * Down, Up)
    BY <1>4 DEF Consumed
  <2> QED
    BY <1>1, <1>2, <2>2, <2>4, <2>5
<1> QED
  BY <1>3, <1>4

\* At a whole rate the outputs that are added are made of the inputs they
\* correspond to, counted from the beginning of the stream.
LEMMA MadeInStep ==
    ASSUME BlockType, nread >= 0, NEW r \in Nat, nread * Up = Len(out) * Down,
           NEW j \in 1..r
    PROVE  Made(r)[j] = 1 + ((Len(out) + j - 1) * Down) \div Up
<1> DEFINE a == (j - 1) * Down
           x == a \div Up
<1>1. /\ Up \in Nat /\ Up > 0 /\ Down \in Nat /\ Down > 0
      /\ history \in Nat /\ nread \in Int /\ Len(out) \in Nat
  BY RateType DEF BlockType
<1>2. a \in Int /\ a >= 0
  BY <1>1
<1>3. (Len(out) + j - 1) * Down = Up * nread + a
  <2>1. (Len(out) + j - 1) * Down = Len(out) * Down + (j - 1) * Down
    BY <1>1
  <2>2. nread * Up = Up * nread
    BY <1>1
  <2> QED
    BY <2>1, <2>2
<1>4. Made(r)[j] = InputItem(history + x)
  BY DEF Made
<1> HIDE DEF a
<1>5. x \in Int /\ x >= 0
  <2>1. Up * x <= a /\ a < Up * x + Up /\ x \in Int
    BY <1>1, <1>2, DivBounds
  <2>2. x <= -1 => Up * x <= Up * (-1)
    BY <1>1, <2>1
  <2>3. Up * (-1) = -Up /\ Up * x \in Int
    BY <1>1, <2>1
  <2> HIDE DEF x
  <2> QED
    BY <1>1, <1>2, <2>1, <2>2, <2>3
<1>6. (Up * nread + a) \div Up = nread + x
  BY <1>1, <1>2, DivShift
<1> HIDE DEF x
<1>7. nread + (history + x) - (history - 1) = nread + x + 1 /\ nread + x + 1 >= 1
  BY <1>1, <1>5
<1>8. InputItem(history + x) = nread + x + 1
  BY <1>1, <1>5, <1>7 DEF InputItem
<1> QED
  BY <1>1, <1>3, <1>4, <1>5, <1>6, <1>8

\* A call of work() that returns r outputs.
LEMMA WorkInStep ==
    ASSUME BlockType, nread >= 0, InStep, BlockWork
    PROVE  nread' >= 0 /\ InStep'
<1>0. PICK n \in Asked(BufSize - Waiting) : \E r \in 0..n : GeneralWork(n, r)
  BY DEF BlockWork
<1>1. PICK r \in 0..n : GeneralWork(n, r)
  BY <1>0
<1>2. n \in Nat /\ r \in Nat /\ forecast(n) <= Available
  BY DEF Asked
<1>3. /\ Up \in Nat /\ Up > 0 /\ Down \in Nat /\ Down > 0
      /\ nread \in Int /\ calls \in Nat /\ Len(out) \in Nat
  BY RateType DEF BlockType
<1>4. /\ out' = out \o Made(r) /\ nread' = nread + Consumed(r) /\ r % OutputMultiple = 0
      /\ calls' = calls + (IF r > 0 THEN 1 ELSE 0) /\ arrived' = arrived
      /\ Up' = Up /\ Down' = Down
  BY <1>1 DEF GeneralWork, Up, Down
<1>5. /\ Made(r) \in Seq(Int) /\ Len(Made(r)) = r
  BY <1>2, MadeType
<1>6. /\ out' \in Seq(Int) /\ Len(out') = Len(out) + r
      /\ \A j \in 1..Len(out') :
            out'[j] = IF j <= Len(out) THEN out[j] ELSE Made(r)[j - Len(out)]
  <2>1. out \in Seq(Int)
    BY DEF BlockType
  <2>2. LET t == Made(r)
        IN  /\ out \o t \in Seq(Int) /\ Len(out \o t) = Len(out) + Len(t)
            /\ \A j \in 1..(Len(out) + Len(t)) :
                  (out \o t)[j] = IF j <= Len(out) THEN out[j] ELSE t[j - Len(out)]
    BY <1>5, <2>1, ConcatProperties
  <2> QED
    BY <1>4, <1>5, <2>2
<1>7. /\ Consumed(r) \in Int /\ Consumed(r) >= 0 /\ (r = 0 => Consumed(r) = 0)
      /\ 2 * (Consumed(r) * Up - r * Down) <= Up
      /\ 2 * (Consumed(r) * Up - r * Down) >= -Up
  BY <1>2, ConsumedBounds
<1>8. nread' >= 0 /\ nread' \in Int
  BY <1>3, <1>4, <1>7
<1>9. nread' <= arrived'
  BY <1>1, <1>2, <1>4, ConsumedIsThere
<1> DEFINE c == Consumed(r)
<1> HIDE DEF c
<1>10. /\ nread' * Up = nread * Up + c * Up
       /\ Len(out') * Down = Len(out) * Down + r * Down
  BY <1>2, <1>3, <1>4, <1>6, <1>7 DEF c
<1>11. ASSUME WholeRate
       PROVE  /\ nread' * Up = Len(out') * Down
              /\ \A j \in DOMAIN out' : out'[j] = 1 + ((j - 1) * Down) \div Up
  <2>1. /\ nread * Up = Len(out) * Down
        /\ \A j \in DOMAIN out : out[j] = 1 + ((j - 1) * Down) \div Up
    BY <1>11 DEF InStep, WholeRate
  <2>2. Consumed(r) * Up = r * Down
    BY <1>2, <1>4, <1>11, ConsumedExactly DEF WholeRate
  <2>3. nread' * Up = Len(out') * Down
    BY <1>10, <2>1, <2>2 DEF c
  <2>4. ASSUME NEW j \in DOMAIN out' PROVE out'[j] = 1 + ((j - 1) * Down) \div Up
    <3>1. j \in 1..Len(out') /\ j \in Int
      BY <1>6
    <3>2. CASE j <= Len(out)
      <4>1. j \in DOMAIN out
        BY <1>3, <3>1, <3>2 DEF BlockType
      <4> QED
        BY <1>6, <2>1, <3>1, <3>2, <4>1
    <3>3. CASE ~(j <= Len(out))
      <4>1. j - Len(out) \in 1..r /\ Len(out) + (j - Len(out)) - 1 = j - 1
        BY <1>2, <1>3, <1>6, <3>1, <3>3
      <4>2. Made(r)[j - Len(out)]
               = 1 + ((Len(out) + (j - Len(out)) - 1) * Down) \div Up
        BY <1>2, <2>1, <4>1, MadeInStep
      <4> QED
        BY <1>6, <3>1, <3>3, <4>1, <4>2
    <3> QED
      BY <3>2, <3>3
  <2> QED
    BY <2>3, <2>4
<1>12. 2 * (nread' * Up - Len(out') * Down) \in -(calls' * Up)..(calls' * Up)
  <2> DEFINE e == nread * Up - Len(out) * Down
             d == c * Up - r * Down
             b == calls * Up
  <2>1. 2 * e \in -b..b
    BY DEF InStep
  <2>2. e \in Int /\ b \in Int
    BY <1>3
  <2>3. /\ d \in Int /\ 2 * d <= Up /\ 2 * d >= -Up
        /\ r = 0 => d = 0
    BY <1>2, <1>3, <1>7 DEF c
  <2>4. nread' * Up - Len(out') * Down = e + d
    <3>1. nread * Up \in Int /\ c * Up \in Int /\ Len(out) * Down \in Int /\ r * Down \in Int
      BY <1>2, <1>3, <1>7 DEF c
    <3> QED
      BY <1>10, <3>1
  <2>5. calls' * Up = b + (IF r > 0 THEN Up ELSE 0)
    BY <1>2, <1>3, <1>4
  <2> HIDE DEF e, d, b
  <2> QED
    BY <1>2, <1>3, <2>1, <2>2, <2>3, <2>4, <2>5
<1> QED
  BY <1>4, <1>8, <1>9, <1>11, <1>12 DEF InStep, WholeRate

LEMMA InStepStep ==
    BlockType /\ nread >= 0 /\ InStep /\ [Next]_vars => nread' >= 0 /\ InStep'
<1> SUFFICES ASSUME BlockType, nread >= 0, InStep, [Next]_vars
             PROVE  nread' >= 0 /\ InStep'
  OBVIOUS
<1>1. CASE BlockWork
  BY <1>1, WorkInStep
<1>2. CASE UNCHANGED <<kind, nread, out, calls>> /\ (arrived' = arrived \/ arrived' = arrived + 1)
  <2>1. Up' = Up /\ Down' = Down /\ nread' = nread /\ out' = out /\ calls' = calls
    BY <1>2 DEF Up, Down
  <2>2. nread' <= arrived'
    BY <1>2 DEF InStep, BlockType
  <2> QED
    BY <2>1, <2>2 DEF InStep
<1> QED
  BY <1>1, <1>2
  DEF Next, Source, Arrive, BlockEnds, WorkEnds, BlockDone, InputDone, SetDelay,
      DelayCalled, DelayEnds, Over, vars, blockVars

\* Whatever the scheduler asks for in each call, what general_work consumes stays
\* in step with what work() returns, and is there (block.cc, block_gateway.py).
THEOREM InStepCorrect == Spec => []InStep
<1>1. Init => BlockType /\ nread >= 0 /\ InStep
  <2> SUFFICES ASSUME Init PROVE BlockType /\ nread >= 0 /\ InStep
    OBVIOUS
  <2>1. BlockType
    BY EmptySeq DEF Init, StreamBlockInit, BlockType
  <2>2. nread = 0 /\ arrived = 0 /\ calls = 0 /\ out = <<>> /\ Len(out) = 0
        /\ DOMAIN out = {}
    BY EmptySeq DEF Init, StreamBlockInit
  <2>3. Up \in Nat /\ Down \in Nat
    BY <2>1, RateType
  <2>4. 0 * Up = 0 /\ 0 * Down = 0
    BY <2>3
  <2> QED
    BY <2>1, <2>2, <2>4 DEF InStep
<1>2. BlockType /\ nread >= 0 /\ InStep /\ [Next]_vars
         => (BlockType /\ nread >= 0 /\ InStep)'
  BY BlockTypeStep, InStepStep
<1> QED
  BY <1>1, <1>2, PTL DEF Spec

=============================================================================
