----------------------- MODULE StreamSelector_proofs -----------------------
(***************************************************************************)
(* Proofs about StreamSelector for any number of inputs and outputs, any   *)
(* vectors of paths, and streams, calls and restarts without end.          *)
(***************************************************************************)
EXTENDS StreamSelector, SequenceTheorems, TLAPS

-----------------------------------------------------------------------------
(* Types *)

\* What TypeOK leaves out: the items produced, and that a flow graph is stopped
\* only while it may be started again.
Typed ==
    /\ TypeOK
    /\ outs \in [Outputs -> Seq(Inputs \X (Nat \ {0}))]
    /\ stopping => restarts < MaxRestarts

USE DEF inputVars, outputVars, setterVars, history, Inputs, Outputs

LEMMA InputIsNotOutput == Invalid \notin Routes /\ NoCaller \notin Inputs
                          /\ Block \notin Outputs /\ Consume \notin Outputs
BY CountsAssumption DEF Invalid, Routes, Block, Consume, NoCaller

LEMMA InitTyped == Init => Typed
<1> SUFFICES ASSUME Init PROVE Typed
  OBVIOUS
<1>1. /\ NumIn \in Nat /\ NumIn > 0 /\ NumOut \in Nat /\ NumOut > 0
  BY CountsAssumption
<1>2. outs \in [Outputs -> Seq(Inputs \X (Nat \ {0}))]
  BY EmptySeq DEF Init
<1>3. \A i \in Inputs : InputMutexFree(i)
  BY DEF Init, InputMutexFree
<1>4. 0 \in Inputs /\ 1 \in Nat \ {0} /\ Item(0, 1) \in Inputs \X (Nat \ {0})
  BY <1>1 DEF Item
<1>5. /\ 0 \in 0..MaxChunk /\ 0 \in 0..MaxCalls /\ 0 \in 0..MaxRestarts
  BY BoundsAssumption
<1>6. /\ input \in [Inputs -> {"idle", "calling", "posted", "postwoken",
                               "blocked", "unblocked", "done"}]
      /\ want \in [Inputs -> 0..MaxChunk] /\ nread \in [Inputs -> Nat]
      /\ route \in [Inputs -> Routes] /\ paths \in [Inputs -> Routes \cup {Invalid}]
  BY <1>5 DEF Init, Routes
<1>7. /\ output \in [Outputs -> {"start", "idle", "waiting", "woken", "done"}]
      /\ caller \in [Outputs -> Inputs \cup {NoCaller}]
      /\ mem \in [Outputs -> Inputs \X (Nat \ {0})]
      /\ len \in [Outputs -> 0..MaxChunk] /\ has_data \in [Outputs -> BOOLEAN]
  BY <1>4, <1>5 DEF Init
<1> QED
  BY <1>2, <1>3, <1>4, <1>5, <1>6, <1>7 DEF Init, Typed, TypeOK

\* The steps of an input.
LEMMA InputTyped ==
    ASSUME Typed, NEW i \in Inputs,
           \/ InputStep(i) \/ BlockerSpurious(i) \/ PostSpurious(i) \/ InputInterrupted(i)
    PROVE  Typed'
<1>1. CASE InputWork(i)
  <2>0. PICK n \in 1..MaxChunk : EnterRouted(i, n) \/ EnterBlocked(i, n) \/ EnterConsuming(i, n)
    BY <1>1 DEF InputWork
  <2>1. n \in 0..MaxChunk /\ n \in Nat
    BY BoundsAssumption
  <2>2. CASE EnterRouted(i, n)
    BY <2>1, <2>2 DEF EnterRouted, Typed, TypeOK, InputMutexFree
  <2>3. CASE EnterBlocked(i, n)
    BY <2>1, <2>3 DEF EnterBlocked, Typed, TypeOK, InputMutexFree
  <2>4. CASE EnterConsuming(i, n)
    <3>1. /\ input' = [input EXCEPT ![i] = "idle"] /\ nread' = [nread EXCEPT ![i] = @ + n]
          /\ UNCHANGED <<want, route, output, caller, mem, len, has_data, setter, idx,
                         paths, calls, stopping, restarts, outs, wiped>>
      BY <2>4 DEF EnterConsuming
    <3>2. /\ input' \in [Inputs -> {"idle", "calling", "posted", "postwoken",
                                   "blocked", "unblocked", "done"}]
          /\ \A j \in Inputs : ~InputMutexFree(j)' => route'[j] \in Outputs
      BY <3>1 DEF Typed, TypeOK, InputMutexFree
    <3>3. nread \in [Inputs -> Nat] /\ n \in Nat
      BY <2>1 DEF Typed, TypeOK
    <3>4. nread' \in [Inputs -> Nat]
      BY ONLY <3>1, <3>3
    <3> QED
      BY <3>1, <3>2, <3>4 DEF Typed, TypeOK
  <2> QED
    BY <2>0, <2>2, <2>3, <2>4
<1>2. CASE PostOutput(i)
  <2>1. route[i] \in Outputs
    BY <1>2 DEF PostOutput, Typed, TypeOK, InputMutexFree
  <2>2. Item(i, nread[i] + 1) \in Inputs \X (Nat \ {0})
    BY DEF Typed, TypeOK, Item
  <2> QED
    BY <1>2, <2>1, <2>2 DEF PostOutput, Typed, TypeOK, InputMutexFree
<1>3. CASE PostReturn(i)
  <2>1. route[i] \in Outputs
    BY <1>3 DEF PostReturn, Typed, TypeOK, InputMutexFree
  <2>2. nread[i] + len[route[i]] \in Nat
    BY <2>1, BoundsAssumption DEF Typed, TypeOK
  <2> QED
    BY <1>3, <2>1, <2>2 DEF PostReturn, Typed, TypeOK, InputMutexFree
<1>4. CASE PostWaitAgain(i)
  BY <1>4 DEF PostWaitAgain, Typed, TypeOK, InputMutexFree
<1>6. CASE PostSpurious(i)
  BY <1>6 DEF PostSpurious, Typed, TypeOK, InputMutexFree
<1>7. CASE BlockerSpurious(i)
  BY <1>7 DEF BlockerSpurious, Typed, TypeOK, InputMutexFree
<1>5. CASE InputInterrupted(i)
  BY <1>5 DEF InputInterrupted, Typed, TypeOK, InputMutexFree
<1> QED
  BY <1>1, <1>2, <1>3, <1>4, <1>5, <1>6, <1>7 DEF InputStep

\* What a copy of m items appends.
Copied(o, m) == [k \in 1..m |-> Item(mem[o][1], mem[o][2] + k - 1)]

LEMMA CopyTyped ==
    ASSUME Typed, NEW o \in Outputs, NEW n \in 1..MaxChunk, OutputCopy(o, n)
    PROVE  \E m \in 0..len[o] :
              /\ len' = [len EXCEPT ![o] = m]
              /\ outs' = [outs EXCEPT ![o] = @ \o Copied(o, m)]
              /\ outs \in [Outputs -> Seq(Inputs \X (Nat \ {0}))]
              /\ outs'[o] \in Seq(Inputs \X (Nat \ {0}))
              /\ Len(outs'[o]) = Len(outs[o]) + m
              /\ \A k \in 1..Len(outs[o]) : outs'[o][k] = outs[o][k]
              /\ \A k \in (Len(outs[o]) + 1)..Len(outs'[o]) :
                    outs'[o][k] = Item(mem[o][1], mem[o][2] + (k - Len(outs[o])) - 1)
<1> DEFINE m == IF len[o] < n THEN len[o] ELSE n
           Items == Inputs \X (Nat \ {0})
<1>1. len[o] \in Nat /\ n \in Nat /\ mem[o] \in Items /\ outs[o] \in Seq(Items)
  BY BoundsAssumption DEF Typed, TypeOK
<1>2. m \in 0..len[o] /\ m \in Nat
  BY <1>1
<1>3. /\ len' = [len EXCEPT ![o] = m]
      /\ outs' = [outs EXCEPT ![o] = @ \o Copied(o, m)]
  BY DEF OutputCopy, Copied
<1> HIDE DEF m
<1>4. Copied(o, m) \in Seq(Items) /\ Len(Copied(o, m)) = m
  <2>1. \A k \in 1..m : Item(mem[o][1], mem[o][2] + k - 1) \in Items
    BY <1>1, <1>2 DEF Item
  <2> HIDE DEF Items
  <2> QED
    BY <1>2, <2>1, SeqDef DEF Copied
<1> HIDE DEF Items
<1>5. LET t == Copied(o, m)
      IN  /\ outs[o] \o t \in Seq(Items) /\ Len(outs[o] \o t) = Len(outs[o]) + m
          /\ \A k \in 1..(Len(outs[o]) + m) :
                (outs[o] \o t)[k] = IF k <= Len(outs[o]) THEN outs[o][k] ELSE t[k - Len(outs[o])]
  <2> DEFINE s == outs[o]
             t == Copied(o, m)
  <2>1. s \in Seq(Items) /\ t \in Seq(Items) /\ Len(t) = m
    BY <1>1, <1>4
  <2> HIDE DEF s, t
  <2>2. /\ s \o t \in Seq(Items) /\ Len(s \o t) = Len(s) + m
        /\ \A k \in 1..(Len(s) + m) :
              (s \o t)[k] = IF k <= Len(s) THEN s[k] ELSE t[k - Len(s)]
    <3>1. /\ s \o t \in Seq(Items) /\ Len(s \o t) = Len(s) + Len(t)
          /\ \A k \in 1..(Len(s) + Len(t)) :
                (s \o t)[k] = IF k <= Len(s) THEN s[k] ELSE t[k - Len(s)]
      BY ONLY <2>1, ConcatProperties, Zenon
    <3> QED
      BY ONLY <2>1, <3>1, Zenon
  <2> QED
    BY <2>2, Zenon DEF s, t
<1>6. outs \in [Outputs -> Seq(Items)] /\ outs'[o] = outs[o] \o Copied(o, m)
  BY <1>3 DEF Typed, Items
<1>7. Len(outs[o]) \in Nat
  BY <1>1
<1>8. \A k \in 1..Len(outs[o]) : outs'[o][k] = outs[o][k]
  BY <1>2, <1>5, <1>6, <1>7
<1>9. ASSUME NEW k \in (Len(outs[o]) + 1)..Len(outs'[o])
      PROVE  outs'[o][k] = Item(mem[o][1], mem[o][2] + (k - Len(outs[o])) - 1)
  <2>1. /\ k \in 1..(Len(outs[o]) + m) /\ ~(k <= Len(outs[o]))
        /\ k - Len(outs[o]) \in 1..m
    BY <1>2, <1>5, <1>6, <1>7
  <2>2. outs'[o][k] = Copied(o, m)[k - Len(outs[o])]
    BY <1>5, <1>6, <2>1
  <2> QED
    BY <2>1, <2>2 DEF Copied
<1> QED
  BY <1>2, <1>3, <1>5, <1>6, <1>8, <1>9 DEF Items

\* The steps of an output.
LEMMA OutputTyped ==
    ASSUME Typed, NEW o \in Outputs, OutputStep(o) \/ OutputSpurious(o) \/ OutputInterrupted(o)
    PROVE  Typed'
<1>1. CASE OutputStart(o)
  BY <1>1 DEF OutputStart, Typed, TypeOK, InputMutexFree
<1>2. CASE OutputWait(o)
  BY <1>2 DEF OutputWait, Typed, TypeOK, InputMutexFree
<1>4. CASE OutputSpurious(o)
  BY <1>4 DEF OutputSpurious, Typed, TypeOK, InputMutexFree
<1>5. CASE OutputInterrupted(o)
  BY <1>5 DEF OutputInterrupted, Typed, TypeOK, InputMutexFree
<1>3. ASSUME NEW n \in 1..MaxChunk, OutputCopy(o, n) PROVE Typed'
  <2>1. PICK m \in 0..len[o] :
           /\ len' = [len EXCEPT ![o] = m]
           /\ outs' = [outs EXCEPT ![o] = @ \o Copied(o, m)]
           /\ outs \in [Outputs -> Seq(Inputs \X (Nat \ {0}))]
           /\ outs'[o] \in Seq(Inputs \X (Nat \ {0}))
    BY <1>3, CopyTyped
  <2>2. outs' \in [Outputs -> Seq(Inputs \X (Nat \ {0}))]
    BY <2>1
  <2>3. m \in 0..MaxChunk
    <3>1. len[o] \in 0..MaxChunk /\ MaxChunk \in Nat
      BY BoundsAssumption DEF Typed, TypeOK
    <3> QED
      BY <3>1
  <2>4. /\ input' \in [Inputs -> {"idle", "calling", "posted", "postwoken",
                                  "blocked", "unblocked", "done"}]
        /\ output' \in [Outputs -> {"start", "idle", "waiting", "woken", "done"}]
        /\ \A i \in Inputs : InputMutexFree(i)' <=> InputMutexFree(i)
        /\ UNCHANGED route
    BY <1>3 DEF OutputCopy, NotifyCaller, Typed, TypeOK, InputMutexFree
  <2>5. \A i \in Inputs : ~InputMutexFree(i)' => route'[i] \in Outputs
    BY <2>4 DEF Typed, TypeOK
  <2>6. len' \in [Outputs -> 0..MaxChunk]
    BY <2>1, <2>3 DEF Typed, TypeOK
  <2> QED
    BY <1>3, <2>2, <2>4, <2>5, <2>6 DEF OutputCopy, Typed, TypeOK
<1> QED
  BY <1>1, <1>2, <1>3, <1>4, <1>5 DEF OutputStep

\* The steps of the thread that calls set_paths().
LEMMA SetterTyped ==
    ASSUME Typed, SetterStep \/ (\E p \in AllPaths : SetPaths(p)) PROVE Typed'
<1>0. NumIn \in Nat /\ NumIn > 0 /\ idx \in Int /\ idx >= 0 /\ idx < NumIn
  BY CountsAssumption DEF Typed, TypeOK
<1>1. CASE SetOutput
  <2>1. route'[idx] \in Routes /\ route' \in [Inputs -> Routes]
    BY <1>1, InputIsNotOutput DEF SetOutput, Typed, TypeOK, Routes, Block
  <2>2. \A i \in Inputs : ~InputMutexFree(i)' => route'[i] \in Outputs
    BY <1>1 DEF SetOutput, Typed, TypeOK, InputMutexFree
  <2> QED
    BY <1>1, <2>1, <2>2 DEF SetOutput, Typed, TypeOK
<1>2. CASE SetOutputNotify
  <2>1. /\ setter' \in {"block", "apply", "idle"} /\ idx' \in Inputs
    <3>1. CASE idx + 1 < NumIn
      <4>0. ~(idx + 1 = NumIn)
        BY <1>0, <3>1
      <4>1. /\ setter' = (IF setter = "blocknotify" THEN "block" ELSE "apply")
            /\ idx' = idx + 1
        BY <1>2, <3>1, <4>0, Zenon DEF SetOutputNotify, AfterTurn
      <4> QED
        BY <1>0, <3>1, <4>1
    <3>2. CASE idx + 1 = NumIn
      <4>1. /\ setter' = (IF setter = "blocknotify" THEN "apply" ELSE "idle")
            /\ idx' = 0
        BY <1>0, <1>2, <3>2 DEF SetOutputNotify, AfterTurn
      <4> QED
        BY <1>0, <4>1
    <3> QED
      BY <1>0, <3>1, <3>2
  <2>2. /\ input' \in [Inputs -> {"idle", "calling", "posted", "postwoken",
                                  "blocked", "unblocked", "done"}]
        /\ \A i \in Inputs : InputMutexFree(i)' <=> InputMutexFree(i)
    BY <1>2 DEF SetOutputNotify, NotifyBlocker, Typed, TypeOK, InputMutexFree
  <2> QED
    BY <1>2, <2>1, <2>2 DEF SetOutputNotify, Typed, TypeOK
<1>3. CASE SetPathsThrow
  <2>1. 0 \in Inputs
    BY <1>0
  <2> QED
    BY <1>3, <2>1 DEF SetPathsThrow, Typed, TypeOK, InputMutexFree
<1>4. ASSUME NEW p \in AllPaths, SetPaths(p) PROVE Typed'
  <2>1. calls + 1 \in 0..MaxCalls /\ 0 \in Inputs /\ p \in [Inputs -> Routes \cup {Invalid}]
    BY <1>0, <1>4, BoundsAssumption, AllPathsAssumption DEF SetPaths, Typed, TypeOK
  <2> QED
    BY <1>4, <2>1 DEF SetPaths, Typed, TypeOK, InputMutexFree
<1> QED
  BY <1>1, <1>2, <1>3, <1>4 DEF SetterStep

LEMMA NextTyped == Typed /\ [Next]_vars => Typed'
<1> SUFFICES ASSUME Typed, [Next]_vars PROVE Typed'
  OBVIOUS
<1>1. CASE Interrupt
  BY <1>1 DEF Interrupt, Typed, TypeOK, InputMutexFree
<1>2. CASE Restart
  <2>1. /\ \A i \in Inputs : nread[i] + MaxChunk \in Nat
        /\ restarts + 1 \in 0..MaxRestarts
    BY <1>2, BoundsAssumption DEF Restart, Typed, TypeOK
  <2> QED
    BY <1>2, <2>1 DEF Restart, Typed, TypeOK, InputMutexFree
<1>3. CASE UNCHANGED vars
  BY <1>3 DEF vars, Typed, TypeOK, InputMutexFree
<1> QED
  BY <1>1, <1>2, <1>3, InputTyped, OutputTyped, SetterTyped DEF Next

\* Every variable keeps its type, and set_paths() never uses an index that is
\* out of range.
THEOREM TypeCorrect == Spec => []TypeOK
<1>1. Typed => TypeOK
  BY DEF Typed
<1> QED
  BY <1>1, InitTyped, NextTyped, PTL DEF Spec

-----------------------------------------------------------------------------
(* Switchover *)

\* How far set_paths() has come: the inputs before its index have been blocked, or
\* have got their new path, and those behind it are still blocked and use no
\* output.
Unused(i) == InputMutexFree(i) /\ route[i] = Block
PathsInv ==
    /\ setter = "block" => \A i \in Inputs : i < idx => Unused(i)
    /\ setter = "blocknotify" => \A i \in Inputs : i <= idx => Unused(i)
    /\ setter = "apply" => \A i \in Inputs : IF i < idx THEN route[i] = paths[i] ELSE Unused(i)
    /\ setter = "applynotify" => \A i \in Inputs : IF i <= idx THEN route[i] = paths[i] ELSE Unused(i)

\* An input that is blocked and uses no output stays so until set_output().
LEMMA UnusedKept ==
    ASSUME Typed, [Next]_vars, ~SetOutput, NEW i \in Inputs
    PROVE  route'[i] = route[i] /\ (Unused(i) => Unused(i)')
<1>1. ASSUME NEW j \in Inputs,
             \/ InputStep(j) \/ BlockerSpurious(j) \/ PostSpurious(j) \/ InputInterrupted(j)
      PROVE  route' = route /\ (Unused(i) => InputMutexFree(i)')
  <2>1. CASE InputWork(j)
    <3>0. PICK n \in 1..MaxChunk : EnterRouted(j, n) \/ EnterBlocked(j, n) \/ EnterConsuming(j, n)
      BY <2>1 DEF InputWork
    <3>1. CASE EnterRouted(j, n)
      BY <3>1, InputIsNotOutput DEF EnterRouted, Typed, TypeOK, Unused, InputMutexFree
    <3>2. CASE EnterBlocked(j, n)
      BY <3>2 DEF EnterBlocked, Typed, TypeOK, Unused, InputMutexFree
    <3>3. CASE EnterConsuming(j, n)
      BY <3>3 DEF EnterConsuming, Typed, TypeOK, Unused, InputMutexFree
    <3> QED
      BY <3>0, <3>1, <3>2, <3>3
  <2>2. CASE PostOutput(j)
    BY <2>2 DEF PostOutput, Typed, TypeOK, Unused, InputMutexFree
  <2>3. CASE PostWaitAgain(j) \/ PostReturn(j)
    BY <2>3 DEF PostWaitAgain, PostReturn, Typed, TypeOK, Unused, InputMutexFree
  <2>4. CASE BlockerSpurious(j) \/ PostSpurious(j)
    BY <2>4 DEF BlockerSpurious, PostSpurious, Typed, TypeOK, Unused, InputMutexFree
  <2>5. CASE InputInterrupted(j)
    BY <2>5 DEF InputInterrupted, Typed, TypeOK, Unused, InputMutexFree
  <2> QED
    BY <1>1, <2>1, <2>2, <2>3, <2>4, <2>5 DEF InputStep
<1>2. ASSUME NEW o \in Outputs, OutputStep(o) \/ OutputSpurious(o) \/ OutputInterrupted(o)
      PROVE  route' = route /\ (Unused(i) => InputMutexFree(i)')
  <2>1. ASSUME NEW n \in 1..MaxChunk, OutputCopy(o, n)
        PROVE  route' = route /\ (Unused(i) => InputMutexFree(i)')
    BY <2>1 DEF OutputCopy, NotifyCaller, Unused, InputMutexFree
  <2>2. CASE OutputStart(o) \/ OutputWait(o)
    BY <2>2 DEF OutputStart, OutputWait, Unused, InputMutexFree
  <2>3. CASE OutputSpurious(o) \/ OutputInterrupted(o)
    BY <2>3 DEF OutputSpurious, OutputInterrupted, Unused, InputMutexFree
  <2> QED
    BY <1>2, <2>1, <2>2, <2>3 DEF OutputStep
<1>3. CASE SetOutputNotify
  BY <1>3 DEF SetOutputNotify, NotifyBlocker, Typed, TypeOK, Unused, InputMutexFree
<1>4. CASE SetPathsThrow \/ (\E p \in AllPaths : SetPaths(p)) \/ Interrupt \/ UNCHANGED vars
  BY <1>4 DEF SetPathsThrow, SetPaths, Interrupt, vars, Unused, InputMutexFree
<1>5. CASE Restart
  BY <1>5 DEF Restart, Unused, InputMutexFree
<1>6. CASE \E j \in Inputs : \/ InputStep(j) \/ BlockerSpurious(j) \/ PostSpurious(j)
                             \/ InputInterrupted(j)
  BY <1>1, <1>6 DEF Unused
<1>7. CASE \E o \in Outputs : OutputStep(o) \/ OutputSpurious(o) \/ OutputInterrupted(o)
  BY <1>2, <1>7 DEF Unused
<1> QED
  BY <1>3, <1>4, <1>5, <1>6, <1>7 DEF Next, SetterStep

LEMMA NextPaths == Typed /\ PathsInv /\ [Next]_vars => PathsInv'
<1> SUFFICES ASSUME Typed, PathsInv, [Next]_vars PROVE PathsInv'
  OBVIOUS
<1>0. NumIn \in Nat /\ NumIn > 0 /\ idx \in Inputs /\ idx \in Int /\ Inputs \subseteq Int
  BY CountsAssumption DEF Typed, TypeOK
<1>1. CASE SetOutput
  <2>1. /\ InputMutexFree(idx) /\ input' = input /\ idx' = idx /\ paths' = paths
        /\ \A i \in Inputs : InputMutexFree(i)' <=> InputMutexFree(i)
        /\ \A i \in Inputs : i # idx => route'[i] = route[i]
    BY <1>1 DEF SetOutput, Typed, TypeOK, InputMutexFree
  <2>2. \A i \in Inputs : i # idx => (Unused(i) => Unused(i)')
    BY <2>1 DEF Unused
  <2>3. CASE setter = "block"
    <3>1. setter' = "blocknotify" /\ route'[idx] = Block
      BY <1>0, <1>1, <2>3 DEF SetOutput, Typed, TypeOK
    <3>2. Unused(idx)'
      BY <1>0, <2>1, <3>1 DEF Unused
    <3> QED
      BY <1>0, <2>1, <2>2, <2>3, <3>1, <3>2 DEF PathsInv
  <2>4. CASE setter = "apply"
    <3>1. setter' = "applynotify" /\ route'[idx] = paths[idx]
      BY <1>0, <1>1, <2>4 DEF SetOutput, Typed, TypeOK
    <3>2. ASSUME NEW i \in Inputs
          PROVE  IF i <= idx THEN route'[i] = paths[i] ELSE Unused(i)'
      <4>1. IF i < idx THEN route[i] = paths[i] ELSE Unused(i)
        BY <2>4 DEF PathsInv
      <4> QED
        BY <1>0, <2>1, <2>2, <3>1, <4>1
    <3> QED
      BY <2>1, <3>1, <3>2 DEF PathsInv
  <2> QED
    BY <1>1, <2>3, <2>4 DEF SetOutput
<1>2. CASE ~SetOutput /\ UNCHANGED <<setter, idx, paths>>
  BY <1>0, <1>2, UnusedKept DEF PathsInv
<1>3. CASE ~SetOutput /\ SetOutputNotify
  <2>1. /\ setter \in {"blocknotify", "applynotify"} /\ paths' = paths
        /\ \A i \in Inputs : i <= NumIn - 1 /\ i >= 0
        /\ \A i \in Inputs : route'[i] = route[i] /\ (Unused(i) => Unused(i)')
    BY <1>0, <1>3, UnusedKept DEF SetOutputNotify
  <2>2. CASE idx + 1 < NumIn
    <3>0. ~(idx + 1 = NumIn)
      BY <1>0, <2>2
    <3>1. /\ setter' = (IF setter = "blocknotify" THEN "block" ELSE "apply")
          /\ idx' = idx + 1
      BY <1>3, <2>2, <3>0, Zenon DEF SetOutputNotify, AfterTurn
    <3>2. \A i \in Inputs : i < idx' <=> i <= idx
      BY <1>0, <3>1
    <3> QED
      BY <2>1, <3>1, <3>2 DEF PathsInv
  <2>3. CASE idx + 1 = NumIn
    <3>1. /\ setter' = (IF setter = "blocknotify" THEN "apply" ELSE "idle")
          /\ idx' = 0
      BY <1>0, <1>3, <2>3 DEF SetOutputNotify, AfterTurn
    <3>2. \A i \in Inputs : i <= idx /\ ~(i < idx')
      BY <1>0, <2>1, <2>3, <3>1
    <3> QED
      BY <2>1, <3>1, <3>2 DEF PathsInv
  <2> QED
    BY <1>0, <2>2, <2>3
<1>4. CASE SetPathsThrow
  BY <1>4 DEF SetPathsThrow, PathsInv
<1>5. ASSUME NEW p \in AllPaths, SetPaths(p) PROVE PathsInv'
  BY <1>0, <1>5 DEF SetPaths, PathsInv
<1>6. CASE \E i \in Inputs : \/ InputStep(i) \/ BlockerSpurious(i) \/ PostSpurious(i)
                             \/ InputInterrupted(i)
  <2>1. UNCHANGED <<setter, idx, paths>>
    BY <1>6 DEF InputStep, InputWork, EnterRouted, EnterBlocked, EnterConsuming, PostOutput,
       PostWaitAgain, PostReturn, BlockerSpurious, PostSpurious, InputInterrupted
  <2> QED
    BY <1>1, <1>2, <2>1
<1>7. CASE \E o \in Outputs : OutputStep(o) \/ OutputSpurious(o) \/ OutputInterrupted(o)
  <2>1. UNCHANGED <<setter, idx, paths>>
    BY <1>7 DEF OutputStep, OutputStart, OutputWait, OutputCopy, OutputSpurious, OutputInterrupted
  <2> QED
    BY <1>1, <1>2, <2>1
<1>8. CASE Interrupt \/ Restart \/ UNCHANGED vars
  <2>1. UNCHANGED <<setter, idx, paths>>
    BY <1>8 DEF Interrupt, Restart, vars
  <2> QED
    BY <1>1, <1>2, <2>1
<1> QED
  BY <1>1, <1>3, <1>4, <1>5, <1>6, <1>7, <1>8 DEF Next, SetterStep

\* While set_paths() applies the new paths, no input uses an old one
\* (stream_selector.cc: all inputs are blocked first).
THEOREM SwitchoverCorrect == Spec => []Switchover
<1>1. Init => PathsInv
  BY DEF Init, PathsInv
<1>2. Typed /\ PathsInv => Switchover
  <2> SUFFICES ASSUME Typed, PathsInv, setter \in {"apply", "applynotify"},
                      NEW i \in Inputs, ~InputMutexFree(i)
               PROVE  i <= idx /\ route[i] = paths[i]
    BY DEF Switchover
  <2>1. i \in Int /\ idx \in Int /\ ~Unused(i)
    BY CountsAssumption DEF Typed, TypeOK, Unused
  <2> QED
    BY <2>1 DEF PathsInv
<1> QED
  BY <1>1, <1>2, InitTyped, NextTyped, NextPaths, PTL DEF Spec

-----------------------------------------------------------------------------
(* PointerAlive *)

\* A thread of an input waits in post_output().
Posting(i) == input[i] \in {"posted", "postwoken"}

\* _caller_mutex is held by the input that waits in post_output(), and _mem points
\* at its next item.
CallerInv ==
    /\ \A i \in Inputs : \A o \in Outputs : caller[o] = i <=> Posting(i) /\ route[i] = o
    /\ \A o \in Outputs :
          caller[o] # NoCaller => mem[o] = Item(caller[o], nread[caller[o]] + 1)

\* The output has data that its work() may copy.
Live(o) == has_data[o] /\ output[o] \notin {"start", "done"}

\* While the flow graph runs, such data is of an input that waits for it.
AliveInv == \A o \in Outputs : Live(o) /\ ~stopping => caller[o] # NoCaller

\* The steps that leave the posts alone.
LEMMA CallerKept ==
    ASSUME Typed, CallerInv, caller' = caller, mem' = mem,
           \A i \in Inputs : /\ Posting(i)' <=> Posting(i)
                             /\ Posting(i) => route'[i] = route[i] /\ nread'[i] = nread[i]
    PROVE  CallerInv'
<1>1. ASSUME NEW o \in Outputs, caller[o] # NoCaller
      PROVE  mem[o] = Item(caller[o], nread'[caller[o]] + 1)
  <2>1. caller[o] \in Inputs /\ Posting(caller[o])
    BY <1>1 DEF CallerInv, Typed, TypeOK
  <2> QED
    BY <1>1, <2>1 DEF CallerInv
<1>2. ASSUME NEW i \in Inputs, NEW o \in Outputs
      PROVE  caller[o] = i <=> Posting(i)' /\ route'[i] = o
  BY DEF CallerInv
<1>3. \A o \in Outputs : caller'[o] # NoCaller
                            => mem'[o] = Item(caller'[o], nread'[caller'[o]] + 1)
  BY <1>1
<1> QED
  BY <1>2, <1>3 DEF CallerInv, Item

LEMMA InputCaller ==
    ASSUME Typed, CallerInv, NEW i \in Inputs,
           InputStep(i) \/ BlockerSpurious(i) \/ PostSpurious(i) \/ InputInterrupted(i)
    PROVE  CallerInv'
<1>1. CASE InputWork(i)
  <2>0. PICK n \in 1..MaxChunk : EnterRouted(i, n) \/ EnterBlocked(i, n) \/ EnterConsuming(i, n)
    BY <1>1 DEF InputWork
  <2>1. ~Posting(i)
    BY <1>1 DEF InputWork, Posting
  <2>2. CASE EnterRouted(i, n)
    BY <2>1, <2>2, CallerKept DEF EnterRouted, Posting, Typed, TypeOK
  <2>3. CASE EnterBlocked(i, n)
    BY <2>1, <2>3, CallerKept DEF EnterBlocked, Posting, Typed, TypeOK
  <2>4. CASE EnterConsuming(i, n)
    BY <2>1, <2>4, CallerKept DEF EnterConsuming, Posting, Typed, TypeOK
  <2> QED
    BY <2>0, <2>2, <2>3, <2>4
<1>2. CASE PostOutput(i)
  <2> DEFINE p == route[i]
  <2>1. /\ p \in Outputs /\ caller[p] = NoCaller /\ ~Posting(i)
        /\ caller' = [caller EXCEPT ![p] = i]
        /\ mem' = [mem EXCEPT ![p] = Item(i, nread[i] + 1)]
        /\ nread' = nread /\ route' = route /\ input' = [input EXCEPT ![i] = "posted"]
    BY <1>2 DEF PostOutput, CallerMutexFree, Posting, Typed, TypeOK, InputMutexFree
  <2>2. ASSUME NEW j \in Inputs, NEW o \in Outputs
        PROVE  caller'[o] = j <=> Posting(j)' /\ route'[j] = o
    <3>1. caller[o] = j <=> Posting(j) /\ route[j] = o
      BY DEF CallerInv
    <3>2. CASE j = i
      BY <2>1, <3>1, <3>2, InputIsNotOutput DEF Posting, Typed, TypeOK
    <3>3. CASE j # i
      BY <2>1, <3>1, <3>3, InputIsNotOutput DEF Posting, Typed, TypeOK
    <3> QED
      BY <3>2, <3>3
  <2>3. ASSUME NEW o \in Outputs, caller'[o] # NoCaller
        PROVE  mem'[o] = Item(caller'[o], nread'[caller'[o]] + 1)
    BY <2>1, <2>3 DEF CallerInv, Typed, TypeOK
  <2>4. \A o \in Outputs : caller'[o] # NoCaller
                              => mem'[o] = Item(caller'[o], nread'[caller'[o]] + 1)
    BY <2>3
  <2> QED
    BY <2>2, <2>4 DEF CallerInv, Item
<1>3. CASE PostReturn(i) \/ InputInterrupted(i)
  <2>1. /\ Posting(i)' = FALSE /\ mem' = mem /\ route' = route
        /\ \A j \in Inputs : j # i => input'[j] = input[j] /\ nread'[j] = nread[j]
        /\ \A o \in Outputs : caller'[o] = IF caller[o] = i THEN NoCaller ELSE caller[o]
    <3>1. CASE PostReturn(i)
      <4>1. Posting(i) /\ route[i] \in Outputs
        BY <3>1 DEF PostReturn, Posting, Typed, TypeOK, InputMutexFree
      <4>2. \A o \in Outputs : caller[o] = i <=> route[i] = o
        BY <4>1 DEF CallerInv
      <4> QED
        BY <3>1, <4>1, <4>2 DEF PostReturn, Posting, Typed, TypeOK
    <3>2. CASE InputInterrupted(i)
      BY <3>2 DEF InputInterrupted, Posting, Typed, TypeOK
    <3> QED
      BY <1>3, <3>1, <3>2
  <2>2. ASSUME NEW j \in Inputs, NEW o \in Outputs
        PROVE  caller'[o] = j <=> Posting(j)' /\ route'[j] = o
    BY <2>1, InputIsNotOutput DEF CallerInv, Posting
  <2>3. ASSUME NEW o \in Outputs, caller'[o] # NoCaller
        PROVE  mem'[o] = Item(caller'[o], nread'[caller'[o]] + 1)
    <3>1. caller'[o] = caller[o] /\ caller[o] # i /\ caller[o] \in Inputs
      BY <2>1, <2>3 DEF Typed, TypeOK
    <3> QED
      BY <2>1, <2>3, <3>1 DEF CallerInv
  <2>4. \A o \in Outputs : caller'[o] # NoCaller
                              => mem'[o] = Item(caller'[o], nread'[caller'[o]] + 1)
    BY <2>3
  <2> QED
    BY <2>2, <2>4 DEF CallerInv, Item
<1>4. CASE PostWaitAgain(i)
  BY <1>4, CallerKept DEF PostWaitAgain, Posting, Typed, TypeOK
<1>5. CASE PostSpurious(i)
  BY <1>5, CallerKept DEF PostSpurious, Posting, Typed, TypeOK
<1>6. CASE BlockerSpurious(i)
  BY <1>6, CallerKept DEF BlockerSpurious, Posting, Typed, TypeOK
<1> QED
  BY <1>1, <1>2, <1>3, <1>4, <1>5, <1>6 DEF InputStep

LEMMA OutputCaller ==
    ASSUME Typed, CallerInv, NEW o \in Outputs,
           OutputStep(o) \/ OutputSpurious(o) \/ OutputInterrupted(o)
    PROVE  CallerInv'
<1>1. ASSUME NEW n \in 1..MaxChunk, OutputCopy(o, n) PROVE CallerInv'
  BY <1>1, CallerKept DEF OutputCopy, NotifyCaller, Posting
<1>2. CASE OutputStart(o) \/ OutputWait(o)
  BY <1>2, CallerKept DEF OutputStart, OutputWait, Posting
<1>3. CASE OutputSpurious(o) \/ OutputInterrupted(o)
  BY <1>3, CallerKept DEF OutputSpurious, OutputInterrupted, Posting
<1> QED
  BY <1>1, <1>2, <1>3 DEF OutputStep

LEMMA NextCaller == Typed /\ CallerInv /\ [Next]_vars => CallerInv'
<1> SUFFICES ASSUME Typed, CallerInv, [Next]_vars PROVE CallerInv'
  OBVIOUS
<1>1. CASE SetOutput
  <2>1. \A i \in Inputs : Posting(i) => i # idx
    BY <1>1 DEF SetOutput, InputMutexFree, Posting
  <2> QED
    BY <1>1, <2>1, CallerKept DEF SetOutput, Posting, Typed, TypeOK
<1>2. CASE SetOutputNotify
  BY <1>2, CallerKept DEF SetOutputNotify, NotifyBlocker, Posting, Typed, TypeOK
<1>3. CASE SetPathsThrow \/ (\E p \in AllPaths : SetPaths(p)) \/ Interrupt
  BY <1>3, CallerKept DEF SetPathsThrow, SetPaths, Interrupt, Posting
<1>4. CASE UNCHANGED vars
  BY <1>4, CallerKept DEF vars, Posting
<1>5. CASE Restart
  BY <1>5, CallerKept DEF Restart, Posting
<1>6. CASE \E i \in Inputs : \/ InputStep(i) \/ BlockerSpurious(i) \/ PostSpurious(i)
                             \/ InputInterrupted(i)
  BY <1>6, InputCaller
<1>7. CASE \E o \in Outputs : OutputStep(o) \/ OutputSpurious(o) \/ OutputInterrupted(o)
  BY <1>7, OutputCaller
<1> QED
  BY <1>1, <1>2, <1>3, <1>4, <1>5, <1>6, <1>7 DEF Next, SetterStep

LEMMA NextAlive == Typed /\ CallerInv /\ AliveInv /\ [Next]_vars => AliveInv'
<1> SUFFICES ASSUME Typed, CallerInv, AliveInv, [Next]_vars, NEW o \in Outputs,
                    Live(o)', ~stopping'
             PROVE  caller'[o] # NoCaller
  BY DEF AliveInv, Live
<1> USE DEF Live
<1>1. ASSUME NEW i \in Inputs,
             InputStep(i) \/ BlockerSpurious(i) \/ PostSpurious(i) \/ InputInterrupted(i)
      PROVE  caller'[o] # NoCaller
  <2>1. CASE PostOutput(i)
    <3>1. route[i] \in Outputs
      BY <2>1 DEF PostOutput, Typed, TypeOK, InputMutexFree
    <3>2. CASE o = route[i]
      BY <2>1, <3>1, <3>2, InputIsNotOutput DEF PostOutput, Typed, TypeOK
    <3>3. CASE o # route[i]
      BY <2>1, <3>1, <3>3 DEF PostOutput, Typed, TypeOK, AliveInv
    <3> QED
      BY <3>2, <3>3
  <2>2. CASE PostReturn(i)
    <3>1. route[i] \in Outputs /\ o # route[i]
      BY <2>2 DEF PostReturn, Typed, TypeOK, InputMutexFree
    <3> QED
      BY <2>2, <3>1 DEF PostReturn, Typed, TypeOK, AliveInv
  <2>3. CASE InputWork(i)
    BY <2>3 DEF InputWork, EnterRouted, EnterBlocked, EnterConsuming, AliveInv
  <2>4. CASE PostWaitAgain(i) \/ BlockerSpurious(i) \/ PostSpurious(i)
    BY <2>4 DEF PostWaitAgain, BlockerSpurious, PostSpurious, AliveInv
  <2>5. CASE InputInterrupted(i)
    BY <2>5 DEF InputInterrupted
  <2> QED
    BY <1>1, <2>1, <2>2, <2>3, <2>4, <2>5 DEF InputStep
<1>2. ASSUME NEW p \in Outputs, OutputStep(p) \/ OutputSpurious(p) \/ OutputInterrupted(p)
      PROVE  caller'[o] # NoCaller
  <2>1. ASSUME NEW n \in 1..MaxChunk, OutputCopy(p, n) PROVE caller'[o] # NoCaller
    BY <2>1 DEF OutputCopy, NotifyCaller, Typed, TypeOK, AliveInv
  <2>2. CASE OutputStart(p)
    BY <2>2 DEF OutputStart, Typed, TypeOK, AliveInv
  <2>3. CASE OutputWait(p) \/ OutputSpurious(p) \/ OutputInterrupted(p)
    BY <2>3 DEF OutputWait, OutputSpurious, OutputInterrupted, Typed, TypeOK, AliveInv
  <2> QED
    BY <1>2, <2>1, <2>2, <2>3 DEF OutputStep
<1>3. CASE SetterStep \/ (\E p \in AllPaths : SetPaths(p))
  BY <1>3 DEF SetterStep, SetOutput, SetOutputNotify, SetPathsThrow, SetPaths, AliveInv
<1>4. CASE Interrupt \/ UNCHANGED vars
  BY <1>4 DEF Interrupt, vars, AliveInv
<1>5. CASE Restart
  BY <1>5 DEF Restart
<1> QED
  BY <1>1, <1>2, <1>3, <1>4, <1>5 DEF Next

LEMMA InitCaller == Init => CallerInv /\ AliveInv
BY InputIsNotOutput DEF Init, CallerInv, AliveInv, Live, Posting

\* The pointer that an output copies from does not outlive the work() that owns the
\* buffer, whatever start, interruption and restart come between.
THEOREM PointerAliveCorrect == Spec => []PointerAlive
<1>1. Typed /\ CallerInv /\ AliveInv => PointerAlive
  <2> SUFFICES ASSUME Typed, CallerInv, AliveInv, NEW o \in Outputs,
                      has_data[o], output[o] \notin {"start", "done"}, ~stopping
               PROVE  /\ caller[o] = mem[o][1]
                      /\ input[caller[o]] \in {"posted", "postwoken"}
                      /\ mem[o][2] = nread[caller[o]] + 1
    BY DEF PointerAlive
  <2>1. caller[o] # NoCaller /\ caller[o] \in Inputs
    BY DEF AliveInv, Live, Typed, TypeOK
  <2>2. mem[o] = Item(caller[o], nread[caller[o]] + 1) /\ Posting(caller[o])
    BY <2>1 DEF CallerInv
  <2> QED
    BY <2>2 DEF Item, Posting
<1> QED
  BY <1>1, InitTyped, NextTyped, InitCaller, NextCaller, NextAlive, PTL DEF Spec

-----------------------------------------------------------------------------
(* OnceInOrder *)

\* Data that an output may copy are of the input that waits for it, or of one that
\* was interrupted while it did; none of it was produced yet, and no other output
\* has data of that input.
LiveInv ==
    /\ \A o \in Outputs : Live(o) =>
          /\ caller[o] = mem[o][1] \/ (input[mem[o][1]] = "done" /\ stopping)
          /\ mem[o][2] = nread[mem[o][1]] + 1
          /\ \A p \in Outputs : \A k \in 1..Len(outs[p]) :
                outs[p][k][1] = mem[o][1] => outs[p][k][2] < mem[o][2]
    /\ \A o1, o2 \in Outputs : Live(o1) /\ Live(o2) /\ mem[o1][1] = mem[o2][1] => o1 = o2

\* The last item of an input that may have been produced: ahead of those consumed
\* when a copy was made and post_output() has not returned, and after an
\* interruption of it till the restart.
Reached(i) ==
    nread[i] + (IF input[i] = "done" THEN MaxChunk
                ELSE IF Posting(i) /\ ~has_data[route[i]] THEN len[route[i]] ELSE 0)
ReachedInv ==
    \A o \in Outputs : \A k \in 1..Len(outs[o]) : outs[o][k][2] <= Reached(outs[o][k][1])

\* OnceInOrder, one item after the other.
Ascending ==
    \A o, p \in Outputs : \A k \in 1..Len(outs[o]), l \in 1..Len(outs[p]) :
        outs[o][k][1] = outs[p][l][1] =>
            /\ outs[o][k][2] = outs[p][l][2] => o = p /\ k = l
            /\ o = p /\ k < l => outs[o][k][2] < outs[p][l][2]

OrderInv == LiveInv /\ ReachedInv /\ Ascending

LEMMA ReachedType ==
    ASSUME Typed, NEW i \in Inputs
    PROVE  /\ Reached(i) \in Int /\ Reached(i) >= nread[i]
           /\ nread[i] \in Nat /\ Reached(i) <= nread[i] + MaxChunk
<1>1. MaxChunk \in Nat /\ nread[i] \in Nat
  BY BoundsAssumption DEF Typed, TypeOK
<1>2. Posting(i) => len[route[i]] \in 0..MaxChunk
  BY DEF Posting, Typed, TypeOK, InputMutexFree
<1> QED
  BY <1>1, <1>2 DEF Reached

\* The steps that produce nothing, and make no new data of the outputs either.
LEMMA OrderKept ==
    ASSUME Typed, Typed', OrderInv, outs' = outs,
           \A i \in Inputs : Reached(i)' >= Reached(i),
           \A o \in Outputs : Live(o)' =>
               /\ Live(o) /\ mem'[o] = mem[o] /\ nread'[mem[o][1]] = nread[mem[o][1]]
               /\ caller'[o] = mem[o][1] \/ (input'[mem[o][1]] = "done" /\ stopping')
    PROVE  OrderInv'
<1>1. Ascending'
  <2>1. Ascending /\ outs' = outs
    BY Zenon DEF OrderInv
  <2> QED
    BY ONLY <2>1 DEF Ascending
<1>2. ASSUME NEW i \in Inputs PROVE Reached(i)' \in Int
  <2>1. MaxChunk \in Nat /\ nread'[i] \in Nat
    BY BoundsAssumption DEF Typed, TypeOK
  <2>2. Posting(i)' => len'[route'[i]] \in 0..MaxChunk
    BY DEF Posting, Typed, TypeOK, InputMutexFree
  <2> QED
    BY <2>1, <2>2 DEF Reached
<1>3. ReachedInv'
  <2>1. ASSUME NEW o \in Outputs, NEW k \in 1..Len(outs[o])
        PROVE  outs[o][k][2] <= Reached(outs[o][k][1])'
    <3>1. outs[o][k] \in Inputs \X (Nat \ {0})
      <4>1. outs[o] \in Seq(Inputs \X (Nat \ {0}))
        BY DEF Typed
      <4> QED
        BY <4>1, ElementOfSeq
    <3> DEFINE i == outs[o][k][1]
    <3>2. i \in Inputs /\ outs[o][k][2] \in Nat /\ Reached(i) \in Int /\ Reached(i)' \in Int
      BY <1>2, <3>1, ReachedType
    <3>3. outs[o][k][2] <= Reached(i)
      BY DEF OrderInv, ReachedInv
    <3> QED
      BY <3>2, <3>3
  <2> QED
    BY <2>1 DEF ReachedInv
<1>4. LiveInv'
  <2>1. ASSUME NEW o \in Outputs, Live(o)'
        PROVE  /\ caller'[o] = mem'[o][1] \/ (input'[mem'[o][1]] = "done" /\ stopping')
               /\ mem'[o][2] = nread'[mem'[o][1]] + 1
               /\ \A p \in Outputs : \A k \in 1..Len(outs[p]) :
                     outs[p][k][1] = mem'[o][1] => outs[p][k][2] < mem'[o][2]
    BY <2>1 DEF OrderInv, LiveInv
  <2>2. \A o1, o2 \in Outputs : Live(o1)' /\ Live(o2)' /\ mem'[o1][1] = mem'[o2][1] => o1 = o2
    BY DEF OrderInv, LiveInv
  <2>3. \A o \in Outputs : Live(o)' =>
           /\ caller'[o] = mem'[o][1] \/ (input'[mem'[o][1]] = "done" /\ stopping')
           /\ mem'[o][2] = nread'[mem'[o][1]] + 1
           /\ \A p \in Outputs : \A k \in 1..Len(outs'[p]) :
                 outs'[p][k][1] = mem'[o][1] => outs'[p][k][2] < mem'[o][2]
    BY <2>1
  <2> QED
    BY <2>2, <2>3 DEF LiveInv
<1> QED
  BY <1>1, <1>3, <1>4 DEF OrderInv

LEMMA InputOrder ==
    ASSUME Typed, Typed', CallerInv, OrderInv, NEW i \in Inputs,
           InputStep(i) \/ BlockerSpurious(i) \/ PostSpurious(i) \/ InputInterrupted(i)
    PROVE  OrderInv'
<1>0. /\ MaxChunk \in Nat /\ nread \in [Inputs -> Nat] /\ nread[i] \in Nat
      /\ \A o \in Outputs : mem[o][1] \in Inputs
      /\ \A j \in Inputs : Reached(j) \in Int
  BY BoundsAssumption, ReachedType DEF Typed, TypeOK
<1>1. CASE InputWork(i)
  <2>0. PICK n \in 1..MaxChunk : EnterRouted(i, n) \/ EnterBlocked(i, n) \/ EnterConsuming(i, n)
    BY <1>1 DEF InputWork
  <2>1. ~Posting(i) /\ input[i] # "done" /\ n \in Nat /\ n > 0
    BY <1>0, <1>1, <2>0 DEF InputWork, Posting
  <2>2. \A o \in Outputs : Live(o) => mem[o][1] # i
    BY <2>1 DEF OrderInv, LiveInv, CallerInv
  <2>3. /\ UNCHANGED <<outputVars, route, stopping, outs>>
        /\ ~Posting(i)' /\ input'[i] # "done" /\ nread'[i] >= nread[i]
        /\ \A j \in Inputs : j # i => input'[j] = input[j] /\ nread'[j] = nread[j]
    <3>1. CASE EnterRouted(i, n)
      BY <1>0, <3>1 DEF EnterRouted, Posting, Typed, TypeOK
    <3>2. CASE EnterBlocked(i, n)
      BY <1>0, <3>2 DEF EnterBlocked, Posting, Typed, TypeOK
    <3>3. CASE EnterConsuming(i, n)
      BY <1>0, <2>1, <3>3 DEF EnterConsuming, Posting, Typed, TypeOK
    <3> QED
      BY <2>0, <3>1, <3>2, <3>3
  <2>4. \A j \in Inputs : Reached(j)' >= Reached(j)
    <3>0. nread'[i] \in Nat
      BY DEF Typed, TypeOK
    <3>1. Reached(i) = nread[i] /\ Reached(i)' = nread'[i]
      BY <1>0, <2>1, <2>3, <3>0 DEF Reached
    <3>2. ASSUME NEW j \in Inputs, j # i PROVE Reached(j)' = Reached(j)
      BY <2>3, <3>2 DEF Reached, Posting
    <3> QED
      BY <1>0, <2>3, <3>1, <3>2
  <2>5. \A o \in Outputs : Live(o)' =>
           /\ Live(o) /\ mem'[o] = mem[o] /\ nread'[mem[o][1]] = nread[mem[o][1]]
           /\ caller'[o] = mem[o][1] \/ (input'[mem[o][1]] = "done" /\ stopping')
    BY <1>0, <2>2, <2>3 DEF Live, OrderInv, LiveInv
  <2> QED
    BY <2>3, <2>4, <2>5, OrderKept
<1>2. CASE PostOutput(i)
  <2> DEFINE p == route[i]
  <2>1. /\ p \in Outputs /\ input[i] = "calling" /\ ~Posting(i)
        /\ caller' = [caller EXCEPT ![p] = i]
        /\ mem' = [mem EXCEPT ![p] = Item(i, nread[i] + 1)]
        /\ len' = [len EXCEPT ![p] = want[i]]
        /\ has_data' = [has_data EXCEPT ![p] = TRUE]
        /\ input' = [input EXCEPT ![i] = "posted"]
        /\ UNCHANGED <<nread, route, stopping, outs>> /\ caller[p] = NoCaller
    BY <1>2 DEF PostOutput, CallerMutexFree, Posting, Typed, TypeOK, InputMutexFree
  <2>2. \A j \in Inputs : Posting(j) => route[j] # p
    BY <2>1, InputIsNotOutput DEF CallerInv
  <2>3. ASSUME NEW j \in Inputs PROVE Reached(j)' = Reached(j)
    <3>1. CASE j = i
      BY <1>0, <2>1, <3>1 DEF Reached, Posting, Typed, TypeOK
    <3>2. CASE j # i
      <4>1. input'[j] = input[j] /\ (Posting(j)' <=> Posting(j))
        BY <2>1, <3>2 DEF Posting, Typed, TypeOK
      <4>2. Posting(j) => has_data'[route[j]] = has_data[route[j]] /\ len'[route[j]] = len[route[j]]
        BY <2>1, <2>2 DEF Posting, Typed, TypeOK, InputMutexFree
      <4> QED
        BY <2>1, <4>1, <4>2 DEF Reached
    <3> QED
      BY <3>1, <3>2
  <2>4. ReachedInv'
    <3>1. ASSUME NEW o \in Outputs, NEW k \in 1..Len(outs[o])
          PROVE  outs[o][k][1] \in Inputs
      <4>1. outs[o] \in Seq(Inputs \X (Nat \ {0}))
        BY DEF Typed
      <4>2. outs[o][k] \in Inputs \X (Nat \ {0})
        BY <4>1, ElementOfSeq
      <4> QED
        BY <4>2
    <3> QED
      BY <2>1, <2>3, <3>1 DEF ReachedInv, OrderInv
  <2>5. Ascending'
    BY <2>1 DEF Ascending, OrderInv
  <2>6. \A o \in Outputs : Live(o) => mem[o][1] # i
    BY <2>1 DEF OrderInv, LiveInv, CallerInv
  <2>7. \A o \in Outputs : o # p => /\ Live(o)' <=> Live(o)
                                    /\ mem'[o] = mem[o] /\ caller'[o] = caller[o]
                                    /\ Live(o) => input'[mem[o][1]] = input[mem[o][1]]
    <3>1. \A o \in Outputs : o # p => output'[o] = output[o]
      BY <1>2 DEF PostOutput, Typed, TypeOK
    <3>2. \A o \in Outputs : o # p => /\ has_data'[o] = has_data[o]
                                      /\ mem'[o] = mem[o] /\ caller'[o] = caller[o]
      BY <2>1 DEF Typed, TypeOK
    <3>3. \A j \in Inputs : j # i => input'[j] = input[j]
      BY <2>1 DEF Typed, TypeOK
    <3> QED
      BY <1>0, <2>6, <3>1, <3>2, <3>3 DEF Live
  <2>8. mem'[p] = Item(i, nread[i] + 1) /\ caller'[p] = i
    BY <2>1 DEF Typed, TypeOK
  <2>9. \A q \in Outputs : \A k \in 1..Len(outs[q]) :
           outs[q][k][1] = i => outs[q][k][2] < nread[i] + 1
    <3>1. Reached(i) = nread[i]
      BY <1>0, <2>1 DEF Reached
    <3>2. ASSUME NEW q \in Outputs, NEW k \in 1..Len(outs[q]), outs[q][k][1] = i
          PROVE  outs[q][k][2] < nread[i] + 1
      <4>1. outs[q] \in Seq(Inputs \X (Nat \ {0}))
        BY DEF Typed
      <4>2. outs[q][k] \in Inputs \X (Nat \ {0})
        BY <4>1, ElementOfSeq
      <4>3. outs[q][k][2] <= nread[i]
        BY <3>1, <3>2 DEF OrderInv, ReachedInv
      <4> QED
        BY <1>0, <4>2, <4>3
    <3> QED
      BY <3>2
  <2>10. LiveInv'
    <3>1. ASSUME NEW o \in Outputs, Live(o)'
          PROVE  /\ caller'[o] = mem'[o][1] \/ (input'[mem'[o][1]] = "done" /\ stopping')
                 /\ mem'[o][2] = nread'[mem'[o][1]] + 1
                 /\ \A q \in Outputs : \A k \in 1..Len(outs'[q]) :
                       outs'[q][k][1] = mem'[o][1] => outs'[q][k][2] < mem'[o][2]
      <4>1. CASE o = p
        BY <2>1, <2>8, <2>9, <4>1 DEF Item
      <4>2. CASE o # p
        BY <2>1, <2>7, <3>1, <4>2 DEF OrderInv, LiveInv
      <4> QED
        BY <4>1, <4>2
    <3>2. ASSUME NEW o1 \in Outputs, NEW o2 \in Outputs,
                 Live(o1)', Live(o2)', mem'[o1][1] = mem'[o2][1]
          PROVE  o1 = o2
      <4>1. mem'[p][1] = i
        BY <2>8 DEF Item
      <4>2. \A o \in Outputs : o # p /\ Live(o)' => Live(o) /\ mem'[o][1] = mem[o][1] /\ mem[o][1] # i
        BY <2>6, <2>7
      <4> QED
        BY <3>2, <4>1, <4>2 DEF OrderInv, LiveInv
    <3> QED
      BY <3>1, <3>2 DEF LiveInv
  <2> QED
    BY <2>4, <2>5, <2>10 DEF OrderInv
<1>3. CASE PostReturn(i)
  <2> DEFINE p == route[i]
  <2>1. /\ p \in Outputs /\ Posting(i) /\ input[i] # "done" /\ ~has_data[p]
        /\ nread' = [nread EXCEPT ![i] = @ + len[p]]
        /\ caller' = [caller EXCEPT ![p] = NoCaller]
        /\ input' = [input EXCEPT ![i] = "idle"]
        /\ UNCHANGED <<route, output, mem, len, has_data, stopping, outs>>
    BY <1>3 DEF PostReturn, Posting, Typed, TypeOK, InputMutexFree
  <2>2. \A o \in Outputs : Live(o) => mem[o][1] # i /\ o # p
    BY <2>1 DEF OrderInv, LiveInv, CallerInv, Live
  <2>3. \A j \in Inputs : Reached(j)' >= Reached(j)
    <3>1. Reached(i) = nread[i] + len[p] /\ input'[i] = "idle" /\ nread'[i] = nread[i] + len[p]
      BY <2>1 DEF Reached, Typed, TypeOK
    <3>2. ~Posting(i)' /\ input'[i] # "done"
      BY <3>1 DEF Posting
    <3>3. nread'[i] \in Nat
      BY DEF Typed, TypeOK
    <3>4. Reached(i)' = nread'[i]
      BY <3>2, <3>3 DEF Reached
    <3>5. ASSUME NEW j \in Inputs, j # i PROVE Reached(j)' = Reached(j)
      <4>1. input'[j] = input[j] /\ nread'[j] = nread[j]
        BY <2>1, <3>5 DEF Typed, TypeOK
      <4> QED
        BY <2>1, <4>1 DEF Reached, Posting
    <3> QED
      BY <1>0, <3>1, <3>3, <3>4, <3>5
  <2>4. \A o \in Outputs : Live(o)' =>
           /\ Live(o) /\ mem'[o] = mem[o] /\ nread'[mem[o][1]] = nread[mem[o][1]]
           /\ caller'[o] = mem[o][1] \/ (input'[mem[o][1]] = "done" /\ stopping')
    BY <1>0, <2>1, <2>2 DEF Live, OrderInv, LiveInv, Typed, TypeOK
  <2> QED
    BY <2>1, <2>3, <2>4, OrderKept
<1>4. CASE PostWaitAgain(i) \/ PostSpurious(i) \/ BlockerSpurious(i)
  <2>1. /\ \A j \in Inputs : (Posting(j)' <=> Posting(j)) /\ (input'[j] = "done" <=> input[j] = "done")
        /\ UNCHANGED <<nread, route, caller, mem, len, has_data, output, stopping, outs>>
    <3>1. CASE PostWaitAgain(i)
      BY <3>1 DEF PostWaitAgain, Posting, Typed, TypeOK
    <3>2. CASE PostSpurious(i)
      BY <3>2 DEF PostSpurious, Posting, Typed, TypeOK
    <3>3. CASE BlockerSpurious(i)
      BY <3>3 DEF BlockerSpurious, Posting, Typed, TypeOK
    <3> QED
      BY <1>4, <3>1, <3>2, <3>3
  <2>2. \A j \in Inputs : Reached(j)' >= Reached(j)
    BY <1>0, <2>1 DEF Reached
  <2> QED
    BY <1>0, <2>1, <2>2, OrderKept DEF Live, OrderInv, LiveInv
<1>5. CASE InputInterrupted(i)
  <2>1. /\ input' = [input EXCEPT ![i] = "done"] /\ stopping /\ stopping' = stopping
        /\ \A o \in Outputs : caller'[o] = IF caller[o] = i THEN NoCaller ELSE caller[o]
        /\ UNCHANGED <<nread, route, mem, len, has_data, output, outs>>
    BY <1>5 DEF InputInterrupted
  <2>2. \A j \in Inputs : j # i => input'[j] = input[j]
    BY <2>1 DEF Typed, TypeOK
  <2>3. input'[i] = "done"
    BY <2>1 DEF Typed, TypeOK
  <2>4. \A j \in Inputs : Reached(j)' >= Reached(j)
    <3>1. Reached(i)' >= Reached(i)
      <4>1. Reached(i)' = nread[i] + MaxChunk
        BY <2>1, <2>3 DEF Reached
      <4> QED
        BY <1>0, <4>1, ReachedType
    <3>2. ASSUME NEW j \in Inputs, j # i PROVE Reached(j)' = Reached(j)
      BY <2>1, <2>2, <3>2 DEF Reached, Posting
    <3> QED
      BY <1>0, <3>1, <3>2
  <2>5. \A o \in Outputs : Live(o)' =>
           /\ Live(o) /\ mem'[o] = mem[o] /\ nread'[mem[o][1]] = nread[mem[o][1]]
           /\ caller'[o] = mem[o][1] \/ (input'[mem[o][1]] = "done" /\ stopping')
    BY <1>0, <2>1, <2>2, <2>3 DEF Live, OrderInv, LiveInv
  <2> QED
    BY <2>1, <2>4, <2>5, OrderKept
<1> QED
  BY <1>1, <1>2, <1>3, <1>4, <1>5 DEF InputStep

LEMMA OutputOrder ==
    ASSUME Typed, Typed', CallerInv, OrderInv, NEW o \in Outputs,
           OutputStep(o) \/ OutputSpurious(o) \/ OutputInterrupted(o)
    PROVE  OrderInv'
<1>0. /\ MaxChunk \in Nat /\ \A q \in Outputs : mem[q][1] \in Inputs /\ mem[q][2] \in Nat
      /\ \A j \in Inputs : Reached(j) \in Int /\ nread[j] \in Nat
      /\ \A q \in Outputs : len[q] \in 0..MaxChunk
  BY BoundsAssumption, ReachedType DEF Typed, TypeOK
<1>1. CASE OutputStart(o)
  <2>1. /\ has_data' = [has_data EXCEPT ![o] = FALSE]
        /\ output' = [output EXCEPT ![o] = "idle"]
        /\ UNCHANGED <<input, nread, route, caller, mem, len, stopping, outs>>
    BY <1>1 DEF OutputStart
  <2>2. \A j \in Inputs : Reached(j)' >= Reached(j)
    <3>1. ASSUME NEW j \in Inputs PROVE Reached(j)' >= Reached(j)
      <4>1. CASE Posting(j) /\ route[j] = o
        <5>1. /\ Reached(j)' = nread[j] + len[o] /\ len[o] \in Nat
              /\ Reached(j) \in {nread[j], nread[j] + len[o]}
          BY <1>0, <2>1, <4>1 DEF Reached, Posting, Typed, TypeOK
        <5> QED
          BY <1>0, <5>1
      <4>2. CASE ~(Posting(j) /\ route[j] = o)
        <5>1. Reached(j)' = Reached(j)
          BY <2>1, <4>2 DEF Reached, Posting, Typed, TypeOK, InputMutexFree
        <5> QED
          BY <1>0, <5>1
      <4> QED
        BY <4>1, <4>2
    <3> QED
      BY <3>1
  <2>3. \A q \in Outputs : Live(q)' => Live(q)
    BY <2>1 DEF Live, Typed, TypeOK
  <2> QED
    BY <2>1, <2>2, <2>3, OrderKept DEF OrderInv, LiveInv
<1>2. CASE OutputWait(o) \/ OutputSpurious(o) \/ OutputInterrupted(o)
  <2>1. /\ UNCHANGED <<input, nread, route, caller, mem, len, has_data, stopping, outs>>
        /\ \A q \in Outputs : Live(q)' => Live(q)
    <3>1. CASE OutputWait(o)
      BY <3>1 DEF OutputWait, Live, Typed, TypeOK
    <3>2. CASE OutputSpurious(o)
      BY <3>2 DEF OutputSpurious, Live, Typed, TypeOK
    <3>3. CASE OutputInterrupted(o)
      BY <3>3 DEF OutputInterrupted, Live, Typed, TypeOK
    <3> QED
      BY <1>2, <3>1, <3>2, <3>3
  <2>2. \A j \in Inputs : Reached(j)' >= Reached(j)
    BY <1>0, <2>1 DEF Reached, Posting
  <2> QED
    BY <2>1, <2>2, OrderKept DEF OrderInv, LiveInv
<1>3. ASSUME NEW n \in 1..MaxChunk, OutputCopy(o, n) PROVE OrderInv'
  <2>a. PICK i \in Inputs : mem[o][1] = i
    BY <1>0
  <2>b. PICK old \in Nat : Len(outs[o]) = old
    <3>1. outs[o] \in Seq(Inputs \X (Nat \ {0}))
      BY DEF Typed
    <3> QED
      BY <3>1
  <2>1. /\ Live(o) /\ nread[i] \in Nat /\ mem[o][1] = i /\ mem[o][2] = nread[i] + 1 /\ mem[o] = Item(i, nread[i] + 1)
        /\ caller[o] = i \/ (input[i] = "done" /\ stopping)
    <3>1. Live(o)
      BY <1>3 DEF OutputCopy, Live
    <3>2. mem[o] \in Inputs \X (Nat \ {0}) /\ mem[o][2] = nread[i] + 1
      BY <2>a, <3>1 DEF OrderInv, LiveInv, Typed, TypeOK
    <3> QED
      BY <1>0, <2>a, <3>1, <3>2 DEF OrderInv, LiveInv, Item
  <2>2. PICK m \in 0..len[o] :
           /\ len' = [len EXCEPT ![o] = m]
           /\ outs' = [outs EXCEPT ![o] = @ \o Copied(o, m)]
           /\ outs \in [Outputs -> Seq(Inputs \X (Nat \ {0}))]
           /\ outs'[o] \in Seq(Inputs \X (Nat \ {0}))
           /\ Len(outs'[o]) = old + m
           /\ \A k \in 1..old : outs'[o][k] = outs[o][k]
           /\ \A k \in (old + 1)..Len(outs'[o]) :
                 outs'[o][k] = Item(i, (nread[i] + 1) + (k - old) - 1)
    BY <1>3, <2>b, <2>1, CopyTyped
  <2>3. /\ has_data' = [has_data EXCEPT ![o] = FALSE] /\ output' = [output EXCEPT ![o] = "idle"]
        /\ UNCHANGED <<nread, route, caller, mem, stopping>>
        /\ \A j \in Inputs : (Posting(j)' <=> Posting(j)) /\ (input'[j] = "done" <=> input[j] = "done")
    BY <1>3 DEF OutputCopy, NotifyCaller, Posting
  <2>4. m \in Nat /\ m <= MaxChunk /\ old \in Nat
    BY <1>0, <2>2
  \* The items before the copy keep their places; those of the copy follow.
  <2>5. ASSUME NEW q \in Outputs, NEW k \in 1..Len(outs'[q])
        PROVE  \/ k \in 1..Len(outs[q]) /\ outs'[q][k] = outs[q][k]
               \/ /\ q = o /\ k \in (old + 1)..(old + m)
                  /\ outs'[q][k] = Item(i, nread[i] + (k - old))
    <3>1. CASE q # o
      BY <2>2, <3>1
    <3>2. CASE q = o /\ k <= old
      BY <2>b, <2>2, <2>4, <3>2
    <3>3. CASE q = o /\ ~(k <= old)
      <4>1. k \in (old + 1)..(old + m)
        BY <2>2, <2>4, <3>3
      <4>2. outs'[q][k] = Item(i, (nread[i] + 1) + (k - old) - 1)
        BY <2>2, <3>3, <4>1
      <4>3. (nread[i] + 1) + (k - old) - 1 = nread[i] + (k - old)
        BY <1>0, <2>1, <2>4, <4>1
      <4> QED
        BY <3>3, <4>1, <4>2, <4>3
    <3> QED
      BY <3>1, <3>2, <3>3
  <2>6. ASSUME NEW q \in Outputs, NEW k \in 1..Len(outs[q])
        PROVE  /\ outs[q][k][1] \in Inputs /\ outs[q][k][2] \in Nat
               /\ outs[q][k][1] = i => outs[q][k][2] <= nread[i]
    <3>1. outs[q] \in Seq(Inputs \X (Nat \ {0}))
      BY DEF Typed
    <3>2. outs[q][k] \in Inputs \X (Nat \ {0})
      BY <3>1, ElementOfSeq
    <3>3. outs[q][k][1] = i => outs[q][k][2] < nread[i] + 1
      BY <2>1 DEF OrderInv, LiveInv
    <3> QED
      BY <1>0, <2>1, <3>2, <3>3
  <2>7. ASSUME NEW j \in Inputs
        PROVE  /\ j = i => Reached(j)' >= nread[i] + m
               /\ j # i => Reached(j)' = Reached(j)
               /\ Reached(j)' \in Int
    <3>1. CASE j = i /\ caller[o] = i
      <4>1. Posting(i) /\ route[i] = o
        BY <2>1, <3>1 DEF CallerInv
      <4>2. ~has_data'[o] /\ len'[o] = m
        BY <2>2, <2>3 DEF Typed, TypeOK
      <4>3. input[i] # "done"
        BY <4>1 DEF Posting
      <4>4. Reached(i)' = nread[i] + m
        BY <2>1, <2>3, <4>1, <4>2, <4>3 DEF Reached
      <4> QED
        BY <1>0, <2>1, <2>4, <3>1, <4>4
    <3>2. CASE j = i /\ caller[o] # i
      <4>1. Reached(i)' = nread[i] + MaxChunk
        BY <2>1, <2>3, <3>2 DEF Reached
      <4> QED
        BY <1>0, <2>1, <2>4, <3>2, <4>1
    <3>3. CASE j # i
      <4>1. Posting(j) => route[j] # o
        <5>1. caller[o] # j
          <6>1. caller[o] # NoCaller => mem[o] = Item(caller[o], nread[caller[o]] + 1)
            BY DEF CallerInv
          <6>2. caller[o] = j => mem[o][1] = j
            BY <6>1, InputIsNotOutput DEF Item
          <6> QED
            BY <2>a, <3>3, <6>2
        <5> QED
          BY <5>1 DEF CallerInv
      <4>2. Posting(j) => has_data'[route[j]] = has_data[route[j]] /\ len'[route[j]] = len[route[j]]
        <5>1. Posting(j) => route[j] \in Outputs
          BY DEF Posting, Typed, TypeOK, InputMutexFree
        <5>2. \A q \in Outputs : q # o => has_data'[q] = has_data[q] /\ len'[q] = len[q]
          BY <2>2, <2>3 DEF Typed, TypeOK
        <5> QED
          BY <4>1, <5>1, <5>2
      <4>3. Reached(j)' = Reached(j)
        BY <2>3, <4>2 DEF Reached
      <4> QED
        BY <1>0, <3>3, <4>3
    <3> QED
      BY <3>1, <3>2, <3>3
  <2>8. ReachedInv'
    <3>1. ASSUME NEW q \in Outputs, NEW k \in 1..Len(outs'[q]),
                 NEW j \in Inputs, outs'[q][k][1] = j
          PROVE  outs'[q][k][2] <= Reached(j)'
      <4>1. CASE k \in 1..Len(outs[q]) /\ outs'[q][k] = outs[q][k]
        <5>1. outs[q][k][2] \in Nat /\ (j = i => outs[q][k][2] <= nread[i])
          BY <2>6, <3>1, <4>1
        <5>2. outs[q][k][2] <= Reached(j)
          BY <3>1, <4>1 DEF OrderInv, ReachedInv
        <5>3. CASE j = i
          BY <1>0, <2>1, <2>4, <2>7, <4>1, <5>1, <5>3
        <5>4. CASE j # i
          BY <2>7, <4>1, <5>1, <5>2, <5>4
        <5> QED
          BY <5>3, <5>4
      <4>2. CASE q = o /\ k \in (old + 1)..(old + m) /\ outs'[q][k] = Item(i, nread[i] + (k - old))
        <5>1. outs'[q][k][1] = i /\ outs'[q][k][2] = nread[i] + (k - old)
          BY <4>2 DEF Item
        <5>2. nread[i] + (k - old) <= nread[i] + m
          BY <1>0, <2>1, <2>4, <4>2
        <5>3. Reached(i)' >= nread[i] + m /\ Reached(i)' \in Int
          BY <2>1, <2>7
        <5>4. nread[i] + (k - old) <= Reached(i)'
          BY <1>0, <2>1, <2>4, <4>2, <5>2, <5>3
        <5> QED
          BY <3>1, <5>1, <5>4
      <4> QED
        BY <2>5, <4>1, <4>2
    <3>2. ASSUME NEW q \in Outputs, NEW k \in 1..Len(outs'[q]) PROVE outs'[q][k][1] \in Inputs
      <4>1. outs'[q] \in Seq(Inputs \X (Nat \ {0}))
        BY DEF Typed
      <4>2. outs'[q][k] \in Inputs \X (Nat \ {0})
        BY <4>1, ElementOfSeq
      <4> QED
        BY <4>2
    <3> QED
      BY <3>1, <3>2 DEF ReachedInv
  <2>9. ASSUME NEW q \in Outputs, NEW p \in Outputs, NEW k \in 1..Len(outs'[q]),
               NEW l \in 1..Len(outs'[p]), outs'[q][k][1] = outs'[p][l][1]
        PROVE  /\ outs'[q][k][2] = outs'[p][l][2] => q = p /\ k = l
               /\ q = p /\ k < l => outs'[q][k][2] < outs'[p][l][2]
    <3> DEFINE Old(r, x) == x \in 1..Len(outs[r]) /\ outs'[r][x] = outs[r][x]
               New(r, x) == /\ r = o /\ x \in (old + 1)..(old + m)
                            /\ outs'[r][x] = Item(i, nread[i] + (x - old))
    <3>1. (Old(q, k) \/ New(q, k)) /\ (Old(p, l) \/ New(p, l))
      BY <2>5
    <3>0. nread[i] \in Nat /\ old \in Nat /\ m \in Nat
      BY <2>1, <2>4
    <3>2. CASE Old(q, k) /\ Old(p, l)
      BY <2>9, <3>2 DEF OrderInv, Ascending
    <3>3. CASE Old(q, k) /\ New(p, l)
      <4>1. outs'[p][l][1] = i /\ outs'[p][l][2] = nread[i] + (l - old) /\ p = o /\ l \in (old + 1)..(old + m)
        BY <3>3 DEF Item
      <4>2. outs'[q][k][2] \in Nat /\ outs'[q][k][2] <= nread[i]
        BY <2>6, <2>9, <3>3, <4>1
      <4>3. outs'[q][k][2] < outs'[p][l][2]
        BY <3>0, <4>1, <4>2
      <4> QED
        BY <4>2, <4>3
    <3>4. CASE New(q, k) /\ Old(p, l)
      <4>1. outs'[q][k][1] = i /\ outs'[q][k][2] = nread[i] + (k - old) /\ q = o /\ k \in (old + 1)..(old + m)
        BY <3>4 DEF Item
      <4>2. outs'[p][l][2] \in Nat /\ outs'[p][l][2] <= nread[i] /\ l \in 1..Len(outs[p])
        BY <2>6, <2>9, <3>4, <4>1
      <4>3. outs'[p][l][2] < outs'[q][k][2]
        BY <3>0, <4>1, <4>2
      <4>4. ~(q = p /\ k < l)
        BY <2>b, <2>4, <4>1, <4>2
      <4> QED
        BY <1>0, <2>1, <2>4, <4>1, <4>2, <4>3, <4>4
    <3>5. CASE New(q, k) /\ New(p, l)
      <4>1. /\ outs'[q][k][2] = nread[i] + (k - old) /\ q = o /\ k \in (old + 1)..(old + m)
            /\ outs'[p][l][2] = nread[i] + (l - old) /\ p = o /\ l \in (old + 1)..(old + m)
        BY <3>5 DEF Item
      <4> QED
        BY <1>0, <2>1, <2>4, <4>1
    <3> QED
      BY <3>1, <3>2, <3>3, <3>4, <3>5
  <2>10. Ascending'
    BY <2>9 DEF Ascending
  <2>11. \A q \in Outputs : Live(q)' => q # o /\ Live(q) /\ mem[q][1] # i
    <3>1. \A q \in Outputs : Live(q)' => q # o /\ Live(q)
      BY <2>3 DEF Live, Typed, TypeOK
    <3> QED
      BY <2>1, <3>1 DEF OrderInv, LiveInv
  <2>12. LiveInv'
    <3>1. ASSUME NEW q \in Outputs, Live(q)'
          PROVE  /\ caller'[q] = mem'[q][1] \/ (input'[mem'[q][1]] = "done" /\ stopping')
                 /\ mem'[q][2] = nread'[mem'[q][1]] + 1
                 /\ \A p \in Outputs : \A k \in 1..Len(outs'[p]) :
                       outs'[p][k][1] = mem'[q][1] => outs'[p][k][2] < mem'[q][2]
      <4>1. /\ caller'[q] = mem'[q][1] \/ (input'[mem'[q][1]] = "done" /\ stopping')
            /\ mem'[q][2] = nread'[mem'[q][1]] + 1
        BY <1>0, <2>3, <2>11, <3>1 DEF OrderInv, LiveInv
      <4>2. ASSUME NEW p \in Outputs, NEW k \in 1..Len(outs'[p]), outs'[p][k][1] = mem'[q][1]
            PROVE  outs'[p][k][2] < mem'[q][2]
        <5>1. k \in 1..Len(outs[p]) /\ outs'[p][k] = outs[p][k]
          BY <2>3, <2>5, <2>11, <3>1, <4>2 DEF Item
        <5> QED
          BY <2>3, <2>11, <3>1, <4>2, <5>1 DEF OrderInv, LiveInv
      <4> QED
        BY <4>1, <4>2
    <3>2. \A o1, o2 \in Outputs : Live(o1)' /\ Live(o2)' /\ mem'[o1][1] = mem'[o2][1] => o1 = o2
      BY <2>3, <2>11 DEF OrderInv, LiveInv
    <3> QED
      BY <3>1, <3>2 DEF LiveInv
  <2> QED
    BY <2>8, <2>10, <2>12 DEF OrderInv
<1> QED
  BY <1>1, <1>2, <1>3 DEF OutputStep

LEMMA NextOrder == Typed /\ CallerInv /\ OrderInv /\ [Next]_vars => OrderInv'
<1> SUFFICES ASSUME Typed, CallerInv, OrderInv, [Next]_vars PROVE OrderInv'
  OBVIOUS
<1>0. /\ Typed' /\ \A j \in Inputs : Reached(j) \in Int
      /\ \A q \in Outputs : mem[q][1] \in Inputs
  BY NextTyped, ReachedType DEF Typed, TypeOK
<1>1. CASE SetOutput
  <2>1. /\ UNCHANGED <<input, nread, outputVars, stopping, outs>> /\ ~Posting(idx)
        /\ \A j \in Inputs : j # idx => route'[j] = route[j]
    BY <1>1 DEF SetOutput, Posting, InputMutexFree, Typed, TypeOK
  <2>2. \A j \in Inputs : Reached(j)' >= Reached(j)
    <3>1. \A j \in Inputs : Reached(j)' = Reached(j)
      BY <2>1 DEF Reached, Posting
    <3> QED
      BY <1>0, <3>1
  <2>3. \A o \in Outputs : Live(o)' =>
           /\ Live(o) /\ mem'[o] = mem[o] /\ nread'[mem[o][1]] = nread[mem[o][1]]
           /\ caller'[o] = mem[o][1] \/ (input'[mem[o][1]] = "done" /\ stopping')
    BY <1>0, <2>1 DEF Live, OrderInv, LiveInv
  <2> QED
    BY <1>0, <2>1, <2>2, <2>3, OrderKept
<1>2. CASE SetOutputNotify
  <2>1. /\ UNCHANGED <<nread, route, outputVars, stopping, outs>>
        /\ \A j \in Inputs : (Posting(j)' <=> Posting(j)) /\ (input'[j] = "done" <=> input[j] = "done")
    BY <1>2 DEF SetOutputNotify, NotifyBlocker, Posting, Typed, TypeOK
  <2>2. \A j \in Inputs : Reached(j)' >= Reached(j)
    <3>1. \A j \in Inputs : Reached(j)' = Reached(j)
      BY <2>1 DEF Reached
    <3> QED
      BY <1>0, <3>1
  <2>3. \A o \in Outputs : Live(o)' =>
           /\ Live(o) /\ mem'[o] = mem[o] /\ nread'[mem[o][1]] = nread[mem[o][1]]
           /\ caller'[o] = mem[o][1] \/ (input'[mem[o][1]] = "done" /\ stopping')
    BY <1>0, <2>1 DEF Live, OrderInv, LiveInv
  <2> QED
    BY <1>0, <2>1, <2>2, <2>3, OrderKept
<1>3. CASE SetPathsThrow \/ (\E p \in AllPaths : SetPaths(p)) \/ Interrupt \/ UNCHANGED vars
  <2>1. /\ UNCHANGED <<inputVars, outputVars, outs>> /\ (stopping => stopping')
    <3>1. CASE SetPathsThrow
      BY <3>1 DEF SetPathsThrow
    <3>2. ASSUME NEW p \in AllPaths, SetPaths(p)
          PROVE  UNCHANGED <<inputVars, outputVars, outs>> /\ (stopping => stopping')
      BY <3>2 DEF SetPaths
    <3>3. CASE Interrupt
      BY <3>3 DEF Interrupt
    <3>4. CASE UNCHANGED vars
      BY <3>4 DEF vars
    <3> QED
      BY <1>3, <3>1, <3>2, <3>3, <3>4
  <2>2. \A j \in Inputs : Reached(j)' >= Reached(j)
    <3>1. \A j \in Inputs : Reached(j)' = Reached(j)
      BY <2>1 DEF Reached, Posting
    <3> QED
      BY <1>0, <3>1
  <2>3. \A o \in Outputs : Live(o)' =>
           /\ Live(o) /\ mem'[o] = mem[o] /\ nread'[mem[o][1]] = nread[mem[o][1]]
           /\ caller'[o] = mem[o][1] \/ (input'[mem[o][1]] = "done" /\ stopping')
    BY <1>0, <2>1 DEF Live, OrderInv, LiveInv
  <2> QED
    BY <1>0, <2>1, <2>2, <2>3, OrderKept
<1>4. CASE Restart
  <2>1. \A q \in Outputs : ~Live(q)'
    BY <1>4 DEF Restart, Live
  <2>2. ASSUME NEW j \in Inputs PROVE Reached(j)' = Reached(j)
    <3>1. MaxChunk \in Nat /\ nread[j] \in Nat
      BY BoundsAssumption DEF Typed, TypeOK
    <3> QED
      BY <1>4, <3>1 DEF Restart, Reached, Posting
  <2> QED
    BY <1>0, <1>4, <2>1, <2>2, OrderKept DEF Restart
<1>5. CASE \E i \in Inputs : \/ InputStep(i) \/ BlockerSpurious(i) \/ PostSpurious(i)
                             \/ InputInterrupted(i)
  BY <1>0, <1>5, InputOrder
<1>6. CASE \E o \in Outputs : OutputStep(o) \/ OutputSpurious(o) \/ OutputInterrupted(o)
  BY <1>0, <1>6, OutputOrder
<1> QED
  BY <1>1, <1>2, <1>3, <1>4, <1>5, <1>6 DEF Next, SetterStep

LEMMA InitOrder == Init => OrderInv
<1> SUFFICES ASSUME Init PROVE OrderInv
  OBVIOUS
<1>1. \A o \in Outputs : Len(outs[o]) = 0 /\ ~Live(o)
  BY DEF Init, Live
<1> QED
  BY <1>1 DEF OrderInv, LiveInv, ReachedInv, Ascending

\* No item is produced twice, on one output or on two, and each output gets the items
\* of an input in order, though paths change, posts are wiped and threads interrupted
\* with data of theirs left behind.
THEOREM OnceInOrderCorrect == Spec => []OnceInOrder
<1>1. OrderInv => OnceInOrder
  <2> SUFFICES ASSUME OrderInv, NEW i \in Inputs, NEW a \in Places(i), NEW b \in Places(i)
               PROVE  /\ outs[a[1]][a[2]][2] = outs[b[1]][b[2]][2] => a = b
                      /\ a[1] = b[1] /\ a[2] < b[2]
                            => outs[a[1]][a[2]][2] < outs[b[1]][b[2]][2]
    BY DEF OnceInOrder
  <2>1. \A c \in Places(i) : /\ c = <<c[1], c[2]>> /\ c[1] \in Outputs
                             /\ c[2] \in 1..Len(outs[c[1]]) /\ outs[c[1]][c[2]][1] = i
    BY DEF Places
  <2>2. a = <<a[1], a[2]>> /\ b = <<b[1], b[2]>>
    BY <2>1
  <2>3. /\ outs[a[1]][a[2]][2] = outs[b[1]][b[2]][2] => a[1] = b[1] /\ a[2] = b[2]
        /\ a[1] = b[1] /\ a[2] < b[2] => outs[a[1]][a[2]][2] < outs[b[1]][b[2]][2]
    BY <2>1 DEF OrderInv, Ascending
  <2> QED
    BY <2>2, <2>3
<1> QED
  BY <1>1, InitTyped, NextTyped, InitCaller, NextCaller, InitOrder, NextOrder, PTL DEF Spec

-----------------------------------------------------------------------------
(* ConsumedOnceCopied *)

\* Item n of input i has been produced.
Produced(i, n) == \E o \in Outputs : \E k \in 1..Len(outs[o]) : outs[o][k] = Item(i, n)

\* What post_output() is to return, and the work() to consume, has been produced.
CopiedInv ==
    \A i \in Inputs \ wiped : Posting(i) /\ ~has_data[route[i]] =>
        \A n \in 1..len[route[i]] : Produced(i, nread[i] + n)
ConsumedInv ==
    \A i \in Inputs \ wiped : \A n \in 1..nread[i] : Item(i, n) \in dropped \/ Produced(i, n)

\* Nothing that was produced is lost.
LEMMA ProducedKept ==
    ASSUME Typed, [Next]_vars, NEW i \in Inputs, NEW n \in Nat, Produced(i, n)
    PROVE  Produced(i, n)'
<1>1. CASE UNCHANGED outs
  BY <1>1 DEF Produced, Item
<1>2. ASSUME NEW o \in Outputs, NEW c \in 1..MaxChunk, OutputCopy(o, c)
      PROVE  Produced(i, n)'
  <2>1. PICK m \in 0..len[o] :
           /\ outs' = [outs EXCEPT ![o] = @ \o Copied(o, m)]
           /\ outs \in [Outputs -> Seq(Inputs \X (Nat \ {0}))]
           /\ Len(outs'[o]) = Len(outs[o]) + m
           /\ \A k \in 1..Len(outs[o]) : outs'[o][k] = outs[o][k]
    BY <1>2, CopyTyped
  <2>2. len[o] \in 0..MaxChunk /\ MaxChunk \in Nat
    BY BoundsAssumption DEF Typed, TypeOK
  <2>a. PICK p \in Outputs : \E k \in 1..Len(outs[p]) : outs[p][k] = Item(i, n)
    BY DEF Produced
  <2>3. PICK k \in 1..Len(outs[p]) : outs[p][k] = Item(i, n)
    BY <2>a
  <2>4. k \in 1..Len(outs'[p]) /\ outs'[p][k] = Item(i, n)
    <3>1. CASE p = o
      <4>1. outs[o] \in Seq(Inputs \X (Nat \ {0}))
        BY <2>1
      <4>2. Len(outs[o]) \in Nat /\ m \in Nat
        BY <2>2, <4>1
      <4> QED
        BY <2>1, <2>3, <3>1, <4>2
    <3>2. CASE p # o
      BY <2>1, <2>3, <3>2
    <3> QED
      BY <3>1, <3>2
  <2> QED
    BY <2>4 DEF Produced, Item
<1>3. UNCHANGED outs \/ \E o \in Outputs : \E c \in 1..MaxChunk : OutputCopy(o, c)
  <2>1. ASSUME NEW j \in Inputs,
               InputStep(j) \/ BlockerSpurious(j) \/ PostSpurious(j) \/ InputInterrupted(j)
        PROVE  UNCHANGED outs
    BY <2>1 DEF InputStep, InputWork, EnterRouted, EnterBlocked, EnterConsuming, PostOutput,
                PostWaitAgain, PostReturn, BlockerSpurious, PostSpurious, InputInterrupted
  <2>2. ASSUME NEW o \in Outputs, OutputStep(o) \/ OutputSpurious(o) \/ OutputInterrupted(o)
        PROVE  UNCHANGED outs \/ \E c \in 1..MaxChunk : OutputCopy(o, c)
    BY <2>2 DEF OutputStep, OutputStart, OutputWait, OutputSpurious, OutputInterrupted
  <2>3. CASE SetterStep \/ (\E p \in AllPaths : SetPaths(p))
    BY <2>3 DEF SetterStep, SetOutput, SetOutputNotify, SetPathsThrow, SetPaths
  <2>4. CASE Interrupt \/ Restart \/ UNCHANGED vars
    BY <2>4 DEF Interrupt, Restart, vars
  <2> QED
    BY <2>1, <2>2, <2>3, <2>4 DEF Next
<1> QED
  BY <1>1, <1>2, <1>3

\* The steps that consume nothing and answer no post.
LEMMA CopiedKept ==
    ASSUME Typed, Typed', CopiedInv, ConsumedInv, [Next]_vars, nread' = nread,
           wiped \subseteq wiped', dropped \subseteq dropped',
           \A i \in Inputs \ wiped' : Posting(i)' /\ ~has_data'[route'[i]] =>
               /\ Posting(i) /\ ~has_data[route[i]]
               /\ len'[route'[i]] = len[route[i]]
    PROVE  CopiedInv' /\ ConsumedInv'
<1>0. \A i \in Inputs : nread[i] \in Nat
  BY DEF Typed, TypeOK
<1>1. ASSUME NEW i \in Inputs \ wiped', Posting(i)', ~has_data'[route'[i]],
             NEW n \in 1..len'[route'[i]]
      PROVE  Produced(i, nread[i] + n)'
  <2>1. i \in Inputs \ wiped /\ n \in 1..len[route[i]]
    BY <1>1
  <2>2. PICK l \in Nat : l = nread[i] + n
    BY <1>0, <2>1, BoundsAssumption
  <2>3. Produced(i, l)
    BY <1>1, <2>1, <2>2 DEF CopiedInv
  <2>4. Produced(i, l)'
    BY <2>3, ProducedKept
  <2> QED
    BY <2>2, <2>4
<1>2. ASSUME NEW i \in Inputs \ wiped', NEW n \in 1..nread[i]
      PROVE  Item(i, n) \in dropped' \/ Produced(i, n)'
  <2>1. n \in Nat /\ i \in Inputs \ wiped
    BY <1>0
  <2> QED
    BY <2>1, ProducedKept DEF ConsumedInv
<1> QED
  BY <1>1, <1>2 DEF CopiedInv, ConsumedInv, Produced, Item

\* Those of an input.
LEMMA InputCopied ==
    ASSUME Typed, Typed', CopiedInv, ConsumedInv, [Next]_vars, NEW i \in Inputs,
           InputStep(i) \/ BlockerSpurious(i) \/ PostSpurious(i) \/ InputInterrupted(i)
    PROVE  CopiedInv' /\ ConsumedInv'
<1>0. \A j \in Inputs : nread[j] \in Nat
  BY DEF Typed, TypeOK
<1>1. CASE InputWork(i)
  <2>0. PICK n \in 1..MaxChunk : EnterRouted(i, n) \/ EnterBlocked(i, n) \/ EnterConsuming(i, n)
    BY <1>1 DEF InputWork
  <2>1. CASE EnterRouted(i, n)
    BY <2>1, CopiedKept DEF EnterRouted, Posting, Typed, TypeOK
  <2>2. CASE EnterBlocked(i, n)
    BY <2>2, CopiedKept DEF EnterBlocked, Posting, Typed, TypeOK
  <2>3. CASE EnterConsuming(i, n)
    <3>1. /\ nread' = [nread EXCEPT ![i] = @ + n] /\ ~Posting(i)'
          /\ dropped' = dropped \cup {Item(i, nread[i] + k) : k \in 1..n}
          /\ \A j \in Inputs : j # i => (Posting(j)' <=> Posting(j)) /\ nread'[j] = nread[j]
          /\ UNCHANGED <<route, outputVars, outs, wiped>>
      BY <2>3 DEF EnterConsuming, Posting, Typed, TypeOK
    <3>2. CopiedInv'
      <4>1. ASSUME NEW j \in Inputs \ wiped, Posting(j)', ~has_data[route[j]],
                   NEW l \in 1..len[route[j]]
            PROVE  Produced(j, nread'[j] + l)
        BY <3>1, <4>1 DEF CopiedInv
      <4>2. \A j \in Inputs \ wiped' : Posting(j)' /\ ~has_data'[route'[j]] =>
               \A l \in 1..len'[route'[j]] : Produced(j, nread'[j] + l)
        BY <3>1, <4>1
      <4>3. outs' = outs
        BY <3>1
      <4> QED
        BY <4>2, <4>3 DEF CopiedInv, Produced, Item
    <3>3. ASSUME NEW j \in Inputs \ wiped, NEW l \in 1..nread'[j]
          PROVE  Item(j, l) \in dropped' \/ Produced(j, l)'
      <4>1. CASE l \in 1..nread[j]
        <5>1. Item(j, l) \in dropped \/ Produced(j, l)
          BY <4>1 DEF ConsumedInv
        <5> QED
          BY <3>1, <5>1 DEF Produced, Item
      <4>2. CASE ~(l \in 1..nread[j])
        <5>1. /\ nread'[i] = nread[i] + n /\ n \in Nat
              /\ nread[i] \in Nat /\ nread[j] \in Nat
          BY <1>0, <3>1, BoundsAssumption DEF Typed, TypeOK
        <5>2. j = i /\ l - nread[i] \in 1..n /\ l = nread[i] + (l - nread[i])
          BY <3>1, <3>3, <4>2, <5>1
        <5>3. Item(i, l) \in {Item(i, nread[i] + k) : k \in 1..n}
          BY <5>2
        <5> QED
          BY <3>1, <5>2, <5>3
      <4> QED
        BY <4>1, <4>2
    <3> QED
      BY <3>1, <3>2, <3>3 DEF ConsumedInv
  <2> QED
    BY <2>0, <2>1, <2>2, <2>3
<1>2. CASE PostOutput(i)
  <2>1. /\ route[i] \in Outputs /\ has_data'[route[i]]
        /\ UNCHANGED <<nread, route, dropped, wiped>>
        /\ \A j \in Inputs : j # i => (Posting(j)' <=> Posting(j))
        /\ \A q \in Outputs : q # route[i] => has_data'[q] = has_data[q] /\ len'[q] = len[q]
    BY <1>2 DEF PostOutput, Posting, Typed, TypeOK, InputMutexFree
  <2>2. \A j \in Inputs : Posting(j)' => route[j] \in Outputs
    BY <2>1 DEF Posting, Typed, TypeOK, InputMutexFree
  <2> QED
    BY <2>1, <2>2, CopiedKept
<1>3. CASE PostReturn(i)
  <2> DEFINE p == route[i]
  <2>1. /\ p \in Outputs /\ Posting(i) /\ ~has_data[p] /\ ~Posting(i)'
        /\ nread' = [nread EXCEPT ![i] = @ + len[p]]
        /\ \A j \in Inputs : j # i => (Posting(j)' <=> Posting(j)) /\ nread'[j] = nread[j]
        /\ UNCHANGED <<route, len, has_data, outs, dropped, wiped>>
    BY <1>3 DEF PostReturn, Posting, Typed, TypeOK, InputMutexFree
  <2>2. CopiedInv'
    <3>1. ASSUME NEW j \in Inputs \ wiped, Posting(j)', ~has_data[route[j]],
                 NEW l \in 1..len[route[j]]
          PROVE  Produced(j, nread'[j] + l)
      BY <2>1, <3>1 DEF CopiedInv
    <3>2. \A j \in Inputs \ wiped' : Posting(j)' /\ ~has_data'[route'[j]] =>
             \A l \in 1..len'[route'[j]] : Produced(j, nread'[j] + l)
      BY <2>1, <3>1
    <3>3. outs' = outs
      BY <2>1
    <3> QED
      BY <3>2, <3>3 DEF CopiedInv, Produced, Item
  <2>3. ASSUME NEW j \in Inputs \ wiped, NEW l \in 1..nread'[j]
        PROVE  Item(j, l) \in dropped \/ Produced(j, l)
    <3>1. CASE l \in 1..nread[j]
      BY <3>1 DEF ConsumedInv
    <3>2. CASE ~(l \in 1..nread[j])
      <4>1. /\ nread'[i] = nread[i] + len[p] /\ len[p] \in Nat
            /\ nread[i] \in Nat /\ nread[j] \in Nat
        BY <1>0, <2>1, BoundsAssumption DEF Typed, TypeOK
      <4>2. j = i /\ l - nread[i] \in 1..len[p] /\ l = nread[i] + (l - nread[i])
        BY <2>1, <2>3, <3>2, <4>1
      <4>3. Produced(i, nread[i] + (l - nread[i]))
        BY <2>1, <2>3, <4>2 DEF CopiedInv
      <4> QED
        BY <4>2, <4>3
    <3> QED
      BY <3>1, <3>2
  <2>4. ConsumedInv'
    <3>1. \A j \in Inputs \ wiped' : \A l \in 1..nread'[j] :
             Item(j, l) \in dropped' \/ Produced(j, l)
      BY <2>1, <2>3
    <3>2. outs' = outs
      BY <2>1
    <3> QED
      BY <3>1, <3>2 DEF ConsumedInv, Produced, Item
  <2> QED
    BY <2>2, <2>4
<1>4. CASE PostWaitAgain(i)
  BY <1>4, CopiedKept DEF PostWaitAgain, Posting, Typed, TypeOK
<1>5. CASE PostSpurious(i)
  BY <1>5, CopiedKept DEF PostSpurious, Posting, Typed, TypeOK
<1>6. CASE BlockerSpurious(i)
  BY <1>6, CopiedKept DEF BlockerSpurious, Posting, Typed, TypeOK
<1>7. CASE InputInterrupted(i)
  BY <1>7, CopiedKept DEF InputInterrupted, Posting, Typed, TypeOK
<1> QED
  BY <1>1, <1>2, <1>3, <1>4, <1>5, <1>6, <1>7 DEF InputStep

\* Those of an output: start() answers the post that it finds, and its input is
\* among those wiped; a copy answers that of its caller with the items it appends.
LEMMA OutputCopied ==
    ASSUME Typed, Typed', CallerInv, CopiedInv, ConsumedInv, [Next]_vars, NEW o \in Outputs,
           OutputStep(o) \/ OutputSpurious(o) \/ OutputInterrupted(o)
    PROVE  CopiedInv' /\ ConsumedInv'
<1>0. \A j \in Inputs : nread[j] \in Nat /\ (Posting(j) => route[j] \in Outputs)
  BY DEF Posting, Typed, TypeOK, InputMutexFree
<1>1. CASE OutputStart(o)
  <2>1. /\ has_data' = [has_data EXCEPT ![o] = FALSE]
        /\ UNCHANGED <<input, route, nread, len, dropped>>
        /\ wiped' = wiped \cup {i \in Inputs : caller[o] = i /\ has_data[o]}
    BY <1>1 DEF OutputStart
  <2>2. ASSUME NEW i \in Inputs \ wiped', Posting(i)', ~has_data'[route'[i]]
        PROVE  Posting(i) /\ ~has_data[route[i]] /\ len'[route'[i]] = len[route[i]]
    <3>1. Posting(i) /\ route'[i] = route[i] /\ route[i] \in Outputs
      BY <1>0, <2>1, <2>2 DEF Posting
    <3>2. CASE route[i] = o
      <4>1. caller[o] = i
        BY <3>1, <3>2 DEF CallerInv
      <4> QED
        BY <2>1, <2>2, <3>1, <3>2, <4>1
    <3>3. CASE route[i] # o
      BY <2>1, <2>2, <3>1, <3>3 DEF Typed, TypeOK
    <3> QED
      BY <3>2, <3>3
  <2> QED
    BY <2>1, <2>2, CopiedKept
<1>2. CASE OutputWait(o)
  BY <1>2, CopiedKept DEF OutputWait, Posting
<1>3. CASE OutputSpurious(o)
  BY <1>3, CopiedKept DEF OutputSpurious, Posting
<1>4. CASE OutputInterrupted(o)
  BY <1>4, CopiedKept DEF OutputInterrupted, Posting
<1>5. ASSUME NEW c \in 1..MaxChunk, OutputCopy(o, c) PROVE CopiedInv' /\ ConsumedInv'
  <2>1. PICK m \in 0..len[o] :
           /\ len' = [len EXCEPT ![o] = m]
           /\ outs \in [Outputs -> Seq(Inputs \X (Nat \ {0}))]
           /\ Len(outs'[o]) = Len(outs[o]) + m
           /\ \A k \in (Len(outs[o]) + 1)..Len(outs'[o]) :
                 outs'[o][k] = Item(mem[o][1], mem[o][2] + (k - Len(outs[o])) - 1)
    BY <1>5, CopyTyped
  <2>2. /\ has_data' = [has_data EXCEPT ![o] = FALSE]
        /\ UNCHANGED <<nread, route, caller, mem, dropped, wiped>>
        /\ \A j \in Inputs : Posting(j)' <=> Posting(j)
    BY <1>5 DEF OutputCopy, NotifyCaller, Posting
  <2>3. ConsumedInv'
    <3>1. ASSUME NEW i \in Inputs \ wiped, NEW n \in 1..nread[i]
          PROVE  Item(i, n) \in dropped \/ Produced(i, n)'
      BY <1>0, ProducedKept DEF ConsumedInv
    <3> QED
      BY <2>2, <3>1 DEF ConsumedInv, Produced, Item
  <2>4. ASSUME NEW i \in Inputs \ wiped, Posting(i), ~has_data'[route[i]],
               NEW n \in 1..len'[route[i]]
        PROVE  Produced(i, nread[i] + n)'
    <3>1. route[i] \in Outputs
      BY <1>0, <2>4
    <3>2. CASE route[i] = o
      <4>1. mem[o] = Item(i, nread[i] + 1)
        BY <2>4, <3>2, InputIsNotOutput DEF CallerInv
      <4>2. mem[o][1] = i /\ mem[o][2] = nread[i] + 1
        BY <4>1 DEF Item
      <4>3. n \in 1..m /\ m \in Nat /\ Len(outs[o]) \in Nat /\ nread[i] \in Nat
        <5>1. outs[o] \in Seq(Inputs \X (Nat \ {0})) /\ len[o] \in 0..MaxChunk
          BY <2>1 DEF Typed, TypeOK
        <5> QED
          BY <1>0, <2>1, <2>4, <3>2, <5>1, BoundsAssumption DEF Typed, TypeOK
      <4> DEFINE k == Len(outs[o]) + n
      <4>4. k \in (Len(outs[o]) + 1)..Len(outs'[o]) /\ k - Len(outs[o]) = n
        BY <2>1, <4>3
      <4>5. k \in 1..Len(outs'[o]) /\ (nread[i] + 1) + n - 1 = nread[i] + n
        BY <4>3, <4>4
      <4>6. outs'[o][k] = Item(i, nread[i] + n)
        BY <2>1, <4>2, <4>4, <4>5
      <4> QED
        BY <2>2, <4>5, <4>6 DEF Produced, Item
    <3>3. CASE route[i] # o
      <4>1. ~has_data[route[i]] /\ n \in 1..len[route[i]]
        BY <2>1, <2>2, <2>4, <3>1, <3>3 DEF Typed, TypeOK
      <4>2. PICK l \in Nat : l = nread[i] + n
        BY <1>0, <2>4, <4>1
      <4>3. Produced(i, l)
        BY <2>4, <4>1, <4>2 DEF CopiedInv
      <4>4. Produced(i, l)'
        BY <4>3, ProducedKept
      <4> QED
        BY <2>2, <4>2, <4>4
    <3> QED
      BY <3>2, <3>3
  <2>5. CopiedInv'
    BY <2>2, <2>4 DEF CopiedInv, Produced, Item
  <2> QED
    BY <2>3, <2>5
<1> QED
  BY <1>1, <1>2, <1>3, <1>4, <1>5 DEF OutputStep

LEMMA NextCopied ==
    Typed /\ CallerInv /\ CopiedInv /\ ConsumedInv /\ [Next]_vars => CopiedInv' /\ ConsumedInv'
<1> SUFFICES ASSUME Typed, CallerInv, CopiedInv, ConsumedInv, [Next]_vars
             PROVE  CopiedInv' /\ ConsumedInv'
  OBVIOUS
<1>0. Typed' /\ \A j \in Inputs : nread[j] \in Nat
  BY NextTyped DEF Typed, TypeOK
<1>1. CASE SetOutput
  <2>1. /\ UNCHANGED <<input, nread, has_data, len, dropped, wiped>> /\ ~Posting(idx)
        /\ \A j \in Inputs : j # idx => route'[j] = route[j]
    BY <1>1 DEF SetOutput, Posting, InputMutexFree, Typed, TypeOK
  <2> QED
    BY <1>0, <2>1, CopiedKept DEF Posting
<1>2. CASE SetOutputNotify
  BY <1>0, <1>2, CopiedKept DEF SetOutputNotify, NotifyBlocker, Posting, Typed, TypeOK
<1>3. CASE SetPathsThrow
  BY <1>0, <1>3, CopiedKept DEF SetPathsThrow, Posting
<1>4. ASSUME NEW p \in AllPaths, SetPaths(p) PROVE CopiedInv' /\ ConsumedInv'
  BY <1>0, <1>4, CopiedKept DEF SetPaths, Posting
<1>5. CASE Interrupt
  BY <1>0, <1>5, CopiedKept DEF Interrupt, Posting
<1>6. CASE UNCHANGED vars
  BY <1>0, <1>6, CopiedKept DEF vars, Posting
<1>7. CASE Restart
  <2>1. /\ \A j \in Inputs : ~Posting(j)' /\ nread'[j] = nread[j] + MaxChunk
        /\ dropped' = dropped \cup
                        UNION {{Item(i, nread[i] + k) : k \in 1..MaxChunk} : i \in Inputs}
        /\ UNCHANGED <<outs, wiped>>
    BY <1>7 DEF Restart, Posting
  <2>2. CopiedInv'
    BY <2>1 DEF CopiedInv
  <2>3. ASSUME NEW j \in Inputs \ wiped, NEW l \in 1..nread'[j]
        PROVE  Item(j, l) \in dropped' \/ Produced(j, l)'
    <3>1. CASE l \in 1..nread[j]
      <4>1. Item(j, l) \in dropped \/ Produced(j, l)
        BY <3>1 DEF ConsumedInv
      <4> QED
        BY <2>1, <4>1 DEF Produced, Item
    <3>2. CASE ~(l \in 1..nread[j])
      <4>1. l - nread[j] \in 1..MaxChunk /\ l = nread[j] + (l - nread[j])
        BY <1>0, <2>1, <2>3, <3>2, BoundsAssumption
      <4>2. Item(j, l) \in {Item(j, nread[j] + k) : k \in 1..MaxChunk}
        BY <4>1
      <4> QED
        BY <2>1, <4>2
    <3> QED
      BY <3>1, <3>2
  <2> QED
    BY <2>1, <2>2, <2>3 DEF ConsumedInv
<1>8. CASE \E i \in Inputs : \/ InputStep(i) \/ BlockerSpurious(i) \/ PostSpurious(i)
                             \/ InputInterrupted(i)
  BY <1>0, <1>8, InputCopied
<1>9. CASE \E o \in Outputs : OutputStep(o) \/ OutputSpurious(o) \/ OutputInterrupted(o)
  BY <1>0, <1>9, OutputCopied
<1> QED
  BY <1>1, <1>2, <1>3, <1>4, <1>5, <1>6, <1>7, <1>8, <1>9 DEF Next, SetterStep

LEMMA InitCopied == Init => CopiedInv /\ ConsumedInv
BY DEF Init, CopiedInv, ConsumedInv, Posting

\* What an input has consumed was produced by an output or thrown away by "consume":
\* the count that post_output() returns is of its own post.
THEOREM ConsumedOnceCopiedCorrect == Spec => []ConsumedOnceCopied
<1>1. Typed /\ ConsumedInv => ConsumedOnceCopied
  <2> SUFFICES ASSUME Typed, ConsumedInv, NEW i \in Inputs \ wiped, NEW n \in 1..nread[i],
                      Item(i, n) \notin dropped
               PROVE  \E a \in Places(i) : outs[a[1]][a[2]] = Item(i, n)
    BY DEF ConsumedOnceCopied
  <2>1. PICK o \in Outputs : \E k \in 1..Len(outs[o]) : outs[o][k] = Item(i, n)
    BY DEF ConsumedInv, Produced
  <2>2. PICK k \in 1..Len(outs[o]) : outs[o][k] = Item(i, n)
    BY <2>1
  <2>3. outs[o][k][1] = i
    BY <2>2 DEF Item
  <2>4. <<o, k>> \in Places(i)
    BY <2>3 DEF Places
  <2> QED
    BY <2>2, <2>4
<1> QED
  BY <1>1, InitTyped, NextTyped, InitCaller, NextCaller, InitCopied, NextCopied, PTL DEF Spec

-----------------------------------------------------------------------------
(* Sleep and notify *)

\* An input sleeps on _blocker with a path only while the set_output() that gave it
\* the path is about to notify.
BlockedInv ==
    \A i \in Inputs : input[i] = "blocked" /\ route[i] # Block =>
        setter \in {"blocknotify", "applynotify"} /\ idx = i

\* An input sleeps in post_output() only while its data are there, or if start() has
\* cleared them; an output sleeps in work() only while it has none.
PostedInv == \A i \in Inputs : input[i] = "posted" => has_data[route[i]] \/ i \in wiped
WaitingInv == \A o \in Outputs : output[o] = "waiting" => ~has_data[o]

SleepsRightly == BlockedInv /\ PostedInv /\ WaitingInv

LEMMA NextBlocked == Typed /\ BlockedInv /\ [Next]_vars => BlockedInv'
<1> SUFFICES ASSUME Typed, BlockedInv, [Next]_vars, NEW i \in Inputs,
                    input'[i] = "blocked", route'[i] # Block
             PROVE  setter' \in {"blocknotify", "applynotify"} /\ idx' = i
  BY DEF BlockedInv
<1>1. ASSUME UNCHANGED <<route, setter, idx>>, input'[i] = "blocked" => input[i] = "blocked"
      PROVE  setter' \in {"blocknotify", "applynotify"} /\ idx' = i
  BY <1>1 DEF BlockedInv
<1>2. ASSUME NEW j \in Inputs,
             \/ InputStep(j) \/ BlockerSpurious(j) \/ PostSpurious(j) \/ InputInterrupted(j)
      PROVE  setter' \in {"blocknotify", "applynotify"} /\ idx' = i
  <2>1. CASE InputWork(j)
    <3>0. PICK n \in 1..MaxChunk : EnterRouted(j, n) \/ EnterBlocked(j, n) \/ EnterConsuming(j, n)
      BY <2>1 DEF InputWork
    <3>1. CASE EnterRouted(j, n) \/ EnterConsuming(j, n)
      BY <1>1, <3>1 DEF EnterRouted, EnterConsuming, Typed, TypeOK
    <3>2. CASE EnterBlocked(j, n)
      <4>1. i # j
        BY <3>2 DEF EnterBlocked
      <4> QED
        BY <1>1, <3>2, <4>1 DEF EnterBlocked, Typed, TypeOK
    <3> QED
      BY <3>0, <3>1, <3>2
  <2>2. CASE PostOutput(j) \/ PostWaitAgain(j) \/ PostReturn(j)
    BY <1>1, <2>2 DEF PostOutput, PostWaitAgain, PostReturn, Typed, TypeOK
  <2>3. CASE BlockerSpurious(j) \/ PostSpurious(j) \/ InputInterrupted(j)
    BY <1>1, <2>3 DEF BlockerSpurious, PostSpurious, InputInterrupted, Typed, TypeOK
  <2> QED
    BY <1>2, <2>1, <2>2, <2>3 DEF InputStep
<1>3. ASSUME NEW o \in Outputs, OutputStep(o) \/ OutputSpurious(o) \/ OutputInterrupted(o)
      PROVE  setter' \in {"blocknotify", "applynotify"} /\ idx' = i
  <2>1. ASSUME NEW n \in 1..MaxChunk, OutputCopy(o, n)
        PROVE  setter' \in {"blocknotify", "applynotify"} /\ idx' = i
    BY <1>1, <2>1 DEF OutputCopy, NotifyCaller
  <2>2. CASE OutputStart(o) \/ OutputWait(o) \/ OutputSpurious(o) \/ OutputInterrupted(o)
    BY <1>1, <2>2 DEF OutputStart, OutputWait, OutputSpurious, OutputInterrupted
  <2> QED
    BY <1>3, <2>1, <2>2 DEF OutputStep
<1>4. CASE SetOutput
  <2>1. /\ setter' \in {"blocknotify", "applynotify"} /\ UNCHANGED <<input, idx>>
        /\ \A j \in Inputs : j # idx => route'[j] = route[j]
        /\ setter \notin {"blocknotify", "applynotify"}
    BY <1>4 DEF SetOutput, Typed, TypeOK
  <2>2. CASE i = idx
    BY <2>1, <2>2
  <2>3. CASE i # idx
    BY <2>1, <2>3 DEF BlockedInv
  <2> QED
    BY <2>2, <2>3
<1>5. CASE SetOutputNotify
  <2>1. i # idx /\ input[i] = "blocked" /\ route[i] # Block
    BY <1>5 DEF SetOutputNotify, NotifyBlocker, Typed, TypeOK
  <2> QED
    BY <2>1 DEF BlockedInv
<1>6. CASE SetPathsThrow \/ \E p \in AllPaths : SetPaths(p)
  <2>1. UNCHANGED <<input, route>> /\ setter \notin {"blocknotify", "applynotify"}
    BY <1>6 DEF SetPathsThrow, SetPaths
  <2> QED
    BY <2>1 DEF BlockedInv
<1>7. CASE Interrupt \/ UNCHANGED vars
  BY <1>1, <1>7 DEF Interrupt, vars
<1>8. CASE Restart
  BY <1>8 DEF Restart
<1> QED
  BY <1>2, <1>3, <1>4, <1>5, <1>6, <1>7, <1>8 DEF Next, SetterStep

LEMMA NextPosted == Typed /\ CallerInv /\ PostedInv /\ [Next]_vars => PostedInv'
<1> SUFFICES ASSUME Typed, CallerInv, PostedInv, [Next]_vars, NEW i \in Inputs,
                    input'[i] = "posted"
             PROVE  has_data'[route'[i]] \/ i \in wiped'
  BY DEF PostedInv
<1>1. ASSUME UNCHANGED <<route, has_data, wiped>>, input[i] = "posted"
      PROVE  has_data'[route'[i]] \/ i \in wiped'
  BY <1>1 DEF PostedInv
<1>2. ASSUME NEW j \in Inputs,
             \/ InputStep(j) \/ BlockerSpurious(j) \/ PostSpurious(j) \/ InputInterrupted(j)
      PROVE  has_data'[route'[i]] \/ i \in wiped'
  <2>1. CASE InputWork(j)
    <3>0. PICK n \in 1..MaxChunk : EnterRouted(j, n) \/ EnterBlocked(j, n) \/ EnterConsuming(j, n)
      BY <2>1 DEF InputWork
    <3> QED
      BY <1>1, <3>0 DEF EnterRouted, EnterBlocked, EnterConsuming, Typed, TypeOK
  <2>2. CASE PostOutput(j)
    <3>1. /\ route[j] \in Outputs /\ has_data' = [has_data EXCEPT ![route[j]] = TRUE]
          /\ UNCHANGED <<route, wiped>> /\ input' = [input EXCEPT ![j] = "posted"]
      BY <2>2 DEF PostOutput, Typed, TypeOK, InputMutexFree
    <3>2. CASE i = j
      BY <3>1, <3>2 DEF Typed, TypeOK
    <3>3. CASE i # j
      <4>1. input[i] = "posted" /\ route[i] \in Outputs
        BY <3>1, <3>3 DEF Typed, TypeOK, InputMutexFree
      <4>2. has_data[route[i]] => has_data'[route[i]]
        BY <3>1, <4>1 DEF Typed, TypeOK
      <4> QED
        BY <3>1, <4>1, <4>2 DEF PostedInv
    <3> QED
      BY <3>2, <3>3
  <2>3. CASE PostWaitAgain(j)
    <3>1. UNCHANGED <<route, has_data, wiped>> /\ has_data[route[j]]
          /\ input' = [input EXCEPT ![j] = "posted"]
      BY <2>3 DEF PostWaitAgain
    <3>2. i # j => input[i] = "posted"
      BY <3>1 DEF Typed, TypeOK
    <3> QED
      BY <1>1, <3>1, <3>2
  <2>4. CASE PostReturn(j) \/ BlockerSpurious(j) \/ PostSpurious(j) \/ InputInterrupted(j)
    BY <1>1, <2>4 DEF PostReturn, BlockerSpurious, PostSpurious, InputInterrupted, Typed, TypeOK
  <2> QED
    BY <1>2, <2>1, <2>2, <2>3, <2>4 DEF InputStep
<1>3. ASSUME NEW o \in Outputs, OutputStep(o) \/ OutputSpurious(o) \/ OutputInterrupted(o)
      PROVE  has_data'[route'[i]] \/ i \in wiped'
  <2>0. input[i] = "posted" => route[i] \in Outputs /\ caller[route[i]] = i
    <3>1. input[i] = "posted" => route[i] \in Outputs
      BY DEF Typed, TypeOK, InputMutexFree
    <3> QED
      BY <3>1 DEF CallerInv, Posting
  <2>1. ASSUME NEW n \in 1..MaxChunk, OutputCopy(o, n) PROVE has_data'[route'[i]] \/ i \in wiped'
    <3>1. /\ has_data' = [has_data EXCEPT ![o] = FALSE] /\ UNCHANGED <<route, wiped>>
          /\ input[i] = "posted" /\ caller[o] # i
      BY <2>1 DEF OutputCopy, NotifyCaller
    <3>2. route[i] \in Outputs /\ route[i] # o
      BY <2>0, <3>1
    <3>3. has_data'[route[i]] = has_data[route[i]]
      BY <3>1, <3>2 DEF Typed, TypeOK
    <3> QED
      BY <3>1, <3>3 DEF PostedInv
  <2>2. CASE OutputStart(o)
    <3>1. /\ has_data' = [has_data EXCEPT ![o] = FALSE] /\ UNCHANGED <<route, input>>
          /\ wiped' = wiped \cup {j \in Inputs : caller[o] = j /\ has_data[o]}
          /\ input[i] = "posted"
      BY <2>2 DEF OutputStart
    <3>2. CASE route[i] = o
      BY <2>0, <3>1, <3>2 DEF PostedInv
    <3>3. CASE route[i] # o
      <4>1. has_data'[route[i]] = has_data[route[i]]
        BY <2>0, <3>1, <3>3 DEF Typed, TypeOK
      <4> QED
        BY <3>1, <4>1 DEF PostedInv
    <3> QED
      BY <3>2, <3>3
  <2>3. CASE OutputWait(o) \/ OutputSpurious(o) \/ OutputInterrupted(o)
    BY <1>1, <2>3 DEF OutputWait, OutputSpurious, OutputInterrupted
  <2> QED
    BY <1>3, <2>1, <2>2, <2>3 DEF OutputStep
<1>4. CASE SetOutput
  <2>1. i # idx
    BY <1>4 DEF SetOutput, InputMutexFree
  <2>2. route'[i] = route[i] /\ UNCHANGED <<input, has_data, wiped>>
    BY <1>4, <2>1 DEF SetOutput, Typed, TypeOK
  <2> QED
    BY <2>2 DEF PostedInv
<1>5. CASE SetOutputNotify
  BY <1>1, <1>5 DEF SetOutputNotify, NotifyBlocker, Typed, TypeOK
<1>6. CASE SetPathsThrow \/ (\E p \in AllPaths : SetPaths(p)) \/ Interrupt \/ UNCHANGED vars
  BY <1>1, <1>6 DEF SetPathsThrow, SetPaths, Interrupt, vars
<1>7. CASE Restart
  BY <1>7 DEF Restart
<1> QED
  BY <1>2, <1>3, <1>4, <1>5, <1>6, <1>7 DEF Next, SetterStep

LEMMA NextWaiting == Typed /\ WaitingInv /\ [Next]_vars => WaitingInv'
<1> SUFFICES ASSUME Typed, WaitingInv, [Next]_vars, NEW o \in Outputs, output'[o] = "waiting"
             PROVE  ~has_data'[o]
  BY DEF WaitingInv
<1>1. ASSUME has_data'[o] = has_data[o], output[o] = "waiting" PROVE ~has_data'[o]
  BY <1>1 DEF WaitingInv
<1>2. ASSUME NEW j \in Inputs,
             \/ InputStep(j) \/ BlockerSpurious(j) \/ PostSpurious(j) \/ InputInterrupted(j)
      PROVE  ~has_data'[o]
  <2>1. CASE PostOutput(j)
    <3>1. /\ route[j] \in Outputs /\ has_data' = [has_data EXCEPT ![route[j]] = TRUE]
          /\ output' = [output EXCEPT ![route[j]] = IF @ = "waiting" THEN "woken" ELSE @]
      BY <2>1 DEF PostOutput, Typed, TypeOK, InputMutexFree
    <3>2. o # route[j]
      BY <3>1 DEF Typed, TypeOK
    <3> QED
      BY <1>1, <3>1, <3>2 DEF Typed, TypeOK
  <2>2. CASE InputWork(j)
    BY <1>1, <2>2 DEF InputWork, EnterRouted, EnterBlocked, EnterConsuming
  <2>3. CASE PostWaitAgain(j) \/ PostReturn(j) \/ BlockerSpurious(j) \/ PostSpurious(j)
    BY <1>1, <2>3 DEF PostWaitAgain, PostReturn, BlockerSpurious, PostSpurious
  <2>4. CASE InputInterrupted(j)
    BY <1>1, <2>4 DEF InputInterrupted
  <2> QED
    BY <1>2, <2>1, <2>2, <2>3, <2>4 DEF InputStep
<1>3. ASSUME NEW p \in Outputs, OutputStep(p) \/ OutputSpurious(p) \/ OutputInterrupted(p)
      PROVE  ~has_data'[o]
  <2>1. ASSUME NEW n \in 1..MaxChunk, OutputCopy(p, n) PROVE ~has_data'[o]
    BY <1>1, <2>1 DEF OutputCopy, NotifyCaller, Typed, TypeOK
  <2>2. CASE OutputStart(p)
    BY <1>1, <2>2 DEF OutputStart, Typed, TypeOK
  <2>3. CASE OutputWait(p)
    <3>1. CASE o = p
      BY <2>3, <3>1 DEF OutputWait
    <3>2. CASE o # p
      BY <1>1, <2>3, <3>2 DEF OutputWait, Typed, TypeOK
    <3> QED
      BY <3>1, <3>2
  <2>4. CASE OutputSpurious(p) \/ OutputInterrupted(p)
    BY <1>1, <2>4 DEF OutputSpurious, OutputInterrupted, Typed, TypeOK
  <2> QED
    BY <1>3, <2>1, <2>2, <2>3, <2>4 DEF OutputStep
<1>4. CASE SetterStep \/ (\E p \in AllPaths : SetPaths(p)) \/ Interrupt \/ UNCHANGED vars
  BY <1>1, <1>4 DEF SetterStep, SetOutput, SetOutputNotify, SetPathsThrow, SetPaths, Interrupt, vars
<1>5. CASE Restart
  BY <1>5 DEF Restart
<1> QED
  BY <1>2, <1>3, <1>4, <1>5 DEF Next

\* No notify is missed: an input that sleeps on _blocker has no path, or is about to be
\* notified; one that sleeps in post_output() waits for a copy of data that are there,
\* unless start() cleared them; an output that sleeps has nothing to copy.
THEOREM SleepsRightlyCorrect == Spec => []SleepsRightly
<1>1. Init => SleepsRightly
  BY DEF Init, SleepsRightly, BlockedInv, PostedInv, WaitingInv
<1>2. Typed /\ CallerInv /\ SleepsRightly /\ [Next]_vars => SleepsRightly'
  BY NextBlocked, NextPosted, NextWaiting DEF SleepsRightly
<1> QED
  BY <1>1, <1>2, InitTyped, NextTyped, InitCaller, NextCaller, PTL DEF Spec
=============================================================================
