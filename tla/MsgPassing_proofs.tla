-------------------------- MODULE MsgPassing_proofs --------------------------
(***************************************************************************)
(* Proofs about MsgPassing for every network of blocks, every number of    *)
(* posts and every buffer size; and that MsgPassing implements MsgBus.     *)
(***************************************************************************)
EXTENDS MsgPassingBus, Ascending_proofs

\* A port is a block and one of its indices.
LEMMA InPorts ==
    /\ \A b \in Blocks : \A k \in 0..(NumIn[b] - 1) : <<b, k>> \in In
    /\ \A i \in In : i = <<i[1], i[2]>> /\ i[1] \in Blocks /\ i[2] \in 0..(NumIn[i[1]] - 1)
BY DEF In

LEMMA OutPorts ==
    /\ \A b \in Blocks : \A k \in 0..(NumOut[b] - 1) : <<b, k>> \in Out
    /\ \A o \in Out : o = <<o[1], o[2]>> /\ o[1] \in Blocks /\ o[2] \in 0..(NumOut[o[1]] - 1)
BY DEF Out

LEMMA CloserHasOutput == \A b \in Closers : b \in Blocks /\ <<b, 0>> \in Out
<1>1. SUFFICES ASSUME NEW b \in Closers PROVE b \in Blocks /\ <<b, 0>> \in Out
  OBVIOUS
<1>2. b \in Blocks /\ NumOut[b] \in Nat /\ NumOut[b] > 0
  BY ClosersAssumption, CountsAssumption
<1> QED
  BY <1>2, OutPorts

-----------------------------------------------------------------------------
(* Type correctness *)

LEMMA PushToSourcerType ==
    ASSUME TypeOK, NEW o \in Out, PushToSourcer(o)
    PROVE  posted' \in [Out -> Nat] /\ msg_queue' \in [Out -> Seq(Messages)]
<1>1. posted[o] \in Nat
  BY DEF TypeOK
<1>2. Message(o, posted[o] + 1) \in Messages
  BY <1>1 DEF Message, Messages
<1> QED
  BY <1>1, <1>2 DEF TypeOK, PushToSourcer

LEMMA MasterType ==
    ASSUME TypeOK, NEW b \in Blocks, UserStep(b) \/ MasterStep(b) \/ PopSpurious(b)
    PROVE  TypeOK'
<1> USE DEF masterVars, sourceVars, streamVars, sinkVars, history, MasterPCs, SourcePCs, SinkPCs
<1> USE CountsAssumption
<1>1. ASSUME NEW k \in 0..(NumOut[b] - 1), Post(b, k) PROVE TypeOK'
  <2>1. <<b, k>> \in Out
    BY OutPorts
  <2>2. posted' \in [Out -> Nat] /\ msg_queue' \in [Out -> Seq(Messages)]
    BY <1>1, <2>1, PushToSourcerType DEF Post
  <2> QED
    BY <1>1, <2>2 DEF Post, TypeOK
<1>2. CASE CheckQueue(b)
  BY <1>2 DEF CheckQueue, TypeOK
<1>3. CASE Finish(b)
  BY <1>3 DEF Finish, StopLoop, TypeOK
<1>4. CASE PostNotify(b)
  BY <1>4 DEF PostNotify, NotifySourcer, TypeOK
<1>5. CASE Pop(b)
  <2>1. Head(queue[b]) \in Entries /\ Tail(queue[b]) \in Seq(Entries)
    BY <1>5 DEF Pop, TypeOK
  <2>2. Head(queue[b]).msg \in Messages
    BY <2>1 DEF Entries
  <2>3. got' \in [In -> Seq(Messages)]
    <3> DEFINE e == Head(queue[b])
    <3>1. got' = [got EXCEPT ![<<b, e.offset>>] = Append(@, e.msg)]
      BY <1>5 DEF Pop
    <3>2. ASSUME <<b, e.offset>> \in In
          PROVE  Append(got[<<b, e.offset>>], e.msg) \in Seq(Messages)
      BY <2>2, <3>2, AppendProperties DEF TypeOK
    <3>3. got \in [In -> Seq(Messages)]
      BY DEF TypeOK
    <3> QED
      BY <3>1, <3>2, <3>3, Zenon
  <2>4. queue' \in [Blocks -> Seq(Entries)]
    BY <1>5, <2>1 DEF Pop, TypeOK
  <2> QED
    BY <1>5, <2>3, <2>4 DEF Pop, TypeOK
<1>6. CASE PopWait(b)
  BY <1>6 DEF PopWait, TypeOK
<1>7. CASE StopSet(b)
  BY <1>7 DEF StopSet, TypeOK
<1>8. CASE StopNotify(b)
  <2>1. port' \in [Blocks -> Nat]
    BY <1>8 DEF StopNotify, TypeOK
  <2>2. source' \in [Out -> SourcePCs]
    BY <1>8 DEF StopNotify, NotifySourcer, TypeOK
  <2>3. master' \in [Blocks -> MasterPCs]
    BY <1>8 DEF StopNotify, StopLoop, TypeOK
  <2> QED
    BY <1>8, <2>1, <2>2, <2>3 DEF StopNotify, TypeOK
<1>9. CASE Exhaust(b)
  BY <1>9 DEF Exhaust, TypeOK
<1>10. CASE MasterInterrupted(b)
  BY <1>10 DEF MasterInterrupted, TypeOK
<1>11. CASE ExitSilent(b)
  BY <1>11 DEF ExitSilent, TypeOK
<1>12. CASE ExitPosting(b)
  <2>1. <<b, 0>> \in Out
    BY <1>12, CloserHasOutput DEF ExitPosting
  <2>2. posted' \in [Out -> Nat] /\ msg_queue' \in [Out -> Seq(Messages)]
    BY <1>12, <2>1, PushToSourcerType DEF ExitPosting
  <2> QED
    BY <1>12, <2>2 DEF ExitPosting, TypeOK
<1>13. CASE PopSpurious(b)
  BY <1>13 DEF PopSpurious, TypeOK
<1> QED
  BY <1>1, <1>2, <1>3, <1>4, <1>5, <1>6, <1>7, <1>8, <1>9, <1>10, <1>11, <1>12, <1>13
  DEF UserStep, MasterStep

LEMMA SourceType ==
    ASSUME TypeOK, NEW o \in Out, SourceStep(o) \/ SourceSpurious(o)
    PROVE  TypeOK'
<1> USE DEF masterVars, streamVars, sinkVars, history, MasterPCs, SourcePCs, SinkPCs
<1>1. CASE SourceStart(o)
  BY <1>1 DEF SourceStart, TypeOK
<1>2. CASE SourceEnter(o)
  BY <1>2 DEF SourceEnter, TypeOK
<1>3. ASSUME NEW n \in 1..BufSize, SourceSend(o, n) PROVE TypeOK'
  <2>1. Head(msg_queue[o]) \in Messages /\ Tail(msg_queue[o]) \in Seq(Messages)
    BY <1>3 DEF SourceSend, TypeOK
  <2>2. written[o] \in Nat /\ n \in Nat
    BY BufSizeAssumption DEF TypeOK
  <2>3. [offset |-> written[o], msg |-> Head(msg_queue[o])] \in Tags
    BY <2>1, <2>2 DEF Tags
  <2>4. tags' \in [Out -> SUBSET Tags]
    BY <1>3, <2>3 DEF SourceSend, TypeOK
  <2>5. written' \in [Out -> Nat]
    BY <1>3, <2>2 DEF SourceSend, TypeOK
  <2> QED
    BY <1>3, <2>1, <2>4, <2>5 DEF SourceSend, TypeOK
<1>4. CASE SourceQuit(o)
  BY <1>4 DEF SourceQuit, TypeOK
<1>5. CASE SourceSeesNothing(o)
  BY <1>5 DEF SourceSeesNothing, TypeOK
<1>6. CASE SourceWait(o)
  BY <1>6 DEF SourceWait, TypeOK
<1>7. CASE SourceRelock(o)
  BY <1>7 DEF SourceRelock, TypeOK
<1>8. CASE SourceInterrupted(o)
  BY <1>8 DEF SourceInterrupted, TypeOK
<1>9. CASE SourceSpurious(o)
  BY <1>9 DEF SourceSpurious, TypeOK
<1> QED
  BY <1>1, <1>2, <1>3, <1>4, <1>5, <1>6, <1>7, <1>8, <1>9 DEF SourceStep

LEMMA SinkType ==
    ASSUME TypeOK, NEW i \in In, SinkStep(i)
    PROVE  TypeOK'
<1> USE DEF masterVars, sourceVars, streamVars, history, MasterPCs, SourcePCs, SinkPCs
<1>1. ASSUME NEW n \in 1..BufSize, SinkCollect(i, n) PROVE TypeOK'
  <2>1. Wire[i] \in Out /\ n \in Nat
    BY WireAssumption, BufSizeAssumption
  <2>2. TagsInRange(Wire[i], nread[i], nread[i] + n) \in SUBSET Tags
    BY <2>1 DEF TagsInRange, TypeOK
  <2>3. pending' \in [In -> SUBSET Tags]
    BY <1>1, <2>2 DEF SinkCollect, TypeOK
  <2>4. nread' \in [In -> Nat]
    BY <1>1, <2>1 DEF SinkCollect, TypeOK
  <2>5. sink' \in [In -> SinkPCs]
    BY <1>1 DEF SinkCollect, SinkLoop, TypeOK
  <2> QED
    BY <1>1, <2>3, <2>4, <2>5 DEF SinkCollect, TypeOK
<1>2. CASE SinkPush(i)
  <2>1. PICK t \in pending[i] :
          /\ queue' = [queue EXCEPT ![i[1]] = Append(@, [offset |-> i[2], msg |-> t.msg])]
          /\ pending' = [pending EXCEPT ![i] = @ \ {t}]
    BY <1>2 DEF SinkPush
  <2>2. t.msg \in Messages /\ i[1] \in Blocks /\ i[2] \in Nat
    BY InPorts DEF TypeOK, Tags
  <2>3. [offset |-> i[2], msg |-> t.msg] \in Entries
    BY <2>2 DEF Entries
  <2>4. queue' \in [Blocks -> Seq(Entries)]
    BY <2>1, <2>2, <2>3 DEF TypeOK
  <2>5. pending' \in [In -> SUBSET Tags]
    BY <2>1 DEF TypeOK
  <2> QED
    BY <1>2, <2>4, <2>5 DEF SinkPush, TypeOK
<1>3. CASE SinkNotify(i)
  BY <1>3 DEF SinkNotify, SinkLoop, TypeOK
<1>4. CASE SinkEnd(i)
  BY <1>4 DEF SinkEnd, TypeOK
<1>5. CASE SinkInterrupted(i)
  BY <1>5 DEF SinkInterrupted, TypeOK
<1> QED
  BY <1>1, <1>2, <1>3, <1>4, <1>5 DEF SinkStep

LEMMA InitType == Init => TypeOK
<1> SUFFICES ASSUME Init PROVE TypeOK
  OBVIOUS
<1>1. <<>> \in Seq(Entries) /\ <<>> \in Seq(Messages)
  OBVIOUS
<1>2. {} \in SUBSET Tags
  OBVIOUS
<1>3. /\ queue \in [Blocks -> Seq(Entries)]
      /\ msg_queue \in [Out -> Seq(Messages)]
      /\ got \in [In -> Seq(Messages)]
      /\ tags \in [Out -> SUBSET Tags]
      /\ pending \in [In -> SUBSET Tags]
  BY <1>1, <1>2, Zenon DEF Init
<1> QED
  BY <1>3 DEF Init, TypeOK, MasterPCs, SourcePCs, SinkPCs

LEMMA NextType == TypeOK /\ [Next]_vars => TypeOK'
<1> SUFFICES ASSUME TypeOK, [Next]_vars PROVE TypeOK'
  OBVIOUS
<1>1. ASSUME NEW b \in Blocks, UserStep(b) \/ MasterStep(b) \/ PopSpurious(b) PROVE TypeOK'
  BY <1>1, MasterType
<1>2. ASSUME NEW o \in Out, SourceStep(o) \/ SourceSpurious(o) PROVE TypeOK'
  BY <1>2, SourceType
<1>3. ASSUME NEW i \in In, SinkStep(i) PROVE TypeOK'
  BY <1>3, SinkType
<1>4. CASE Interrupt
  BY <1>4 DEF Interrupt, TypeOK, masterVars, sourceVars, streamVars, sinkVars, history
<1>5. CASE UNCHANGED vars
  BY <1>5 DEF vars, TypeOK
<1> QED
  BY <1>1, <1>2, <1>3, <1>4, <1>5 DEF Next, Terminated

\* Every variable keeps its type, whatever the network.
THEOREM TypeCorrect == Spec => []TypeOK
<1> QED
  BY InitType, NextType, PTL DEF Spec

-----------------------------------------------------------------------------
(* The transfer of messages.  Each lemma is about one kind of step that    *)
(* moves a message or lets a sinker move on; all other steps leave the     *)
(* variables of TransferInv alone.                                         *)

LEMMA PostTransfer ==
    ASSUME TypeOK, TransferInv, NEW p \in Out, PushToSourcer(p),
           UNCHANGED <<queue, written, tags, sink, nread, pending, pushed, got>>
    PROVE  TransferInv'
<1>1. /\ posted' = [posted EXCEPT ![p] = @ + 1]
      /\ msg_queue' = [msg_queue EXCEPT ![p] = Append(@, Message(p, posted[p] + 1))]
  BY DEF PushToSourcer
<1>2. /\ posted \in [Out -> Nat]
      /\ msg_queue \in [Out -> Seq(Messages)]
  BY DEF TypeOK
<1>3. Message(p, posted[p] + 1) \in Messages
  BY <1>2 DEF Message, Messages
<1>4. /\ Len(msg_queue'[p]) = Len(msg_queue[p]) + 1
      /\ \A n \in 1..Len(msg_queue[p]) : msg_queue'[p][n] = msg_queue[p][n]
      /\ msg_queue'[p][Len(msg_queue[p]) + 1] = Message(p, posted[p] + 1)
  BY <1>1, <1>2, <1>3, AppendProperties
<1>5. \A o \in Out : Len(msg_queue[o]) \in Nat
  BY <1>2, LenProperties
<1>6. \A o \in Out : o # p => posted'[o] = posted[o] /\ msg_queue'[o] = msg_queue[o]
  BY <1>1, <1>2
<1>7. posted'[p] = posted[p] + 1
  BY <1>1, <1>2
<1>8. \A o \in Out : Sent(o)' = Sent(o)
  <2>1. SUFFICES ASSUME NEW o \in Out
                 PROVE  posted'[o] - Len(msg_queue'[o]) = posted[o] - Len(msg_queue[o])
    BY DEF Sent
  <2>2. CASE o # p
    BY <1>6, <2>2
  <2>3. CASE o = p
    BY <1>2, <1>4, <1>5, <1>7, <2>3
  <2> QED
    BY <2>2, <2>3
<1>9. SourceInv'
  <2>1. SUFFICES ASSUME NEW o \in Out
                 PROVE  /\ Len(msg_queue'[o]) <= posted'[o]
                        /\ \A n \in 1..Len(msg_queue'[o]) :
                               msg_queue'[o][n] = Message(o, Sent(o) + n)
    BY <1>8 DEF SourceInv
  <2>2. CASE o # p
    BY <1>6, <2>2 DEF TransferInv, SourceInv
  <2>3. CASE o = p
    <3>1. Len(msg_queue[p]) <= posted[p]
      BY DEF TransferInv, SourceInv
    <3>2. Sent(p) + (Len(msg_queue[p]) + 1) = posted[p] + 1
      BY <1>2, <1>5 DEF Sent
    <3>3. \A n \in 1..Len(msg_queue[p]) : msg_queue'[p][n] = Message(p, Sent(p) + n)
      BY <1>4 DEF TransferInv, SourceInv
    <3> QED
      BY <1>2, <1>4, <1>5, <1>7, <2>3, <3>1, <3>2, <3>3
  <2> QED
    BY <2>2, <2>3
<1>10. StreamInv'
  BY <1>8 DEF TransferInv, StreamInv
<1>11. SinkInv'
  BY <1>8, WireAssumption DEF TransferInv, SinkInv
<1>12. QueueInv' /\ GotInv'
  BY DEF TransferInv, QueueInv, GotInv
<1> QED
  BY <1>9, <1>10, <1>11, <1>12 DEF TransferInv

LEMMA SendTransfer ==
    ASSUME TypeOK, TransferInv, NEW p \in Out, NEW k \in 1..BufSize, SourceSend(p, k)
    PROVE  TransferInv'
<1> DEFINE new == [offset |-> written[p], msg |-> Head(msg_queue[p])]
<1>1. /\ msg_queue[p] # <<>>
      /\ tags' = [tags EXCEPT ![p] = @ \cup {new}]
      /\ msg_queue' = [msg_queue EXCEPT ![p] = Tail(@)]
      /\ written' = [written EXCEPT ![p] = @ + k]
      /\ UNCHANGED <<queue, sink, nread, pending, posted, pushed, got>>
  BY DEF SourceSend, masterVars, sinkVars, history
<1>2. /\ posted \in [Out -> Nat]
      /\ msg_queue \in [Out -> Seq(Messages)]
      /\ written \in [Out -> Nat]
      /\ tags \in [Out -> SUBSET Tags]
      /\ k \in Nat \ {0}
      /\ nread \in [In -> Nat]
      /\ pushed \in [In -> Nat]
  BY BufSizeAssumption DEF TypeOK
<1>3. /\ Len(msg_queue[p]) \in Nat \ {0}
      /\ Head(msg_queue[p]) = msg_queue[p][1]
      /\ Len(Tail(msg_queue[p])) = Len(msg_queue[p]) - 1
      /\ \A n \in 1..Len(Tail(msg_queue[p])) : Tail(msg_queue[p])[n] = msg_queue[p][n + 1]
  BY <1>1, <1>2, HeadTailProperties
<1>4. \A o \in Out : /\ Len(msg_queue[o]) \in Nat
                     /\ Len(msg_queue[o]) <= posted[o]
                     /\ Sent(o) \in Nat
  <2>1. \A o \in Out : Len(msg_queue[o]) \in Nat
    BY <1>2, LenProperties
  <2>2. \A o \in Out : Len(msg_queue[o]) <= posted[o]
    BY DEF TransferInv, SourceInv
  <2> QED
    BY <1>2, <2>1, <2>2 DEF Sent
<1>5. \A o \in Out : Sent(o)' = IF o = p THEN Sent(p) + 1 ELSE Sent(o)
  BY <1>1, <1>2, <1>3, <1>4 DEF Sent
<1>6. Head(msg_queue[p]) = Message(p, Sent(p) + 1)
  BY <1>3 DEF TransferInv, SourceInv
<1>7. new.offset = written[p] /\ new.msg.port = p /\ new.msg.seq = Sent(p) + 1
  BY <1>6 DEF Message
<1>8. \A o \in Out : /\ written'[o] = IF o = p THEN written[p] + k ELSE written[o]
                     /\ tags'[o] = IF o = p THEN tags[p] \cup {new} ELSE tags[o]
  BY <1>1, <1>2
<1>9. SourceInv'
  <2>1. SUFFICES ASSUME NEW o \in Out
                 PROVE  /\ Len(msg_queue'[o]) <= posted[o]
                        /\ \A n \in 1..Len(msg_queue'[o]) :
                               msg_queue'[o][n] = Message(o, Sent(o)' + n)
    BY <1>1 DEF SourceInv
  <2>2. CASE o # p
    BY <1>1, <1>2, <1>5, <2>2 DEF TransferInv, SourceInv
  <2>3. CASE o = p
    <3>1. msg_queue'[p] = Tail(msg_queue[p])
      BY <1>1, <1>2
    <3>2. \A n \in 1..Len(msg_queue[p]) : msg_queue[p][n] = Message(p, Sent(p) + n)
      BY DEF TransferInv, SourceInv
    <3>3. ASSUME NEW n \in 1..Len(msg_queue'[p])
          PROVE  msg_queue'[p][n] = Message(p, (Sent(p) + 1) + n)
      <4>1. n + 1 \in 1..Len(msg_queue[p])
        BY <1>3, <3>1
      <4>2. Sent(p) + (n + 1) = (Sent(p) + 1) + n
        BY <1>4
      <4>3. msg_queue[p][n + 1] = Message(p, Sent(p) + (n + 1))
        BY <3>2, <4>1
      <4> QED
        BY <1>3, <3>1, <4>2, <4>3
    <3>4. Sent(o)' = Sent(p) + 1
      BY <1>5, <2>3
    <3>5. Len(msg_queue'[p]) <= posted[p]
      BY <1>2, <1>3, <1>4, <3>1
    <3> QED
      BY <2>3, <3>3, <3>4, <3>5
  <2> QED
    BY <2>2, <2>3
<1>10. \A t \in tags[p] : /\ t.offset \in Nat /\ t.offset < written[p]
                          /\ t.msg.port = p /\ t.msg.seq \in 1..Sent(p)
  BY <1>2 DEF TransferInv, StreamInv, Tags
<1>11. StreamInv'
  <2>1. SUFFICES ASSUME NEW o \in Out
                 PROVE  /\ \A t \in tags'[o] :
                               /\ t.offset < written'[o]
                               /\ t.msg.port = o
                               /\ t.msg.seq \in 1..(Sent(o)')
                        /\ \A n \in 1..(Sent(o)') : \E t \in tags'[o] : t.msg.seq = n
                        /\ \A t, u \in tags'[o] : t.msg.seq < u.msg.seq <=> t.offset < u.offset
    BY DEF StreamInv
  <2>2. CASE o # p
    BY <1>5, <1>8, <2>2 DEF TransferInv, StreamInv
  <2>3. CASE o = p
    <3>1. \A t \in tags'[p] : /\ t.offset < written'[p] /\ t.msg.port = p
                              /\ t.msg.seq \in 1..(Sent(p) + 1)
      BY <1>2, <1>4, <1>7, <1>8, <1>10
    <3>2. \A n \in 1..(Sent(p) + 1) : \E t \in tags'[p] : t.msg.seq = n
      <4>1. \A n \in 1..Sent(p) : \E t \in tags[p] : t.msg.seq = n
        BY DEF TransferInv, StreamInv
      <4>2. \A n \in 1..(Sent(p) + 1) : n \in 1..Sent(p) \/ n = Sent(p) + 1
        BY <1>4
      <4> QED
        BY <1>7, <1>8, <4>1, <4>2
    <3>3. \A t, u \in tags'[p] : t.msg.seq < u.msg.seq <=> t.offset < u.offset
      <4>1. \A t, u \in tags[p] : t.msg.seq < u.msg.seq <=> t.offset < u.offset
        BY DEF TransferInv, StreamInv
      <4>2. written[p] \in Nat /\ Sent(p) \in Nat
        BY <1>2, <1>4
      <4>3. ~(new.msg.seq < new.msg.seq) /\ ~(new.offset < new.offset)
        BY <1>7, <4>2
      <4>4. \A t \in tags[p] : /\ t.msg.seq < new.msg.seq /\ t.offset < new.offset
                               /\ ~(new.msg.seq < t.msg.seq) /\ ~(new.offset < t.offset)
        BY <1>7, <1>10, <4>2
      <4>5. \A t \in tags'[p] : t \in tags[p] \/ t = new
        BY <1>8
      <4> QED
        BY <4>1, <4>3, <4>4, <4>5
    <3> QED
      BY <1>5, <2>3, <3>1, <3>2, <3>3
  <2> QED
    BY <2>2, <2>3
<1>12. SinkInv'
  <2>1. SUFFICES ASSUME NEW i \in In
                 PROVE  /\ nread[i] <= written'[Wire[i]]
                        /\ pushed[i] <= Sent(Wire[i])'
                        /\ pending[i] \subseteq tags'[Wire[i]]
                        /\ \A t \in tags'[Wire[i]] :
                               /\ t \in pending[i] <=> t.offset < nread[i] /\ t.msg.seq > pushed[i]
                               /\ t.msg.seq <= pushed[i] => t.offset < nread[i]
                        /\ sink[i] \in {"idle", "done"} => pending[i] = {}
    BY <1>1 DEF SinkInv
  <2>2. Wire[i] \in Out
    BY WireAssumption
  <2>3. /\ nread[i] <= written[Wire[i]]
        /\ pushed[i] <= Sent(Wire[i])
        /\ pending[i] \subseteq tags[Wire[i]]
        /\ \A t \in tags[Wire[i]] :
               /\ t \in pending[i] <=> t.offset < nread[i] /\ t.msg.seq > pushed[i]
               /\ t.msg.seq <= pushed[i] => t.offset < nread[i]
        /\ sink[i] \in {"idle", "done"} => pending[i] = {}
    BY DEF TransferInv, SinkInv
  <2>4. CASE Wire[i] # p
    BY <1>5, <1>8, <2>2, <2>3, <2>4
  <2>5. CASE Wire[i] = p
    <3>1. nread[i] \in Nat /\ pushed[i] \in Nat /\ written[p] \in Nat
      BY <1>2
    <3>2. new \notin pending[i] /\ ~(new.offset < nread[i]) /\ ~(new.msg.seq <= pushed[i])
      BY <1>4, <1>7, <1>10, <2>3, <2>5, <3>1
    <3>3. \A t \in tags'[p] :
            /\ t \in pending[i] <=> t.offset < nread[i] /\ t.msg.seq > pushed[i]
            /\ t.msg.seq <= pushed[i] => t.offset < nread[i]
      BY <1>8, <2>3, <2>5, <3>2
    <3> QED
      BY <1>2, <1>4, <1>5, <1>8, <2>3, <2>5, <3>1, <3>3
  <2> QED
    BY <2>4, <2>5
<1>13. QueueInv' /\ GotInv'
  BY <1>1 DEF TransferInv, QueueInv, GotInv
<1> QED
  BY <1>9, <1>11, <1>12, <1>13 DEF TransferInv

\* The frame of a sinker's steps: what it reads of the stream stays as it is.
LEMMA SinkFrame ==
    ASSUME TransferInv, UNCHANGED <<posted, msg_queue, written, tags>>
    PROVE  SourceInv' /\ StreamInv' /\ \A o \in Out : Sent(o)' = Sent(o)
<1>1. \A o \in Out : Sent(o)' = Sent(o)
  BY DEF Sent
<1> QED
  BY <1>1 DEF TransferInv, SourceInv, StreamInv

LEMMA CollectTransfer ==
    ASSUME TypeOK, TransferInv, NEW i \in In, NEW k \in 1..BufSize, SinkCollect(i, k)
    PROVE  TransferInv'
<1>1. /\ sink[i] = "idle"
      /\ nread[i] + k <= written[Wire[i]]
      /\ pending' = [pending EXCEPT ![i] = TagsInRange(Wire[i], nread[i], nread[i] + k)]
      /\ nread' = [nread EXCEPT ![i] = @ + k]
      /\ sink' = [sink EXCEPT ![i] = SinkLoop(pending'[i])]
      /\ UNCHANGED <<queue, msg_queue, written, tags, posted, pushed, got>>
  BY DEF SinkCollect, masterVars, sourceVars, streamVars, history
<1>2. /\ sink \in [In -> SinkPCs]
      /\ nread \in [In -> Nat]
      /\ pending \in [In -> SUBSET Tags]
      /\ pushed \in [In -> Nat]
      /\ tags \in [Out -> SUBSET Tags]
      /\ k \in Nat \ {0}
      /\ Wire \in [In -> Out]
  BY BufSizeAssumption, WireAssumption DEF TypeOK
<1>3. SourceInv' /\ StreamInv' /\ \A o \in Out : Sent(o)' = Sent(o)
  BY <1>1, SinkFrame
<1>4. SinkInv'
  <2>1. SUFFICES ASSUME NEW j \in In
                 PROVE  /\ nread'[j] <= written[Wire[j]]
                        /\ pushed[j] <= Sent(Wire[j])
                        /\ pending'[j] \subseteq tags[Wire[j]]
                        /\ \A t \in tags[Wire[j]] :
                               /\ t \in pending'[j] <=> t.offset < nread'[j] /\ t.msg.seq > pushed[j]
                               /\ t.msg.seq <= pushed[j] => t.offset < nread'[j]
                        /\ sink'[j] \in {"idle", "done"} => pending'[j] = {}
    BY <1>1, <1>2, <1>3 DEF SinkInv
  <2>2. /\ nread[j] <= written[Wire[j]]
        /\ pushed[j] <= Sent(Wire[j])
        /\ pending[j] \subseteq tags[Wire[j]]
        /\ \A t \in tags[Wire[j]] :
               /\ t \in pending[j] <=> t.offset < nread[j] /\ t.msg.seq > pushed[j]
               /\ t.msg.seq <= pushed[j] => t.offset < nread[j]
        /\ sink[j] \in {"idle", "done"} => pending[j] = {}
    BY DEF TransferInv, SinkInv
  <2>3. CASE j # i
    BY <1>1, <1>2, <2>2, <2>3
  <2>4. CASE j = i
    <3>1. /\ nread'[i] = nread[i] + k
          /\ pending'[i] = {t \in tags[Wire[i]] : nread[i] <= t.offset /\ t.offset < nread[i] + k}
          /\ sink'[i] = IF pending'[i] = {} THEN "idle" ELSE "push"
      BY <1>1, <1>2 DEF TagsInRange, SinkLoop
    <3>2. nread[i] \in Nat /\ pushed[i] \in Nat
      BY <1>2
    <3>3. \A t \in tags[Wire[i]] : /\ t.offset \in Nat /\ t.msg.seq \in Nat
                                   /\ t.offset < nread[i] <=> t.msg.seq <= pushed[i]
      <4>1. \A t \in tags[Wire[i]] : t.offset \in Nat /\ t.msg.seq \in Nat
        BY <1>2 DEF Tags, Messages
      <4>2. pending[i] = {}
        BY <1>1, <2>2, <2>4
      <4> QED
        BY <2>2, <2>4, <3>2, <4>1, <4>2
    <3>4. \A t \in tags[Wire[i]] :
               /\ t \in pending'[i] <=> t.offset < nread[i] + k /\ t.msg.seq > pushed[i]
               /\ t.msg.seq <= pushed[i] => t.offset < nread[i] + k
      BY <1>2, <3>1, <3>2, <3>3
    <3> QED
      BY <1>1, <2>2, <2>4, <3>1, <3>4
  <2> QED
    BY <2>3, <2>4
<1>5. QueueInv' /\ GotInv'
  BY <1>1 DEF TransferInv, QueueInv, GotInv
<1> QED
  BY <1>3, <1>4, <1>5 DEF TransferInv

\* A step of a sinker that moves no tag.
LEMMA SinkIdleTransfer ==
    ASSUME TypeOK, TransferInv, NEW i \in In,
           SinkNotify(i) \/ SinkEnd(i) \/ SinkInterrupted(i)
    PROVE  TransferInv'
<1>1. UNCHANGED <<queue, msg_queue, written, tags, nread, pending, posted, pushed, got>>
  BY DEF SinkNotify, SinkEnd, SinkInterrupted, masterVars, sourceVars, streamVars, history
<1>2. SourceInv' /\ StreamInv' /\ \A o \in Out : Sent(o)' = Sent(o)
  BY <1>1, SinkFrame
<1>3. \A j \in In : sink'[j] \in {"idle", "done"} => pending[j] = {}
  <2>1. \A j \in In : sink[j] \in {"idle", "done"} => pending[j] = {}
    BY DEF TransferInv, SinkInv
  <2>2. sink \in [In -> SinkPCs]
    BY DEF TypeOK
  <2> QED
    BY <2>1, <2>2 DEF SinkNotify, SinkEnd, SinkInterrupted, SinkLoop
<1>4. SinkInv'
  BY <1>1, <1>2, <1>3, WireAssumption DEF TransferInv, SinkInv
<1>5. QueueInv' /\ GotInv'
  BY <1>1 DEF TransferInv, QueueInv, GotInv
<1> QED
  BY <1>2, <1>4, <1>5 DEF TransferInv

\* A stream has no two tags with the same message, so the tag at the least
\* offset among those a sinker holds is the next message of its output.
LEMMA NextPending ==
    ASSUME TypeOK, TransferInv, NEW i \in In, NEW t \in pending[i],
           \A u \in pending[i] : t.offset <= u.offset
    PROVE  /\ t \in tags[Wire[i]]
           /\ t.msg = Message(Wire[i], pushed[i] + 1)
           /\ pushed[i] + 1 <= Sent(Wire[i])
           /\ \A u \in tags[Wire[i]] : u.msg.seq = pushed[i] + 1 => u = t
<1> DEFINE o == Wire[i]
<1>1. o \in Out
  BY WireAssumption
<1>2. /\ pending[i] \subseteq tags[o]
      /\ \A u \in tags[o] :
             u \in pending[i] <=> u.offset < nread[i] /\ u.msg.seq > pushed[i]
  BY DEF TransferInv, SinkInv
<1>3. /\ \A u \in tags[o] : u.msg.port = o /\ u.msg.seq \in 1..Sent(o)
      /\ \A n \in 1..Sent(o) : \E u \in tags[o] : u.msg.seq = n
      /\ \A u, v \in tags[o] : u.msg.seq < v.msg.seq <=> u.offset < v.offset
  BY <1>1 DEF TransferInv, StreamInv
<1>4. /\ \A u \in tags[o] : u.offset \in Nat /\ u.msg.seq \in Nat
      /\ pushed[i] \in Nat /\ nread[i] \in Nat
  BY <1>1 DEF TypeOK, Tags, Messages
<1>5. Sent(o) \in Int
  <2>1. posted[o] \in Nat /\ Len(msg_queue[o]) \in Nat
    BY <1>1, LenProperties DEF TypeOK
  <2> QED
    BY <2>1 DEF Sent
<1>6. t \in tags[o] /\ t.msg.seq > pushed[i] /\ t.msg.seq <= Sent(o) /\ t.offset < nread[i]
  BY <1>2, <1>3, <1>5
<1>7. t.msg.seq = pushed[i] + 1
  <2>1. SUFFICES ASSUME t.msg.seq # pushed[i] + 1 PROVE FALSE
    OBVIOUS
  <2>2. pushed[i] + 1 \in 1..Sent(o) /\ pushed[i] + 1 < t.msg.seq
    <3>1. t.msg.seq \in Nat /\ pushed[i] \in Nat
      BY <1>4, <1>6
    <3> QED
      BY <1>5, <1>6, <2>1, <3>1
  <2>3. PICK u \in tags[o] : u.msg.seq = pushed[i] + 1
    BY <1>3, <2>2
  <2>4. u.offset < t.offset
    BY <1>3, <1>6, <2>2, <2>3
  <2>5. /\ u.offset \in Nat /\ t.offset \in Nat /\ nread[i] \in Nat
        /\ u.msg.seq > pushed[i]
    BY <1>4, <1>6, <2>3
  <2>6. u.offset < nread[i]
    BY <1>6, <2>4, <2>5
  <2>7. u \in pending[i]
    BY <1>2, <2>5, <2>6
  <2> QED
    BY <2>4, <2>5, <2>7
<1>8. ASSUME NEW u \in tags[o], u.msg.seq = pushed[i] + 1 PROVE u = t
  <2>1. u \in Tags /\ t \in Tags
    BY <1>1, <1>6 DEF TypeOK
  <2>2. u.msg.port = t.msg.port /\ u.msg.seq = t.msg.seq
    BY <1>3, <1>6, <1>7, <1>8
  <2>3. u.offset = t.offset
    <3>1. ~(u.offset < t.offset) /\ ~(t.offset < u.offset)
      BY <1>3, <1>4, <1>6, <1>7, <1>8
    <3> QED
      BY <1>4, <1>6, <3>1
  <2>4. u.msg = t.msg
    BY <2>1, <2>2 DEF Tags, Messages
  <2> QED
    BY <2>1, <2>3, <2>4 DEF Tags
<1>9. t.msg = Message(o, pushed[i] + 1)
  <2>1. t.msg \in Messages
    BY <1>1, <1>6 DEF TypeOK, Tags
  <2>2. t.msg.port = o
    BY <1>3, <1>6
  <2> QED
    BY <1>7, <2>1, <2>2 DEF Message, Messages
<1> QED
  BY <1>6, <1>7, <1>8, <1>9

LEMMA PushTransfer ==
    ASSUME TypeOK, TransferInv, NEW i \in In, SinkPush(i)
    PROVE  TransferInv'
<1>1. PICK t \in pending[i] :
        /\ \A u \in pending[i] : t.offset <= u.offset
        /\ queue' = [queue EXCEPT ![i[1]] = Append(@, [offset |-> i[2], msg |-> t.msg])]
        /\ pending' = [pending EXCEPT ![i] = @ \ {t}]
  BY DEF SinkPush
<1>2. /\ pushed' = [pushed EXCEPT ![i] = @ + 1]
      /\ sink' = [sink EXCEPT ![i] = "notify"]
      /\ UNCHANGED <<msg_queue, written, tags, nread, posted, got>>
  BY DEF SinkPush, sourceVars, streamVars
<1>3. /\ sink \in [In -> SinkPCs]
      /\ nread \in [In -> Nat]
      /\ pending \in [In -> SUBSET Tags]
      /\ pushed \in [In -> Nat]
      /\ tags \in [Out -> SUBSET Tags]
      /\ queue \in [Blocks -> Seq(Entries)]
      /\ got \in [In -> Seq(Messages)]
      /\ Wire \in [In -> Out]
  BY WireAssumption DEF TypeOK
<1>4. /\ t \in tags[Wire[i]]
      /\ t.msg = Message(Wire[i], pushed[i] + 1)
      /\ pushed[i] + 1 <= Sent(Wire[i])
      /\ \A u \in tags[Wire[i]] : u.msg.seq = pushed[i] + 1 => u = t
  BY <1>1, NextPending
<1>5. SourceInv' /\ StreamInv' /\ \A o \in Out : Sent(o)' = Sent(o)
  BY <1>2, SinkFrame
<1>6. t.msg.port = Wire[i] /\ t.msg.seq = pushed[i] + 1 /\ t.msg \in Messages
  BY <1>3, <1>4 DEF Message, Tags
<1>7. SinkInv'
  <2>1. SUFFICES ASSUME NEW j \in In
                 PROVE  /\ nread[j] <= written[Wire[j]]
                        /\ pushed'[j] <= Sent(Wire[j])
                        /\ pending'[j] \subseteq tags[Wire[j]]
                        /\ \A u \in tags[Wire[j]] :
                               /\ u \in pending'[j] <=> u.offset < nread[j] /\ u.msg.seq > pushed'[j]
                               /\ u.msg.seq <= pushed'[j] => u.offset < nread[j]
                        /\ sink'[j] \in {"idle", "done"} => pending'[j] = {}
    BY <1>2, <1>3, <1>5 DEF SinkInv
  <2>2. /\ nread[j] <= written[Wire[j]]
        /\ pushed[j] <= Sent(Wire[j])
        /\ pending[j] \subseteq tags[Wire[j]]
        /\ \A u \in tags[Wire[j]] :
               /\ u \in pending[j] <=> u.offset < nread[j] /\ u.msg.seq > pushed[j]
               /\ u.msg.seq <= pushed[j] => u.offset < nread[j]
        /\ sink[j] \in {"idle", "done"} => pending[j] = {}
    BY DEF TransferInv, SinkInv
  <2>3. CASE j # i
    BY <1>1, <1>2, <1>3, <2>2, <2>3
  <2>4. CASE j = i
    <3>1. /\ pushed'[i] = pushed[i] + 1
          /\ pending'[i] = pending[i] \ {t}
          /\ sink'[i] = "notify"
      BY <1>1, <1>2, <1>3
    <3>2. \A u \in tags[Wire[i]] : u.msg.seq \in Nat /\ pushed[i] \in Nat
      BY <1>3 DEF Tags, Messages
    <3>3. \A u \in tags[Wire[i]] :
               /\ u \in pending'[i] <=> u.offset < nread[i] /\ u.msg.seq > pushed[i] + 1
               /\ u.msg.seq <= pushed[i] + 1 => u.offset < nread[i]
      BY <1>1, <1>4, <1>6, <2>2, <2>4, <3>1, <3>2
    <3> QED
      BY <1>4, <2>2, <2>4, <3>1, <3>3
  <2> QED
    BY <2>3, <2>4
<1> DEFINE e == [offset |-> i[2], msg |-> t.msg]
           b == i[1]
<1>8. /\ b \in Blocks
      /\ i = <<b, e.offset>>
      /\ e \in Entries
  BY <1>6, InPorts DEF Entries
<1>9. /\ Len(queue[b]) \in Nat
      /\ Len(queue'[b]) = Len(queue[b]) + 1
      /\ \A m \in 1..Len(queue[b]) : queue'[b][m] = queue[b][m]
      /\ queue'[b][Len(queue[b]) + 1] = e
      /\ \A c \in Blocks : c # b => queue'[c] = queue[c]
  <2>1. queue[b] \in Seq(Entries)
    BY <1>3, <1>8
  <2>2. queue'[b] = Append(queue[b], e) /\ \A c \in Blocks : c # b => queue'[c] = queue[c]
    BY <1>1, <1>3, <1>8
  <2> QED
    BY <1>8, <2>1, <2>2, AppendProperties, LenProperties
<1>10. \A j \in In : /\ pushed[j] \in Nat /\ Len(got[j]) \in Nat
                     /\ pushed'[j] = IF j = i THEN pushed[i] + 1 ELSE pushed[j]
                     /\ Len(got[j]) <= pushed[j]
  BY <1>2, <1>3, LenProperties DEF TransferInv, GotInv
<1>11. \A m \in 1..Len(queue'[b]) : m \in 1..Len(queue[b]) \/ m = Len(queue[b]) + 1
  BY <1>9
<1>12. \A c \in Blocks : \A m \in 1..Len(queue[c]) :
           /\ <<c, queue[c][m].offset>> \in In
           /\ queue[c][m].msg.port = Wire[<<c, queue[c][m].offset>>]
           /\ queue[c][m].msg.seq \in
                  (Len(got[<<c, queue[c][m].offset>>]) + 1)..pushed[<<c, queue[c][m].offset>>]
  BY DEF TransferInv, QueueInv
<1>13. \A c \in Blocks : \A m \in 1..Len(queue'[c]) :
           /\ <<c, queue'[c][m].offset>> \in In
           /\ queue'[c][m].msg.port = Wire[<<c, queue'[c][m].offset>>]
           /\ queue'[c][m].msg.seq \in
                  (Len(got[<<c, queue'[c][m].offset>>]) + 1)..pushed'[<<c, queue'[c][m].offset>>]
  <2>1. SUFFICES ASSUME NEW c \in Blocks, NEW m \in 1..Len(queue'[c])
                 PROVE  /\ <<c, queue'[c][m].offset>> \in In
                        /\ queue'[c][m].msg.port = Wire[<<c, queue'[c][m].offset>>]
                        /\ queue'[c][m].msg.seq \in
                             (Len(got[<<c, queue'[c][m].offset>>]) + 1)..pushed'[<<c, queue'[c][m].offset>>]
    OBVIOUS
  <2>2. CASE queue'[c][m] = queue[c][m] /\ m \in 1..Len(queue[c])
    <3>1. /\ <<c, queue[c][m].offset>> \in In
          /\ queue[c][m].msg.port = Wire[<<c, queue[c][m].offset>>]
          /\ queue[c][m].msg.seq \in
                  (Len(got[<<c, queue[c][m].offset>>]) + 1)..pushed[<<c, queue[c][m].offset>>]
      BY <1>12, <2>2
    <3> HIDE DEF e, b
    <3> QED
      BY <1>10, <2>2, <3>1
  <2>3. CASE c = b /\ m = Len(queue[b]) + 1
    <3>1. queue'[c][m] = e /\ <<c, e.offset>> = i
      BY <1>8, <1>9, <2>3
    <3>2. e.msg = t.msg
      OBVIOUS
    <3> QED
      BY <1>6, <1>10, <3>1, <3>2
  <2> QED
    BY <1>9, <1>11, <2>2, <2>3
<1>14. \A c \in Blocks : \A m, n \in 1..Len(queue'[c]) :
           m < n /\ queue'[c][m].offset = queue'[c][n].offset =>
               queue'[c][m].msg.seq < queue'[c][n].msg.seq
  <2>1. \A c \in Blocks : \A m, n \in 1..Len(queue[c]) :
           m < n /\ queue[c][m].offset = queue[c][n].offset =>
               queue[c][m].msg.seq < queue[c][n].msg.seq
    BY DEF TransferInv, QueueInv
  <2>2. ASSUME NEW m \in 1..Len(queue[b]), queue[b][m].offset = e.offset
        PROVE  queue[b][m].msg.seq < e.msg.seq
    <3>1. queue[b][m].msg.seq \in (Len(got[i]) + 1)..pushed[i]
      BY <1>8, <1>12, <2>2
    <3> QED
      BY <1>6, <1>10, <3>1
  <2>3. ASSUME NEW m \in 1..Len(queue'[b]), NEW n \in 1..Len(queue'[b]),
               m < n, queue'[b][m].offset = queue'[b][n].offset
        PROVE  queue'[b][m].msg.seq < queue'[b][n].msg.seq
    <3>1. m \in 1..Len(queue[b])
      BY <1>9, <2>3
    <3>2. CASE n \in 1..Len(queue[b])
      BY <1>8, <1>9, <2>1, <2>3, <3>1, <3>2
    <3>3. CASE n = Len(queue[b]) + 1
      BY <1>9, <2>2, <2>3, <3>1, <3>3
    <3> QED
      BY <1>11, <3>2, <3>3
  <2> QED
    BY <1>9, <2>1, <2>3
<1>15. \A j \in In : \A n \in (Len(got[j]) + 1)..pushed'[j] :
           \E m \in 1..Len(queue'[j[1]]) :
               queue'[j[1]][m].offset = j[2] /\ queue'[j[1]][m].msg.seq = n
  <2>1. SUFFICES ASSUME NEW j \in In, NEW n \in (Len(got[j]) + 1)..pushed'[j]
                 PROVE  \E m \in 1..Len(queue'[j[1]]) :
                            queue'[j[1]][m].offset = j[2] /\ queue'[j[1]][m].msg.seq = n
    OBVIOUS
  <2>2. CASE n \in (Len(got[j]) + 1)..pushed[j]
    <3>1. PICK m \in 1..Len(queue[j[1]]) :
            queue[j[1]][m].offset = j[2] /\ queue[j[1]][m].msg.seq = n
      BY <2>2 DEF TransferInv, QueueInv
    <3>2. j[1] \in Blocks
      BY InPorts
    <3>3. m \in 1..Len(queue'[j[1]]) /\ queue'[j[1]][m] = queue[j[1]][m]
      BY <1>9, <3>1, <3>2
    <3> QED
      BY <3>1, <3>3
  <2>3. CASE j = i /\ n = pushed[i] + 1
    <3>1. Len(queue[b]) + 1 \in 1..Len(queue'[b])
      BY <1>9
    <3>2. e.offset = i[2] /\ e.msg.seq = pushed[i] + 1
      BY <1>6
    <3> QED
      BY <1>9, <2>3, <3>1, <3>2
  <2> QED
    BY <1>10, <2>2, <2>3
<1>16. QueueInv'
  BY <1>2, <1>13, <1>14, <1>15 DEF QueueInv
<1>17. GotInv'
  BY <1>2, <1>10 DEF TransferInv, GotInv
<1> QED
  BY <1>5, <1>7, <1>16, <1>17 DEF TransferInv

\* The first entry of a block's queue is the next message of the output that
\* its input is connected to.
LEMMA NextQueued ==
    ASSUME TypeOK, TransferInv, NEW b \in Blocks, queue[b] # <<>>
    PROVE  LET e == Head(queue[b])  i == <<b, e.offset>> IN
               /\ i \in In
               /\ e.msg = Message(Wire[i], Len(got[i]) + 1)
               /\ Len(got[i]) + 1 <= pushed[i]
<1> DEFINE e == Head(queue[b])
           i == <<b, e.offset>>
<1>1. queue[b] \in Seq(Entries)
  BY DEF TypeOK
<1>2. Len(queue[b]) \in Nat \ {0} /\ e = queue[b][1] /\ e \in Entries
  BY <1>1, HeadTailProperties, LenProperties
<1>3. 1 \in 1..Len(queue[b])
  BY <1>2
<1>4. /\ i \in In
      /\ e.msg.port = Wire[i]
      /\ e.msg.seq \in (Len(got[i]) + 1)..pushed[i]
  BY <1>2, <1>3 DEF TransferInv, QueueInv
<1>5. Len(got[i]) \in Nat /\ pushed[i] \in Nat
  BY <1>4, LenProperties DEF TypeOK
<1>6. e.msg \in Messages
  BY <1>2 DEF Entries
<1> HIDE DEF e
<1>7. Len(got[i]) + 1 \in (Len(got[i]) + 1)..pushed[i]
  BY <1>4, <1>5
<1>8. PICK m \in 1..Len(queue[b]) :
        queue[b][m].offset = e.offset /\ queue[b][m].msg.seq = Len(got[i]) + 1
  BY <1>4, <1>7 DEF TransferInv, QueueInv
<1>9. m = 1
  <2>1. SUFFICES ASSUME 1 < m PROVE FALSE
    BY <1>2
  <2>2. queue[b][1].msg.seq < queue[b][m].msg.seq
    BY <1>2, <1>3, <1>8, <2>1 DEF TransferInv, QueueInv
  <2> QED
    BY <1>2, <1>4, <1>5, <1>8, <2>2
<1>10. e.msg.seq = Len(got[i]) + 1
  BY <1>2, <1>8, <1>9
<1>11. e.msg = Message(Wire[i], Len(got[i]) + 1)
  BY <1>4, <1>6, <1>10 DEF Message, Messages
<1>12. Len(got[i]) + 1 <= pushed[i]
  BY <1>4, <1>5
<1> QED
  BY <1>4, <1>11, <1>12 DEF e

LEMMA PopTransfer ==
    ASSUME TypeOK, TransferInv, NEW b \in Blocks, Pop(b)
    PROVE  TransferInv'
<1> DEFINE e == Head(queue[b])
           i == <<b, e.offset>>
<1>1. /\ queue[b] # <<>>
      /\ got' = [got EXCEPT ![i] = Append(@, e.msg)]
      /\ queue' = [queue EXCEPT ![b] = Tail(@)]
      /\ UNCHANGED <<msg_queue, written, tags, sink, nread, pending, posted, pushed>>
  BY DEF Pop, sourceVars, streamVars, sinkVars
<1>2. /\ i \in In
      /\ e.msg = Message(Wire[i], Len(got[i]) + 1)
      /\ Len(got[i]) + 1 <= pushed[i]
  BY <1>1, NextQueued
<1>3. /\ queue \in [Blocks -> Seq(Entries)]
      /\ got \in [In -> Seq(Messages)]
      /\ pushed \in [In -> Nat]
  BY DEF TypeOK
<1>4. e.msg \in Messages
  <2>1. queue[b] \in Seq(Entries) /\ queue[b] # <<>>
    BY <1>1, <1>3
  <2>2. e \in Entries
    BY <2>1, HeadTailProperties
  <2> QED
    BY <2>2 DEF Entries
<1>5. /\ Len(queue[b]) \in Nat \ {0}
      /\ e = queue[b][1]
      /\ Len(queue'[b]) = Len(queue[b]) - 1
      /\ \A m \in 1..Len(queue'[b]) : queue'[b][m] = queue[b][m + 1]
      /\ \A c \in Blocks : c # b => queue'[c] = queue[c]
  BY <1>1, <1>3, HeadTailProperties
<1>6. \A c \in Blocks : Len(queue[c]) \in Nat
  BY <1>3, LenProperties
<1> HIDE DEF e
<1>7. /\ Len(got'[i]) = Len(got[i]) + 1
      /\ \A n \in 1..Len(got[i]) : got'[i][n] = got[i][n]
      /\ got'[i][Len(got[i]) + 1] = Message(Wire[i], Len(got[i]) + 1)
      /\ \A j \in In : j # i => got'[j] = got[j]
  <2>1. got[i] \in Seq(Messages) /\ got'[i] = Append(got[i], e.msg)
    BY <1>1, <1>2, <1>3
  <2> QED
    BY <1>1, <1>2, <1>3, <1>4, <2>1, AppendProperties
<1>8. \A j \in In : Len(got[j]) \in Nat /\ pushed[j] \in Nat
  BY <1>3, LenProperties
<1>9. e.msg.seq = Len(got[i]) + 1
  BY <1>2 DEF Message
<1>10. SourceInv' /\ StreamInv' /\ SinkInv'
  <2>1. SourceInv' /\ StreamInv' /\ \A o \in Out : Sent(o)' = Sent(o)
    BY <1>1, SinkFrame
  <2> QED
    BY <1>1, <2>1, WireAssumption DEF TransferInv, SinkInv
<1>11. GotInv'
  <2>1. SUFFICES ASSUME NEW j \in In
                 PROVE  /\ Len(got'[j]) <= pushed[j]
                        /\ \A n \in 1..Len(got'[j]) : got'[j][n] = Message(Wire[j], n)
    BY <1>1 DEF GotInv
  <2>2. CASE j # i
    BY <1>7, <2>2 DEF TransferInv, GotInv
  <2>3. CASE j = i
    <3>1. \A n \in 1..Len(got[i]) : got[i][n] = Message(Wire[i], n)
      BY <1>2 DEF TransferInv, GotInv
    <3>2. Len(got'[i]) <= pushed[i]
      BY <1>2, <1>7, <1>8
    <3>3. ASSUME NEW n \in 1..Len(got'[i]) PROVE got'[i][n] = Message(Wire[i], n)
      <4>1. n \in 1..Len(got[i]) \/ n = Len(got[i]) + 1
        BY <1>7, <1>8
      <4> QED
        BY <1>7, <3>1, <4>1
    <3> QED
      BY <2>3, <3>2, <3>3
  <2> QED
    BY <2>2, <2>3
\* an entry of the shorter queue, as an entry of the longer one
<1>12. ASSUME NEW c \in Blocks, NEW m \in 1..Len(queue'[c])
       PROVE  LET mm == IF c = b THEN m + 1 ELSE m IN
                  mm \in 1..Len(queue[c]) /\ queue'[c][m] = queue[c][mm]
  BY <1>5, <1>6
<1>13. \A c \in Blocks : \A m, n \in 1..Len(queue[c]) :
           m < n /\ queue[c][m].offset = queue[c][n].offset =>
               queue[c][m].msg.seq < queue[c][n].msg.seq
  BY DEF TransferInv, QueueInv
<1>14. \A c \in Blocks : \A m \in 1..Len(queue[c]) :
           /\ <<c, queue[c][m].offset>> \in In
           /\ queue[c][m].msg.port = Wire[<<c, queue[c][m].offset>>]
           /\ queue[c][m].msg.seq \in
                  (Len(got[<<c, queue[c][m].offset>>]) + 1)..pushed[<<c, queue[c][m].offset>>]
  BY DEF TransferInv, QueueInv
<1>15. ASSUME NEW c \in Blocks, NEW m \in 1..Len(queue'[c])
       PROVE  /\ <<c, queue'[c][m].offset>> \in In
              /\ queue'[c][m].msg.port = Wire[<<c, queue'[c][m].offset>>]
              /\ queue'[c][m].msg.seq \in
                   (Len(got'[<<c, queue'[c][m].offset>>]) + 1)..pushed[<<c, queue'[c][m].offset>>]
  <2> DEFINE mm == IF c = b THEN m + 1 ELSE m
             j == <<c, queue[c][mm].offset>>
  <2>1. mm \in 1..Len(queue[c]) /\ queue'[c][m] = queue[c][mm]
    BY <1>12
  <2>2. /\ j \in In
        /\ queue[c][mm].msg.port = Wire[j]
        /\ queue[c][mm].msg.seq \in (Len(got[j]) + 1)..pushed[j]
    BY <1>14, <2>1
  <2>3. CASE j # i
    BY <1>7, <2>1, <2>2, <2>3
  <2>4. CASE j = i
    <3>1. c = b /\ queue[b][mm].offset = e.offset /\ 1 < mm
      BY <1>5, <2>4
    <3>2. 1 \in 1..Len(queue[b])
      BY <1>5
    <3>3. e.msg.seq < queue[b][mm].msg.seq
      BY <1>5, <1>13, <2>1, <3>1, <3>2
    <3>4. queue[c][mm].msg.seq \in (Len(got[i]) + 2)..pushed[i]
      BY <1>2, <1>8, <1>9, <2>2, <2>4, <3>1, <3>3
    <3> QED
      BY <1>2, <1>7, <1>8, <2>1, <2>2, <2>4, <3>4
  <2> QED
    BY <2>3, <2>4
<1>16. ASSUME NEW c \in Blocks, NEW m \in 1..Len(queue'[c]), NEW n \in 1..Len(queue'[c]),
              m < n, queue'[c][m].offset = queue'[c][n].offset
       PROVE  queue'[c][m].msg.seq < queue'[c][n].msg.seq
  <2> DEFINE mm == IF c = b THEN m + 1 ELSE m
             nn == IF c = b THEN n + 1 ELSE n
  <2>1. mm \in 1..Len(queue[c]) /\ queue'[c][m] = queue[c][mm]
    BY <1>12
  <2>2. nn \in 1..Len(queue[c]) /\ queue'[c][n] = queue[c][nn]
    BY <1>12
  <2>3. mm < nn
    BY <1>16
  <2> QED
    BY <1>13, <1>16, <2>1, <2>2, <2>3
<1>17. ASSUME NEW j \in In, NEW n \in (Len(got'[j]) + 1)..pushed[j]
       PROVE  \E m \in 1..Len(queue'[j[1]]) :
                  queue'[j[1]][m].offset = j[2] /\ queue'[j[1]][m].msg.seq = n
  <2>1. j[1] \in Blocks /\ j = <<j[1], j[2]>>
    BY InPorts
  <2>2. n \in (Len(got[j]) + 1)..pushed[j] /\ (j = i => n # Len(got[i]) + 1)
    BY <1>7, <1>8, <1>17
  <2>3. PICK m \in 1..Len(queue[j[1]]) :
          queue[j[1]][m].offset = j[2] /\ queue[j[1]][m].msg.seq = n
    BY <2>2 DEF TransferInv, QueueInv
  <2>4. CASE j[1] # b
    BY <1>5, <2>1, <2>3, <2>4
  <2>5. CASE j[1] = b
    <3>1. m # 1
      BY <1>5, <1>9, <2>1, <2>2, <2>3, <2>5
    <3>2. m - 1 \in 1..Len(queue'[b]) /\ queue'[b][m - 1] = queue[b][m]
      BY <1>5, <2>3, <2>5, <3>1
    <3> QED
      BY <2>3, <2>5, <3>2
  <2> QED
    BY <2>4, <2>5
<1>18. QueueInv'
  BY <1>1, <1>15, <1>16, <1>17 DEF QueueInv
<1> QED
  BY <1>10, <1>11, <1>18 DEF TransferInv

LEMMA InitTransfer == Init => TransferInv
<1> SUFFICES ASSUME Init PROVE TransferInv
  OBVIOUS
<1>1. \A i \in In : i[1] \in Blocks /\ Wire[i] \in Out
  BY InPorts, WireAssumption
<1>2. \A o \in Out : Sent(o) = 0 /\ Len(msg_queue[o]) = 0 /\ posted[o] = 0
  BY DEF Init, Sent
<1>3. SourceInv /\ StreamInv
  BY <1>2 DEF Init, SourceInv, StreamInv
<1>4. SinkInv
  BY <1>1, <1>2 DEF Init, SinkInv
<1>5. QueueInv /\ GotInv
  BY <1>1 DEF Init, QueueInv, GotInv
<1> QED
  BY <1>3, <1>4, <1>5 DEF TransferInv

\* A step that touches none of the variables of TransferInv.
LEMMA FrameTransfer ==
    ASSUME TransferInv,
           UNCHANGED <<queue, msg_queue, written, tags, sink, nread, pending, posted, pushed, got>>
    PROVE  TransferInv'
<1>1. SourceInv' /\ StreamInv' /\ \A o \in Out : Sent(o)' = Sent(o)
  BY SinkFrame
<1>2. SinkInv'
  BY <1>1, WireAssumption DEF TransferInv, SinkInv
<1>3. QueueInv' /\ GotInv'
  BY DEF TransferInv, QueueInv, GotInv
<1> QED
  BY <1>1, <1>2, <1>3 DEF TransferInv

\* The steps of a master_block other than a post and a pop.
LEMMA MasterTransfer ==
    ASSUME TypeOK, TransferInv, NEW b \in Blocks, UserStep(b) \/ MasterStep(b) \/ PopSpurious(b)
    PROVE  TransferInv'
<1> USE DEF masterVars, sourceVars, streamVars, sinkVars, history
<1>1. ASSUME NEW k \in 0..(NumOut[b] - 1), Post(b, k) PROVE TransferInv'
  <2>1. <<b, k>> \in Out /\ PushToSourcer(<<b, k>>)
    BY <1>1, OutPorts DEF Post
  <2>2. UNCHANGED <<queue, written, tags, sink, nread, pending, pushed, got>>
    BY <1>1 DEF Post
  <2> QED
    BY <2>1, <2>2, PostTransfer
<1>2. CASE ExitPosting(b)
  <2>1. <<b, 0>> \in Out /\ PushToSourcer(<<b, 0>>)
    BY <1>2, CloserHasOutput DEF ExitPosting
  <2>2. UNCHANGED <<queue, written, tags, sink, nread, pending, pushed, got>>
    BY <1>2 DEF ExitPosting
  <2> QED
    BY <2>1, <2>2, PostTransfer
<1>3. CASE Pop(b)
  BY <1>3, PopTransfer
<1>4. ASSUME UNCHANGED <<queue, msg_queue, written, tags, sink, nread, pending, posted, pushed, got>>
      PROVE  TransferInv'
  BY <1>4, FrameTransfer
<1>5. CASE CheckQueue(b) \/ Finish(b) \/ PostNotify(b) \/ PopWait(b) \/ StopSet(b) \/ StopNotify(b)
  BY <1>4, <1>5 DEF CheckQueue, Finish, PostNotify, PopWait, StopSet, StopNotify
<1>6. CASE Exhaust(b) \/ MasterInterrupted(b) \/ ExitSilent(b) \/ PopSpurious(b)
  BY <1>4, <1>6 DEF Exhaust, MasterInterrupted, ExitSilent, PopSpurious
<1> QED
  BY <1>1, <1>2, <1>3, <1>5, <1>6 DEF UserStep, MasterStep

LEMMA NextTransfer == TypeOK /\ TransferInv /\ [Next]_vars => TransferInv'
<1> SUFFICES ASSUME TypeOK, TransferInv, [Next]_vars PROVE TransferInv'
  OBVIOUS
<1>1. ASSUME UNCHANGED <<queue, msg_queue, written, tags, sink, nread, pending, posted, pushed, got>>
      PROVE  TransferInv'
  BY <1>1, FrameTransfer
<1>2. ASSUME NEW b \in Blocks, UserStep(b) \/ MasterStep(b) \/ PopSpurious(b) PROVE TransferInv'
  BY <1>2, MasterTransfer
<1>3. ASSUME NEW o \in Out, SourceStep(o) \/ SourceSpurious(o) PROVE TransferInv'
  <2>1. ASSUME NEW k \in 1..BufSize, SourceSend(o, k) PROVE TransferInv'
    BY <2>1, SendTransfer
  <2>2. CASE SourceStart(o) \/ SourceEnter(o) \/ SourceQuit(o) \/ SourceSeesNothing(o)
    BY <1>1, <2>2 DEF SourceStart, SourceEnter, SourceQuit, SourceSeesNothing,
         masterVars, streamVars, sinkVars, history
  <2>3. CASE SourceWait(o) \/ SourceRelock(o) \/ SourceInterrupted(o) \/ SourceSpurious(o)
    BY <1>1, <2>3 DEF SourceWait, SourceRelock, SourceInterrupted, SourceSpurious,
         masterVars, streamVars, sinkVars, history
  <2> QED
    BY <1>3, <2>1, <2>2, <2>3 DEF SourceStep
<1>4. ASSUME NEW i \in In, SinkStep(i) PROVE TransferInv'
  BY <1>4, CollectTransfer, PushTransfer, SinkIdleTransfer DEF SinkStep
<1>5. CASE Interrupt
  BY <1>1, <1>5 DEF Interrupt, masterVars, sourceVars, streamVars, sinkVars, history
<1>6. CASE UNCHANGED vars
  BY <1>1, <1>6 DEF vars
<1> QED
  BY <1>2, <1>3, <1>4, <1>5, <1>6 DEF Next, Terminated

\* What work() pops from an input is an initial part of what was posted on the
\* output it is connected to, in every network of blocks.
THEOREM InOrderOnceCorrect == Spec => []InOrderOnce
<1>1. TypeOK /\ TransferInv => InOrderOnce
  <2> SUFFICES ASSUME TypeOK, TransferInv, NEW i \in In
               PROVE  /\ Len(got[i]) <= posted[Wire[i]]
                      /\ \A n \in 1..Len(got[i]) : got[i][n] = Message(Wire[i], n)
    BY DEF InOrderOnce
  <2>1. Wire[i] \in Out
    BY WireAssumption
  <2>2. /\ Len(got[i]) \in Nat /\ pushed[i] \in Nat /\ posted[Wire[i]] \in Nat
        /\ Len(msg_queue[Wire[i]]) \in Nat
    BY <2>1, LenProperties DEF TypeOK
  <2>3. Len(got[i]) <= pushed[i] /\ pushed[i] <= Sent(Wire[i])
    BY DEF TransferInv, GotInv, SinkInv
  <2>4. Len(got[i]) <= posted[Wire[i]]
    BY <2>2, <2>3 DEF Sent
  <2> QED
    BY <2>4 DEF TransferInv, GotInv
<1> QED
  BY <1>1, InitType, NextType, InitTransfer, NextTransfer, PTL DEF Spec

-----------------------------------------------------------------------------
(* Wake-ups *)

LEMMA MasterWake ==
    ASSUME TypeOK, WakeInv, NEW b \in Blocks, UserStep(b) \/ MasterStep(b) \/ PopSpurious(b)
    PROVE  WakeInv'
<1> USE DEF masterVars, sourceVars, streamVars, sinkVars, history
<1>1. /\ master \in [Blocks -> MasterPCs]
      /\ port \in [Blocks -> Nat]
      /\ source \in [Out -> SourcePCs]
      /\ msg_queue \in [Out -> Seq(Messages)]
      /\ \A o \in Out : o = <<o[1], o[2]>> /\ o[1] \in Blocks
  BY OutPorts DEF TypeOK
<1>2. \A o \in Out : /\ source[o] = "waiting" /\ msg_queue[o] # <<>> =>
                            master[o[1]] \in {"notify", "lastnotify"} /\ port[o[1]] = o[2]
                     /\ source[o] = "towait" => msg_queue[o] = <<>>
  BY DEF WakeInv, PostWakesSourcer
<1>3. SUFFICES ASSUME NEW o \in Out
               PROVE  /\ source'[o] = "waiting" /\ msg_queue'[o] # <<>> =>
                            master'[o[1]] \in {"notify", "lastnotify"} /\ port'[o[1]] = o[2]
                      /\ source'[o] = "towait" => msg_queue'[o] = <<>>
  BY DEF WakeInv, PostWakesSourcer
<1> DEFINE Goal == /\ source'[o] = "waiting" /\ msg_queue'[o] # <<>> =>
                         master'[o[1]] \in {"notify", "lastnotify"} /\ port'[o[1]] = o[2]
                   /\ source'[o] = "towait" => msg_queue'[o] = <<>>
\* a post on output k, from a place where no notify is outstanding
<1>4. ASSUME NEW k \in Nat, PushToSourcer(<<b, k>>), UNCHANGED source,
             master[b] \notin {"notify", "lastnotify"},
             master' = [master EXCEPT ![b] = "notify"] \/ master' = [master EXCEPT ![b] = "lastnotify"],
             port' = [port EXCEPT ![b] = k]
      PROVE  Goal
  <2>1. CASE o = <<b, k>>
    BY <1>1, <1>2, <1>4, <2>1 DEF PushToSourcer, MutexFree
  <2>2. CASE o # <<b, k>>
    <3>1. msg_queue'[o] = msg_queue[o]
      BY <1>1, <1>4, <2>2 DEF PushToSourcer
    <3> QED
      BY <1>1, <1>2, <1>4, <3>1
  <2> QED
    BY <2>1, <2>2
<1>5. ASSUME NEW k \in 0..(NumOut[b] - 1), Post(b, k) PROVE Goal
  <2>1. k \in Nat
    BY CountsAssumption
  <2> QED
    BY <1>4, <1>5, <2>1 DEF Post
<1>6. CASE ExitPosting(b)
  BY <1>4, <1>6 DEF ExitPosting
<1>7. CASE PostNotify(b)
  BY <1>1, <1>2, <1>7 DEF PostNotify, NotifySourcer
<1>8. CASE StopNotify(b)
  BY <1>1, <1>2, <1>8 DEF StopNotify, NotifySourcer, StopLoop
\* the other steps change at most the counters of a thread that owes no notify
<1>9. ASSUME UNCHANGED <<source, msg_queue>>, master[b] \notin {"notify", "lastnotify"},
             \A c \in Blocks \ {b} : master'[c] = master[c] /\ port'[c] = port[c]
      PROVE  Goal
  BY <1>1, <1>2, <1>9
<1>10. CASE CheckQueue(b) \/ Finish(b) \/ Pop(b) \/ PopWait(b) \/ StopSet(b)
  BY <1>1, <1>9, <1>10 DEF CheckQueue, Finish, Pop, PopWait, StopSet
<1>11. CASE Exhaust(b) \/ MasterInterrupted(b) \/ ExitSilent(b) \/ PopSpurious(b)
  BY <1>1, <1>9, <1>11 DEF Exhaust, MasterInterrupted, ExitSilent, PopSpurious
<1> QED
  BY <1>5, <1>6, <1>7, <1>8, <1>10, <1>11 DEF UserStep, MasterStep

LEMMA NextWake == TypeOK /\ WakeInv /\ [Next]_vars => WakeInv'
<1> SUFFICES ASSUME TypeOK, WakeInv, [Next]_vars PROVE WakeInv'
  OBVIOUS
<1>1. ASSUME NEW b \in Blocks, UserStep(b) \/ MasterStep(b) \/ PopSpurious(b) PROVE WakeInv'
  BY <1>1, MasterWake
<1>2. ASSUME NEW p \in Out, SourceStep(p) \/ SourceSpurious(p) PROVE WakeInv'
  <2> USE DEF masterVars, streamVars, sinkVars, history
  <2>1. /\ source \in [Out -> SourcePCs]
        /\ msg_queue \in [Out -> Seq(Messages)]
    BY DEF TypeOK
  <2>2. /\ UNCHANGED <<master, port>>
        /\ \A o \in Out \ {p} : source'[o] = source[o] /\ msg_queue'[o] = msg_queue[o]
        /\ source'[p] \in {"towait", "waiting"} => msg_queue[p] = <<>> /\ msg_queue'[p] = <<>>
    <3>1. ASSUME NEW k \in 1..BufSize, SourceSend(p, k) PROVE <2>2!1 /\ <2>2!2 /\ <2>2!3
      BY <2>1, <3>1 DEF SourceSend
    <3>2. CASE SourceStart(p) \/ SourceEnter(p) \/ SourceQuit(p) \/ SourceSeesNothing(p)
      BY <2>1, <3>2 DEF SourceStart, SourceEnter, SourceQuit, SourceSeesNothing
    <3>3. CASE SourceWait(p) \/ SourceRelock(p) \/ SourceInterrupted(p) \/ SourceSpurious(p)
      BY <2>1, <3>3 DEF SourceWait, SourceRelock, SourceInterrupted, SourceSpurious, WakeInv
    <3> QED
      BY <1>2, <3>1, <3>2, <3>3 DEF SourceStep
  <2> QED
    BY <2>2 DEF WakeInv, PostWakesSourcer
<1>3. ASSUME NEW i \in In, SinkStep(i) PROVE WakeInv'
  <2> USE DEF masterVars, sourceVars, streamVars, history
  <2>1. UNCHANGED <<source, msg_queue, port>>
    BY <1>3 DEF SinkStep, SinkCollect, SinkPush, SinkNotify, SinkEnd, SinkInterrupted
  <2>2. \A b \in Blocks : master[b] \in {"notify", "lastnotify"} => master'[b] = master[b]
    BY <1>3 DEF SinkStep, SinkCollect, SinkPush, SinkNotify, SinkEnd, SinkInterrupted, TypeOK
  <2>3. \A o \in Out : o[1] \in Blocks
    BY OutPorts
  <2> QED
    BY <2>1, <2>2, <2>3 DEF WakeInv, PostWakesSourcer
<1>4. CASE Interrupt
  BY <1>4 DEF Interrupt, WakeInv, PostWakesSourcer, masterVars, sourceVars
<1>5. CASE UNCHANGED vars
  BY <1>5 DEF vars, WakeInv, PostWakesSourcer
<1> QED
  BY <1>1, <1>2, <1>3, <1>4, <1>5 DEF Next, Terminated

\* No post is missed by a sourcer that sleeps, in any network of blocks.
THEOREM PostWakesSourcerCorrect == Spec => []PostWakesSourcer
<1>1. Init => WakeInv
  BY DEF Init, WakeInv, PostWakesSourcer
<1>2. WakeInv => PostWakesSourcer
  BY DEF WakeInv
<1> QED
  BY <1>1, <1>2, InitType, NextType, NextWake, PTL DEF Spec

QueueWakeInv == PushWakesPop /\ CheckThenPop

LEMMA NextQueueWake == TypeOK /\ QueueWakeInv /\ [Next]_vars => QueueWakeInv'
<1> SUFFICES ASSUME TypeOK, QueueWakeInv, [Next]_vars PROVE QueueWakeInv'
  OBVIOUS
<1> USE DEF masterVars, sourceVars, streamVars, sinkVars, history
<1>1. /\ master \in [Blocks -> MasterPCs]
      /\ queue \in [Blocks -> Seq(Entries)]
      /\ sink \in [In -> SinkPCs]
      /\ \A i \in In : i = <<i[1], i[2]>> /\ i[1] \in Blocks /\ i[2] \in 0..(NumIn[i[1]] - 1)
      /\ \A b \in Blocks : \A k \in 0..(NumIn[b] - 1) : <<b, k>> \in In
  BY InPorts DEF TypeOK
<1>2. \A b \in Blocks :
        /\ master[b] = "popwait" /\ queue[b] # <<>> =>
               \E k \in 0..(NumIn[b] - 1) : sink[<<b, k>>] = "notify"
        /\ master[b] = "ready" => queue[b] # <<>>
  BY DEF QueueWakeInv, PushWakesPop, CheckThenPop
<1>3. SUFFICES ASSUME NEW c \in Blocks
               PROVE  /\ master'[c] = "popwait" /\ queue'[c] # <<>> =>
                            \E k \in 0..(NumIn[c] - 1) : sink'[<<c, k>>] = "notify"
                      /\ master'[c] = "ready" => queue'[c] # <<>>
  BY DEF QueueWakeInv, PushWakesPop, CheckThenPop
<1> DEFINE Goal == /\ master'[c] = "popwait" /\ queue'[c] # <<>> =>
                         \E k \in 0..(NumIn[c] - 1) : sink'[<<c, k>>] = "notify"
                   /\ master'[c] = "ready" => queue'[c] # <<>>
<1>4. ASSUME NEW b \in Blocks, UserStep(b) \/ MasterStep(b) \/ PopSpurious(b) PROVE Goal
  <2>1. UNCHANGED sink /\ \A d \in Blocks \ {b} : master'[d] = master[d] /\ queue'[d] = queue[d]
    <3>1. ASSUME NEW k \in 0..(NumOut[b] - 1), Post(b, k)
          PROVE  UNCHANGED sink /\ \A d \in Blocks \ {b} : master'[d] = master[d] /\ queue'[d] = queue[d]
      BY <1>1, <3>1 DEF Post
    <3>2. CASE CheckQueue(b) \/ Finish(b) \/ Pop(b) \/ PopWait(b) \/ StopSet(b) \/ PostNotify(b)
      BY <1>1, <3>2 DEF CheckQueue, Finish, Pop, PopWait, StopSet, PostNotify
    <3>3. CASE Exhaust(b) \/ MasterInterrupted(b) \/ ExitSilent(b) \/ ExitPosting(b)
                 \/ PopSpurious(b) \/ StopNotify(b)
      BY <1>1, <3>3 DEF Exhaust, MasterInterrupted, ExitSilent, ExitPosting, PopSpurious, StopNotify
    <3> QED
      BY <1>4, <3>1, <3>2, <3>3 DEF UserStep, MasterStep
  <2>2. /\ master'[b] = "popwait" => queue'[b] = <<>>
        /\ master'[b] = "ready" => queue'[b] # <<>>
    <3>1. ASSUME NEW k \in 0..(NumOut[b] - 1), Post(b, k)
          PROVE  master'[b] = "notify"
      BY <1>1, <3>1 DEF Post
    <3>2. CASE CheckQueue(b) \/ Finish(b) \/ Pop(b) \/ PopWait(b) \/ StopSet(b) \/ PostNotify(b)
      BY <1>1, <3>2 DEF CheckQueue, Finish, Pop, PopWait, StopSet, PostNotify, StopLoop
    <3>3. CASE Exhaust(b) \/ MasterInterrupted(b) \/ ExitSilent(b) \/ ExitPosting(b)
                 \/ PopSpurious(b) \/ StopNotify(b)
      BY <1>1, <3>3 DEF Exhaust, MasterInterrupted, ExitSilent, ExitPosting, PopSpurious,
           StopNotify, StopLoop
    <3> QED
      BY <1>4, <3>1, <3>2, <3>3 DEF UserStep, MasterStep
  <2> QED
    BY <1>2, <2>1, <2>2
<1>5. ASSUME NEW o \in Out, SourceStep(o) \/ SourceSpurious(o) PROVE Goal
  <2>1. UNCHANGED <<master, queue, sink>>
    BY <1>5 DEF SourceStep, SourceStart, SourceEnter, SourceSend, SourceQuit, SourceSeesNothing,
         SourceWait, SourceRelock, SourceInterrupted, SourceSpurious
  <2> QED
    BY <1>2, <2>1
<1>6. ASSUME NEW i \in In, SinkStep(i) PROVE Goal
  <2>1. CASE SinkPush(i)
    <3>1. \A d \in Blocks : master'[d] = master[d] /\ (d # i[1] => queue'[d] = queue[d])
      BY <1>1, <2>1 DEF SinkPush
    <3>2. sink'[i] = "notify" /\ \A j \in In : j # i => sink'[j] = sink[j]
      BY <1>1, <2>1 DEF SinkPush
    <3>3. PICK t \in pending[i] :
            queue' = [queue EXCEPT ![i[1]] = Append(@, [offset |-> i[2], msg |-> t.msg])]
      BY <2>1 DEF SinkPush
    <3>4. queue'[i[1]] # <<>>
      <4>1. [offset |-> i[2], msg |-> t.msg] \in Entries
        BY <1>1 DEF TypeOK, Tags, Entries
      <4> QED
        BY <1>1, <3>3, <4>1, AppendProperties
    <3>5. CASE c = i[1]
      BY <1>1, <3>2, <3>4, <3>5
    <3>6. CASE c # i[1]
      <4>1. \A k \in 0..(NumIn[c] - 1) : <<c, k>> \in In /\ <<c, k>> # i
        BY <1>1, <3>6
      <4> QED
        BY <1>2, <3>1, <3>2, <3>6, <4>1
    <3> QED
      BY <3>5, <3>6
  <2>2. CASE SinkNotify(i)
    <3>1. /\ UNCHANGED queue
          /\ \A d \in Blocks : d # i[1] => master'[d] = master[d]
          /\ master'[i[1]] # "popwait" /\ (master'[i[1]] = "ready" => master[i[1]] = "ready")
          /\ \A j \in In : j # i => sink'[j] = sink[j]
      BY <1>1, <2>2 DEF SinkNotify
    <3>2. CASE c = i[1]
      BY <1>2, <3>1, <3>2
    <3>3. CASE c # i[1]
      <4>1. \A k \in 0..(NumIn[c] - 1) : <<c, k>> \in In /\ <<c, k>> # i
        BY <1>1, <3>3
      <4> QED
        BY <1>2, <3>1, <3>3, <4>1
    <3> QED
      BY <3>2, <3>3
  <2>3. ASSUME UNCHANGED <<master, queue>>, \A j \in In : sink[j] = "notify" => sink'[j] = "notify"
        PROVE  Goal
    BY <1>1, <1>2, <2>3
  <2>4. ASSUME NEW k \in 1..BufSize, SinkCollect(i, k) PROVE Goal
    BY <1>1, <2>3, <2>4 DEF SinkCollect
  <2>5. CASE SinkEnd(i) \/ SinkInterrupted(i)
    BY <1>1, <2>3, <2>5 DEF SinkEnd, SinkInterrupted
  <2> QED
    BY <1>6, <2>1, <2>2, <2>4, <2>5 DEF SinkStep
<1>7. CASE Interrupt
  BY <1>2, <1>7 DEF Interrupt
<1>8. CASE UNCHANGED vars
  BY <1>2, <1>8 DEF vars
<1> QED
  BY <1>4, <1>5, <1>6, <1>7, <1>8 DEF Next, Terminated

LEMMA InitQueueWake == Init => QueueWakeInv
BY DEF Init, QueueWakeInv, PushWakesPop, CheckThenPop

\* No push is missed by a work() that sleeps in pop_msg_queue.
THEOREM PushWakesPopCorrect == Spec => []PushWakesPop
<1>1. QueueWakeInv => PushWakesPop
  BY DEF QueueWakeInv
<1> QED
  BY <1>1, InitType, NextType, InitQueueWake, NextQueueWake, PTL DEF Spec

\* After check_msg_queue() has found a message, pop_msg_queue() finds it too.
THEOREM CheckThenPopCorrect == Spec => []CheckThenPop
<1>1. QueueWakeInv => CheckThenPop
  BY DEF QueueWakeInv
<1> QED
  BY <1>1, InitType, NextType, InitQueueWake, NextQueueWake, PTL DEF Spec

-----------------------------------------------------------------------------
(* The end of the threads *)

LEMMA NextEnd == TypeOK /\ EndInv /\ [Next]_vars => EndInv'
<1> SUFFICES ASSUME TypeOK, EndInv, [Next]_vars, ~interrupted' PROVE EndInv'
  BY DEF EndInv
<1> USE DEF masterVars, sourceVars, streamVars, sinkVars, history
<1>1. /\ master \in [Blocks -> MasterPCs]
      /\ source \in [Out -> SourcePCs]
      /\ done \in [Out -> BOOLEAN]
      /\ msg_queue \in [Out -> Seq(Messages)]
      /\ written \in [Out -> Nat]
      /\ sink \in [In -> SinkPCs]
      /\ nread \in [In -> Nat]
      /\ Wire \in [In -> Out]
      /\ \A o \in Out : o = <<o[1], o[2]>> /\ o[1] \in Blocks
  BY OutPorts, WireAssumption DEF TypeOK
<1>2. CASE Interrupt
  BY <1>2 DEF Interrupt
<1>3. CASE UNCHANGED vars
  BY <1>3 DEF vars, EndInv, Ended
<1>4. ASSUME Next, ~Interrupt PROVE ~interrupted
  BY <1>4 DEF Next, UserStep, MasterStep, SourceStep, SinkStep, Terminated, vars,
     Post, CheckQueue, Finish, PostNotify, Pop, PopWait, PopSpurious, StopSet, StopNotify,
     Exhaust, MasterInterrupted, ExitSilent, ExitPosting,
     SourceStart, SourceEnter, SourceSend, SourceQuit, SourceSeesNothing, SourceWait,
     SourceRelock, SourceInterrupted, SourceSpurious,
     SinkCollect, SinkPush, SinkNotify, SinkEnd, SinkInterrupted
<1>5. ASSUME Next, ~Interrupt
      PROVE  /\ \A o \in Out :
                    /\ done[o] => Ended(o[1])
                    /\ source[o] = "done" => done[o] /\ (o[1] \notin Closers => msg_queue[o] = <<>>)
             /\ \A i \in In :
                    sink[i] = "done" => source[Wire[i]] = "done" /\ nread[i] = written[Wire[i]]
  BY <1>4, <1>5 DEF EndInv
<1>6. ASSUME Next, ~Interrupt, NEW b \in Blocks, UserStep(b) \/ MasterStep(b) \/ PopSpurious(b)
      PROVE  EndInv'
  <2>1. UNCHANGED <<written, sink, nread>> /\ \A d \in Blocks \ {b} : master'[d] = master[d]
    BY <1>1, <1>6 DEF UserStep, MasterStep, Post, CheckQueue, Finish, PostNotify, Pop, PopWait,
       PopSpurious, StopSet, StopNotify, Exhaust, MasterInterrupted, ExitSilent, ExitPosting
  <2>2. Ended(b) => Ended(b)'
    BY <1>1, <1>6 DEF Ended, UserStep, MasterStep, Post, CheckQueue, Finish, PostNotify, Pop, PopWait,
       PopSpurious, StopSet, StopNotify, StopLoop, Exhaust, MasterInterrupted, ExitSilent, ExitPosting
  <2>3. \A o \in Out : done'[o] => done[o] \/ (o[1] = b /\ master[b] = "stop")
    <3>1. CASE StopSet(b)
      BY <1>1, <3>1 DEF StopSet
    <3>2. CASE ~StopSet(b)
      BY <1>6, <3>2 DEF UserStep, MasterStep, Post, CheckQueue, Finish, PostNotify, Pop, PopWait,
       PopSpurious, StopNotify, Exhaust, MasterInterrupted, ExitSilent, ExitPosting
    <3> QED
      BY <3>1, <3>2
  <2>4. \A o \in Out : done[o] => done'[o]
    BY <1>1, <1>6 DEF UserStep, MasterStep, Post, CheckQueue, Finish, PostNotify, Pop, PopWait,
       PopSpurious, StopSet, StopNotify, Exhaust, MasterInterrupted, ExitSilent, ExitPosting
  <2>5. \A o \in Out : source'[o] = "done" <=> source[o] = "done"
    BY <1>1, <1>6 DEF UserStep, MasterStep, Post, CheckQueue, Finish, PostNotify, Pop, PopWait,
       PopSpurious, StopSet, StopNotify, Exhaust, MasterInterrupted, ExitSilent, ExitPosting,
       NotifySourcer
  <2>6. \A o \in Out : msg_queue'[o] # msg_queue[o] =>
                           o[1] = b /\ (master[b] = "work" \/ b \in Closers)
    <3>1. ASSUME NEW k \in 0..(NumOut[b] - 1), Post(b, k)
          PROVE  \A o \in Out : msg_queue'[o] # msg_queue[o] => o[1] = b /\ master[b] = "work"
      BY <1>1, <3>1 DEF Post, PushToSourcer
    <3>2. ASSUME ExitPosting(b)
          PROVE  \A o \in Out : msg_queue'[o] # msg_queue[o] => o[1] = b /\ b \in Closers
      BY <1>1, <3>2 DEF ExitPosting, PushToSourcer
    <3>3. ASSUME ~ExitPosting(b), ~\E k \in 0..(NumOut[b] - 1) : Post(b, k)
          PROVE  UNCHANGED msg_queue
      BY <1>6, <3>3 DEF UserStep, MasterStep, CheckQueue, Finish, PostNotify, Pop, PopWait,
       PopSpurious, StopSet, StopNotify, Exhaust, MasterInterrupted, ExitSilent
    <3> QED
      BY <3>1, <3>2, <3>3
  <2>7. \A o \in Out : done'[o] => Ended(o[1])'
    <3>1. SUFFICES ASSUME NEW o \in Out, done'[o] PROVE Ended(o[1])'
      OBVIOUS
    <3>2. Ended(o[1])
      BY <1>5, <1>6, <2>3, <3>1 DEF Ended
    <3>3. CASE o[1] = b
      BY <2>2, <3>2, <3>3
    <3>4. CASE o[1] # b
      BY <1>1, <2>1, <3>2, <3>4 DEF Ended
    <3> QED
      BY <3>3, <3>4
  <2>8. \A o \in Out : source'[o] = "done" =>
                           done'[o] /\ (o[1] \notin Closers => msg_queue'[o] = <<>>)
    <3>1. SUFFICES ASSUME NEW o \in Out, source'[o] = "done"
                   PROVE  done'[o] /\ (o[1] \notin Closers => msg_queue'[o] = <<>>)
      OBVIOUS
    <3>2. /\ source[o] = "done" /\ done[o] /\ Ended(o[1])
          /\ o[1] \notin Closers => msg_queue[o] = <<>>
      BY <1>5, <1>6, <2>5, <3>1
    <3>3. master[o[1]] # "work"
      BY <3>2 DEF Ended
    <3>4. o[1] \notin Closers => msg_queue'[o] = msg_queue[o]
      BY <2>6, <3>3
    <3> QED
      BY <2>4, <3>2, <3>4
  <2>9. \A i \in In : sink'[i] = "done" =>
                          source'[Wire[i]] = "done" /\ nread'[i] = written'[Wire[i]]
    BY <1>1, <1>5, <1>6, <2>1, <2>5
  <2> QED
    BY <2>7, <2>8, <2>9 DEF EndInv
<1>7. ASSUME Next, ~Interrupt, NEW p \in Out, SourceStep(p) \/ SourceSpurious(p)
      PROVE  EndInv'
  <2>1. UNCHANGED <<master, sink, nread>> /\ \A o \in Out \ {p} :
            /\ source'[o] = source[o] /\ done'[o] = done[o]
            /\ msg_queue'[o] = msg_queue[o] /\ written'[o] = written[o]
    BY <1>1, <1>7 DEF SourceStep, SourceStart, SourceEnter, SourceSend, SourceQuit,
       SourceSeesNothing, SourceWait, SourceRelock, SourceInterrupted, SourceSpurious
  <2>2. source[p] # "done"
    BY <1>7 DEF SourceStep, SourceStart, SourceEnter, SourceSend, SourceQuit,
       SourceSeesNothing, SourceWait, SourceRelock, SourceInterrupted, SourceSpurious
  <2>3. done'[p] => done[p]
    BY <1>1, <1>4, <1>7 DEF SourceStep, SourceStart, SourceEnter, SourceSend, SourceQuit,
       SourceSeesNothing, SourceWait, SourceRelock, SourceInterrupted, SourceSpurious
  <2>4. source'[p] = "done" => done'[p] /\ msg_queue'[p] = <<>>
    BY <1>1, <1>4, <1>7 DEF SourceStep, SourceStart, SourceEnter, SourceSend, SourceQuit,
       SourceSeesNothing, SourceWait, SourceRelock, SourceInterrupted, SourceSpurious
  <2>5. \A o \in Out : done'[o] => Ended(o[1])'
    BY <1>5, <1>7, <2>1, <2>3 DEF Ended
  <2>6. \A o \in Out : source'[o] = "done" =>
                           done'[o] /\ (o[1] \notin Closers => msg_queue'[o] = <<>>)
    BY <1>5, <1>7, <2>1, <2>4
  <2>7. \A i \in In : sink'[i] = "done" =>
                          source'[Wire[i]] = "done" /\ nread'[i] = written'[Wire[i]]
    BY <1>1, <1>5, <1>7, <2>1, <2>2
  <2> QED
    BY <2>5, <2>6, <2>7 DEF EndInv
<1>8. ASSUME Next, ~Interrupt, NEW j \in In, SinkStep(j) PROVE EndInv'
  <2>1. /\ UNCHANGED <<source, done, msg_queue, written>>
        /\ \A i \in In \ {j} : sink'[i] = sink[i] /\ nread'[i] = nread[i]
    BY <1>1, <1>8 DEF SinkStep, SinkCollect, SinkPush, SinkNotify, SinkEnd, SinkInterrupted
  <2>2. sink'[j] = "done" => source[Wire[j]] = "done" /\ nread'[j] = written[Wire[j]]
    BY <1>1, <1>4, <1>8 DEF SinkStep, SinkCollect, SinkPush, SinkNotify, SinkEnd,
       SinkInterrupted, SinkLoop
  <2>3. \A b \in Blocks : Ended(b) => Ended(b)'
    BY <1>1, <1>8 DEF Ended, SinkStep, SinkCollect, SinkPush, SinkNotify, SinkEnd, SinkInterrupted
  <2>4. \A o \in Out : done[o] => Ended(o[1])'
    BY <1>1, <1>5, <1>8, <2>3
  <2> QED
    BY <1>5, <1>8, <2>1, <2>2, <2>4 DEF EndInv
<1> QED
  BY <1>2, <1>3, <1>6, <1>7, <1>8 DEF Next, Terminated

LEMMA InitEnd == Init => EndInv
BY WireAssumption DEF Init, EndInv

\* A sourcer that ended by itself has sent, and its sinkers have pushed, all
\* that the block's work() posted, in any network of blocks.
THEOREM DrainedWhenDoneCorrect == Spec => []DrainedWhenDone
<1>1. TypeOK /\ TransferInv /\ EndInv => DrainedWhenDone
  <2> SUFFICES ASSUME TypeOK, TransferInv, EndInv, ~interrupted PROVE DrainedWhenDone
    BY DEF DrainedWhenDone
  <2>2. ASSUME NEW i \in In, sink[i] = "done", Wire[i][1] \notin Closers
        PROVE  pushed[i] = posted[Wire[i]]
    <3> DEFINE o == Wire[i]
    <3>1. o \in Out
      BY WireAssumption
    <3>2. source[o] = "done" /\ nread[i] = written[o] /\ msg_queue[o] = <<>>
      BY <2>2, <3>1 DEF EndInv
    <3>3. posted[o] \in Nat /\ pushed[i] \in Nat
      BY <3>1 DEF TypeOK
    <3>4. Sent(o) = posted[o]
      BY <3>2, <3>3 DEF Sent
    <3>5. pushed[i] <= posted[o] /\ pending[i] = {}
      BY <2>2, <3>4 DEF TransferInv, SinkInv
    <3>6. CASE pushed[i] < posted[o]
      <4>1. pushed[i] + 1 \in 1..Sent(o)
        BY <3>3, <3>4, <3>6
      <4>2. PICK t \in tags[o] : t.msg.seq = pushed[i] + 1
        BY <3>1, <4>1 DEF TransferInv, StreamInv
      <4>3. t.offset < nread[i]
        BY <3>1, <3>2 DEF TransferInv, StreamInv
      <4>4. t \in pending[i]
        BY <3>3, <4>2, <4>3 DEF TransferInv, SinkInv
      <4> QED
        BY <3>5, <4>4
    <3> QED
      BY <3>3, <3>5, <3>6
  <2>3. \A o \in Out : source[o] = "done" /\ o[1] \notin Closers => msg_queue[o] = <<>>
    BY DEF EndInv
  <2> QED
    BY <2>2, <2>3 DEF DrainedWhenDone
<1> QED
  BY <1>1, InitType, NextType, InitTransfer, NextTransfer, InitEnd, NextEnd, PTL DEF Spec

\* Where every message on its way is, who is about to notify whom, and what
\* each thread that has ended leaves behind, in every network of blocks.
THEOREM IInvCorrect == Spec => []IInv
<1>1. Init => WakeInv
  BY DEF Init, WakeInv, PostWakesSourcer
<1>2. TypeOK /\ TransferInv /\ WakeInv /\ QueueWakeInv /\ EndInv => IInv
  BY DEF IInv, QueueWakeInv
<1> QED
  BY <1>1, <1>2, InitType, NextType, InitTransfer, NextTransfer, NextWake,
     InitQueueWake, NextQueueWake, InitEnd, NextEnd, PTL DEF Spec
-----------------------------------------------------------------------------
(* MsgPassing implements MsgBus.  The channel to an input holds the messages *)
(* that were posted on its output and not popped from it yet, in the order   *)
(* of the posts; OnePlace says where in the blocks, the sourcers, the        *)
(* sinkers and the streams they are.                                         *)

\* What work() has not popped yet of what was posted for input i.
Waiting(i) ==
    [k \in 1..(posted[Wire[i]] - Len(got[i])) |-> Message(Wire[i], Len(got[i]) + k)]

Backlog == [i \in In |-> Waiting(i)]

WaitingBus == INSTANCE MsgBus WITH chan <- Backlog

-----------------------------------------------------------------------------
(* Runs of consecutive messages *)

\* The messages g + 1, ..., n of an output.
Run(o, g, n) == [k \in 1..(n - g) |-> Message(o, g + k)]

LEMMA RunProperties ==
    ASSUME NEW o \in Out, NEW g \in Nat, NEW n \in Nat, g <= n
    PROVE  /\ Run(o, g, n) \in Seq(Messages)
           /\ Len(Run(o, g, n)) = n - g
           /\ \A k \in 1..(n - g) : Run(o, g, n)[k] = Message(o, g + k)
<1>1. PICK d \in Nat : d = n - g
  OBVIOUS
<1>2. \A k \in 1..d : Message(o, g + k) \in Messages
  BY DEF Message, Messages
<1>3. Run(o, g, n) \in [1..d -> Messages]
  BY <1>1, <1>2 DEF Run
<1>4. Run(o, g, n) \in Seq(Messages)
  BY <1>3, SeqDef
<1>5. Len(Run(o, g, n)) = d
  BY <1>3, <1>4, LenProperties
<1> QED
  BY <1>1, <1>4, <1>5 DEF Run

\* A post makes the run longer at its end.
LEMMA RunAppend ==
    ASSUME NEW o \in Out, NEW g \in Nat, NEW n \in Nat, g <= n
    PROVE  Run(o, g, n + 1) = Append(Run(o, g, n), Message(o, n + 1))
<1>1. PICK d \in Nat : d = n - g
  OBVIOUS
<1>2. g <= n + 1 /\ n + 1 \in Nat /\ (n + 1) - g = d + 1 /\ g + (d + 1) = n + 1
  BY <1>1
<1> DEFINE s == Run(o, g, n)
           t == Run(o, g, n + 1)
           a == Append(s, Message(o, n + 1))
<1>3. s \in Seq(Messages) /\ Len(s) = d /\ \A k \in 1..d : s[k] = Message(o, g + k)
  BY <1>1, RunProperties
<1>4. t \in Seq(Messages) /\ Len(t) = d + 1 /\ \A k \in 1..(d + 1) : t[k] = Message(o, g + k)
  BY <1>2, RunProperties
<1>5. Message(o, n + 1) \in Messages
  BY DEF Message, Messages
<1> HIDE DEF s, t
<1>6. /\ a \in Seq(Messages) /\ Len(a) = d + 1
      /\ \A k \in 1..d : a[k] = s[k]
      /\ a[d + 1] = Message(o, n + 1)
  BY <1>3, <1>5, AppendProperties
<1>7. ASSUME NEW k \in 1..(d + 1) PROVE t[k] = a[k]
  <2>1. CASE k \in 1..d
    BY <1>3, <1>4, <1>6, <2>1
  <2>2. CASE k = d + 1
    BY <1>2, <1>4, <1>6, <2>2
  <2>3. k \in 1..d \/ k = d + 1
    OBVIOUS
  <2> QED
    BY <2>1, <2>2, <2>3
<1>8. t = a
  BY <1>4, <1>6, <1>7, SeqEqual
<1> QED
  BY <1>8 DEF s, t

\* A pop makes it shorter at its head.
LEMMA RunTail ==
    ASSUME NEW o \in Out, NEW g \in Nat, NEW n \in Nat, g < n
    PROVE  /\ Run(o, g, n) # <<>>
           /\ Head(Run(o, g, n)) = Message(o, g + 1)
           /\ Tail(Run(o, g, n)) = Run(o, g + 1, n)
<1>1. PICK d \in Nat : d + 1 = n - g
  BY n - g - 1 \in Nat
<1>2. g <= n /\ g + 1 <= n /\ g + 1 \in Nat /\ n - (g + 1) = d
  BY <1>1
<1> DEFINE s == Run(o, g, n)
           t == Run(o, g + 1, n)
<1>3. s \in Seq(Messages) /\ Len(s) = d + 1 /\ \A k \in 1..(d + 1) : s[k] = Message(o, g + k)
  BY <1>1, <1>2, RunProperties
<1>4. t \in Seq(Messages) /\ Len(t) = d /\ \A k \in 1..d : t[k] = Message(o, (g + 1) + k)
  BY <1>2, RunProperties
<1> HIDE DEF s, t
<1>5. s # <<>>
  BY <1>3, EmptySeq
<1>6. /\ Tail(s) \in Seq(Messages) /\ Len(Tail(s)) = d
      /\ \A k \in 1..d : Tail(s)[k] = s[k + 1]
  BY <1>3, <1>5, HeadTailProperties
<1>7. Head(s) = Message(o, g + 1)
  <2>1. Head(s) = s[1] /\ 1 \in 1..(d + 1)
    BY <1>3, <1>5
  <2> QED
    BY <1>3, <2>1
<1>8. ASSUME NEW k \in 1..d PROVE Tail(s)[k] = t[k]
  <2>1. k + 1 \in 1..(d + 1) /\ g + (k + 1) = (g + 1) + k
    OBVIOUS
  <2> QED
    BY <1>3, <1>4, <1>6, <2>1
<1>9. Tail(s) = t
  BY <1>4, <1>6, <1>8, SeqEqual
<1> QED
  BY <1>5, <1>7, <1>9 DEF s, t

\* The run that waits for an input, and that nothing popped was not posted.
LEMMA WaitingRun ==
    ASSUME TypeOK, TransferInv, NEW i \in In
    PROVE  /\ Waiting(i) = Run(Wire[i], Len(got[i]), posted[Wire[i]])
           /\ Wire[i] \in Out /\ Len(got[i]) \in Nat /\ posted[Wire[i]] \in Nat
           /\ Len(got[i]) <= pushed[i] /\ pushed[i] \in Nat
           /\ pushed[i] <= Sent(Wire[i]) /\ Sent(Wire[i]) \in Nat
           /\ Sent(Wire[i]) <= posted[Wire[i]]
<1>1. Wire[i] \in Out
  BY WireAssumption
<1>2. /\ Len(got[i]) \in Nat /\ pushed[i] \in Nat /\ posted[Wire[i]] \in Nat
      /\ Len(msg_queue[Wire[i]]) \in Nat
  BY <1>1, LenProperties DEF TypeOK
<1>3. Len(got[i]) <= pushed[i] /\ pushed[i] <= Sent(Wire[i])
  BY DEF TransferInv, GotInv, SinkInv
<1>4. Len(msg_queue[Wire[i]]) <= posted[Wire[i]]
  BY <1>1 DEF TransferInv, SourceInv
<1>5. Sent(Wire[i]) \in Nat /\ Sent(Wire[i]) <= posted[Wire[i]]
  BY <1>2, <1>4 DEF Sent
<1> QED
  BY <1>1, <1>2, <1>3, <1>5 DEF Waiting, Run

-----------------------------------------------------------------------------
(* The refinement, step by step *)

\* A post of message passing is a post on the bus: it reaches the channel of
\* every connected input.
LEMMA PostIsPost ==
    ASSUME TypeOK, TransferInv, TransferInv', TypeOK',
           NEW o \in Out, PushToSourcer(o), UNCHANGED got
    PROVE  WaitingBus!Post(o)
<1>1. posted' = [posted EXCEPT ![o] = @ + 1] /\ posted \in [Out -> Nat]
  BY DEF PushToSourcer, TypeOK
<1>2. posted'[o] = posted[o] + 1 /\ \A p \in Out : p # o => posted'[p] = posted[p]
  BY <1>1
<1>3. ASSUME NEW i \in In
      PROVE  Waiting(i)' = IF Wire[i] = o THEN Append(Waiting(i), Message(o, posted[o] + 1))
                                          ELSE Waiting(i)
  <2>1. /\ Waiting(i) = Run(Wire[i], Len(got[i]), posted[Wire[i]])
        /\ Wire[i] \in Out /\ Len(got[i]) \in Nat /\ posted[Wire[i]] \in Nat
        /\ Len(got[i]) <= posted[Wire[i]]
    BY WaitingRun
  <2>2. Waiting(i)' = Run(Wire[i], Len(got[i]), posted'[Wire[i]])
    BY DEF Waiting, Run
  <2>3. CASE Wire[i] = o
    <3>1. Run(o, Len(got[i]), posted[o] + 1)
            = Append(Run(o, Len(got[i]), posted[o]), Message(o, posted[o] + 1))
      BY <2>1, <2>3, RunAppend
    <3> QED
      BY <1>2, <2>1, <2>2, <2>3, <3>1
  <2>4. CASE Wire[i] # o
    BY <1>2, <2>1, <2>2, <2>4
  <2> QED
    BY <2>3, <2>4
<1>4. Backlog' = [i \in In |-> IF Wire[i] = o THEN Append(Backlog[i], Message(o, posted[o] + 1))
                                              ELSE Backlog[i]]
  BY <1>3 DEF Backlog
<1> QED
  BY <1>1, <1>4 DEF WaitingBus!Post, WaitingBus!Message, Message

\* A pop takes the oldest message from the channel of one input.
LEMMA PopIsTake ==
    ASSUME TypeOK, TransferInv, NEW b \in Blocks, Pop(b)
    PROVE  \E i \in In : WaitingBus!Take(i)
<1>1. /\ queue[b] # <<>>
      /\ got' = [got EXCEPT ![<<b, Head(queue[b]).offset>>] = Append(@, Head(queue[b]).msg)]
      /\ UNCHANGED <<pushed, posted>>
  BY DEF Pop
<1>2. PICK i \in In :
        /\ i = <<b, Head(queue[b]).offset>>
        /\ Head(queue[b]).msg = Message(Wire[i], Len(got[i]) + 1)
        /\ Len(got[i]) + 1 <= pushed[i]
  BY <1>1, NextQueued
<1> DEFINE g == Len(got[i])
           n == posted[Wire[i]]
<1>3. /\ Wire[i] \in Out /\ g \in Nat /\ n \in Nat /\ g < n
      /\ Waiting(i) = Run(Wire[i], g, n)
  BY <1>2, WaitingRun
<1>4. Waiting(i) # <<>> /\ Head(Waiting(i)) = Message(Wire[i], g + 1)
  BY <1>3, RunTail
<1>5. got' = [got EXCEPT ![i] = Append(@, Head(Waiting(i)))]
  BY <1>1, <1>2, <1>4
<1>6. Len(got'[i]) = g + 1 /\ \A j \in In : j # i => got'[j] = got[j]
  <2>1. g + 1 \in Nat \ {0}
    BY <1>3
  <2>2. Message(Wire[i], g + 1) \in Messages
    BY <1>3, <2>1 DEF Message, Messages
  <2>3. got \in [In -> Seq(Messages)]
    BY DEF TypeOK
  <2> QED
    BY <1>4, <1>5, <2>2, <2>3, AppendProperties
<1>7. \A j \in In : Waiting(j)' = IF j = i THEN Tail(Waiting(i)) ELSE Waiting(j)
  <2>1. Waiting(i)' = Run(Wire[i], g + 1, n)
    BY <1>1, <1>6 DEF Waiting, Run
  <2>2. Waiting(i)' = Tail(Waiting(i))
    BY <1>3, <2>1, RunTail
  <2>3. \A j \in In : j # i => Waiting(j)' = Waiting(j)
    BY <1>1, <1>6 DEF Waiting
  <2> QED
    BY <2>2, <2>3
<1>8. Backlog' = [Backlog EXCEPT ![i] = Tail(@)] /\ Backlog[i] = Waiting(i)
  BY <1>7 DEF Backlog
<1>9. WaitingBus!Take(i)
  BY <1>1, <1>4, <1>5, <1>8 DEF WaitingBus!Take
<1> QED
  BY <1>9

\* A step that neither posts nor pops is no step of the bus.
LEMMA OtherIsStutter ==
    ASSUME UNCHANGED <<posted, got>>
    PROVE  UNCHANGED WaitingBus!vars
BY DEF WaitingBus!vars, Backlog, Waiting

LEMMA StepIsBusStep ==
    TypeOK /\ TransferInv /\ TypeOK' /\ TransferInv' /\ [Next]_vars => [WaitingBus!Next]_(WaitingBus!vars)
<1> SUFFICES ASSUME TypeOK, TransferInv, TypeOK', TransferInv', [Next]_vars
             PROVE  [WaitingBus!Next]_(WaitingBus!vars)
  OBVIOUS
<1> USE DEF masterVars, sourceVars, streamVars, sinkVars, history
<1>1. ASSUME NEW o \in Out, WaitingBus!Post(o) PROVE [WaitingBus!Next]_(WaitingBus!vars)
  BY <1>1 DEF WaitingBus!Next
<1>2. ASSUME UNCHANGED <<posted, got>> PROVE [WaitingBus!Next]_(WaitingBus!vars)
  BY <1>2, OtherIsStutter
<1>3. ASSUME NEW b \in Blocks, UserStep(b) \/ MasterStep(b) \/ PopSpurious(b)
      PROVE  [WaitingBus!Next]_(WaitingBus!vars)
  <2>1. ASSUME NEW k \in 0..(NumOut[b] - 1), Post(b, k) PROVE [WaitingBus!Next]_(WaitingBus!vars)
    <3>1. <<b, k>> \in Out /\ PushToSourcer(<<b, k>>) /\ UNCHANGED got
      BY <2>1, OutPorts DEF Post
    <3> QED
      BY <1>1, <3>1, PostIsPost
  <2>2. CASE ExitPosting(b)
    <3>1. <<b, 0>> \in Out /\ PushToSourcer(<<b, 0>>) /\ UNCHANGED got
      BY <2>2, CloserHasOutput DEF ExitPosting
    <3> QED
      BY <1>1, <3>1, PostIsPost
  <2>3. CASE Pop(b)
    BY <2>3, PopIsTake DEF WaitingBus!Next
  <2>4. CASE CheckQueue(b) \/ Finish(b) \/ PostNotify(b) \/ PopWait(b) \/ StopSet(b) \/ StopNotify(b)
    BY <1>2, <2>4 DEF CheckQueue, Finish, PostNotify, PopWait, StopSet, StopNotify
  <2>5. CASE Exhaust(b) \/ MasterInterrupted(b) \/ ExitSilent(b) \/ PopSpurious(b)
    BY <1>2, <2>5 DEF Exhaust, MasterInterrupted, ExitSilent, PopSpurious
  <2> QED
    BY <1>3, <2>1, <2>2, <2>3, <2>4, <2>5 DEF UserStep, MasterStep
<1>4. ASSUME NEW o \in Out, SourceStep(o) \/ SourceSpurious(o) PROVE [WaitingBus!Next]_(WaitingBus!vars)
  <2>1. ASSUME NEW k \in 1..BufSize, SourceSend(o, k) PROVE UNCHANGED <<posted, got>>
    BY <2>1 DEF SourceSend
  <2>2. CASE SourceStart(o) \/ SourceEnter(o) \/ SourceQuit(o) \/ SourceSeesNothing(o)
    BY <1>2, <2>2 DEF SourceStart, SourceEnter, SourceQuit, SourceSeesNothing
  <2>3. CASE SourceWait(o) \/ SourceRelock(o) \/ SourceInterrupted(o) \/ SourceSpurious(o)
    BY <1>2, <2>3 DEF SourceWait, SourceRelock, SourceInterrupted, SourceSpurious
  <2> QED
    BY <1>2, <1>4, <2>1, <2>2, <2>3 DEF SourceStep
<1>5. ASSUME NEW i \in In, SinkStep(i) PROVE [WaitingBus!Next]_(WaitingBus!vars)
  BY <1>2, <1>5 DEF SinkStep, SinkCollect, SinkPush, SinkNotify, SinkEnd, SinkInterrupted
<1>6. CASE Interrupt
  BY <1>2, <1>6 DEF Interrupt
<1>7. CASE UNCHANGED vars
  BY <1>2, <1>7 DEF vars
<1> QED
  BY <1>3, <1>4, <1>5, <1>6, <1>7 DEF Next, Terminated

\* Message passing implements the bus, where the channel is what was posted for an
\* input and not popped.
LEMMA WaitingImplements == Spec => WaitingBus!Spec
<1>1. Init => WaitingBus!Init
  <2> SUFFICES ASSUME Init PROVE WaitingBus!Init
    OBVIOUS
  <2>1. \A i \in In : Waiting(i) = <<>>
    BY WireAssumption DEF Init, Waiting
  <2> QED
    BY <2>1 DEF Init, WaitingBus!Init, Backlog
<1> QED
  BY <1>1, InitType, NextType, InitTransfer, NextTransfer, StepIsBusStep, PTL DEF Spec, WaitingBus!Spec

-----------------------------------------------------------------------------
(* The places of a channel, one after the other *)

\* Two runs that meet are one.
LEMMA RunConcat ==
    ASSUME NEW o \in Out, NEW g \in Nat, NEW a \in Nat, NEW n \in Nat, g <= a, a <= n
    PROVE  Run(o, g, a) \o Run(o, a, n) = Run(o, g, n)
<1> DEFINE s == Run(o, g, a)
           t == Run(o, a, n)
           u == Run(o, g, n)
<1>1. PICK d \in Nat : d = a - g
  OBVIOUS
<1>2. PICK e \in Nat : e = n - a
  OBVIOUS
<1>3. g <= n /\ n - g = d + e /\ g + d = a
  BY <1>1, <1>2
<1>4. s \in Seq(Messages) /\ Len(s) = d /\ \A k \in 1..d : s[k] = Message(o, g + k)
  BY <1>1, RunProperties
<1>5. t \in Seq(Messages) /\ Len(t) = e /\ \A k \in 1..e : t[k] = Message(o, a + k)
  BY <1>2, RunProperties
<1>6. u \in Seq(Messages) /\ Len(u) = d + e /\ \A k \in 1..(d + e) : u[k] = Message(o, g + k)
  BY <1>3, RunProperties
<1> HIDE DEF s, t, u
<1>7. /\ s \o t \in Seq(Messages) /\ Len(s \o t) = d + e
      /\ \A k \in 1..(d + e) : (s \o t)[k] = IF k <= d THEN s[k] ELSE t[k - d]
  BY <1>4, <1>5, ConcatProperties
<1>8. ASSUME NEW k \in 1..(d + e) PROVE (s \o t)[k] = u[k]
  <2>1. CASE k <= d
    <3>1. k \in 1..d
      BY <2>1
    <3> QED
      BY <1>4, <1>6, <1>7, <2>1, <3>1
  <2>2. CASE ~ (k <= d)
    <3>1. k - d \in 1..e /\ a + (k - d) = g + k
      BY <1>3, <2>2
    <3>2. t[k - d] = Message(o, g + k)
      BY <1>5, <3>1
    <3> QED
      BY <1>6, <1>7, <2>2, <3>2
  <2> QED
    BY <2>1, <2>2
<1>9. s \o t = u
  BY <1>6, <1>7, <1>8, SeqEqual
<1> QED
  BY <1>9 DEF s, t, u

\* The tags of an output and the offsets of its messages.
LEMMA TagFacts ==
    ASSUME TypeOK, TransferInv, NEW o \in Out
    PROVE  /\ Sent(o) \in Nat
           /\ \A t \in tags[o] : /\ t.offset \in Nat /\ t.msg.seq \in 1..Sent(o)
                                 /\ t.msg = Message(o, t.msg.seq)
           /\ \A n \in 1..Sent(o) : \E t \in tags[o] : t.msg.seq = n
           /\ \A t, u \in tags[o] : t.msg.seq < u.msg.seq <=> t.offset < u.offset
           /\ \A t, u \in tags[o] : t.msg.seq = u.msg.seq <=> t.offset = u.offset
<1>1. /\ \A t \in tags[o] : t.msg.port = o /\ t.msg.seq \in 1..Sent(o)
      /\ \A n \in 1..Sent(o) : \E t \in tags[o] : t.msg.seq = n
      /\ \A t, u \in tags[o] : t.msg.seq < u.msg.seq <=> t.offset < u.offset
  BY DEF TransferInv, StreamInv
<1>2. \A t \in tags[o] : t.offset \in Nat /\ t.msg.seq \in Nat /\ t.msg \in Messages
  BY DEF TypeOK, Tags, Messages
<1>3. \A t \in tags[o] : t.msg = Message(o, t.msg.seq)
  BY <1>1, <1>2 DEF Messages, Message
<1>4. Sent(o) \in Nat
  <2>1. posted[o] \in Nat /\ Len(msg_queue[o]) \in Nat /\ Len(msg_queue[o]) <= posted[o]
    BY LenProperties DEF TypeOK, TransferInv, SourceInv
  <2> QED
    BY <2>1 DEF Sent
<1>5. \A t, u \in tags[o] : t.msg.seq = u.msg.seq <=> t.offset = u.offset
  <2> SUFFICES ASSUME NEW t \in tags[o], NEW u \in tags[o]
               PROVE  t.msg.seq = u.msg.seq <=> t.offset = u.offset
    OBVIOUS
  <2>1. t.msg.seq \in Nat /\ u.msg.seq \in Nat /\ t.offset \in Nat /\ u.offset \in Nat
    BY <1>2
  <2>2. /\ t.msg.seq < u.msg.seq <=> t.offset < u.offset
        /\ u.msg.seq < t.msg.seq <=> u.offset < t.offset
    BY <1>1
  <2> QED
    BY <2>1, <2>2
<1> QED
  BY <1>1, <1>2, <1>3, <1>4, <1>5

\* The tags of consecutive messages, in the order of their offsets, are a run.
LEMMA TagsRun ==
    ASSUME TypeOK, TransferInv, NEW o \in Out, NEW lo \in Nat, NEW hi \in Nat,
           lo <= hi, hi <= Sent(o), NEW ts \in SUBSET tags[o],
           \A t \in tags[o] : t \in ts <=> lo < t.msg.seq /\ t.msg.seq <= hi
    PROVE  MsgsOf(ts) = Run(o, lo, hi)
<1>1. PICK d \in Nat : d = hi - lo
  OBVIOUS
<1> DEFINE P == {t.offset : t \in ts}
           Tag(n) == CHOOSE t \in tags[o] : t.msg.seq = n
           s == [k \in 1..d |-> Tag(lo + k).offset]
<1>2. Sent(o) \in Nat /\ \A k \in 1..d : lo + k \in 1..Sent(o) /\ lo < lo + k /\ lo + k <= hi
  BY <1>1, TagFacts
<1>3. \A k \in 1..d : Tag(lo + k) \in ts /\ Tag(lo + k) \in tags[o] /\ Tag(lo + k).msg.seq = lo + k
  <2> SUFFICES ASSUME NEW k \in 1..d
               PROVE  Tag(lo + k) \in ts /\ Tag(lo + k) \in tags[o] /\ Tag(lo + k).msg.seq = lo + k
    OBVIOUS
  <2>1. \E t \in tags[o] : t.msg.seq = lo + k
    BY <1>2, TagFacts
  <2>2. Tag(lo + k) \in tags[o] /\ Tag(lo + k).msg.seq = lo + k
    BY <2>1
  <2> HIDE DEF Tag
  <2> QED
    BY <1>2, <2>2
<1> HIDE DEF Tag
<1>4. P \in SUBSET Nat
  BY TagFacts
<1>5. s \in [1..d -> P]
  BY <1>3
<1>6. \A m, n \in 1..d : m < n => s[m] < s[n]
  <2> SUFFICES ASSUME NEW m \in 1..d, NEW n \in 1..d, m < n PROVE s[m] < s[n]
    OBVIOUS
  <2>1. Tag(lo + m).msg.seq < Tag(lo + n).msg.seq
    BY <1>3
  <2> QED
    BY <1>3, <2>1, TagFacts
<1>7. \A k \in P : \E n \in 1..d : s[n] = k
  <2> SUFFICES ASSUME NEW t \in ts PROVE \E n \in 1..d : s[n] = t.offset
    OBVIOUS
  <2>1. t \in tags[o] /\ t.msg.seq \in Nat /\ lo < t.msg.seq /\ t.msg.seq <= hi
    BY TagFacts
  <2>2. PICK n \in 1..d : lo + n = t.msg.seq
    <3>1. t.msg.seq - lo \in 1..d /\ lo + (t.msg.seq - lo) = t.msg.seq
      BY <1>1, <2>1
    <3> QED
      BY <3>1
  <2>3. Tag(lo + n) \in tags[o] /\ Tag(lo + n).msg.seq = t.msg.seq
    BY <1>3, <2>2
  <2>4. Tag(lo + n).offset = t.offset
    BY <2>1, <2>3, TagFacts
  <2> QED
    BY <2>4
<1>8. Enumerated(P) = s
  <2>1. Lists(s, d, P)
    BY <1>5, <1>6, <1>7 DEF Lists
  <2> HIDE DEF s, P
  <2> QED
    BY <1>4, <2>1, EnumeratedIs
<1>9. ASSUME NEW n \in 1..d
      PROVE  (CHOOSE t \in ts : t.offset = s[n]).msg = Message(o, lo + n)
  <2>1. Tag(lo + n) \in ts /\ Tag(lo + n).offset = s[n]
    BY <1>3
  <2>2. PICK u : u = CHOOSE t \in ts : t.offset = s[n]
    OBVIOUS
  <2>3. u \in ts /\ u.offset = s[n]
    <3> HIDE DEF s
    <3> QED
      BY <2>1, <2>2
  <2>4. u \in tags[o] /\ u.offset = Tag(lo + n).offset
    BY <2>1, <2>3
  <2>5. u.msg.seq = lo + n
    BY <1>3, <2>4, TagFacts
  <2>6. u.msg = Message(o, lo + n)
    BY <2>4, <2>5, TagFacts
  <2> QED
    BY <2>2, <2>6
<1>10. MsgsOf(ts) = [n \in DOMAIN s |-> (CHOOSE t \in ts : t.offset = s[n]).msg]
  <2>1. MsgsOf(ts) = [n \in DOMAIN Enumerated(P) |->
                        (CHOOSE t \in ts : t.offset = Enumerated(P)[n]).msg]
    BY Zenon DEF MsgsOf
  <2> HIDE DEF s, P
  <2> QED
    BY <1>8, <2>1, Zenon
<1>11. DOMAIN s = 1..d
  OBVIOUS
<1> HIDE DEF s
<1>12. MsgsOf(ts) = [n \in 1..d |-> Message(o, lo + n)]
  BY <1>9, <1>10, <1>11
<1> QED
  BY <1>1, <1>12 DEF Run

\* The entries of an input in the queue of its block are a run.
LEMMA QueuedRun ==
    ASSUME TypeOK, TransferInv, NEW i \in In
    PROVE  Queued(i) = Run(Wire[i], Len(got[i]), pushed[i])
<1> DEFINE o == Wire[i]
           g == Len(got[i])
           q == queue[i[1]]
           P == {m \in DOMAIN q : q[m].offset = i[2]}
<1>1. /\ o \in Out /\ g \in Nat /\ pushed[i] \in Nat /\ g <= pushed[i]
      /\ i[1] \in Blocks /\ i = <<i[1], i[2]>>
  BY WaitingRun, InPorts
<1>2. q \in Seq(Entries) /\ DOMAIN q = 1..Len(q) /\ Len(q) \in Nat
  BY <1>1, LenProperties DEF TypeOK
<1>3. \A m \in P : /\ q[m].msg.port = o /\ q[m].msg.seq \in (g + 1)..pushed[i]
                   /\ q[m].msg = Message(o, q[m].msg.seq)
  <2> SUFFICES ASSUME NEW m \in 1..Len(q), q[m].offset = i[2]
               PROVE  /\ q[m].msg.port = o /\ q[m].msg.seq \in (g + 1)..pushed[i]
                      /\ q[m].msg = Message(o, q[m].msg.seq)
    BY <1>2
  <2>1. q[m].msg.port = o /\ q[m].msg.seq \in (g + 1)..pushed[i]
    BY <1>1 DEF TransferInv, QueueInv
  <2>2. q[m] \in Entries
    BY <1>2, ElementOfSeq
  <2> HIDE DEF q, o
  <2> QED
    BY <2>1, <2>2 DEF Entries, Messages, Message
<1>4. \A m, n \in P : m < n => q[m].msg.seq < q[n].msg.seq
  BY <1>1, <1>2 DEF TransferInv, QueueInv
<1>5. \A n \in (g + 1)..pushed[i] : \E m \in P : q[m].msg.seq = n
  <2> SUFFICES ASSUME NEW n \in (g + 1)..pushed[i] PROVE \E m \in P : q[m].msg.seq = n
    OBVIOUS
  <2>1. PICK m \in 1..Len(q) : q[m].offset = i[2] /\ q[m].msg.seq = n
    BY DEF TransferInv, QueueInv
  <2> QED
    BY <1>2, <2>1
<1>6. PICK d \in Nat : d = pushed[i] - g
  BY <1>1
<1> DEFINE Entry(n) == CHOOSE m \in P : q[m].msg.seq = n
           s == [k \in 1..d |-> Entry(g + k)]
<1> HIDE DEF P, q, o, g
<1>7. P \in SUBSET Nat
  BY <1>2 DEF P
<1>8. \A k \in 1..d : Entry(g + k) \in P /\ q[Entry(g + k)].msg.seq = g + k
  <2> SUFFICES ASSUME NEW k \in 1..d
               PROVE  Entry(g + k) \in P /\ q[Entry(g + k)].msg.seq = g + k
    OBVIOUS
  <2>1. g + k \in (g + 1)..pushed[i]
    BY <1>1, <1>6
  <2>2. \E m \in P : q[m].msg.seq = g + k
    BY <1>5, <2>1
  <2> QED
    BY <2>2
<1> HIDE DEF Entry
<1>9. Lists(s, d, P)
  <2>1. s \in [1..d -> P]
    BY <1>8
  <2>2. ASSUME NEW m \in 1..d, NEW n \in 1..d, m < n PROVE s[m] < s[n]
    <3>1. s[m] \in P /\ s[n] \in P /\ q[s[m]].msg.seq = g + m /\ q[s[n]].msg.seq = g + n
      BY <1>8
    <3>2. s[m] \in Nat /\ s[n] \in Nat
      BY <1>7, <3>1
    <3>3. q[s[m]].msg.seq < q[s[n]].msg.seq /\ q[s[m]].msg.seq \in Nat /\ q[s[n]].msg.seq \in Nat
      BY <1>1, <2>2, <3>1
    <3> HIDE DEF s
    <3>4. ~ (s[n] < s[m])
      <4> SUFFICES ASSUME s[n] < s[m] PROVE FALSE
        OBVIOUS
      <4>1. q[s[n]].msg.seq < q[s[m]].msg.seq
        BY <1>4, <3>1
      <4> QED
        BY <3>3, <4>1
    <3>5. s[m] # s[n]
      BY <3>3
    <3> QED
      BY <3>2, <3>4, <3>5
  <2>3. ASSUME NEW m \in P PROVE \E n \in 1..d : s[n] = m
    <3>1. q[m].msg.seq \in (g + 1)..pushed[i]
      BY <1>3
    <3>2. PICK n \in 1..d : g + n = q[m].msg.seq
      <4>1. q[m].msg.seq - g \in 1..d /\ g + (q[m].msg.seq - g) = q[m].msg.seq
        BY <1>1, <1>6, <3>1
      <4> QED
        BY <4>1
    <3>3. s[n] \in P /\ q[s[n]].msg.seq = q[m].msg.seq
      BY <1>8, <3>2
    <3>4. s[n] \in Nat /\ m \in Nat /\ q[m].msg.seq \in Int
      BY <1>1, <1>7, <3>1, <3>3
    <3> HIDE DEF s
    <3>5. ~ (s[n] < m) /\ ~ (m < s[n])
      <4>1. s[n] < m => q[s[n]].msg.seq < q[m].msg.seq
        BY <1>4, <3>3
      <4>2. m < s[n] => q[m].msg.seq < q[s[n]].msg.seq
        BY <1>4, <3>3
      <4> QED
        BY <3>3, <3>4, <4>1, <4>2
    <3> QED
      BY <3>4, <3>5
  <2> QED
    BY <2>1, <2>2, <2>3 DEF Lists
<1>10. Enumerated(P) = s
  <2> HIDE DEF s
  <2> QED
    BY <1>7, <1>9, EnumeratedIs
<1>11. Queued(i) = [n \in DOMAIN s |-> q[s[n]].msg]
  <2> HIDE DEF s
  <2> QED
    BY <1>10 DEF Queued, P, q
<1>12. DOMAIN s = 1..d /\ \A n \in 1..d : q[s[n]].msg = Message(o, g + n)
  <2>1. ASSUME NEW n \in 1..d PROVE q[s[n]].msg = Message(o, g + n)
    <3>1. s[n] \in P /\ q[s[n]].msg.seq = g + n
      BY <1>8
    <3> HIDE DEF s
    <3> QED
      BY <1>3, <3>1
  <2> QED
    BY <2>1
<1> HIDE DEF s
<1>13. Queued(i) = [n \in 1..d |-> Message(o, g + n)]
  BY <1>11, <1>12
<1> QED
  BY <1>6, <1>13 DEF Run, o, g

\* The queue of a sourcer is a run.
LEMMA SourceRun ==
    ASSUME TypeOK, TransferInv, NEW o \in Out
    PROVE  msg_queue[o] = Run(o, Sent(o), posted[o])
<1>1. /\ msg_queue[o] \in Seq(Messages) /\ posted[o] \in Nat
      /\ Len(msg_queue[o]) \in Nat /\ Len(msg_queue[o]) <= posted[o]
      /\ \A n \in 1..Len(msg_queue[o]) : msg_queue[o][n] = Message(o, Sent(o) + n)
  BY LenProperties DEF TypeOK, TransferInv, SourceInv
<1>2. Sent(o) \in Nat /\ Sent(o) <= posted[o] /\ posted[o] - Sent(o) = Len(msg_queue[o])
  BY <1>1 DEF Sent
<1> DEFINE a == Sent(o)
           n == posted[o]
           l == Len(msg_queue[o])
           r == Run(o, a, n)
<1>3. a \in Nat /\ n \in Nat /\ a <= n /\ n - a = l
  BY <1>1, <1>2
<1>4. r \in Seq(Messages) /\ Len(r) = l /\ \A k \in 1..l : r[k] = Message(o, a + k)
  <2> HIDE DEF a, n, l
  <2>1. r \in Seq(Messages) /\ Len(r) = n - a /\ \A k \in 1..(n - a) : r[k] = Message(o, a + k)
    BY <1>3, RunProperties
  <2> QED
    BY <1>3, <2>1
<1> HIDE DEF r
<1>5. r = msg_queue[o]
  BY <1>1, <1>4, SeqEqual
<1> QED
  BY <1>5 DEF r

\* What is in flight to an input, from the queue of its block back to that of the
\* sourcer, is what was posted for it and not popped.
LEMMA InFlightIsWaiting ==
    ASSUME TypeOK, TransferInv, NEW i \in In
    PROVE  InFlight(i) = Waiting(i)
<1> DEFINE o == Wire[i]
           g == Len(got[i])
           Ahead == {t \in tags[o] : t.offset >= nread[i]}
<1>1. /\ o \in Out /\ g \in Nat /\ pushed[i] \in Nat /\ posted[o] \in Nat /\ Sent(o) \in Nat
      /\ g <= pushed[i] /\ pushed[i] <= Sent(o) /\ Sent(o) <= posted[o]
      /\ Waiting(i) = Run(o, g, posted[o])
  BY WaitingRun
<1>2. /\ nread[i] \in Nat /\ pending[i] \in SUBSET tags[o]
      /\ \A t \in tags[o] :
            /\ t \in pending[i] <=> t.offset < nread[i] /\ t.msg.seq > pushed[i]
            /\ t.msg.seq <= pushed[i] => t.offset < nread[i]
  BY DEF TypeOK, TransferInv, SinkInv
\* the last message whose tag the sinker has read past
<1>3. PICK h \in Nat : /\ pushed[i] <= h /\ h <= Sent(o)
                       /\ \A t \in tags[o] : t.offset < nread[i] <=> t.msg.seq <= h
  <2> DEFINE T == {n \in pushed[i]..Sent(o) :
                      \A t \in tags[o] : t.msg.seq > n => t.offset >= nread[i]}
  <2>1. Sent(o) \in T
    <3>1. \A t \in tags[o] : ~ (t.msg.seq > Sent(o))
      BY <1>1, TagFacts
    <3> QED
      BY <1>1, <3>1
  <2>2. T \in SUBSET Nat
    BY <1>1
  <2>3. PICK h \in T : \A k \in T : h <= k
    <3> HIDE DEF T
    <3> QED
      BY <2>1, <2>2, LeastMember
  <2>4. h \in Nat /\ pushed[i] <= h /\ h <= Sent(o)
    BY <1>1
  <2>5. ASSUME NEW t \in tags[o] PROVE t.offset < nread[i] <=> t.msg.seq <= h
    <3>1. t.offset \in Nat /\ t.msg.seq \in Nat
      BY <1>1, TagFacts
    <3>2. t.msg.seq > h => ~ (t.offset < nread[i])
      BY <1>2, <3>1
    <3>3. CASE t.msg.seq <= pushed[i]
      BY <1>1, <1>2, <2>4, <3>1, <3>3
    <3>4. CASE pushed[i] < t.msg.seq /\ t.msg.seq <= h
      <4> SUFFICES t.offset < nread[i]
        BY <3>4
      <4>1. h - 1 \in pushed[i]..Sent(o) /\ ~ (h <= h - 1)
        BY <1>1, <2>4, <3>1, <3>4
      <4>2. h - 1 \notin T
        <5> HIDE DEF T
        <5> QED
          BY <2>3, <4>1
      <4>3. PICK u \in tags[o] : u.msg.seq > h - 1 /\ ~ (u.offset >= nread[i])
        BY <4>1, <4>2
      <4>4. u.offset \in Nat /\ u.msg.seq \in Nat
        BY <1>1, TagFacts
      <4>5. t.msg.seq = u.msg.seq \/ t.msg.seq < u.msg.seq
        BY <2>4, <3>1, <3>4, <4>3, <4>4
      <4>6. t.offset = u.offset \/ t.offset < u.offset
        BY <1>1, <4>5, TagFacts
      <4> QED
        BY <1>2, <3>1, <4>3, <4>4, <4>6
    <3> QED
      BY <1>1, <2>4, <3>1, <3>2, <3>3, <3>4
  <2> QED
    BY <2>4, <2>5
<1>4. Queued(i) = Run(o, g, pushed[i])
  BY QueuedRun
<1>5. MsgsOf(pending[i]) = Run(o, pushed[i], h)
  <2>1. \A t \in tags[o] : t \in pending[i] <=> pushed[i] < t.msg.seq /\ t.msg.seq <= h
    <3> SUFFICES ASSUME NEW t \in tags[o]
                 PROVE  t \in pending[i] <=> pushed[i] < t.msg.seq /\ t.msg.seq <= h
      OBVIOUS
    <3>1. t.msg.seq \in Nat
      BY <1>1, TagFacts
    <3>2. t.msg.seq > pushed[i] <=> pushed[i] < t.msg.seq
      BY <1>1, <3>1
    <3> QED
      BY <1>2, <1>3, <3>2
  <2> HIDE DEF o
  <2> QED
    BY <1>1, <1>2, <1>3, <2>1, TagsRun
<1>6. MsgsOf(Ahead) = Run(o, h, Sent(o))
  <2>1. \A t \in tags[o] : t \in Ahead <=> h < t.msg.seq /\ t.msg.seq <= Sent(o)
    <3> SUFFICES ASSUME NEW t \in tags[o]
                 PROVE  t \in Ahead <=> h < t.msg.seq /\ t.msg.seq <= Sent(o)
      OBVIOUS
    <3>1. t.msg.seq \in Nat /\ t.msg.seq <= Sent(o) /\ t.offset \in Nat
      BY <1>1, TagFacts
    <3> QED
      BY <1>2, <1>3, <3>1
  <2>2. Ahead \in SUBSET tags[o]
    OBVIOUS
  <2> HIDE DEF o, Ahead
  <2> QED
    BY <1>1, <1>3, <2>1, <2>2, TagsRun
<1>7. msg_queue[o] = Run(o, Sent(o), posted[o])
  BY <1>1, SourceRun
<1>8. InFlight(i) = ((Run(o, g, pushed[i]) \o Run(o, pushed[i], h)) \o Run(o, h, Sent(o)))
                      \o Run(o, Sent(o), posted[o])
  BY <1>4, <1>5, <1>6, <1>7 DEF InFlight
<1> HIDE DEF o, g
<1>9. Run(o, g, pushed[i]) \o Run(o, pushed[i], h) = Run(o, g, h)
  BY <1>1, <1>3, RunConcat
<1>10. Run(o, g, h) \o Run(o, h, Sent(o)) = Run(o, g, Sent(o))
  BY <1>1, <1>3, g <= h, RunConcat
<1>11. Run(o, g, Sent(o)) \o Run(o, Sent(o), posted[o]) = Run(o, g, posted[o])
  BY <1>1, g <= Sent(o), RunConcat
<1> QED
  BY <1>1, <1>8, <1>9, <1>10, <1>11

SameChannels == Channels = Backlog

LEMMA ChannelsAreSame == TypeOK /\ TransferInv => SameChannels
BY InFlightIsWaiting DEF SameChannels, Channels, Backlog

\* Message passing implements the bus: whatever the threads, the mutexes, the
\* stream buffers and the stops do, what is on its way to an input - in the queue of
\* its block, with its sinker, in the stream, in the queue of the sourcer - is a
\* channel to which every post on the input's output adds one message at the end, and
\* from the head of which work() takes.
THEOREM ImplementsBusCorrect == Spec => ImplementsBus
<1>1. Init => Bus!Init
  <2> SUFFICES ASSUME Init PROVE Bus!Init
    OBVIOUS
  <2>1. \A i \in In : Waiting(i) = <<>>
    BY WireAssumption DEF Init, Waiting
  <2>2. \A i \in In : InFlight(i) = <<>>
    BY <2>1, InitType, InitTransfer, InFlightIsWaiting
  <2> QED
    BY <2>2 DEF Init, Bus!Init, Channels
<1>2. TypeOK /\ TransferInv /\ TypeOK' /\ TransferInv' /\ [Next]_vars => [Bus!Next]_(Bus!vars)
  <2> SUFFICES ASSUME TypeOK, TransferInv, TypeOK', TransferInv', [Next]_vars
               PROVE  [Bus!Next]_(Bus!vars)
    OBVIOUS
  <2>1. Channels = Backlog
    BY ChannelsAreSame DEF SameChannels
  <2>2. SameChannels'
    BY ChannelsAreSame, PTL
  <2>3. [WaitingBus!Next]_(WaitingBus!vars)
    BY StepIsBusStep
  <2> QED
    BY <2>1, <2>2, <2>3
    DEF SameChannels, WaitingBus!Next, WaitingBus!vars, WaitingBus!Post, WaitingBus!Take, WaitingBus!Message,
        Bus!Next, Bus!vars, Bus!Post, Bus!Take, Bus!Message
<1> QED
  BY <1>1, <1>2, InitType, NextType, InitTransfer, NextTransfer, PTL
  DEF Spec, ImplementsBus, Bus!Spec

-----------------------------------------------------------------------------
(* Where the messages of a channel are *)

Places == {"popped", "queued", "collected", "in stream", "at source"}

\* Message n of the output that input i is connected to is at a place.
At(x, i, n) ==
    \/ x = "popped" /\ n <= Len(got[i])
    \/ x = "queued" /\ \E m \in 1..Len(queue[i[1]]) :
                           queue[i[1]][m].offset = i[2] /\ queue[i[1]][m].msg.seq = n
    \/ x = "collected" /\ \E t \in pending[i] : t.msg.seq = n
    \/ x = "in stream" /\ \E t \in tags[Wire[i]] : t.offset >= nread[i] /\ t.msg.seq = n
    \/ x = "at source" /\ \E m \in 1..Len(msg_queue[Wire[i]]) :
                                  msg_queue[Wire[i]][m].seq = n

\* On its way to an input a posted message is at exactly one place.
OnePlace ==
    \A i \in In : \A n \in 1..posted[Wire[i]] :
        \E x \in Places : \A y \in Places : At(y, i, n) <=> y = x

\* What is at each place, by the counts and by the tag of the message.
LEMMA PlaceOf ==
    ASSUME TypeOK, TransferInv, NEW i \in In, NEW n \in 1..posted[Wire[i]]
    PROVE  /\ At("popped", i, n) <=> n <= Len(got[i])
           /\ At("queued", i, n) <=> Len(got[i]) < n /\ n <= pushed[i]
           /\ At("collected", i, n) <=>
                  \E t \in tags[Wire[i]] : t.msg.seq = n /\ t.offset < nread[i] /\ n > pushed[i]
           /\ At("in stream", i, n) <=>
                  \E t \in tags[Wire[i]] : t.msg.seq = n /\ t.offset >= nread[i]
           /\ At("at source", i, n) <=> n > Sent(Wire[i])
<1> DEFINE o == Wire[i]
<1>1. /\ o \in Out /\ Len(got[i]) \in Nat /\ posted[o] \in Nat /\ pushed[i] \in Nat
      /\ Sent(o) \in Nat /\ n \in Nat
  BY WaitingRun
<1>2. At("popped", i, n) <=> n <= Len(got[i])
  BY DEF At
<1>3. At("queued", i, n) <=> Len(got[i]) < n /\ n <= pushed[i]
  <2>1. i[1] \in Blocks /\ i = <<i[1], i[2]>>
    BY InPorts
  <2>2. ASSUME NEW m \in 1..Len(queue[i[1]]), queue[i[1]][m].offset = i[2]
        PROVE  queue[i[1]][m].msg.seq \in (Len(got[i]) + 1)..pushed[i]
    BY <2>1, <2>2 DEF TransferInv, QueueInv
  <2>3. ASSUME Len(got[i]) < n, n <= pushed[i]
        PROVE  \E m \in 1..Len(queue[i[1]]) :
                   queue[i[1]][m].offset = i[2] /\ queue[i[1]][m].msg.seq = n
    <3>1. n \in (Len(got[i]) + 1)..pushed[i]
      BY <1>1, <2>3
    <3> QED
      BY <3>1 DEF TransferInv, QueueInv
  <2>4. n \in (Len(got[i]) + 1)..pushed[i] => Len(got[i]) < n /\ n <= pushed[i]
    BY <1>1
  <2> QED
    BY <2>2, <2>3, <2>4 DEF At
<1>4. At("collected", i, n) <=>
          \E t \in tags[o] : t.msg.seq = n /\ t.offset < nread[i] /\ n > pushed[i]
  BY DEF At, TransferInv, SinkInv
<1>5. At("in stream", i, n) <=> \E t \in tags[o] : t.msg.seq = n /\ t.offset >= nread[i]
  BY DEF At
<1>6. At("at source", i, n) <=> n > Sent(o)
  <2>1. \A m \in 1..Len(msg_queue[o]) : msg_queue[o][m].seq = Sent(o) + m
    <3>1. \A m \in 1..Len(msg_queue[o]) : msg_queue[o][m] = Message(o, Sent(o) + m)
      BY <1>1 DEF TransferInv, SourceInv
    <3>2. \A k : Message(o, k).seq = k
      BY DEF Message
    <3> QED
      BY <3>1, <3>2
  <2>2. Len(msg_queue[o]) \in Nat /\ Sent(o) = posted[o] - Len(msg_queue[o])
    BY <1>1, LenProperties DEF TypeOK, Sent
  <2> DEFINE a == Sent(o)
             l == Len(msg_queue[o])
  <2>3. n > a => \E m \in 1..l : a + m = n
    <3>1. a \in Nat /\ l \in Nat /\ n <= a + l
      BY <1>1, <2>2
    <3> HIDE DEF a, l
    <3>2. n > a => n - a \in 1..l /\ a + (n - a) = n
      BY <1>1, <3>1
    <3> QED
      BY <3>2
  <2>4. \A m \in 1..l : a + m = n => n > a
    <3>1. a \in Nat /\ l \in Nat
      BY <1>1, <2>2
    <3> HIDE DEF a, l
    <3> QED
      BY <1>1, <3>1
  <2>5. At("at source", i, n) <=> \E m \in 1..Len(msg_queue[o]) : msg_queue[o][m].seq = n
    BY DEF At
  <2> QED
    BY <2>1, <2>3, <2>4, <2>5
<1> QED
  BY <1>2, <1>3, <1>4, <1>5, <1>6

\* Nothing is lost, nothing is there twice: between the post and the pop a
\* message is at exactly one of the places where the code keeps messages, for
\* each of the inputs that are connected to its output.
THEOREM OnePlaceCorrect == Spec => []OnePlace
<1>1. TypeOK /\ TransferInv => OnePlace
  <2> SUFFICES ASSUME TypeOK, TransferInv, NEW i \in In, NEW n \in 1..posted[Wire[i]]
               PROVE  \E x \in Places : \A y \in Places : At(y, i, n) <=> y = x
    BY DEF OnePlace
  <2> DEFINE o == Wire[i]
  <2>1. /\ o \in Out /\ Len(got[i]) \in Nat /\ posted[o] \in Nat /\ pushed[i] \in Nat
        /\ Sent(o) \in Nat /\ n \in Nat /\ n >= 1
        /\ Len(got[i]) <= pushed[i] /\ pushed[i] <= Sent(o)
    BY WaitingRun
  <2>2. /\ \A t \in tags[o] : t.msg.seq \in 1..Sent(o) /\ t.offset \in Nat
        /\ \A m \in 1..Sent(o) : \E t \in tags[o] : t.msg.seq = m
        /\ \A t, u \in tags[o] : t.msg.seq < u.msg.seq <=> t.offset < u.offset
        /\ \A t \in tags[o] : t.msg.seq <= pushed[i] => t.offset < nread[i]
        /\ nread[i] \in Nat
    BY <2>1 DEF TransferInv, StreamInv, SinkInv, TypeOK, Tags
  \* the tags of one message are at the same offset
  <2>3. \A t, u \in tags[o] : t.msg.seq = u.msg.seq => t.offset = u.offset
    <3> SUFFICES ASSUME NEW t \in tags[o], NEW u \in tags[o], t.msg.seq = u.msg.seq
                 PROVE  t.offset = u.offset
      OBVIOUS
    <3>1. t.msg.seq \in Nat /\ u.msg.seq \in Nat /\ t.offset \in Nat /\ u.offset \in Nat
      BY <2>1, <2>2
    <3>2. ~(t.msg.seq < u.msg.seq) /\ ~(u.msg.seq < t.msg.seq)
      BY <3>1
    <3>3. ~(t.offset < u.offset) /\ ~(u.offset < t.offset)
      BY <2>2, <3>2
    <3> QED
      BY <3>1, <3>3
  <2> DEFINE Past == \E t \in tags[o] : t.msg.seq = n /\ t.offset < nread[i]
             Ahead == \E t \in tags[o] : t.msg.seq = n /\ t.offset >= nread[i]
  <2>4. ~(Past /\ Ahead)
    BY <2>2, <2>3
  <2>5. n > Sent(o) => ~Past /\ ~Ahead
    BY <2>1, <2>2
  <2>6. n <= Sent(o) => Past \/ Ahead
    <3>1. n <= Sent(o) => n \in 1..Sent(o)
      BY <2>1
    <3> QED
      BY <2>2, <3>1
  <2>7. n <= pushed[i] => ~Ahead
    BY <2>1, <2>2
  <2>8. /\ At("popped", i, n) <=> n <= Len(got[i])
        /\ At("queued", i, n) <=> Len(got[i]) < n /\ n <= pushed[i]
        /\ At("collected", i, n) <=> Past /\ n > pushed[i]
        /\ At("in stream", i, n) <=> Ahead
        /\ At("at source", i, n) <=> n > Sent(o)
    BY PlaceOf
  <2> HIDE DEF Past, Ahead
  <2>9. CASE n <= Len(got[i])
    <3>1. n <= Len(got[i]) /\ ~(Len(got[i]) < n) /\ n <= pushed[i] /\ ~(n > pushed[i]) /\ ~(n > Sent(o))
      BY <2>1, <2>9
    <3>2. /\ At("popped", i, n) /\ ~At("queued", i, n) /\ ~At("collected", i, n)
          /\ ~At("in stream", i, n) /\ ~At("at source", i, n)
      BY <2>4, <2>5, <2>7, <2>8, <2>9, <3>1, Zenon
    <3>3. \A y \in Places : At(y, i, n) <=> y = "popped"
      BY <3>2, Zenon DEF Places
    <3> QED
      BY <3>3, Zenon DEF Places
  <2>10. CASE Len(got[i]) < n /\ n <= pushed[i]
    <3>1. ~(n <= Len(got[i])) /\ n <= pushed[i] /\ ~(n > pushed[i]) /\ ~(n > Sent(o))
      BY <2>1, <2>10
    <3>2. /\ ~At("popped", i, n) /\ At("queued", i, n) /\ ~At("collected", i, n)
          /\ ~At("in stream", i, n) /\ ~At("at source", i, n)
      BY <2>4, <2>5, <2>7, <2>8, <2>10, <3>1, Zenon
    <3>3. \A y \in Places : At(y, i, n) <=> y = "queued"
      BY <3>2, Zenon DEF Places
    <3> QED
      BY <3>3, Zenon DEF Places
  <2>11. CASE pushed[i] < n /\ n <= Sent(o) /\ Past
    <3>1. ~(n <= Len(got[i])) /\ ~(n <= pushed[i]) /\ n > pushed[i] /\ ~(n > Sent(o))
      BY <2>1, <2>11
    <3>2. /\ ~At("popped", i, n) /\ ~At("queued", i, n) /\ At("collected", i, n)
          /\ ~At("in stream", i, n) /\ ~At("at source", i, n)
      BY <2>4, <2>5, <2>7, <2>8, <2>11, <3>1, Zenon
    <3>3. \A y \in Places : At(y, i, n) <=> y = "collected"
      BY <3>2, Zenon DEF Places
    <3> QED
      BY <3>3, Zenon DEF Places
  <2>12. CASE pushed[i] < n /\ n <= Sent(o) /\ Ahead
    <3>1. ~(n <= Len(got[i])) /\ ~(n <= pushed[i]) /\ ~(n > Sent(o))
      BY <2>1, <2>12
    <3>2. /\ ~At("popped", i, n) /\ ~At("queued", i, n) /\ ~At("collected", i, n)
          /\ At("in stream", i, n) /\ ~At("at source", i, n)
      BY <2>4, <2>5, <2>7, <2>8, <2>12, <3>1, Zenon
    <3>3. \A y \in Places : At(y, i, n) <=> y = "in stream"
      BY <3>2, Zenon DEF Places
    <3> QED
      BY <3>3, Zenon DEF Places
  <2>13. CASE n > Sent(o)
    <3>1. ~(n <= Len(got[i])) /\ ~(n <= pushed[i]) /\ n > Sent(o)
      BY <2>1, <2>13
    <3>2. /\ ~At("popped", i, n) /\ ~At("queued", i, n) /\ ~At("collected", i, n)
          /\ ~At("in stream", i, n) /\ At("at source", i, n)
      BY <2>4, <2>5, <2>7, <2>8, <2>13, <3>1, Zenon
    <3>3. \A y \in Places : At(y, i, n) <=> y = "at source"
      BY <3>2, Zenon DEF Places
    <3> QED
      BY <3>3, Zenon DEF Places
  <2> QED
    BY <2>1, <2>6, <2>9, <2>10, <2>11, <2>12, <2>13
<1> QED
  BY <1>1, InitType, NextType, InitTransfer, NextTransfer, PTL DEF Spec
=============================================================================
