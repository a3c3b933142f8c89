--------------------------- MODULE SwigDoc_proofs ---------------------------
(***************************************************************************)
(* The objects of doxyxml are shared by refid, have the members of their   *)
(* files, and keep lists and dictionaries that are those of their members: *)
(* for every documentation and every order of calls.                       *)
(***************************************************************************)
EXTENDS SwigDoc, Ascending_proofs

-----------------------------------------------------------------------------
\* Sequences.

LEMMA SeqElements ==
    ASSUME NEW s, IsSeq(s)
    PROVE  /\ Len(s) \in Nat /\ DOMAIN s = 1..Len(s)
           /\ \A i \in DOMAIN s : s[i] \in Range(s)
  BY DEF IsSeq, Range

LEMMA SeqAppend ==
    ASSUME NEW s, IsSeq(s), NEW e
    PROVE  /\ IsSeq(Append(s, e)) /\ Len(Append(s, e)) = Len(s) + 1
           /\ DOMAIN Append(s, e) = 1..(Len(s) + 1)
           /\ \A i \in DOMAIN s : Append(s, e)[i] = s[i]
           /\ Append(s, e)[Len(s) + 1] = e
<1> DEFINE S == Range(s) \cup {e}
           t == Append(s, e)
<1>1. s \in Seq(S) /\ e \in S /\ Len(s) \in Nat /\ DOMAIN s = 1..Len(s)
  <2>1. Range(s) \subseteq S
    OBVIOUS
  <2>2. s \in Seq(Range(s))
    BY DEF IsSeq
  <2> HIDE DEF S
  <2>3. s \in Seq(S)
    BY <2>1, <2>2
  <2> QED
    BY <2>2, <2>3 DEF S
<1>2. /\ t \in Seq(S) /\ Len(t) = Len(s) + 1 /\ DOMAIN t = 1..(Len(s) + 1)
      /\ \A i \in 1..Len(s) : t[i] = s[i]
      /\ t[Len(s) + 1] = e
  <2> HIDE DEF S
  <2> QED
    BY <1>1, AppendProperties
<1> HIDE DEF t
<1>3. t \in Seq(Range(t))
  <2>1. t \in [1..Len(t) -> Range(t)]
    BY <1>2 DEF Range
  <2> QED
    BY <1>1, <1>2, <2>1
<1> QED
  BY <1>1, <1>2, <1>3 DEF t, IsSeq

LEMMA SeqUpdate ==
    ASSUME NEW s, IsSeq(s), NEW i \in DOMAIN s, NEW e
    PROVE  LET t == [s EXCEPT ![i] = e] IN
           /\ IsSeq(t) /\ Len(t) = Len(s) /\ DOMAIN t = DOMAIN s /\ t[i] = e
           /\ \A j \in DOMAIN s \ {i} : t[j] = s[j]
<1> DEFINE t == [s EXCEPT ![i] = e]
<1>1. Len(s) \in Nat /\ DOMAIN s = 1..Len(s)
  BY SeqElements
<1>2. /\ DOMAIN t = DOMAIN s /\ t[i] = e /\ t = [j \in 1..Len(s) |-> t[j]]
      /\ \A j \in DOMAIN s \ {i} : t[j] = s[j]
  BY <1>1
<1> HIDE DEF t
<1>3. t \in [1..Len(s) -> Range(t)]
  BY <1>1, <1>2 DEF Range
<1>4. t \in Seq(Range(t)) /\ Len(t) = Len(s)
  BY <1>1, <1>2, <1>3
<1> QED
  BY <1>2, <1>4 DEF IsSeq, t

-----------------------------------------------------------------------------
\* The heap.  An object keeps its fields; those that one program may not change
\* are its class, its parse data and its refid.

Fields == {"class", "pd", "refid", "parsed", "error", "members", "data", "cats", "dicts"}

Shaped(h) ==
    /\ DOMAIN h = {"objs", "refs", "exc", "val", "failed"}
    /\ IsSeq(h.objs) /\ 1 \in DOMAIN h.objs /\ h.failed \subseteq DOMAIN h.objs
    /\ \A o \in DOMAIN h.objs : DOMAIN h.objs[o] = Fields

\* The cache of references and the objects agree; the index has no reference.
Referenced(h) ==
    /\ \A r \in DOMAIN h.refs :
          r # NoRef /\ h.refs[r] \in DOMAIN h.objs /\ h.objs[h.refs[r]].refid = r
    /\ \A o \in DOMAIN h.objs : h.objs[o].refid # NoRef =>
          h.objs[o].refid \in DOMAIN h.refs /\ h.refs[h.objs[o].refid] = o
    /\ h.objs[1].class = "DoxyIndex" /\ h.objs[1].refid = NoRef /\ h.objs[1].pd = <<>>

\* One field of one object is assigned.
Put(h, o, f, v) == [h EXCEPT !.objs[o][f] = v]

LEMMA PutDoes ==
    ASSUME NEW h, Shaped(h), NEW o \in DOMAIN h.objs, NEW f \in Fields, NEW v
    PROVE  LET g == Put(h, o, f, v) IN
           /\ Shaped(g) /\ DOMAIN g.objs = DOMAIN h.objs /\ Len(g.objs) = Len(h.objs)
           /\ g.refs = h.refs /\ g.exc = h.exc /\ g.val = h.val /\ g.failed = h.failed
           /\ g.objs[o][f] = v
           /\ \A k \in Fields \ {f} : g.objs[o][k] = h.objs[o][k]
           /\ \A p \in DOMAIN h.objs \ {o} : g.objs[p] = h.objs[p]
<1> DEFINE obj == [h.objs[o] EXCEPT ![f] = v]
           objs == [h.objs EXCEPT ![o] = obj]
           g == [h EXCEPT !.objs = objs]
<1>1. Put(h, o, f, v) = g
  BY DEF Put
<1>2. DOMAIN h.objs[o] = Fields
  BY DEF Shaped
<1>3. DOMAIN obj = Fields /\ obj[f] = v /\ \A k \in Fields \ {f} : obj[k] = h.objs[o][k]
  BY <1>2
<1> HIDE DEF obj
<1>4. /\ IsSeq(objs) /\ Len(objs) = Len(h.objs) /\ DOMAIN objs = DOMAIN h.objs
      /\ objs[o] = obj /\ \A p \in DOMAIN h.objs \ {o} : objs[p] = h.objs[p]
  BY SeqUpdate DEF Shaped
<1> HIDE DEF objs
<1>5. /\ DOMAIN g = DOMAIN h /\ g.objs = objs
      /\ g.refs = h.refs /\ g.exc = h.exc /\ g.val = h.val /\ g.failed = h.failed
  BY DEF Shaped
<1> HIDE DEF g
<1>6. \A p \in DOMAIN objs : DOMAIN objs[p] = Fields
  BY <1>3, <1>4 DEF Shaped
<1>7. Shaped(g)
  BY <1>4, <1>5, <1>6 DEF Shaped
<1> QED
  BY <1>1, <1>3, <1>4, <1>5, <1>7

\* The result or the exception of a call, and the history of failures.
LEMMA ResultDoes ==
    ASSUME NEW h, Shaped(h), NEW v
    PROVE  /\ LET g == Return(h, v) IN
              /\ Shaped(g) /\ g.objs = h.objs /\ g.refs = h.refs /\ g.exc = h.exc
              /\ g.val = v /\ g.failed = h.failed
           /\ LET g == Raise(h, v) IN
              /\ Shaped(g) /\ g.objs = h.objs /\ g.refs = h.refs /\ g.exc = v
              /\ g.val = h.val /\ g.failed = h.failed
  BY DEF Shaped, Return, Raise

Calm(h) == h.exc = ""

LEMMA NotedDoes ==
    ASSUME NEW h, Shaped(h), NEW o \in DOMAIN h.objs
    PROVE  LET g == Noted(h, o) IN
           /\ Shaped(g) /\ g.objs = h.objs /\ g.refs = h.refs /\ g.exc = h.exc
           /\ g.val = h.val
           /\ Calm(h) => g.failed = h.failed
           /\ ~ Calm(h) => g.failed = h.failed \cup {o}
<1>1. CASE Calm(h)
  BY <1>1 DEF Noted, Calm
<1>2. CASE ~ Calm(h)
  <2>1. Noted(h, o) = [h EXCEPT !.failed = @ \cup {o}]
    BY <1>2 DEF Noted, Calm
  <2> QED
    BY <1>2, <2>1 DEF Shaped
<1> QED
  BY <1>1, <1>2

LEMMA RaiseDoes ==
    ASSUME NEW h, Shaped(h), NEW e, e # ""
    PROVE  ~ Calm(Raise(h, e))
  BY DEF Shaped, Raise, Calm

\* An object as __init__ leaves it.
Untouched(obj) ==
    /\ obj.parsed = FALSE /\ obj.error = FALSE /\ obj.members = <<>>
    /\ obj.cats = <<>> /\ obj.dicts = <<>>

\* h with new objects at its end.
Longer(h, g) ==
    /\ DOMAIN h.objs \subseteq DOMAIN g.objs /\ g.failed = h.failed /\ g.exc = h.exc
    /\ \A p \in DOMAIN h.objs : g.objs[p] = h.objs[p]
    /\ \A p \in DOMAIN g.objs \ DOMAIN h.objs : Untouched(g.objs[p])

LEMMA NewDoes ==
    ASSUME NEW h, Shaped(h), Referenced(h), NEW class, NEW pd, NEW refid,
           refid \notin DOMAIN h.refs
    PROVE  LET g == New(h, class, pd, refid)
               o == Len(h.objs) + 1 IN
           /\ Shaped(g) /\ Referenced(g) /\ Longer(h, g)
           /\ DOMAIN g.objs = DOMAIN h.objs \cup {o} /\ o \notin DOMAIN h.objs
           /\ g.val = o /\ o \in DOMAIN g.objs /\ o # 1
           /\ g.objs[o].class = class /\ g.objs[o].pd = pd /\ g.objs[o].refid = refid
<1> DEFINE o == Len(h.objs) + 1
           obj == [class |-> class, pd |-> pd, refid |-> refid,
                   parsed |-> FALSE, error |-> FALSE, members |-> <<>>,
                   data |-> <<>>, cats |-> <<>>, dicts |-> <<>>]
           objs == Append(h.objs, obj)
           refs == IF refid = NoRef THEN h.refs ELSE With(h.refs, refid, o)
           g == [h EXCEPT !.objs = objs, !.refs = refs, !.val = o]
<1>1. New(h, class, pd, refid) = g
  BY DEF New
<1>2. /\ DOMAIN obj = Fields /\ Untouched(obj)
      /\ obj.class = class /\ obj.pd = pd /\ obj.refid = refid
  BY DEF Fields, Untouched
<1> HIDE DEF obj
<1>3. /\ Len(h.objs) \in Nat /\ DOMAIN h.objs = 1..Len(h.objs) /\ 1 \in DOMAIN h.objs
  BY SeqElements DEF Shaped
<1>4. /\ IsSeq(objs) /\ DOMAIN objs = 1..o /\ objs[o] = obj
      /\ \A p \in DOMAIN h.objs : objs[p] = h.objs[p]
  BY SeqAppend DEF Shaped
<1> HIDE DEF objs
<1>5. DOMAIN objs = DOMAIN h.objs \cup {o} /\ o \notin DOMAIN h.objs /\ o # 1
  BY <1>3, <1>4
<1>6. /\ refid # NoRef => DOMAIN refs = DOMAIN h.refs \cup {refid} /\ refs[refid] = o
      /\ \A r \in DOMAIN h.refs : r # refid => r \in DOMAIN refs /\ refs[r] = h.refs[r]
      /\ refid = NoRef => refs = h.refs
  BY DEF With
<1> HIDE DEF o, refs
<1>7. /\ DOMAIN g = DOMAIN h /\ g.objs = objs /\ g.refs = refs /\ g.val = o
      /\ g.exc = h.exc /\ g.failed = h.failed
  BY DEF Shaped
<1> HIDE DEF g
<1>8. Shaped(g)
  <2>1. \A p \in DOMAIN objs : DOMAIN objs[p] = Fields
    BY <1>2, <1>4, <1>5 DEF Shaped
  <2> QED
    BY <1>3, <1>4, <1>5, <1>7, <2>1 DEF Shaped
<1>9. Longer(h, g)
  BY <1>2, <1>4, <1>5, <1>7 DEF Longer
<1>10. Referenced(g)
  <2>1. ASSUME NEW r \in DOMAIN refs
        PROVE  r # NoRef /\ refs[r] \in DOMAIN objs /\ objs[refs[r]].refid = r
    <3>1. CASE r = refid /\ refid # NoRef
      BY <1>2, <1>4, <1>5, <1>6, <3>1
    <3>2. CASE r \in DOMAIN h.refs /\ r # refid
      <4>1. refs[r] = h.refs[r]
        BY <1>6, <3>2
      <4>2. r # NoRef /\ h.refs[r] \in DOMAIN h.objs /\ h.objs[h.refs[r]].refid = r
        BY <3>2 DEF Referenced
      <4> QED
        BY <1>4, <1>5, <4>1, <4>2
    <3> QED
      BY <1>6, <2>1, <3>1, <3>2
  <2>2. ASSUME NEW p \in DOMAIN objs, objs[p].refid # NoRef
        PROVE  objs[p].refid \in DOMAIN refs /\ refs[objs[p].refid] = p
    <3>1. CASE p = o
      BY <1>2, <1>4, <1>6, <2>2, <3>1
    <3>2. CASE p \in DOMAIN h.objs
      <4>1. /\ objs[p] = h.objs[p] /\ h.objs[p].refid # NoRef
            /\ h.objs[p].refid \in DOMAIN h.refs /\ h.refs[h.objs[p].refid] = p
        BY <1>4, <2>2, <3>2 DEF Referenced
      <4> QED
        BY <1>6, <4>1
    <3> QED
      BY <1>5, <3>1, <3>2
  <2>3. objs[1] = h.objs[1]
    BY <1>3, <1>4
  <2> QED
    BY <1>7, <2>1, <2>2, <2>3 DEF Referenced
<1> QED
  BY <1>1, <1>2, <1>4, <1>5, <1>7, <1>8, <1>9, <1>10 DEF o

-----------------------------------------------------------------------------
\* The invariant of the heap, between two calls.

\* An entry of the index.
IsEntry(pd) ==
    /\ "index" \in DOMAIN files /\ files["index"].ok
    /\ pd \in Range(Compounds) /\ "refid" \in DOMAIN pd.attr /\ IsRef(pd.attr["refid"])

\* An object has the class of what it was made of; one with a refid was made of
\* its entry in the index, or of no data if it is a class or a group.
MadeOf(obj) ==
    /\ obj.refid # "index"
    /\ obj.pd = <<>> => obj.class \in {"DoxyIndex", "DoxyGroup", "DoxyClass"}
    /\ obj.pd # <<>> =>
          /\ KindOf(obj.pd[1]) \in DOMAIN mem_classes
          /\ obj.class = mem_classes[KindOf(obj.pd[1])]
          /\ IF obj.refid = NoRef THEN IsMemberdef(obj.pd[1])
             ELSE IsEntry(obj.pd[1]) /\ RefOf(obj.pd[1]) = obj.refid
Fresh(h, o) ==
    h.objs[o].parsed = TRUE \/ (Untouched(h.objs[o]) /\ o \notin h.failed)
\* Only an object that was made of a compound, and the index, has members.
Childless(h, o) ==
    h.objs[o].class \notin {"DoxyClass", "DoxyFile", "DoxyGroup", "DoxyIndex"} =>
       h.objs[o].members = <<>>
Adopted(h, o) == h.objs[o].members \in Seq({None} \cup DOMAIN h.objs)

\* A dictionary has the object of each name that one element of the list has, and
\* the mark of the others: stronger than DictsFresh, which only keeps these from
\* leading to an object.
Held(h, list, nm, value) ==
    LET same == {i \in DOMAIN list : NameOf(h, list[i]) = nm} IN
    IF \E i, j \in same : i # j THEN value = Duplicated
    ELSE same # {} /\ \A i \in same : list[i] = value
DictsHold(h, o) ==
    \A cat \in DOMAIN h.objs[o].dicts :
       LET list == ListOf(h, o, cat)
           dict == h.objs[o].dicts[cat]
       IN DOMAIN dict = NamesOf(h, list) /\ \A n \in DOMAIN dict : Held(h, list, n, dict[n])

\* The elements of a list that has a dictionary have a name.
Listed(h, o) ==
    /\ "Block" \in DOMAIN h.objs[o].cats =>
          /\ h.objs[o].cats["Block"] \in Seq(DOMAIN h.objs)
          /\ \A m \in Range(h.objs[o].cats["Block"]) : h.objs[m].pd # <<>>
    /\ \A cat \in DOMAIN h.objs[o].dicts :
          /\ cat = "None" \/ cat \in DOMAIN h.objs[o].cats \ {"Block"}
          /\ \A i \in DOMAIN ListOf(h, o, cat) :
                /\ ListOf(h, o, cat)[i] \in DOMAIN h.objs
                /\ h.objs[ListOf(h, o, cat)[i]].pd # <<>>
Caches(h, o) ==
    ListsFresh(h, o) /\ BlocksFresh(h, o) /\ DictsHold(h, o) /\ Listed(h, o)
Sound(h, o) ==
    /\ MadeOf(h.objs[o]) /\ Fresh(h, o) /\ Adopted(h, o) /\ Childless(h, o)
    /\ FileRead(h, o) /\ Caches(h, o)
Good(h) == Shaped(h) /\ Referenced(h) /\ \A o \in DOMAIN h.objs : Sound(h, o)

\* What a call never does to an object: change what it is, ...
Grows(h, g) ==
    /\ DOMAIN h.objs \subseteq DOMAIN g.objs
    /\ \A p \in DOMAIN h.objs : /\ g.objs[p].class = h.objs[p].class
                                /\ g.objs[p].pd = h.objs[p].pd
                                /\ g.objs[p].refid = h.objs[p].refid
\* ... or read it again.
Retains(h, g, o) ==
    /\ g.objs[o].parsed = h.objs[o].parsed /\ g.objs[o].error = h.objs[o].error
    /\ g.objs[o].members = h.objs[o].members
    /\ o \in g.failed <=> o \in h.failed
Extends(h, g) ==
    /\ Grows(h, g)
    /\ \A p \in DOMAIN h.objs : h.objs[p].parsed = TRUE => Retains(h, g, p)
Leads(h, g) == Good(g) /\ Extends(h, g)

LEMMA ExtendsSelf == ASSUME NEW h PROVE Extends(h, h)
  BY DEF Extends, Grows, Retains

LEMMA ExtendsOn ==
    ASSUME NEW h, NEW g, NEW k, Extends(h, g), Extends(g, k)
    PROVE  Extends(h, k)
<1>1. Grows(h, k)
  BY DEF Extends, Grows
<1>2. ASSUME NEW p \in DOMAIN h.objs, h.objs[p].parsed = TRUE PROVE Retains(h, k, p)
  <2>1. Retains(h, g, p) /\ p \in DOMAIN g.objs
    BY <1>2 DEF Extends, Grows
  <2>2. g.objs[p].parsed = TRUE
    BY <1>2, <2>1 DEF Retains
  <2>3. Retains(g, k, p)
    BY <2>1, <2>2 DEF Extends
  <2> QED
    BY <2>1, <2>3 DEF Retains
<1> QED
  BY <1>1, <1>2 DEF Extends

\* Names and classes stay, and with them what was made of a list of objects.
LEMMA OfClassStays ==
    ASSUME NEW h, NEW g, Grows(h, g), NEW os \in Seq({None} \cup DOMAIN h.objs), NEW cat
    PROVE  OfClass(g, os, cat) = OfClass(h, os, cat)
<1>1. \A i \in DOMAIN os : os[i] \in {None} \cup DOMAIN h.objs
  OBVIOUS
<1>2. \A i \in DOMAIN os : os[i] # None => g.objs[os[i]].class = h.objs[os[i]].class
  BY <1>1 DEF Grows
<1>3. {i \in DOMAIN os : os[i] # None /\ g.objs[os[i]].class = cat}
      = {i \in DOMAIN os : os[i] # None /\ h.objs[os[i]].class = cat}
  BY <1>2
<1> QED
  BY <1>3 DEF OfClass

LEMMA NameStays ==
    ASSUME NEW h, NEW g, Grows(h, g), NEW p \in DOMAIN h.objs
    PROVE  NameOf(g, p) = NameOf(h, p)
  BY DEF Grows, NameOf

LEMMA HeldStays ==
    ASSUME NEW h, NEW g, Grows(h, g), NEW list,
           \A i \in DOMAIN list : list[i] \in DOMAIN h.objs
    PROVE  /\ NamesOf(g, list) = NamesOf(h, list)
           /\ \A nm, value : Held(g, list, nm, value) <=> Held(h, list, nm, value)
<1>1. \A i \in DOMAIN list : NameOf(g, list[i]) = NameOf(h, list[i])
  BY NameStays
<1>2. NamesOf(g, list) = NamesOf(h, list)
  BY <1>1 DEF NamesOf
<1>3. ASSUME NEW nm
      PROVE  {i \in DOMAIN list : NameOf(g, list[i]) = nm}
             = {i \in DOMAIN list : NameOf(h, list[i]) = nm}
  BY <1>1
<1>4. ASSUME NEW nm, NEW value PROVE Held(g, list, nm, value) <=> Held(h, list, nm, value)
  <2> DEFINE S == {i \in DOMAIN list : NameOf(g, list[i]) = nm}
             T == {i \in DOMAIN list : NameOf(h, list[i]) = nm}
             Fits(same) == IF \E i, j \in same : i # j THEN value = Duplicated
                           ELSE same # {} /\ \A i \in same : list[i] = value
  <2>1. S = T
    BY <1>3
  <2>2. (Held(g, list, nm, value) <=> Fits(S)) /\ (Held(h, list, nm, value) <=> Fits(T))
    BY Zenon DEF Held
  <2> HIDE DEF S, T, Fits
  <2> QED
    BY <2>1, <2>2
<1> QED
  BY <1>2, <1>4

LEMMA RepresentsStays ==
    ASSUME NEW h, NEW g, Grows(h, g), NEW m \in {None} \cup DOMAIN h.objs, NEW pd,
           Represents(h, m, pd)
    PROVE  Represents(g, m, pd)
<1>1. m # None => g.objs[m].class = h.objs[m].class /\ NameOf(g, m) = NameOf(h, m)
  BY NameStays DEF Grows
<1> QED
  BY <1>1 DEF Represents

LEMMA MadeFromStays ==
    ASSUME NEW h, NEW g, Grows(h, g), NEW ms \in Seq({None} \cup DOMAIN h.objs), NEW pds,
           MadeFrom(h, ms, pds), IsSeq(pds)
    PROVE  MadeFrom(g, ms, pds)
<1>1. DOMAIN pds = DOMAIN ms /\ Len(ms) = Len(pds)
  BY SeqElements DEF MadeFrom
<1>2. ASSUME NEW i \in DOMAIN pds PROVE Represents(g, ms[i], pds[i])
  <2>1. ms[i] \in {None} \cup DOMAIN h.objs
    BY <1>1
  <2>2. Represents(h, ms[i], pds[i])
    BY DEF MadeFrom
  <2> QED
    BY <2>1, <2>2, RepresentsStays
<1> QED
  BY <1>1, <1>2 DEF MadeFrom

-----------------------------------------------------------------------------
\* The memberdefs of a file.

LEMMA SeqConcat ==
    ASSUME NEW s, IsSeq(s), NEW t, IsSeq(t)
    PROVE  IsSeq(s \o t) /\ Range(s \o t) \subseteq Range(s) \cup Range(t)
<1> DEFINE S == Range(s) \cup Range(t)
           u == s \o t
<1>1. s \in Seq(S) /\ t \in Seq(S)
  <2>1. Range(s) \subseteq S /\ Range(t) \subseteq S
    OBVIOUS
  <2>2. s \in Seq(Range(s)) /\ t \in Seq(Range(t))
    BY DEF IsSeq
  <2> HIDE DEF S
  <2> QED
    BY <2>1, <2>2
<1>2. u \in Seq(S)
  <2> HIDE DEF S
  <2> QED
    BY <1>1, ConcatProperties
<1> HIDE DEF u
<1>3. Len(u) \in Nat /\ DOMAIN u = 1..Len(u) /\ u = [i \in 1..Len(u) |-> u[i]]
      /\ \A i \in DOMAIN u : u[i] \in S
  BY <1>2
<1>4. u \in [1..Len(u) -> Range(u)] /\ Range(u) \subseteq S
  BY <1>3 DEF Range
<1>5. u \in Seq(Range(u))
  BY <1>3, <1>4
<1> QED
  BY <1>4, <1>5 DEF IsSeq, u

LEMMA SeqPicked ==
    ASSUME NEW s, IsSeq(s), NEW P \in SUBSET (DOMAIN s)
    PROVE  /\ IsSeq(Picked(s, P)) /\ Range(Picked(s, P)) = {s[i] : i \in P}
           /\ \A T : s \in Seq(T) => Picked(s, P) \in Seq(T)
<1> DEFINE u == Picked(s, P)
           d == Cardinality(P)
           e == Enumerated(P)
<1>1. s \in Seq(Range(s)) /\ DOMAIN s = 1..Len(s) /\ P \in SUBSET (1..Len(s))
  BY SeqElements DEF IsSeq
<1>2. /\ d \in Nat /\ Lists(e, d, P) /\ u \in Seq(Range(s)) /\ Len(u) = d
      /\ \A n \in 1..d : e[n] \in P /\ u[n] = s[e[n]]
  BY <1>1, PickedProperties
<1>3. \A T : s \in Seq(T) => u \in Seq(T)
  BY <1>1, PickedProperties
<1> HIDE DEF u, d, e
<1>4. \A k \in P : \E n \in 1..d : e[n] = k
  BY <1>2 DEF Lists
<1>5. DOMAIN u = 1..d /\ u = [n \in 1..d |-> u[n]]
  BY <1>2
<1>6. Range(u) = {s[i] : i \in P}
  BY <1>2, <1>4, <1>5 DEF Range
<1>7. u \in [1..d -> Range(u)]
  BY <1>5 DEF Range
<1>8. u \in Seq(Range(u))
  BY <1>2, <1>7
<1> QED
  BY <1>3, <1>6, <1>8 DEF IsSeq, u

SectionHolds(c, b, s, k, a) == IsSeq(a) /\ \A pd \in Range(a) : IsMemberdef(pd)
SectionLoop == INSTANCE Iterate_proofs WITH Step <- with_members, Holds <- SectionHolds

LEMMA MemberdefsAre ==
    ASSUME NEW cdef, IsCompounddef(cdef)
    PROVE  IsSeq(Memberdefs(cdef)) /\ \A pd \in Range(Memberdefs(cdef)) : IsMemberdef(pd)
<1> DEFINE s == cdef.field["sectiondef"]
<1>1. EachSection!Loop(<<>>, <<>>, s) = SectionLoop!Loop(<<>>, <<>>, s)
  BY Zenon DEF EachSection!Loop, EachSection!Run, SectionLoop!Loop, SectionLoop!Run
<1>2. IsSeq(s) /\ \A x \in Range(s) : /\ IsSeq(x.field["memberdef"])
                                     /\ \A pd \in Range(x.field["memberdef"]) : IsMemberdef(pd)
  BY DEF IsCompounddef
<1> HIDE DEF s
<1>3. Len(s) \in Nat /\ \A k \in 1..Len(s) : s[k] \in Range(s)
  BY <1>2, SeqElements
<1>4. SectionHolds(<<>>, <<>>, s, 0, <<>>)
  <2>1. <<>> \in Seq(Range(<<>>)) /\ Range(<<>>) = {}
    BY DEF Range
  <2> QED
    BY <2>1 DEF SectionHolds, IsSeq
<1>5. ASSUME NEW k \in 1..Len(s), NEW a, SectionHolds(<<>>, <<>>, s, k - 1, a)
      PROVE  SectionHolds(<<>>, <<>>, s, k, with_members(<<>>, a, s[k]))
  <2>1. IsSeq(s[k].field["memberdef"]) /\ \A pd \in Range(s[k].field["memberdef"]) : IsMemberdef(pd)
    BY <1>2, <1>3
  <2> QED
    BY <1>5, <2>1, SeqConcat DEF SectionHolds, with_members
<1>6. SectionHolds(<<>>, <<>>, s, Len(s), SectionLoop!Loop(<<>>, <<>>, s))
  BY <1>3, <1>4, <1>5, SectionLoop!LoopKeeps
<1> QED
  BY <1>1, <1>6 DEF Memberdefs, SectionHolds, s

LEMMA UniqueAre ==
    ASSUME NEW pds, IsSeq(pds)
    PROVE  IsSeq(Unique(pds)) /\ Range(Unique(pds)) \subseteq Range(pds)
<1>1. FirstOfName(pds) \in SUBSET (DOMAIN pds)
  BY DEF FirstOfName
<1>2. /\ IsSeq(Picked(pds, FirstOfName(pds)))
      /\ Range(Picked(pds, FirstOfName(pds))) = {pds[i] : i \in FirstOfName(pds)}
  BY <1>1, SeqPicked
<1> QED
  BY <1>1, <1>2 DEF Unique, Range

\* The files that can be read are files of compounds.
LEMMA ReadableIs ==
    ASSUME files \in Docs, NEW refid, refid # "index", Readable(refid)
    PROVE  /\ IsCompounddef(Def(refid))
           /\ IsSeq(Unique(MemberDefs(refid)))
           /\ \A pd \in Range(Unique(MemberDefs(refid))) : IsMemberdef(pd)
<1>1. IsCompounddef(Def(refid))
  BY DocsAssumption DEF Readable, Def
<1>2. IsSeq(MemberDefs(refid)) /\ \A pd \in Range(MemberDefs(refid)) : IsMemberdef(pd)
  BY <1>1, MemberdefsAre DEF MemberDefs
<1> QED
  BY <1>1, <1>2, UniqueAre

-----------------------------------------------------------------------------
\* What stays sound.

LEMMA SoundStays ==
    ASSUME files \in Docs, NEW h, NEW g, Shaped(h), Shaped(g), Grows(h, g),
           NEW o \in DOMAIN h.objs, Sound(h, o), Retains(h, g, o),
           g.objs[o].cats = h.objs[o].cats, g.objs[o].dicts = h.objs[o].dicts
    PROVE  Sound(g, o)
<1>1. /\ g.objs[o].class = h.objs[o].class /\ g.objs[o].pd = h.objs[o].pd
      /\ g.objs[o].refid = h.objs[o].refid
  BY DEF Grows
<1>2. /\ g.objs[o].parsed = h.objs[o].parsed /\ g.objs[o].error = h.objs[o].error
      /\ g.objs[o].members = h.objs[o].members
      /\ o \in g.failed <=> o \in h.failed
  BY DEF Retains
<1>3. MadeOf(g.objs[o])
  BY <1>1 DEF Sound, MadeOf
<1>4. Fresh(g, o)
  BY <1>2 DEF Sound, Fresh, Untouched
<1>5. h.objs[o].members \in Seq({None} \cup DOMAIN h.objs)
  BY DEF Sound, Adopted
<1>6. Adopted(g, o)
  <2>1. {None} \cup DOMAIN h.objs \subseteq {None} \cup DOMAIN g.objs
    BY DEF Grows
  <2> QED
    BY <1>2, <1>5, <2>1 DEF Adopted
<1>7. FileRead(g, o)
  <2> SUFFICES ASSUME h.objs[o].class \in {"DoxyClass", "DoxyFile"}, h.objs[o].parsed,
                      ~ (o \in h.failed \/ h.objs[o].error)
               PROVE  /\ Readable(h.objs[o].refid)
                      /\ MadeFrom(g, h.objs[o].members, Unique(MemberDefs(h.objs[o].refid)))
    BY <1>1, <1>2 DEF FileRead, Sound
  <2>1. /\ Readable(h.objs[o].refid)
        /\ MadeFrom(h, h.objs[o].members, Unique(MemberDefs(h.objs[o].refid)))
    BY DEF FileRead, Sound
  <2>2. h.objs[o].refid # "index"
    BY DEF Sound, MadeOf
  <2> QED
    BY <1>5, <2>1, <2>2, ReadableIs, MadeFromStays
<1>8. ListsFresh(g, o)
  <2>1. ListsFresh(h, o)
    BY DEF Sound, Caches
  <2>2. \A cat : OfClass(g, h.objs[o].members, cat) = OfClass(h, h.objs[o].members, cat)
    BY <1>5, OfClassStays
  <2> QED
    BY <1>2, <2>1, <2>2 DEF ListsFresh
<1>9. BlocksFresh(g, o)
  <2>1. ASSUME NEW m \in Range(h.objs[o].members), m # None
        PROVE  IsBlock(g.objs[m]) <=> IsBlock(h.objs[m])
    <3>1. m \in DOMAIN h.objs
      BY <1>5, <2>1 DEF Range
    <3> QED
      BY <3>1 DEF Grows, IsBlock
  <2> QED
    BY <1>2, <2>1 DEF Sound, Caches, BlocksFresh
<1>10. ASSUME NEW cat PROVE ListOf(g, o, cat) = ListOf(h, o, cat)
  BY <1>2 DEF ListOf
<1>11. DictsHold(g, o)
  <2> SUFFICES ASSUME NEW cat \in DOMAIN h.objs[o].dicts
               PROVE  LET list == ListOf(h, o, cat)
                          dict == h.objs[o].dicts[cat]
                      IN DOMAIN dict = NamesOf(g, list)
                         /\ \A n \in DOMAIN dict : Held(g, list, n, dict[n])
    BY <1>10 DEF DictsHold
  <2> DEFINE list == ListOf(h, o, cat)
             dict == h.objs[o].dicts[cat]
  <2>1. DOMAIN dict = NamesOf(h, list) /\ \A n \in DOMAIN dict : Held(h, list, n, dict[n])
    BY DEF Sound, Caches, DictsHold
  <2>2. \A i \in DOMAIN list : list[i] \in DOMAIN h.objs
    BY DEF Sound, Caches, Listed
  <2> HIDE DEF list, dict
  <2>3. DOMAIN dict = NamesOf(g, list) /\ \A n \in DOMAIN dict : Held(g, list, n, dict[n])
    BY <2>1, <2>2, HeldStays
  <2> QED
    BY <2>3 DEF list, dict
<1>12. Listed(g, o)
  <2>1. Listed(h, o)
    BY DEF Sound, Caches
  <2>2. ASSUME "Block" \in DOMAIN h.objs[o].cats
        PROVE  /\ h.objs[o].cats["Block"] \in Seq(DOMAIN g.objs)
               /\ \A m \in Range(h.objs[o].cats["Block"]) : g.objs[m].pd # <<>>
    <3> DEFINE list == h.objs[o].cats["Block"]
    <3>1. list \in Seq(DOMAIN h.objs) /\ \A m \in Range(list) : h.objs[m].pd # <<>>
      BY <2>1, <2>2 DEF Listed
    <3> HIDE DEF list
    <3>2. DOMAIN h.objs \subseteq DOMAIN g.objs /\ Range(list) \subseteq DOMAIN h.objs
      BY <3>1 DEF Grows, Range
    <3>3. list \in Seq(DOMAIN g.objs) /\ \A m \in Range(list) : g.objs[m].pd # <<>>
      BY <3>1, <3>2 DEF Grows
    <3> QED
      BY <3>3 DEF list
  <2>3. ASSUME NEW cat \in DOMAIN h.objs[o].dicts, NEW i \in DOMAIN ListOf(h, o, cat)
        PROVE  /\ ListOf(h, o, cat)[i] \in DOMAIN g.objs
               /\ g.objs[ListOf(h, o, cat)[i]].pd # <<>>
    BY <2>1 DEF Listed, Grows
  <2> QED
    BY <1>10, <2>1, <2>2, <2>3 DEF Listed
<1>13. Childless(g, o)
  BY <1>1, <1>2 DEF Sound, Childless
<1> QED
  BY <1>3, <1>4, <1>6, <1>7, <1>8, <1>9, <1>11, <1>12, <1>13 DEF Sound, Caches

LEMMA SoundUntouched ==
    ASSUME NEW h, NEW o, Untouched(h.objs[o]), o \notin h.failed, MadeOf(h.objs[o])
    PROVE  Sound(h, o)
<1>1. Fresh(h, o)
  BY DEF Fresh
<1>2. Adopted(h, o)
  BY DEF Adopted, Untouched
<1>3. FileRead(h, o)
  BY DEF FileRead, Untouched
<1>4. Caches(h, o)
  BY DEF Caches, ListsFresh, BlocksFresh, DictsHold, Listed, Untouched
<1>5. Childless(h, o)
  BY DEF Childless, Untouched
<1> QED
  BY <1>1, <1>2, <1>3, <1>4, <1>5 DEF Sound

-----------------------------------------------------------------------------
\* Objects from references and from parse data.

Appended(h, g) ==
    /\ Shaped(g) /\ Referenced(g) /\ Longer(h, g)
    /\ \A p \in DOMAIN g.objs \ DOMAIN h.objs : MadeOf(g.objs[p])

LEMMA NoneIsNone == ASSUME NEW h, Shaped(h) PROVE None \notin DOMAIN h.objs
  BY SeqElements DEF Shaped, None

LEMMA AppendedGrows == ASSUME NEW h, NEW g, Appended(h, g) PROVE Grows(h, g)
  BY DEF Appended, Longer, Grows

LEMMA AppendedLeads ==
    ASSUME files \in Docs, NEW h, NEW g, Good(h), Appended(h, g)
    PROVE  Leads(h, g)
<1>1. Shaped(h) /\ Shaped(g) /\ Referenced(g) /\ Grows(h, g)
  BY AppendedGrows DEF Good, Appended
<1>2. ASSUME NEW p \in DOMAIN h.objs PROVE Retains(h, g, p) /\ Sound(g, p)
  <2>1. Retains(h, g, p) /\ g.objs[p] = h.objs[p]
    BY DEF Appended, Longer, Retains
  <2> QED
    BY <1>1, <2>1, SoundStays DEF Good
<1>3. ASSUME NEW p \in DOMAIN g.objs, p \notin DOMAIN h.objs PROVE Sound(g, p)
  <2>1. Untouched(g.objs[p]) /\ MadeOf(g.objs[p]) /\ g.failed = h.failed
    BY <1>3 DEF Appended, Longer
  <2>2. p \notin g.failed
    BY <1>1, <1>3, <2>1 DEF Shaped
  <2> QED
    BY <2>1, <2>2, SoundUntouched
<1>4. Good(g)
  BY <1>1, <1>2, <1>3 DEF Good
<1> QED
  BY <1>1, <1>2, <1>4 DEF Leads, Extends

LEMMA ResultAppended ==
    ASSUME NEW h, Shaped(h), Referenced(h), NEW v
    PROVE  Appended(h, Return(h, v))
  BY ResultDoes DEF Appended, Longer, Referenced

LEMMA FromRefid ==
    ASSUME NEW h, Shaped(h), Referenced(h), NEW class \in {"DoxyGroup", "DoxyClass"}, NEW refid, IsRef(refid)
    PROVE  LET g == from_refid(h, class, refid) IN
           Appended(h, g) /\ g.val \in DOMAIN g.objs
<1>1. CASE refid \in DOMAIN h.refs
  <2>1. from_refid(h, class, refid) = Return(h, h.refs[refid])
    BY <1>1 DEF from_refid
  <2>2. h.refs[refid] \in DOMAIN h.objs
    BY <1>1 DEF Referenced
  <2> QED
    BY <2>1, <2>2, ResultAppended, ResultDoes
<1>2. CASE refid \notin DOMAIN h.refs
  <2> DEFINE g == New(h, class, <<>>, refid)
             o == Len(h.objs) + 1
  <2>1. from_refid(h, class, refid) = g
    BY <1>2 DEF from_refid
  <2>2. /\ Shaped(g) /\ Referenced(g) /\ Longer(h, g)
        /\ DOMAIN g.objs = DOMAIN h.objs \cup {o} /\ g.val = o
        /\ g.objs[o].pd = <<>> /\ g.objs[o].refid = refid /\ g.objs[o].class = class
    BY <1>2, NewDoes
  <2> HIDE DEF g, o
  <2>3. MadeOf(g.objs[o])
    BY <2>2 DEF MadeOf, IsRef
  <2> QED
    BY <2>1, <2>2, <2>3 DEF Appended
<1> QED
  BY <1>1, <1>2

LEMMA FromParseData ==
    ASSUME NEW h, Shaped(h), Referenced(h), NEW pd, IsMemberdef(pd) \/ IsEntry(pd),
           KindOf(pd) \in DOMAIN mem_classes
    PROVE  LET g == from_parse_data(h, mem_classes[KindOf(pd)], pd) IN
           /\ Appended(h, g) /\ g.val \in DOMAIN g.objs /\ g.val # 1
           /\ IsMemberdef(pd) => Represents(g, g.val, pd)
<1> DEFINE refid == IF "refid" \in DOMAIN pd.attr THEN pd.attr["refid"] ELSE NoRef
           class == mem_classes[KindOf(pd)]
           r == from_parse_data(h, class, pd)
<1>1. /\ IsMemberdef(pd) => refid = NoRef
      /\ refid # NoRef => IsEntry(pd) /\ refid = pd.attr["refid"]
      /\ refid # "index"
  BY DEF IsMemberdef, IsEntry, IsRef, NoRef
<1>5. refid = NoRef => IsMemberdef(pd)
  BY DEF IsEntry, IsRef
<1>2. r = IF refid \in DOMAIN h.refs THEN Return(h, h.refs[refid])
          ELSE New(h, class, <<pd>>, refid)
  BY DEF from_parse_data
<1> HIDE DEF refid, class, r
<1>3. CASE refid \in DOMAIN h.refs
  <2>1. h.refs[refid] \in DOMAIN h.objs /\ refid # NoRef /\ h.objs[h.refs[refid]].refid = refid
    BY <1>3 DEF Referenced
  <2>2. h.refs[refid] # 1 /\ ~ IsMemberdef(pd)
    BY <1>1, <2>1 DEF Referenced
  <2>3. r = Return(h, h.refs[refid])
    BY <1>2, <1>3
  <2> QED
    BY <2>1, <2>2, <2>3, ResultAppended, ResultDoes DEF r, class
<1>4. CASE refid \notin DOMAIN h.refs
  <2> DEFINE o == Len(h.objs) + 1
             g == New(h, class, <<pd>>, refid)
  <2>1. /\ Shaped(g) /\ Referenced(g) /\ Longer(h, g) /\ o # 1
        /\ DOMAIN g.objs = DOMAIN h.objs \cup {o} /\ g.val = o
        /\ g.objs[o].pd = <<pd>> /\ g.objs[o].refid = refid /\ g.objs[o].class = class
    BY <1>4, NewDoes
  <2>2. r = g
    BY <1>2, <1>4
  <2> HIDE DEF o, g
  <2>3. g.objs[o].pd # <<>> /\ g.objs[o].pd[1] = pd
    BY <2>1
  <2>4. MadeOf(g.objs[o])
    BY <1>1, <1>5, <2>1, <2>3 DEF MadeOf, class, RefOf
  <2>5. NameOf(g, o) = PdName(pd)
    BY <2>3 DEF NameOf, PdName
  <2>6. Appended(h, g)
    BY <2>1, <2>4 DEF Appended
  <2>7. None \notin DOMAIN g.objs
    BY <2>1, NoneIsNone
  <2>8. Represents(g, o, pd)
    BY <2>1, <2>5, <2>7 DEF Represents, class
  <2> QED
    BY <2>1, <2>2, <2>6, <2>8 DEF r, class
<1> QED
  BY <1>3, <1>4

LEMMA ConvertMem ==
    ASSUME NEW h, Shaped(h), Referenced(h), NEW pd, IsMemberdef(pd) \/ IsEntry(pd)
    PROVE  LET g == convert_mem(h, pd) IN
           /\ Appended(h, g)
           /\ KindOf(pd) \notin DOMAIN mem_classes => g.val = None
           /\ KindOf(pd) \in DOMAIN mem_classes => g.val \in DOMAIN g.objs /\ g.val # 1
           /\ IsMemberdef(pd) => Represents(g, g.val, pd)
<1>1. CASE KindOf(pd) \in DOMAIN mem_classes
  <2>1. convert_mem(h, pd) = from_parse_data(h, mem_classes[KindOf(pd)], pd)
    BY <1>1 DEF convert_mem, KindOf
  <2> QED
    BY <1>1, <2>1, FromParseData
<1>2. CASE KindOf(pd) \notin DOMAIN mem_classes
  <2>1. convert_mem(h, pd) = Return(h, None)
    BY <1>2 DEF convert_mem, KindOf
  <2> QED
    BY <1>2, <2>1, ResultAppended, ResultDoes DEF Represents
<1> QED
  BY <1>1, <1>2

-----------------------------------------------------------------------------
\* An object is read: its fields and new objects are all that changes.

Reading(h, o, g) ==
    /\ Shaped(g) /\ Referenced(g) /\ Grows(h, g)
    /\ \A p \in DOMAIN h.objs \ {o} : g.objs[p] = h.objs[p]
    /\ \A p \in DOMAIN g.objs \ {o} : p \in g.failed <=> p \in h.failed
    /\ g.objs[o].parsed = TRUE /\ Adopted(g, o)
    /\ g.objs[o].cats = h.objs[o].cats /\ g.objs[o].dicts = h.objs[o].dicts
    /\ \A p \in DOMAIN g.objs \ DOMAIN h.objs : Untouched(g.objs[p]) /\ MadeOf(g.objs[p])

LEMMA ReadingLeads ==
    ASSUME files \in Docs, NEW h, Good(h), NEW o \in DOMAIN h.objs,
           h.objs[o].parsed # TRUE, NEW g, Reading(h, o, g), FileRead(g, o),
           Childless(g, o)
    PROVE  Leads(h, g)
<1>1. Shaped(h) /\ Shaped(g) /\ Referenced(g) /\ Grows(h, g)
  BY DEF Good, Reading
<1>2. ASSUME NEW p \in DOMAIN h.objs \ {o} PROVE Retains(h, g, p) /\ Sound(g, p)
  <2>1. g.objs[p] = h.objs[p] /\ p \in DOMAIN g.objs \ {o}
    BY DEF Reading, Grows
  <2>2. Retains(h, g, p)
    BY <2>1 DEF Reading, Retains
  <2> QED
    BY <1>1, <2>1, <2>2, SoundStays DEF Good
<1>3. ASSUME NEW p \in DOMAIN g.objs, p \notin DOMAIN h.objs PROVE Sound(g, p)
  <2>1. Untouched(g.objs[p]) /\ MadeOf(g.objs[p]) /\ (p \in g.failed <=> p \in h.failed)
    BY <1>3 DEF Reading
  <2>2. p \notin g.failed
    BY <1>1, <1>3, <2>1 DEF Shaped
  <2> QED
    BY <2>1, <2>2, SoundUntouched
<1>4. Sound(g, o)
  <2>1. Sound(h, o)
    BY DEF Good
  <2>2. Untouched(h.objs[o])
    BY <2>1 DEF Sound, Fresh
  <2>3. MadeOf(g.objs[o])
    BY <2>1 DEF Sound, MadeOf, Reading, Grows
  <2>4. Fresh(g, o) /\ Adopted(g, o)
    BY DEF Reading, Fresh
  <2>5. Caches(g, o)
    BY <2>2 DEF Reading, Untouched, Caches, ListsFresh, BlocksFresh, DictsHold, Listed
  <2> QED
    BY <2>3, <2>4, <2>5 DEF Sound
<1>5. Good(g)
  BY <1>1, <1>2, <1>3, <1>4 DEF Good
<1> QED
  BY <1>1, <1>2, <1>5 DEF Leads, Extends

\* A step of the reading of o that raises nothing.
Filling(h, o, g) ==
    /\ Reading(h, o, g) /\ g.exc = h.exc /\ g.failed = h.failed
    /\ g.objs[o].error = h.objs[o].error
Filled(h, o) ==
    Shaped(h) /\ Referenced(h) /\ o \in DOMAIN h.objs /\ h.objs[o].parsed = TRUE /\ Adopted(h, o)

LEMMA FillingFilled ==
    ASSUME NEW h, NEW o \in DOMAIN h.objs, NEW g, Filling(h, o, g)
    PROVE  Filled(g, o) /\ Grows(h, g)
  BY DEF Filling, Filled, Reading, Grows

LEMMA ReadingOn ==
    ASSUME NEW h, Shaped(h), NEW o \in DOMAIN h.objs, NEW g, NEW k,
           Reading(h, o, g), Filling(g, o, k)
    PROVE  Reading(h, o, k) /\ (Filling(h, o, g) => Filling(h, o, k))
<1>1. Grows(h, k)
  BY DEF Filling, Reading, Grows
<1>2. \A p \in DOMAIN h.objs \ {o} : k.objs[p] = h.objs[p]
  BY DEF Filling, Reading, Grows
<1>3. ASSUME NEW p \in DOMAIN k.objs \ {o} PROVE p \in k.failed <=> p \in h.failed
  <2>1. CASE p \in DOMAIN g.objs
    BY <2>1 DEF Filling, Reading
  <2>2. CASE p \notin DOMAIN g.objs
    <3>1. p \notin g.failed /\ k.failed = g.failed
      BY <2>2 DEF Filling, Reading, Shaped
    <3>2. p \notin h.failed
      <4>1. h.failed \subseteq DOMAIN g.objs
        BY DEF Shaped, Reading, Grows
      <4> QED
        BY <2>2, <4>1
    <3> QED
      BY <3>1, <3>2
  <2> QED
    BY <2>1, <2>2
<1>4. ASSUME NEW p \in DOMAIN k.objs, p \notin DOMAIN h.objs
      PROVE  Untouched(k.objs[p]) /\ MadeOf(k.objs[p])
  <2>1. CASE p \in DOMAIN g.objs
    <3>1. p # o /\ Untouched(g.objs[p]) /\ MadeOf(g.objs[p])
      BY <1>4, <2>1 DEF Reading
    <3>2. k.objs[p] = g.objs[p]
      BY <2>1, <3>1 DEF Filling, Reading
    <3> QED
      BY <3>1, <3>2
  <2>2. CASE p \notin DOMAIN g.objs
    BY <2>2 DEF Filling, Reading
  <2> QED
    BY <2>1, <2>2
<1>5. Reading(h, o, k)
  BY <1>1, <1>2, <1>3, <1>4 DEF Filling, Reading
<1> QED
  BY <1>5 DEF Filling

LEMMA PutReferenced ==
    ASSUME NEW h, Shaped(h), Referenced(h), NEW o \in DOMAIN h.objs,
           NEW f \in Fields \ {"class", "pd", "refid"}, NEW v
    PROVE  LET g == Put(h, o, f, v) IN Referenced(g) /\ Grows(h, g)
<1> DEFINE g == Put(h, o, f, v)
<1>1. /\ DOMAIN g.objs = DOMAIN h.objs /\ g.refs = h.refs
      /\ \A k \in Fields \ {f} : g.objs[o][k] = h.objs[o][k]
      /\ \A p \in DOMAIN h.objs \ {o} : g.objs[p] = h.objs[p]
  BY PutDoes
<1> HIDE DEF g
<1>2. \A p \in DOMAIN h.objs : /\ g.objs[p].class = h.objs[p].class
                               /\ g.objs[p].pd = h.objs[p].pd
                               /\ g.objs[p].refid = h.objs[p].refid
  BY <1>1 DEF Fields
<1>3. 1 \in DOMAIN h.objs
  BY DEF Shaped
<1>4. Grows(h, g)
  BY <1>1, <1>2 DEF Grows
<1>5. Referenced(g)
  BY <1>1, <1>2, <1>3 DEF Referenced
<1> QED
  BY <1>4, <1>5 DEF g

LEMMA PutData ==
    ASSUME NEW h, NEW o, Filled(h, o), NEW v
    PROVE  LET g == Put(h, o, "data", v) IN
           Filling(h, o, g) /\ g.objs[o].members = h.objs[o].members
<1> DEFINE g == Put(h, o, "data", v)
<1>1. /\ Shaped(h) /\ Referenced(h) /\ o \in DOMAIN h.objs
      /\ "data" \in Fields \ {"class", "pd", "refid"}
  BY DEF Filled, Fields
<1>2. /\ Shaped(g) /\ DOMAIN g.objs = DOMAIN h.objs /\ g.exc = h.exc /\ g.failed = h.failed
      /\ \A k \in Fields \ {"data"} : g.objs[o][k] = h.objs[o][k]
      /\ \A p \in DOMAIN h.objs \ {o} : g.objs[p] = h.objs[p]
  BY <1>1, PutDoes
<1>3. Referenced(g) /\ Grows(h, g)
  BY <1>1, PutReferenced
<1> HIDE DEF g
<1>4. /\ g.objs[o].parsed = h.objs[o].parsed /\ g.objs[o].members = h.objs[o].members
      /\ g.objs[o].cats = h.objs[o].cats /\ g.objs[o].dicts = h.objs[o].dicts
      /\ g.objs[o].error = h.objs[o].error
  BY <1>2 DEF Fields
<1> QED
  BY <1>2, <1>3, <1>4 DEF Filled, Filling, Reading, Adopted, g

\* An object that was just made or found becomes a member.
LEMMA AdoptDoes ==
    ASSUME NEW h, NEW o, Filled(h, o), NEW k, Appended(h, k),
           k.val \in {None} \cup DOMAIN k.objs
    PROVE  LET g == Adopt(k, o) IN
           /\ Filling(h, o, g) /\ Grows(k, g)
           /\ Len(g.objs[o].members) = Len(h.objs[o].members) + 1
           /\ \A i \in DOMAIN h.objs[o].members :
                 g.objs[o].members[i] = h.objs[o].members[i]
           /\ g.objs[o].members[Len(h.objs[o].members) + 1] = k.val
<1> DEFINE S == {None} \cup DOMAIN k.objs
           s == h.objs[o].members
           t == Append(s, k.val)
           g == Put(k, o, "members", t)
<1>1. /\ Shaped(k) /\ Referenced(k) /\ o \in DOMAIN h.objs /\ o \in DOMAIN k.objs
      /\ k.objs[o] = h.objs[o] /\ Grows(h, k) /\ k.failed = h.failed /\ k.exc = h.exc
      /\ "members" \in Fields \ {"class", "pd", "refid"}
  BY AppendedGrows DEF Appended, Filled, Longer, Fields
<1>2. Adopt(k, o) = g
  BY <1>1 DEF Adopt, Put
<1>3. s \in Seq(S) /\ k.val \in S
  <2>1. {None} \cup DOMAIN h.objs \subseteq S
    BY <1>1 DEF Grows
  <2> QED
    BY <2>1 DEF Filled, Adopted
<1>4. /\ t \in Seq(S) /\ Len(t) = Len(s) + 1 /\ \A i \in DOMAIN s : t[i] = s[i]
      /\ t[Len(s) + 1] = k.val
  <2> HIDE DEF S
  <2>1. DOMAIN s = 1..Len(s)
    BY <1>3
  <2> QED
    BY <1>3, <2>1, AppendProperties
<1> HIDE DEF s, t
<1>5. /\ Shaped(g) /\ DOMAIN g.objs = DOMAIN k.objs /\ g.exc = k.exc /\ g.failed = k.failed
      /\ g.objs[o].members = t
      /\ \A f \in Fields \ {"members"} : g.objs[o][f] = k.objs[o][f]
      /\ \A p \in DOMAIN k.objs \ {o} : g.objs[p] = k.objs[p]
  BY <1>1, PutDoes
<1>6. Referenced(g) /\ Grows(k, g)
  BY <1>1, PutReferenced
<1> HIDE DEF g
<1>7. /\ g.objs[o].parsed = TRUE /\ g.objs[o].error = h.objs[o].error
      /\ g.objs[o].cats = h.objs[o].cats /\ g.objs[o].dicts = h.objs[o].dicts
  BY <1>1, <1>5 DEF Fields, Filled
<1>8. Adopted(g, o)
  BY <1>4, <1>5 DEF Adopted
<1>9. Grows(h, g)
  BY <1>1, <1>6 DEF Grows
<1>10. \A p \in DOMAIN h.objs \ {o} : g.objs[p] = h.objs[p]
  BY <1>5 DEF Appended, Longer
<1>11. ASSUME NEW p \in DOMAIN g.objs, p \notin DOMAIN h.objs
       PROVE  Untouched(g.objs[p]) /\ MadeOf(g.objs[p])
  BY <1>1, <1>5, <1>11 DEF Appended, Longer
<1>12. Filling(h, o, g)
  BY <1>1, <1>5, <1>6, <1>7, <1>8, <1>9, <1>10, <1>11 DEF Filling, Reading
<1> QED
  BY <1>2, <1>4, <1>5, <1>6, <1>12 DEF s

LEMMA AddMember ==
    ASSUME NEW h, NEW o, Filled(h, o), NEW pd, IsMemberdef(pd)
    PROVE  LET g == add_member(o, h, pd) IN
           /\ Filling(h, o, g)
           /\ Len(g.objs[o].members) = Len(h.objs[o].members) + 1
           /\ \A i \in DOMAIN h.objs[o].members :
                 g.objs[o].members[i] = h.objs[o].members[i]
           /\ Represents(g, g.objs[o].members[Len(h.objs[o].members) + 1], pd)
<1> DEFINE k == convert_mem(h, pd)
           g == Adopt(k, o)
<1>1. add_member(o, h, pd) = g
  BY DEF add_member
<1>2. /\ Appended(h, k) /\ k.val \in {None} \cup DOMAIN k.objs /\ Represents(k, k.val, pd)
  BY ConvertMem DEF Filled
<1> HIDE DEF k
<1>3. /\ Filling(h, o, g) /\ Grows(k, g)
      /\ Len(g.objs[o].members) = Len(h.objs[o].members) + 1
      /\ \A i \in DOMAIN h.objs[o].members :
            g.objs[o].members[i] = h.objs[o].members[i]
      /\ g.objs[o].members[Len(h.objs[o].members) + 1] = k.val
  BY <1>2, AdoptDoes
<1> HIDE DEF g
<1>4. Represents(g, k.val, pd)
  BY <1>2, <1>3, RepresentsStays
<1> QED
  BY <1>1, <1>3, <1>4

LEMMA FillingSelf ==
    ASSUME NEW h, NEW o, Filled(h, o)
    PROVE  Filling(h, o, h)
  BY DEF Filled, Filling, Reading, Grows

MemberHolds(o, b, s, k, a) ==
    /\ Filling(b, o, a)
    /\ b.objs[o].members = <<>> =>
          /\ Len(a.objs[o].members) = k
          /\ \A i \in 1..k : Represents(a, a.objs[o].members[i], s[i])
MemberLoop == INSTANCE Iterate_proofs WITH Step <- add_member, Holds <- MemberHolds

LEMMA ProcessMemberdefs ==
    ASSUME NEW h, NEW o, Filled(h, o), NEW cdef, IsCompounddef(cdef)
    PROVE  LET g == process_memberdefs(h, o, cdef) IN
           /\ Filling(h, o, g)
           /\ h.objs[o].members = <<>> =>
                 MadeFrom(g, g.objs[o].members, Unique(Memberdefs(cdef)))
<1> DEFINE s == Unique(Memberdefs(cdef))
           g == MemberLoop!Loop(o, h, s)
<1>1. process_memberdefs(h, o, cdef) = g
  BY Zenon DEF process_memberdefs, EachMember!Loop, EachMember!Run,
               MemberLoop!Loop, MemberLoop!Run
<1>2. IsSeq(s) /\ \A pd \in Range(s) : IsMemberdef(pd)
  BY MemberdefsAre, UniqueAre
<1> HIDE DEF s
<1>3. /\ Len(s) \in Nat /\ DOMAIN s = 1..Len(s)
      /\ \A k \in 1..Len(s) : IsMemberdef(s[k])
  BY <1>2, SeqElements
<1>4. MemberHolds(o, h, s, 0, h)
  BY FillingSelf DEF MemberHolds
<1>5. ASSUME NEW k \in 1..Len(s), NEW a, MemberHolds(o, h, s, k - 1, a)
      PROVE  MemberHolds(o, h, s, k, add_member(o, a, s[k]))
  <2> DEFINE b == add_member(o, a, s[k])
             ms == a.objs[o].members
             ns == b.objs[o].members
  <2>1. Filling(h, o, a) /\ o \in DOMAIN h.objs /\ Shaped(h)
    BY <1>5 DEF MemberHolds, Filled
  <2>2. Filled(a, o)
    BY <2>1, FillingFilled
  <2>3. /\ Filling(a, o, b) /\ Len(ns) = Len(ms) + 1
        /\ \A i \in DOMAIN ms : ns[i] = ms[i]
        /\ Represents(b, ns[Len(ms) + 1], s[k])
    BY <1>3, <2>2, AddMember
  <2> HIDE DEF b
  <2>4. Filling(h, o, b)
    BY <2>1, <2>3, ReadingOn DEF Filling
  <2>5. Grows(a, b)
    BY <2>3 DEF Filling, Reading
  <2>6. ms \in Seq({None} \cup DOMAIN a.objs)
    BY <2>2 DEF Filled, Adopted
  <2>7. ASSUME h.objs[o].members = <<>>
        PROVE  Len(ns) = k /\ \A i \in 1..k : Represents(b, ns[i], s[i])
    <3>1. Len(ms) = k - 1 /\ \A i \in 1..(k - 1) : Represents(a, ms[i], s[i])
      BY <1>5, <2>7 DEF MemberHolds
    <3>2. DOMAIN ms = 1..(k - 1) /\ \A i \in DOMAIN ms : ms[i] \in {None} \cup DOMAIN a.objs
      BY <2>6, <3>1
    <3> HIDE DEF ms, ns
    <3>3. ASSUME NEW i \in 1..(k - 1) PROVE Represents(b, ns[i], s[i])
      <4>1. ns[i] = ms[i] /\ ms[i] \in {None} \cup DOMAIN a.objs /\ Represents(a, ms[i], s[i])
        BY <2>3, <3>1, <3>2
      <4> QED
        BY <2>5, <4>1, RepresentsStays
    <3>4. Len(ns) = k /\ Represents(b, ns[k], s[k])
      BY <2>3, <3>1
    <3>5. \A i \in 1..k : i \in 1..(k - 1) \/ i = k
      BY <1>3
    <3> QED
      BY <3>3, <3>4, <3>5
  <2> QED
    BY <2>4, <2>7 DEF MemberHolds, b
<1>6. MemberHolds(o, h, s, Len(s), g)
  BY <1>3, <1>4, <1>5, MemberLoop!LoopKeeps
<1> HIDE DEF g
<1>7. h.objs[o].members = <<>> => MadeFrom(g, g.objs[o].members, s)
  BY <1>3, <1>6 DEF MemberHolds, MadeFrom
<1> QED
  BY <1>1, <1>6, <1>7 DEF MemberHolds, s

InnerHolds(c, b, s, k, a) == Filling(b, c.group, a)
InnerLoop == INSTANCE Iterate_proofs WITH Step <- add_inner, Holds <- InnerHolds

LEMMA AddAll ==
    ASSUME NEW h, NEW o, Filled(h, o), NEW class \in {"DoxyGroup", "DoxyClass"}, NEW refs, IsSeq(refs),
           \A ref \in Range(refs) : IsRef(ref.attr["refid"])
    PROVE  Filling(h, o, add_all(h, o, class, refs))
<1> DEFINE c == [group |-> o, class |-> class]
           g == InnerLoop!Loop(c, h, refs)
<1>1. add_all(h, o, class, refs) = g
  BY Zenon DEF add_all, EachInner!Loop, EachInner!Run, InnerLoop!Loop, InnerLoop!Run
<1>2. c.group = o /\ c.class \in {"DoxyGroup", "DoxyClass"}
  OBVIOUS
<1> HIDE DEF c
<1>3. Len(refs) \in Nat /\ \A k \in 1..Len(refs) : IsRef(refs[k].attr["refid"])
  BY SeqElements
<1>4. InnerHolds(c, h, refs, 0, h)
  BY <1>2, FillingSelf DEF InnerHolds
<1>5. ASSUME NEW k \in 1..Len(refs), NEW a, InnerHolds(c, h, refs, k - 1, a)
      PROVE  InnerHolds(c, h, refs, k, add_inner(c, a, refs[k]))
  <2>1. Filling(h, o, a) /\ o \in DOMAIN h.objs /\ Shaped(h)
    BY <1>2, <1>5 DEF InnerHolds, Filled
  <2>2. Filled(a, o)
    BY <2>1, FillingFilled
  <2> DEFINE d == from_refid(a, c.class, refs[k].attr["refid"])
  <2>3. Appended(a, d) /\ d.val \in DOMAIN d.objs
    BY <1>2, <1>3, <2>2, FromRefid DEF Filled
  <2>4. add_inner(c, a, refs[k]) = Adopt(d, o)
    BY <1>2 DEF add_inner
  <2> HIDE DEF d
  <2>5. Filling(a, o, Adopt(d, o))
    BY <2>2, <2>3, AdoptDoes
  <2> QED
    BY <1>2, <2>1, <2>4, <2>5, ReadingOn DEF Filling, InnerHolds
<1>6. InnerHolds(c, h, refs, Len(refs), g)
  BY <1>3, <1>4, <1>5, InnerLoop!LoopKeeps
<1> QED
  BY <1>1, <1>2, <1>6 DEF InnerHolds

LEMMA Inner ==
    ASSUME NEW h, NEW o, Filled(h, o), NEW cdef, IsCompounddef(cdef)
    PROVE  Filling(h, o, inner(h, o, cdef))
<1> DEFINE v == With(h.objs[o].data, "title",
                     IF cdef.field["title"] = <<>> THEN <<>>
                     ELSE Description(cdef.field["title"]))
           a == Put(h, o, "data", v)
           b == add_all(a, o, "DoxyGroup", cdef.field["innergroup"])
           g == add_all(b, o, "DoxyClass", cdef.field["innerclass"])
<1>1. inner(h, o, cdef) = g
  BY DEF inner, Put
<1> HIDE DEF v
<1>2. Filling(h, o, a) /\ o \in DOMAIN h.objs /\ Shaped(h)
  BY PutData DEF Filled
<1> HIDE DEF a
<1>3. /\ IsSeq(cdef.field["innergroup"]) /\ IsSeq(cdef.field["innerclass"])
      /\ \A ref \in Range(cdef.field["innergroup"]) : IsRef(ref.attr["refid"])
      /\ \A ref \in Range(cdef.field["innerclass"]) : IsRef(ref.attr["refid"])
  BY DEF IsCompounddef
<1>4. Filled(a, o)
  BY <1>2, FillingFilled
<1>5. Filling(a, o, b)
  BY <1>3, <1>4, AddAll
<1> HIDE DEF b
<1>6. Filling(h, o, b)
  BY <1>2, <1>5, ReadingOn DEF Filling
<1>7. Filled(b, o)
  BY <1>2, <1>6, FillingFilled
<1>8. Filling(b, o, g)
  BY <1>3, <1>7, AddAll
<1> QED
  BY <1>1, <1>2, <1>6, <1>8, ReadingOn DEF Filling

LEMMA ParseCompound ==
    ASSUME NEW h, NEW o, Filled(h, o), NEW cdef, IsCompounddef(cdef)
    PROVE  LET g == parse_compound(h, o, cdef) IN
           /\ Filling(h, o, g)
           /\ (h.objs[o].class # "DoxyGroup" /\ h.objs[o].members = <<>>) =>
                 MadeFrom(g, g.objs[o].members, Unique(Memberdefs(cdef)))
<1> DEFINE a == IF h.objs[o].class = "DoxyGroup" THEN inner(h, o, cdef)
                ELSE set_descriptions(h, o, cdef)
           g == process_memberdefs(a, o, cdef)
<1>1. parse_compound(h, o, cdef) = g
  BY DEF parse_compound
<1>2. /\ Filling(h, o, a)
      /\ h.objs[o].class # "DoxyGroup" => a.objs[o].members = h.objs[o].members
  <2>1. CASE h.objs[o].class = "DoxyGroup"
    BY <2>1, Inner
  <2>2. CASE h.objs[o].class # "DoxyGroup"
    <3> DEFINE v == With(With(h.objs[o].data, "brief",
                              Description(cdef.field["briefdescription"])),
                         "detailed", Description(cdef.field["detaileddescription"]))
    <3>1. a = Put(h, o, "data", v)
      BY <2>2 DEF set_descriptions, Put
    <3> HIDE DEF v, a
    <3> QED
      BY <3>1, PutData
  <2> QED
    BY <2>1, <2>2
<1> HIDE DEF a
<1>3. o \in DOMAIN h.objs /\ Shaped(h)
  BY DEF Filled
<1>4. Filled(a, o)
  BY <1>2, <1>3, FillingFilled
<1>5. /\ Filling(a, o, g)
      /\ a.objs[o].members = <<>> =>
            MadeFrom(g, g.objs[o].members, Unique(Memberdefs(cdef)))
  BY <1>4, ProcessMemberdefs
<1>6. Filling(h, o, g)
  BY <1>2, <1>3, <1>5, ReadingOn DEF Filling
<1> QED
  BY <1>1, <1>2, <1>5, <1>6

LEMMA ReadingNoted ==
    ASSUME NEW h, NEW o, NEW g, Reading(h, o, g), NEW k, Shaped(k),
           k.objs = g.objs, k.refs = g.refs,
           k.failed = g.failed \/ k.failed = g.failed \cup {o}
    PROVE  Reading(h, o, k)
<1>1. \A p \in DOMAIN k.objs \ {o} : p \in k.failed <=> p \in h.failed
  BY DEF Reading
<1> QED
  BY <1>1 DEF Reading, Referenced, Grows, Adopted

\* The flag that _parse sets first.
LEMMA ParsedDoes ==
    ASSUME NEW h, Good(h), NEW o \in DOMAIN h.objs, h.objs[o].parsed # TRUE
    PROVE  LET g == Parsed(h, o) IN
           /\ Reading(h, o, g) /\ Filled(g, o) /\ g.exc = h.exc /\ g.failed = h.failed
           /\ DOMAIN g.objs = DOMAIN h.objs
           /\ g.objs[o].members = <<>> /\ g.objs[o].error = FALSE /\ o \notin g.failed
<1> DEFINE v == TRUE
           g == Put(h, o, "parsed", v)
<1>1. Parsed(h, o) = g
  BY DEF Parsed, Put
<1> HIDE DEF v
<1>2. Shaped(h) /\ Referenced(h) /\ "parsed" \in Fields \ {"class", "pd", "refid"}
  BY DEF Good, Fields
<1>3. Untouched(h.objs[o]) /\ o \notin h.failed
  BY DEF Good, Sound, Fresh
<1>4. /\ Shaped(g) /\ DOMAIN g.objs = DOMAIN h.objs /\ g.exc = h.exc /\ g.failed = h.failed
      /\ g.objs[o].parsed = v
      /\ \A k \in Fields \ {"parsed"} : g.objs[o][k] = h.objs[o][k]
      /\ \A p \in DOMAIN h.objs \ {o} : g.objs[p] = h.objs[p]
  BY <1>2, PutDoes
<1>5. Referenced(g) /\ Grows(h, g)
  BY <1>2, PutReferenced
<1> HIDE DEF g
<1>6. /\ g.objs[o].members = <<>> /\ g.objs[o].error = FALSE
      /\ g.objs[o].cats = h.objs[o].cats /\ g.objs[o].dicts = h.objs[o].dicts
  BY <1>3, <1>4 DEF Fields, Untouched
<1>7. Adopted(g, o) /\ g.objs[o].parsed = TRUE
  BY <1>4, <1>6 DEF Adopted, v
<1> QED
  BY <1>1, <1>3, <1>4, <1>5, <1>6, <1>7 DEF Reading, Filled

\* The reading of a class, a file or a group: it succeeds, finds a file that is
\* not XML, or raises an exception.
Reads(h, o, p, r, g) ==
    p = Parsed(h, o) /\ r = retrieve_and_parse(p, o) /\ g = Noted(r, o)
LEMMA ReadFile ==
    ASSUME files \in Docs, NEW h, Good(h), Calm(h), NEW o \in DOMAIN h.objs,
           h.objs[o].parsed # TRUE, NEW p, NEW r, NEW g, Reads(h, o, p, r, g)
    PROVE  Reading(h, o, g) /\ FileRead(g, o)
<1> DEFINE refid == p.objs[o].refid
           doc == files[refid]
<1>0. g = Noted(r, o)
  BY Zenon DEF Reads
<1>1. /\ Reading(h, o, p) /\ Filled(p, o) /\ p.exc = h.exc /\ p.failed = h.failed
      /\ DOMAIN p.objs = DOMAIN h.objs
      /\ p.objs[o].members = <<>> /\ p.objs[o].error = FALSE /\ o \notin p.failed
  BY ParsedDoes DEF Reads
<1>2. Shaped(p) /\ o \in DOMAIN p.objs /\ Shaped(h)
  BY <1>1 DEF Filled, Good
<1>3. refid # "index"
  BY <1>1 DEF Good, Sound, MadeOf, Reading, Grows
<1>4. ASSUME ~ Readable(refid), NEW e, r = Raise(p, e), ~ Calm(r)
      PROVE  Reading(h, o, g) /\ FileRead(g, o)
  <2>1. Shaped(r) /\ r.objs = p.objs /\ r.refs = p.refs /\ r.failed = p.failed
    BY <1>2, <1>4, ResultDoes
  <2>2. /\ Shaped(g) /\ g.objs = p.objs /\ g.refs = p.refs
        /\ g.failed = p.failed \cup {o}
    BY <1>0, <1>2, <1>4, <2>1, NotedDoes
  <2>3. FileRead(g, o)
    BY <1>1, <1>4, <2>2 DEF FileRead
  <2> QED
    BY <1>1, <2>2, <2>3, ReadingNoted
<1>5. CASE refid \notin DOMAIN files
  <2>1. r = Raise(p, "IOError") /\ ~ Readable(refid)
    BY <1>5 DEF Reads, retrieve_and_parse, Readable
  <2>2. ~ Calm(r)
    BY <1>2, <2>1, RaiseDoes
  <2> QED
    BY <1>4, <2>1, <2>2
<1>6. CASE refid \in DOMAIN files /\ ~ doc.ok
  <2> DEFINE v == TRUE
             q == Put(p, o, "error", v)
             e == IF p.objs[o].class = "DoxyFile" THEN "AttributeError" ELSE ""
  <2>1. ~ Readable(refid)
    BY <1>6 DEF Readable
  <2>2. r = Raise(q, e)
    BY <1>6 DEF Reads, retrieve_and_parse, parse_file, Raise, Put
  <2> HIDE DEF v, e
  <2>a. "error" \in Fields \ {"class", "pd", "refid"} /\ "error" \in Fields
    BY DEF Fields
  <2>3. /\ Shaped(q) /\ DOMAIN q.objs = DOMAIN p.objs /\ q.failed = p.failed
        /\ q.objs[o].error = v
        /\ \A k \in Fields \ {"error"} : q.objs[o][k] = p.objs[o][k]
        /\ \A x \in DOMAIN p.objs \ {o} : q.objs[x] = p.objs[x]
    BY <1>2, <2>a, PutDoes
  <2>4. Referenced(q) /\ Grows(p, q)
    BY <1>1, <1>2, <2>a, PutReferenced DEF Filled
  <2> HIDE DEF q
  <2>5. /\ q.objs[o].members = <<>> /\ q.objs[o].parsed = TRUE
        /\ q.objs[o].refid = refid
        /\ q.objs[o].cats = p.objs[o].cats /\ q.objs[o].dicts = p.objs[o].dicts
    BY <1>1, <2>3 DEF Fields, Filled
  <2>6. Reading(h, o, q)
    <3>1. Grows(h, q)
      BY <1>1, <2>4 DEF Reading, Grows
    <3>2. Adopted(q, o)
      <4>1. <<>> \in Seq({None} \cup DOMAIN q.objs)
        OBVIOUS
      <4> QED
        BY <2>5, <4>1 DEF Adopted
    <3> QED
      BY <1>1, <2>3, <2>4, <2>5, <3>1, <3>2 DEF Reading
  <2>7. /\ Shaped(g) /\ g.objs = q.objs /\ g.refs = q.refs
        /\ g.failed = q.failed \/ g.failed = q.failed \cup {o}
    <3>1. Shaped(r) /\ r.objs = q.objs /\ r.refs = q.refs /\ r.failed = q.failed
      BY <2>2, <2>3, ResultDoes
    <3> QED
      BY <1>0, <1>2, <2>3, <3>1, NotedDoes
  <2>8. FileRead(g, o)
    BY <2>1, <2>3, <2>5, <2>7 DEF FileRead, v
  <2> QED
    BY <2>6, <2>7, <2>8, ReadingNoted
<1>7. CASE refid \in DOMAIN files /\ doc.ok /\ Malformed(doc.root)
  <2>1. r = Raise(p, "ValueError") /\ ~ Readable(refid)
    BY <1>7 DEF Reads, retrieve_and_parse, parse_file, Readable
  <2>2. ~ Calm(r)
    BY <1>2, <2>1, RaiseDoes
  <2> QED
    BY <1>4, <2>1, <2>2
<1>8. CASE refid \in DOMAIN files /\ doc.ok /\ ~ Malformed(doc.root) /\ ~ Bare(doc.root)
  <2> DEFINE cdef == CompounddefOf(doc.root)
  <2>1. r = parse_compound(p, o, cdef)
    BY <1>8 DEF Reads, retrieve_and_parse, parse_file
  <2>2. Readable(refid) /\ IsCompounddef(cdef) /\ Memberdefs(cdef) = MemberDefs(refid)
    BY <1>3, <1>8, ReadableIs DEF Readable, Def, MemberDefs
  <2> HIDE DEF cdef
  <2>3. /\ Filling(p, o, r)
        /\ p.objs[o].class # "DoxyGroup" =>
              MadeFrom(r, r.objs[o].members, Unique(MemberDefs(refid)))
    BY <1>1, <2>1, <2>2, ParseCompound
  <2>4. g = r
    <3>1. r.exc = h.exc
      BY <1>1, <2>3 DEF Filling
    <3> QED
      BY Zenon, <3>1 DEF Noted, Reads, Calm
  <2>5. Reading(h, o, r)
    BY <1>1, <1>2, <2>3, ReadingOn
  <2>6. FileRead(r, o)
    <3>1. /\ r.objs[o].class = p.objs[o].class /\ r.objs[o].refid = refid
          /\ r.objs[o].error = FALSE /\ o \notin r.failed
      BY <1>1, <1>2, <2>3 DEF Filling, Reading, Grows
    <3> QED
      BY <2>2, <2>3, <3>1 DEF FileRead
  <2> QED
    BY <2>4, <2>5, <2>6
<1>9. CASE refid \in DOMAIN files /\ doc.ok /\ ~ Malformed(doc.root) /\ Bare(doc.root)
  <2> DEFINE text == With(With(p.objs[o].data, "brief", <<NoText>>), "detailed", <<NoText>>)
             q == Put(p, o, "data", text)
  <2>1. ~ Readable(refid)
    BY <1>9 DEF Readable
  <2>2. r = parse_bare(p, o)
    BY <1>9 DEF Reads, retrieve_and_parse, parse_file
  <2>3. CASE p.objs[o].class = "DoxyGroup"
    <3>1. r = Raise(p, "AttributeError")
      BY <2>2, <2>3 DEF parse_bare
    <3>2. ~ Calm(r)
      BY <1>2, <3>1, RaiseDoes
    <3> QED
      BY <1>4, <2>1, <3>1, <3>2
  <2>4. CASE p.objs[o].class # "DoxyGroup"
    <3>1. r = Raise(q, "AttributeError")
      BY <2>2, <2>4 DEF parse_bare, Put
    <3> HIDE DEF text
    <3>a. "data" \in Fields \ {"class", "pd", "refid"} /\ "data" \in Fields
      BY DEF Fields
    <3>2. /\ Shaped(q) /\ DOMAIN q.objs = DOMAIN p.objs /\ q.failed = p.failed
          /\ \A k \in Fields \ {"data"} : q.objs[o][k] = p.objs[o][k]
          /\ \A x \in DOMAIN p.objs \ {o} : q.objs[x] = p.objs[x]
      BY <1>2, <3>a, PutDoes
    <3>3. Referenced(q) /\ Grows(p, q)
      BY <1>1, <1>2, <3>a, PutReferenced DEF Filled
    <3> HIDE DEF q
    <3>4. /\ q.objs[o].members = <<>> /\ q.objs[o].error = FALSE
          /\ q.objs[o].parsed = TRUE /\ q.objs[o].refid = refid
          /\ q.objs[o].cats = p.objs[o].cats /\ q.objs[o].dicts = p.objs[o].dicts
      BY <1>1, <3>2 DEF Fields, Filled
    <3>5. Reading(h, o, q)
      <4>1. Grows(h, q)
        BY <1>1, <3>3 DEF Reading, Grows
      <4>2. Adopted(q, o)
        <5>1. <<>> \in Seq({None} \cup DOMAIN q.objs)
          OBVIOUS
        <5> QED
          BY <3>4, <5>1 DEF Adopted
      <4> QED
        BY <1>1, <3>2, <3>3, <3>4, <4>1, <4>2 DEF Reading
    <3>6. /\ Shaped(g) /\ g.objs = q.objs /\ g.refs = q.refs
          /\ g.failed = q.failed \cup {o}
      <4>1. Shaped(r) /\ r.objs = q.objs /\ r.refs = q.refs /\ r.failed = q.failed
        BY <3>1, <3>2, ResultDoes
      <4>2. ~ Calm(r)
        BY <3>1, <3>2, RaiseDoes
      <4> QED
        BY <1>0, <1>2, <3>2, <4>1, <4>2, NotedDoes
    <3>7. FileRead(g, o)
      BY <2>1, <3>4, <3>6 DEF FileRead
    <3> QED
      BY <3>5, <3>6, <3>7, ReadingNoted
  <2> QED
    BY <2>3, <2>4
<1> QED
  BY <1>5, <1>6, <1>7, <1>8, <1>9

-----------------------------------------------------------------------------
\* Calls one after the other.

LEMMA LeadsOn ==
    ASSUME NEW h, NEW g, NEW k, Leads(h, g), Leads(g, k)
    PROVE  Leads(h, k)
  BY ExtendsOn DEF Leads

LEMMA LeadsSelf == ASSUME NEW h, Good(h) PROVE Leads(h, h)
  BY ExtendsSelf DEF Leads

LEMMA LeadsIn ==
    ASSUME NEW h, NEW g, Leads(h, g)
    PROVE  Good(g) /\ Grows(h, g) /\ DOMAIN h.objs \subseteq DOMAIN g.objs
  BY DEF Leads, Extends, Grows

\* The result and the exception are no part of the invariant.
LEMMA SameLeads ==
    ASSUME files \in Docs, NEW h, Good(h), NEW g, Shaped(g),
           g.objs = h.objs, g.refs = h.refs, g.failed = h.failed
    PROVE  Leads(h, g)
<1>1. Shaped(h) /\ Referenced(g) /\ Grows(h, g)
  BY DEF Good, Referenced, Grows
<1>2. ASSUME NEW p \in DOMAIN h.objs PROVE Retains(h, g, p) /\ Sound(g, p)
  <2>1. Retains(h, g, p)
    BY DEF Retains
  <2> QED
    BY <1>1, <2>1, SoundStays DEF Good
<1>3. Good(g)
  BY <1>1, <1>2 DEF Good
<1> QED
  BY <1>1, <1>2, <1>3 DEF Leads, Extends

LEMMA ResultLeads ==
    ASSUME files \in Docs, NEW h, Good(h), NEW v
    PROVE  Leads(h, Return(h, v)) /\ Leads(h, Raise(h, v))
<1>1. Shaped(h)
  BY DEF Good
<1> QED
  BY <1>1, ResultDoes, SameLeads

LEMMA ConfirmDoes ==
    ASSUME files \in Docs, NEW h, Good(h), NEW o
    PROVE  /\ Leads(h, Confirm(h, o)) /\ Confirm(h, o).objs = h.objs
           /\ Calm(Confirm(h, o)) => Confirm(h, o) = h /\ ~ h.objs[o].error
<1>1. Shaped(h)
  BY DEF Good
<1>2. CASE Calm(h) /\ h.objs[o].error
  <2> DEFINE g == Raise(h, "ParsingError")
  <2>1. Confirm(h, o) = g
    BY Zenon, <1>2 DEF Confirm, Calm
  <2>2. Leads(h, g) /\ g.objs = h.objs
    BY <1>1, ResultLeads, ResultDoes
  <2>3. ~ Calm(g)
    BY <1>1, RaiseDoes
  <2> QED
    BY <2>1, <2>2, <2>3
<1>3. CASE ~ (Calm(h) /\ h.objs[o].error)
  <2>1. Confirm(h, o) = h
    BY Zenon, <1>3 DEF Confirm, Calm
  <2> QED
    BY <1>3, <2>1, LeadsSelf
<1> QED
  BY <1>2, <1>3

\* _parse of every class but the index leads on, and leaves the index alone.
LEMMA ParseObject ==
    ASSUME files \in Docs, NEW h, Good(h), Calm(h), NEW o \in DOMAIN h.objs
    PROVE  LET g == parse_object(h, o) IN
           /\ Leads(h, g) /\ g.objs[o].parsed = TRUE
           /\ o # 1 => g.objs[1] = h.objs[1]
<1> DEFINE p == Parsed(h, o)
           class == h.objs[o].class
<1>1. CASE h.objs[o].parsed = TRUE
  <2>1. parse_object(h, o) = h
    BY Zenon, <1>1 DEF parse_object
  <2> QED
    BY <1>1, <2>1, LeadsSelf
<1>2. CASE h.objs[o].parsed = FALSE
  <2>1. /\ Reading(h, o, p) /\ Filled(p, o) /\ h.objs[o].parsed # TRUE
        /\ p.objs[o].members = <<>>
    BY <1>2, ParsedDoes
  <2>2. 1 \in DOMAIN h.objs /\ Shaped(h)
    BY DEF Good, Shaped
  <2>3. ASSUME NEW g, Reading(h, o, g),
               \/ class \notin {"DoxyClass", "DoxyFile", "DoxyGroup"} /\ g.objs[o].members = <<>>
               \/ class \in {"DoxyClass", "DoxyFile", "DoxyGroup"} /\ FileRead(g, o)
        PROVE  /\ Leads(h, g) /\ g.objs[o].parsed = TRUE
               /\ o # 1 => g.objs[1] = h.objs[1]
    <3>1. FileRead(g, o) /\ Childless(g, o)
      BY <2>3 DEF FileRead, Childless, Reading, Grows
    <3>2. Leads(h, g)
      BY <2>1, <2>3, <3>1, ReadingLeads
    <3> QED
      BY <2>2, <2>3, <3>2 DEF Reading
  <2> HIDE DEF p
  <2>4. CASE class = "DoxyFunction"
    <3> DEFINE pd == h.objs[o].pd[1]
               a == set_descriptions(p, o, pd)
               g == set_parameters(a, o, pd)
    <3>1. parse_object(h, o) = g
      BY <1>2, <2>4 DEF parse_object, p
    <3>2. Filling(p, o, a) /\ a.objs[o].members = p.objs[o].members
      <4> DEFINE v == With(With(p.objs[o].data, "brief",
                                Description(pd.field["briefdescription"])),
                           "detailed", Description(pd.field["detaileddescription"]))
      <4>1. a = Put(p, o, "data", v)
        BY DEF set_descriptions, Put
      <4> HIDE DEF v, a
      <4> QED
        BY <2>1, <4>1, PutData
    <3> HIDE DEF a
    <3>3. Filled(a, o)
      BY <2>1, <3>2, FillingFilled DEF Filled
    <3>4. Filling(a, o, g) /\ g.objs[o].members = a.objs[o].members
      <4> DEFINE v == With(a.objs[o].data, "params",
                           [i \in DOMAIN pd.field["param"] |->
                              pd.field["param"][i].field["declname"][1]])
      <4>1. g = Put(a, o, "data", v)
        BY DEF set_parameters, Put
      <4> HIDE DEF v, g
      <4> QED
        BY <3>3, <4>1, PutData
    <3> HIDE DEF g
    <3>5. Reading(h, o, a)
      BY <2>1, <2>2, <3>2, ReadingOn
    <3>6. Reading(h, o, g)
      BY <2>2, <3>4, <3>5, ReadingOn
    <3> QED
      BY <2>1, <2>3, <2>4, <3>1, <3>2, <3>4, <3>6
  <2>5. CASE class \in {"DoxyClass", "DoxyFile", "DoxyGroup"}
    <3> DEFINE r == retrieve_and_parse(p, o)
               g == Noted(r, o)
    <3>1. parse_object(h, o) = g
      BY <1>2, <2>5 DEF parse_object, p
    <3>2. Reads(h, o, p, r, g)
      BY DEF Reads, p
    <3> HIDE DEF r, g
    <3>3. Reading(h, o, g) /\ FileRead(g, o)
      BY <2>1, <3>2, ReadFile
    <3> QED
      BY <2>3, <2>5, <3>1, <3>3
  <2>6. CASE class \notin {"DoxyFunction", "DoxyClass", "DoxyFile", "DoxyGroup"}
    <3>1. parse_object(h, o) = p
      BY <1>2, <2>6 DEF parse_object, p
    <3> QED
      BY <2>1, <2>3, <2>6, <3>1
  <2> QED
    BY <2>4, <2>5, <2>6
<1>3. h.objs[o].parsed \in {TRUE, FALSE}
  BY DEF Good, Sound, Fresh, Untouched
<1> QED
  BY <1>1, <1>2, <1>3

-----------------------------------------------------------------------------
\* The index is read: it gets members, in steps, and other objects are read.

Besides(h, g) ==
    /\ Grows(h, g)
    /\ \A p \in DOMAIN h.objs \ {1} : h.objs[p].parsed = TRUE => Retains(h, g, p)
Opened(h) ==
    Good(h) /\ h.objs[1].parsed = TRUE /\ h.objs[1].cats = <<>> /\ h.objs[1].dicts = <<>>

LEMMA BesidesOn ==
    ASSUME NEW h, NEW g, NEW k, Besides(h, g), Besides(g, k)
    PROVE  Besides(h, k)
<1>1. Grows(h, k)
  BY DEF Besides, Grows
<1>2. ASSUME NEW p \in DOMAIN h.objs \ {1}, h.objs[p].parsed = TRUE PROVE Retains(h, k, p)
  <2>1. Retains(h, g, p) /\ p \in DOMAIN g.objs \ {1}
    BY <1>2 DEF Besides, Grows
  <2>2. g.objs[p].parsed = TRUE
    BY <1>2, <2>1 DEF Retains
  <2>3. Retains(g, k, p)
    BY <2>1, <2>2 DEF Besides
  <2> QED
    BY <2>1, <2>3 DEF Retains
<1> QED
  BY <1>1, <1>2 DEF Besides

LEMMA OpenedStays ==
    ASSUME NEW h, Opened(h), NEW g, Leads(h, g), g.objs[1] = h.objs[1]
    PROVE  Opened(g) /\ Besides(h, g)
  BY DEF Leads, Extends, Besides, Opened

LEMMA AttachDoes ==
    ASSUME files \in Docs, NEW h, Opened(h), NEW os \in Seq({None} \cup DOMAIN h.objs)
    PROVE  LET g == Attach(h, os) IN Opened(g) /\ Besides(h, g) /\ g.exc = h.exc
<1> DEFINE S == {None} \cup DOMAIN h.objs
           v == h.objs[1].members \o os
           g == Put(h, 1, "members", v)
<1>1. Attach(h, os) = g
  BY DEF Attach, Put
<1>2. /\ Shaped(h) /\ Referenced(h) /\ 1 \in DOMAIN h.objs /\ Sound(h, 1)
      /\ "members" \in Fields \ {"class", "pd", "refid"} /\ "members" \in Fields
      /\ h.objs[1].parsed = TRUE /\ h.objs[1].cats = <<>> /\ h.objs[1].dicts = <<>>
  BY DEF Opened, Good, Shaped, Fields
<1>3. v \in Seq(S)
  <2>1. h.objs[1].members \in Seq(S)
    BY <1>2 DEF Sound, Adopted
  <2> HIDE DEF S
  <2> QED
    BY <2>1, ConcatProperties DEF S
<1> HIDE DEF v
<1>4. /\ Shaped(g) /\ DOMAIN g.objs = DOMAIN h.objs /\ g.exc = h.exc /\ g.failed = h.failed
      /\ g.objs[1].members = v
      /\ \A k \in Fields \ {"members"} : g.objs[1][k] = h.objs[1][k]
      /\ \A p \in DOMAIN h.objs \ {1} : g.objs[p] = h.objs[p]
  BY <1>2, PutDoes
<1>5. Referenced(g) /\ Grows(h, g)
  BY <1>2, PutReferenced
<1> HIDE DEF g
<1>6. /\ g.objs[1].parsed = TRUE /\ g.objs[1].cats = <<>> /\ g.objs[1].dicts = <<>>
      /\ g.objs[1].class = h.objs[1].class /\ g.objs[1].pd = h.objs[1].pd
      /\ g.objs[1].refid = h.objs[1].refid
  BY <1>2, <1>4 DEF Fields
<1>7. Sound(g, 1)
  <2>1. MadeOf(g.objs[1])
    BY <1>2, <1>6 DEF Sound, MadeOf
  <2>2. Fresh(g, 1) /\ Adopted(g, 1)
    BY <1>3, <1>4, <1>6 DEF Fresh, Adopted
  <2>3. FileRead(g, 1)
    BY <1>2, <1>6 DEF Referenced, FileRead
  <2>4. Caches(g, 1)
    BY <1>6 DEF Caches, ListsFresh, BlocksFresh, DictsHold, Listed
  <2>5. Childless(g, 1)
    BY <1>2, <1>6 DEF Referenced, Childless
  <2> QED
    BY <2>1, <2>2, <2>3, <2>4, <2>5 DEF Sound
<1>8. ASSUME NEW p \in DOMAIN h.objs \ {1} PROVE Retains(h, g, p) /\ Sound(g, p)
  <2>1. Retains(h, g, p)
    BY <1>4 DEF Retains
  <2>2. Sound(h, p)
    BY DEF Opened, Good
  <2> QED
    BY <1>2, <1>4, <1>5, <2>1, <2>2, SoundStays
<1>9. Good(g)
  BY <1>4, <1>5, <1>7, <1>8 DEF Good
<1> QED
  BY <1>1, <1>4, <1>5, <1>6, <1>8, <1>9 DEF Opened, Besides

\* One entry of the index, once its object is there.
LEMMA AddCompound ==
    ASSUME files \in Docs, NEW h, Opened(h), Calm(h), NEW pd,
           NEW o \in {None} \cup (DOMAIN h.objs \ {1})
    PROVE  LET g == add_compound(h, pd, o) IN Opened(g) /\ Besides(h, g)
<1>1. Good(h)
  BY DEF Opened
<1>2. CASE o = None
  <2>1. add_compound(h, pd, o) = Raise(h, "StandardError")
    BY <1>2 DEF add_compound
  <2>2. Leads(h, Raise(h, "StandardError"))
    BY <1>1, ResultLeads
  <2>3. Raise(h, "StandardError").objs = h.objs
    BY <1>1, ResultDoes DEF Good
  <2> QED
    BY <2>1, <2>2, <2>3, OpenedStays
<1>3. CASE o # None
  <2> DEFINE p == parse_object(h, o)
             q == Confirm(p, o)
             ms == q.objs[o].members \o <<o>>
             g == Attach(q, ms)
  <2>0. o \in DOMAIN h.objs /\ o # 1
    BY <1>3
  <2>1. \/ add_compound(h, pd, o) = Attach(h, <<o>>)
        \/ add_compound(h, pd, o) = h
        \/ add_compound(h, pd, o) = IF Calm(q) THEN g ELSE q
    BY Zenon, <1>3 DEF add_compound, Then, Calm
  <2>2. CASE add_compound(h, pd, o) = Attach(h, <<o>>)
    <3>1. <<o>> \in Seq({None} \cup DOMAIN h.objs)
      BY <2>0
    <3> QED
      BY <2>2, <3>1, AttachDoes
  <2>3. CASE add_compound(h, pd, o) = h
    BY <1>1, <2>3, LeadsSelf, OpenedStays
  <2>4. CASE add_compound(h, pd, o) = IF Calm(q) THEN g ELSE q
    <3>1. Leads(h, p) /\ p.objs[1] = h.objs[1]
      BY <1>1, <2>0, ParseObject
    <3> HIDE DEF p
    <3>2. Good(p)
      BY <3>1 DEF Leads
    <3>3. Leads(p, q) /\ q.objs = p.objs
      BY <3>2, ConfirmDoes
    <3> HIDE DEF q
    <3>4. Leads(h, q) /\ q.objs[1] = h.objs[1]
      BY <3>1, <3>3, LeadsOn
    <3>5. Opened(q) /\ Besides(h, q)
      BY <3>4, OpenedStays
    <3>6. ms \in Seq({None} \cup DOMAIN q.objs)
      <4>1. o \in DOMAIN q.objs
        BY <2>0, <3>4, LeadsIn
      <4>2. q.objs[o].members \in Seq({None} \cup DOMAIN q.objs)
        BY <3>5, <4>1 DEF Opened, Good, Sound, Adopted
      <4> DEFINE S == {None} \cup DOMAIN q.objs
                 t == <<o>>
      <4>3. t \in Seq(S) /\ q.objs[o].members \in Seq(S)
        BY <4>1, <4>2
      <4> HIDE DEF S, t
      <4>4. q.objs[o].members \o t \in Seq(S)
        BY <4>3, ConcatProperties
      <4> QED
        BY <4>4 DEF S, t
    <3> HIDE DEF ms
    <3>7. Opened(g) /\ Besides(q, g)
      BY <3>5, <3>6, AttachDoes
    <3> HIDE DEF g
    <3>8. Besides(h, g)
      BY <3>5, <3>7, BesidesOn
    <3> QED
      BY <2>4, <3>5, <3>7, <3>8 DEF g, q, p, ms
  <2> QED
    BY <2>1, <2>2, <2>3, <2>4
<1> QED
  BY <1>2, <1>3

LEMMA NextCompound ==
    ASSUME files \in Docs, NEW h, Opened(h), NEW c, NEW pd, IsEntry(pd)
    PROVE  LET g == next_compound(c, h, pd) IN Opened(g) /\ Besides(h, g)
<1> DEFINE k == convert_mem(h, pd)
           g == add_compound(k, pd, k.val)
<1>0. Good(h) /\ Shaped(h) /\ Referenced(h) /\ 1 \in DOMAIN h.objs
  BY DEF Opened, Good, Shaped
<1>1. CASE ~ Calm(h)
  <2>1. next_compound(c, h, pd) = h
    BY Zenon, <1>1 DEF next_compound, Then, Calm
  <2> QED
    BY <1>0, <2>1, LeadsSelf, OpenedStays
<1>2. CASE Calm(h)
  <2>1. Appended(h, k) /\ k.val \in {None} \cup (DOMAIN k.objs \ {1})
    BY <1>0, ConvertMem
  <2>2. next_compound(c, h, pd) = IF Calm(k) THEN g ELSE k
    BY Zenon, <1>2 DEF next_compound, Then, Calm
  <2> HIDE DEF k
  <2>3. k.exc = h.exc /\ k.objs[1] = h.objs[1]
    BY <1>0, <2>1 DEF Appended, Longer
  <2>4. Calm(k)
    BY <1>2, <2>3 DEF Calm
  <2>5. Leads(h, k)
    BY <1>0, <2>1, AppendedLeads
  <2>6. Opened(k) /\ Besides(h, k)
    BY <2>3, <2>5, OpenedStays
  <2>7. Opened(g) /\ Besides(k, g)
    BY <2>1, <2>4, <2>6, AddCompound
  <2> HIDE DEF g
  <2>8. Besides(h, g)
    BY <2>6, <2>7, BesidesOn
  <2> QED
    BY <2>2, <2>4, <2>7, <2>8 DEF g, k
<1> QED
  BY <1>1, <1>2

CompoundHolds(c, b, s, k, a) == Opened(a) /\ Besides(b, a)
CompoundLoop == INSTANCE Iterate_proofs WITH Step <- next_compound, Holds <- CompoundHolds

LEMMA AddCompounds ==
    ASSUME files \in Docs, "index" \in DOMAIN files, files["index"].ok, NEW h, Opened(h)
    PROVE  LET g == add_compounds(h, files["index"].root) IN Opened(g) /\ Besides(h, g)
<1> DEFINE s == Compounds
           g == CompoundLoop!Loop(<<>>, h, s)
<1>1. add_compounds(h, files["index"].root) = g
  BY Zenon DEF add_compounds, Compounds, EachCompound!Loop, EachCompound!Run,
               CompoundLoop!Loop, CompoundLoop!Run
<1>2. IsIndex(s)
  BY DocsAssumption DEF Compounds
<1>3. Len(s) \in Nat /\ \A k \in 1..Len(s) : IsEntry(s[k])
  <2>1. IsSeq(s) /\ \A pd \in Range(s) : IsEntry(pd)
    BY <1>2 DEF IsIndex, IsEntry
  <2> HIDE DEF s
  <2> QED
    BY <2>1, SeqElements
<1> HIDE DEF s
<1>4. Besides(h, h)
  BY DEF Besides, Grows, Retains
<1>5. CompoundHolds(<<>>, h, s, 0, h)
  BY <1>4 DEF CompoundHolds
<1>6. ASSUME NEW k \in 1..Len(s), NEW a, CompoundHolds(<<>>, h, s, k - 1, a)
      PROVE  CompoundHolds(<<>>, h, s, k, next_compound(<<>>, a, s[k]))
  <2>1. Opened(a) /\ Besides(h, a)
    BY <1>6 DEF CompoundHolds
  <2> DEFINE b == next_compound(<<>>, a, s[k])
  <2>2. Opened(b) /\ Besides(a, b)
    BY <1>3, <2>1, NextCompound
  <2> HIDE DEF b
  <2>3. Besides(h, b)
    BY <2>1, <2>2, BesidesOn
  <2> QED
    BY <2>2, <2>3 DEF CompoundHolds, b
<1>7. CompoundHolds(<<>>, h, s, Len(s), g)
  BY <1>3, <1>5, <1>6, CompoundLoop!LoopKeeps
<1> QED
  BY <1>1, <1>7 DEF CompoundHolds

LEMMA ParseIndex ==
    ASSUME files \in Docs, NEW h, Good(h)
    PROVE  LET g == parse_index(h) IN Leads(h, g) /\ g.objs[1].parsed = TRUE
<1>0. Shaped(h) /\ 1 \in DOMAIN h.objs /\ Sound(h, 1) /\ h.objs[1].class = "DoxyIndex"
  BY DEF Good, Shaped, Referenced
<1>1. CASE h.objs[1].parsed = TRUE
  <2>1. parse_index(h) = h
    BY Zenon, <1>1 DEF parse_index
  <2> QED
    BY <1>1, <2>1, LeadsSelf
<1>2. CASE h.objs[1].parsed # TRUE
  <2> DEFINE p == Parsed(h, 1)
             r == IF "index" \notin DOMAIN files THEN Raise(p, "IOError")
                  ELSE IF ~files["index"].ok THEN Raise(p, "ExpatError")
                  ELSE add_compounds(p, files["index"].root)
             g == Noted(r, 1)
  <2>1. parse_index(h) = g
    <3>1. h.objs[1].parsed = FALSE
      BY <1>0, <1>2 DEF Sound, Fresh, Untouched
    <3> QED
      BY <3>1 DEF parse_index
  <2>2. Reading(h, 1, p) /\ Filled(p, 1)
    BY <1>0, <1>2, ParsedDoes
  <2> HIDE DEF p
  <2>3. FileRead(p, 1) /\ Childless(p, 1)
    BY <1>0, <2>2 DEF FileRead, Childless, Reading, Grows
  <2>4. Leads(h, p)
    BY <1>0, <1>2, <2>2, <2>3, ReadingLeads
  <2>5. Opened(p) /\ Besides(h, p)
    <3>1. Untouched(h.objs[1])
      BY <1>0, <1>2 DEF Sound, Fresh
    <3> QED
      BY <2>2, <2>4, <3>1 DEF Leads, Extends, Besides, Opened, Reading, Untouched
  <2>6. Opened(r) /\ Besides(h, r)
    <3>1. ASSUME NEW e, r = Raise(p, e) PROVE Opened(r) /\ Besides(h, r)
      <4>1. Leads(p, r) /\ r.objs = p.objs
        BY <2>5, <3>1, ResultLeads, ResultDoes DEF Opened, Good
      <4> HIDE DEF r
      <4>2. Opened(r) /\ Besides(p, r)
        BY <2>5, <4>1, OpenedStays
      <4> QED
        BY <2>5, <4>2, BesidesOn
    <3>2. CASE "index" \notin DOMAIN files
      BY <3>1, <3>2
    <3>3. CASE "index" \in DOMAIN files /\ ~files["index"].ok
      BY <3>1, <3>3
    <3>4. CASE "index" \in DOMAIN files /\ files["index"].ok
      <4> DEFINE a == add_compounds(p, files["index"].root)
      <4>1. Opened(a) /\ Besides(p, a)
        BY <2>5, <3>4, AddCompounds
      <4>2. r = a
        BY <3>4
      <4> HIDE DEF r, a
      <4>3. Besides(h, a)
        BY <2>5, <4>1, BesidesOn
      <4> QED
        BY <4>1, <4>2, <4>3
    <3> QED
      BY <3>2, <3>3, <3>4
  <2> HIDE DEF r
  <2>7. Shaped(r) /\ 1 \in DOMAIN r.objs
    BY <2>6 DEF Opened, Good, Shaped
  <2>8. /\ Shaped(g) /\ g.objs = r.objs /\ g.refs = r.refs
        /\ g.failed = r.failed \/ g.failed = r.failed \cup {1}
    BY <2>7, NotedDoes
  <2> HIDE DEF g
  <2>9. Referenced(g) /\ Grows(r, g)
    BY <2>6, <2>8 DEF Opened, Good, Referenced, Grows
  <2>10. ASSUME NEW o \in DOMAIN r.objs \ {1} PROVE Retains(r, g, o) /\ Sound(g, o)
    <3>1. Retains(r, g, o)
      BY <2>8 DEF Retains
    <3>2. Sound(r, o)
      BY <2>6 DEF Opened, Good
    <3> QED
      BY <2>7, <2>8, <2>9, <3>1, <3>2, SoundStays
  <2>11. Sound(g, 1) /\ g.objs[1].parsed = TRUE
    <3>1. Sound(r, 1) /\ r.objs[1].parsed = TRUE /\ r.objs[1].class = "DoxyIndex"
      BY <2>6, <2>7 DEF Opened, Good, Referenced
    <3>2. r.objs[1].cats = <<>> /\ r.objs[1].dicts = <<>>
      BY <2>6 DEF Opened
    <3>3. Caches(g, 1)
      BY <2>8, <3>2 DEF Caches, ListsFresh, BlocksFresh, DictsHold, Listed
    <3>4. MadeOf(g.objs[1]) /\ Fresh(g, 1) /\ Adopted(g, 1)
      BY <2>8, <3>1 DEF Sound, Fresh, Adopted
    <3>5. FileRead(g, 1) /\ Childless(g, 1)
      BY <2>8, <3>1 DEF FileRead, Childless
    <3> QED
      BY <2>8, <3>1, <3>3, <3>4, <3>5 DEF Sound
  <2>12. Good(g)
    BY <2>8, <2>9, <2>10, <2>11 DEF Good
  <2>13. Extends(h, g)
    <3>1. Besides(r, g)
      BY <2>9, <2>10 DEF Besides
    <3>2. Besides(h, g)
      BY <2>6, <3>1, BesidesOn
    <3> QED
      BY <1>2, <3>2 DEF Besides, Extends
  <2> QED
    BY <2>1, <2>11, <2>12, <2>13 DEF Leads
<1> QED
  BY <1>1, <1>2

-----------------------------------------------------------------------------
\* The methods of an object.

LEMMA CheckParsed ==
    ASSUME files \in Docs, NEW h, Good(h), Calm(h), NEW o \in DOMAIN h.objs
    PROVE  LET g == check_parsed(h, o) IN Leads(h, g) /\ g.objs[o].parsed = TRUE
  BY ParseIndex, ParseObject DEF check_parsed

LEMMA ConfirmNoError ==
    ASSUME files \in Docs, NEW h, Good(h), Calm(h), NEW o \in DOMAIN h.objs
    PROVE  LET g == confirm_no_error(h, o) IN
           /\ Leads(h, g) /\ o \in DOMAIN g.objs /\ g.objs[o].parsed = TRUE
           /\ Calm(g) => ~ g.objs[o].error
<1> DEFINE a == check_parsed(h, o)
           g == Confirm(a, o)
<1>1. confirm_no_error(h, o) = g
  BY DEF confirm_no_error
<1>2. Leads(h, a) /\ a.objs[o].parsed = TRUE
  BY CheckParsed
<1> HIDE DEF a
<1>3. Good(a) /\ o \in DOMAIN a.objs
  BY <1>2, LeadsIn
<1>4. Leads(a, g) /\ g.objs = a.objs /\ (Calm(g) => g = a /\ ~ a.objs[o].error)
  BY <1>3, ConfirmDoes
<1> HIDE DEF g
<1>5. Leads(h, g)
  BY <1>2, <1>4, LeadsOn
<1> QED
  BY <1>1, <1>2, <1>3, <1>4, <1>5

LEMMA Error ==
    ASSUME files \in Docs, NEW h, Good(h), Calm(h), NEW o \in DOMAIN h.objs
    PROVE  LET g == error(h, o) IN
           /\ Leads(h, g) /\ o \in DOMAIN g.objs
           /\ Calm(g) => g.objs[o].parsed = TRUE /\ g.val = g.objs[o].error
<1> DEFINE a == check_parsed(h, o)
           g == Return(a, a.objs[o].error)
<1>1. error(h, o) = IF Calm(a) THEN g ELSE a
  BY Zenon DEF error, Then, Calm
<1>2. Leads(h, a) /\ a.objs[o].parsed = TRUE
  BY CheckParsed
<1> HIDE DEF a
<1>3. Good(a) /\ o \in DOMAIN a.objs /\ Shaped(a)
  BY <1>2, LeadsIn DEF Good
<1>4. Leads(a, g) /\ g.objs = a.objs /\ g.val = a.objs[o].error
  BY <1>3, ResultLeads, ResultDoes
<1> HIDE DEF g
<1>5. Leads(h, g)
  BY <1>2, <1>4, LeadsOn
<1> QED
  BY <1>1, <1>2, <1>3, <1>4, <1>5

LEMMA Members ==
    ASSUME files \in Docs, NEW h, Good(h), Calm(h), NEW o \in DOMAIN h.objs
    PROVE  Leads(h, members(h, o))
<1> DEFINE a == confirm_no_error(h, o)
           g == Return(a, a.objs[o].members)
<1>1. members(h, o) = IF Calm(a) THEN g ELSE a
  BY Zenon DEF members, Then, Calm
<1>2. Leads(h, a)
  BY ConfirmNoError
<1> HIDE DEF a
<1>3. Leads(a, g)
  BY <1>2, LeadsIn, ResultLeads
<1> HIDE DEF g
<1>4. Leads(h, g)
  BY <1>2, <1>3, LeadsOn
<1> QED
  BY <1>1, <1>2, <1>4

LEMMA Name ==
    ASSUME files \in Docs, NEW h, Good(h), Calm(h), NEW o \in DOMAIN h.objs
    PROVE  LET g == name(h, o) IN
           /\ Leads(h, g)
           /\ Calm(g) => g.objs[o].pd # <<>> /\ g.val = NameOf(g, o) /\ g.objs = h.objs
           /\ h.objs[o].pd # <<>> => Calm(g)
<1>1. CASE h.objs[o].pd # <<>>
  <2> DEFINE v == h.objs[o].pd[1].field["name"][1]
             g == Return(h, v)
  <2>1. name(h, o) = g
    BY <1>1 DEF name
  <2>2. v = NameOf(h, o)
    BY DEF NameOf
  <2> HIDE DEF v
  <2>3. Leads(h, g) /\ g.objs = h.objs /\ g.val = v /\ g.exc = h.exc
    BY ResultLeads, ResultDoes DEF Good
  <2> HIDE DEF g
  <2>4. Calm(g)
    BY <2>3 DEF Calm
  <2> QED
    BY <1>1, <2>1, <2>2, <2>3, <2>4 DEF NameOf
<1>2. CASE h.objs[o].pd = <<>>
  <2> DEFINE a == check_parsed(h, o)
             g == Raise(a, "AttributeError")
  <2>1. name(h, o) = IF Calm(a) THEN g ELSE a
    BY Zenon, <1>2 DEF name, Then, Calm
  <2>2. Leads(h, a)
    BY CheckParsed
  <2> HIDE DEF a
  <2>3. Leads(a, g) /\ ~ Calm(g)
    BY <2>2, LeadsIn, ResultLeads, RaiseDoes DEF Good
  <2> HIDE DEF g
  <2>4. Leads(h, g)
    BY <2>2, <2>3, LeadsOn
  <2> QED
    BY <1>2, <2>1, <2>2, <2>3, <2>4
<1> QED
  BY <1>1, <1>2

LEMMA Data ==
    ASSUME files \in Docs, NEW h, Good(h), Calm(h), NEW o \in DOMAIN h.objs, NEW key
    PROVE  Leads(h, data(h, o, key))
<1> DEFINE a == confirm_no_error(h, o)
           g == IF key \in DOMAIN a.objs[o].data THEN Return(a, a.objs[o].data[key])
                ELSE Raise(a, "KeyError")
<1>1. data(h, o, key) = IF Calm(a) THEN g ELSE a
  BY Zenon DEF data, Then, Calm
<1>2. Leads(h, a)
  BY ConfirmNoError
<1> HIDE DEF a
<1>3. Leads(a, g)
  BY <1>2, LeadsIn, ResultLeads
<1> HIDE DEF g
<1>4. Leads(h, g)
  BY <1>2, <1>3, LeadsOn
<1> QED
  BY <1>1, <1>2, <1>4

-----------------------------------------------------------------------------
\* Lists of objects, and those that an object keeps.

LEMMA SeqOver ==
    ASSUME NEW S, NEW s \in Seq(S)
    PROVE  /\ IsSeq(s) /\ Len(s) \in Nat /\ DOMAIN s = 1..Len(s) /\ Range(s) \subseteq S
           /\ \A T : Range(s) \subseteq T => s \in Seq(T)
<1>1. Len(s) \in Nat /\ DOMAIN s = 1..Len(s) /\ s = [i \in 1..Len(s) |-> s[i]]
      /\ \A i \in 1..Len(s) : s[i] \in S
  OBVIOUS
<1>2. s \in [1..Len(s) -> Range(s)] /\ Range(s) \subseteq S
  BY <1>1 DEF Range
<1>3. \A T : Range(s) \subseteq T => s \in [1..Len(s) -> T]
  BY <1>2
<1>4. \A T : Range(s) \subseteq T => s \in Seq(T)
  BY <1>1, <1>3
<1> QED
  BY <1>1, <1>2, <1>4 DEF IsSeq

LEMMA OfClassIs ==
    ASSUME NEW h, NEW os \in Seq({None} \cup DOMAIN h.objs), NEW cat
    PROVE  LET list == OfClass(h, os, cat) IN
           /\ list \in Seq(DOMAIN h.objs)
           /\ \A m : m \in Range(list)
                       <=> m \in Range(os) /\ m # None /\ h.objs[m].class = cat
<1> DEFINE P == {i \in DOMAIN os : os[i] # None /\ h.objs[os[i]].class = cat}
           S == {None} \cup DOMAIN h.objs
           list == Picked(os, P)
<1>1. OfClass(h, os, cat) = list
  BY DEF OfClass
<1>2. P \in SUBSET (DOMAIN os) /\ os \in Seq(S)
  OBVIOUS
<1>3. IsSeq(os) /\ Range(os) \subseteq S
  BY SeqOver
<1>4. list \in Seq(S) /\ Range(list) = {os[i] : i \in P}
  <2> HIDE DEF P, S
  <2> QED
    BY <1>2, <1>3, SeqPicked
<1> HIDE DEF list
<1>5. \A m : m \in Range(list) <=> m \in Range(os) /\ m # None /\ h.objs[m].class = cat
  BY <1>4 DEF Range
<1>6. Range(list) \subseteq DOMAIN h.objs
  BY <1>3, <1>5
<1>7. list \in Seq(DOMAIN h.objs)
  <2> HIDE DEF S
  <2> QED
    BY <1>4, <1>6, SeqOver
<1> QED
  BY <1>1, <1>5, <1>7

\* What holds of a list of one category that is kept.
CategoryFits(h, o, cat, list) ==
    IF cat = "Block"
    THEN /\ list \in Seq(DOMAIN h.objs) /\ \A m \in Range(list) : h.objs[m].pd # <<>>
         /\ \A m \in Range(h.objs[o].members) :
               m \in Range(list) <=> m # None /\ IsBlock(h.objs[m])
    ELSE list = OfClass(h, h.objs[o].members, cat)

Stored(h, o, cat, list, g) ==
    /\ Leads(h, g) /\ g.val = list /\ g.exc = h.exc /\ DOMAIN g.objs = DOMAIN h.objs
    /\ cat \in DOMAIN g.objs[o].cats /\ g.objs[o].cats[cat] = list

LEMMA CategoryDoes ==
    ASSUME files \in Docs, NEW h, Good(h), NEW o \in DOMAIN h.objs, h.objs[o].parsed = TRUE,
           NEW cat, cat # "None", cat = "Block" \/ cat \notin DOMAIN h.objs[o].cats,
           NEW list, CategoryFits(h, o, cat, list)
    PROVE  Stored(h, o, cat, list, Category(h, o, cat, list))
<1> DEFINE v == With(h.objs[o].cats, cat, list)
           k == Put(h, o, "cats", v)
           g == Return(k, list)
<1>1. Category(h, o, cat, list) = g
  BY DEF Category, Put
<1>2. /\ DOMAIN v = DOMAIN h.objs[o].cats \cup {cat} /\ v[cat] = list
      /\ \A c \in DOMAIN h.objs[o].cats \ {cat} : v[c] = h.objs[o].cats[c]
  BY DEF With
<1>3. /\ Shaped(h) /\ Referenced(h) /\ Sound(h, o)
      /\ "cats" \in Fields \ {"class", "pd", "refid"} /\ "cats" \in Fields
  BY DEF Good, Fields
<1> HIDE DEF v
<1>4. /\ Shaped(k) /\ DOMAIN k.objs = DOMAIN h.objs /\ k.refs = h.refs /\ k.exc = h.exc
      /\ k.failed = h.failed /\ k.objs[o].cats = v
      /\ \A f \in Fields \ {"cats"} : k.objs[o][f] = h.objs[o][f]
      /\ \A p \in DOMAIN h.objs \ {o} : k.objs[p] = h.objs[p]
  BY <1>3, PutDoes
<1>5. Referenced(k) /\ Grows(h, k)
  BY <1>3, PutReferenced
<1> HIDE DEF k
<1>6. /\ k.objs[o].members = h.objs[o].members /\ k.objs[o].dicts = h.objs[o].dicts
      /\ k.objs[o].parsed = TRUE /\ k.objs[o].error = h.objs[o].error
      /\ k.objs[o].class = h.objs[o].class /\ k.objs[o].pd = h.objs[o].pd
      /\ k.objs[o].refid = h.objs[o].refid
  BY <1>4 DEF Fields
<1>7. Retains(h, k, o)
  BY <1>4, <1>6 DEF Retains
<1>8. MadeOf(k.objs[o]) /\ Fresh(k, o) /\ Adopted(k, o) /\ Childless(k, o)
  BY <1>3, <1>4, <1>6 DEF Sound, MadeOf, Fresh, Adopted, Childless
<1> DEFINE os == h.objs[o].members
<1>9. os \in Seq({None} \cup DOMAIN h.objs)
  BY <1>3 DEF Sound, Adopted
<1>10. FileRead(k, o)
  <2> SUFFICES ASSUME h.objs[o].class \in {"DoxyClass", "DoxyFile"}, h.objs[o].parsed,
                      ~ (o \in h.failed \/ h.objs[o].error)
               PROVE  /\ Readable(h.objs[o].refid)
                      /\ MadeFrom(k, os, Unique(MemberDefs(h.objs[o].refid)))
    BY <1>3, <1>4, <1>6 DEF FileRead, Sound
  <2>1. /\ Readable(h.objs[o].refid)
        /\ MadeFrom(h, os, Unique(MemberDefs(h.objs[o].refid)))
    BY <1>3 DEF FileRead, Sound
  <2>2. h.objs[o].refid # "index"
    BY <1>3 DEF Sound, MadeOf
  <2> HIDE DEF os
  <2> QED
    BY <1>5, <1>9, <2>1, <2>2, ReadableIs, MadeFromStays
<1>11. ListsFresh(k, o)
  <2>1. \A c : OfClass(k, os, c) = OfClass(h, os, c)
    BY <1>5, <1>9, OfClassStays
  <2>2. ListsFresh(h, o)
    BY <1>3 DEF Sound, Caches
  <2> QED
    BY <1>2, <1>4, <1>6, <2>1, <2>2 DEF ListsFresh, CategoryFits
<1>12. BlocksFresh(k, o)
  <2>1. ASSUME NEW m \in Range(os), m # None PROVE IsBlock(k.objs[m]) <=> IsBlock(h.objs[m])
    <3>1. m \in DOMAIN h.objs
      BY <1>9, <2>1 DEF Range
    <3> QED
      BY <1>5, <3>1 DEF Grows, IsBlock
  <2>2. BlocksFresh(h, o)
    BY <1>3 DEF Sound, Caches
  <2> QED
    BY <1>2, <1>4, <1>6, <2>1, <2>2 DEF BlocksFresh, CategoryFits
<1>13. Listed(h, o) /\ DictsHold(h, o)
  BY <1>3 DEF Sound, Caches
<1>14. \A c \in DOMAIN h.objs[o].dicts : ListOf(k, o, c) = ListOf(h, o, c)
  BY <1>2, <1>4, <1>6, <1>13 DEF ListOf, Listed
<1>15. DictsHold(k, o)
  <2> SUFFICES ASSUME NEW c \in DOMAIN h.objs[o].dicts
               PROVE  LET l == ListOf(h, o, c)
                          dict == h.objs[o].dicts[c]
                      IN DOMAIN dict = NamesOf(k, l)
                         /\ \A n \in DOMAIN dict : Held(k, l, n, dict[n])
    BY <1>6, <1>14 DEF DictsHold
  <2> DEFINE l == ListOf(h, o, c)
             dict == h.objs[o].dicts[c]
  <2>1. DOMAIN dict = NamesOf(h, l) /\ \A n \in DOMAIN dict : Held(h, l, n, dict[n])
    BY <1>13 DEF DictsHold
  <2>2. \A i \in DOMAIN l : l[i] \in DOMAIN h.objs
    BY <1>13 DEF Listed
  <2> HIDE DEF l, dict
  <2>3. DOMAIN dict = NamesOf(k, l) /\ \A n \in DOMAIN dict : Held(k, l, n, dict[n])
    BY <1>5, <2>1, <2>2, HeldStays
  <2> QED
    BY <2>3 DEF l, dict
<1>16. Listed(k, o)
  <2>1. ASSUME "Block" \in DOMAIN v
        PROVE  v["Block"] \in Seq(DOMAIN h.objs) /\ \A m \in Range(v["Block"]) : k.objs[m].pd # <<>>
    <3>1. v["Block"] \in Seq(DOMAIN h.objs) /\ \A m \in Range(v["Block"]) : h.objs[m].pd # <<>>
      BY <1>2, <1>13, <2>1 DEF Listed, CategoryFits
    <3>2. Range(v["Block"]) \subseteq DOMAIN h.objs
      BY <3>1, SeqOver
    <3> QED
      BY <1>5, <3>1, <3>2 DEF Grows
  <2>2. ASSUME NEW c \in DOMAIN h.objs[o].dicts, NEW i \in DOMAIN ListOf(h, o, c)
        PROVE  ListOf(h, o, c)[i] \in DOMAIN h.objs /\ k.objs[ListOf(h, o, c)[i]].pd # <<>>
    BY <1>5, <1>13 DEF Listed, Grows
  <2>3. \A c \in DOMAIN h.objs[o].dicts : c = "None" \/ c \in DOMAIN v \ {"Block"}
    BY <1>2, <1>13 DEF Listed
  <2> QED
    BY <1>4, <1>6, <1>14, <2>1, <2>2, <2>3 DEF Listed
<1>17. Sound(k, o)
  BY <1>8, <1>10, <1>11, <1>12, <1>15, <1>16 DEF Sound, Caches
<1>18. ASSUME NEW p \in DOMAIN h.objs \ {o} PROVE Retains(h, k, p) /\ Sound(k, p)
  <2>1. Retains(h, k, p)
    BY <1>4 DEF Retains
  <2> QED
    BY <1>3, <1>4, <1>5, <2>1, SoundStays DEF Good
<1>19. Leads(h, k)
  BY <1>4, <1>5, <1>7, <1>17, <1>18 DEF Good, Leads, Extends
<1>20. /\ Leads(k, g) /\ g.objs = k.objs /\ g.val = list /\ g.exc = k.exc
  BY <1>4, <1>19, ResultLeads, ResultDoes DEF Leads
<1> HIDE DEF g
<1>21. Leads(h, g)
  BY <1>19, <1>20, LeadsOn
<1> QED
  BY <1>1, <1>2, <1>4, <1>6, <1>20, <1>21 DEF Stored

\* What a call of in_category gives.
Gives(h, o, cat, g) ==
    /\ Leads(h, g) /\ o \in DOMAIN g.objs
    /\ Calm(g) => /\ g.val = ListOf(g, o, cat) /\ g.objs[o].parsed = TRUE
                  /\ ~ g.objs[o].error
                  /\ cat = "None" \/ cat \in DOMAIN g.objs[o].cats

LEMMA InCategory ==
    ASSUME files \in Docs, NEW h, Good(h), Calm(h), NEW o \in DOMAIN h.objs,
           NEW cat, cat # "Block"
    PROVE  Gives(h, o, cat, in_category(h, o, cat))
<1> DEFINE a == confirm_no_error(h, o)
<1>1. /\ Leads(h, a) /\ o \in DOMAIN a.objs /\ a.objs[o].parsed = TRUE
      /\ Calm(a) => ~ a.objs[o].error
  BY ConfirmNoError
<1>2. in_category(h, o, cat) =
         IF ~ Calm(a) THEN a
         ELSE IF cat = "None" THEN Return(a, a.objs[o].members)
         ELSE IF cat \in DOMAIN a.objs[o].cats THEN Return(a, a.objs[o].cats[cat])
         ELSE Category(a, o, cat, OfClass(a, a.objs[o].members, cat))
  BY Zenon DEF in_category, Then, Calm
<1> HIDE DEF a
<1>3. Good(a) /\ Shaped(a)
  BY <1>1, LeadsIn DEF Good
<1>4. CASE ~ Calm(a)
  BY <1>1, <1>2, <1>4 DEF Gives
<1>5. ASSUME Calm(a), NEW v, v = ListOf(a, o, cat), cat = "None" \/ cat \in DOMAIN a.objs[o].cats
      PROVE  Gives(h, o, cat, Return(a, v))
  <2> DEFINE g == Return(a, v)
  <2>1. Leads(a, g) /\ g.objs = a.objs /\ g.val = v
    BY <1>3, ResultLeads, ResultDoes
  <2> HIDE DEF g
  <2>2. Leads(h, g)
    BY <1>1, <2>1, LeadsOn
  <2>3. ListOf(g, o, cat) = ListOf(a, o, cat)
    BY <2>1 DEF ListOf
  <2> QED
    BY <1>1, <1>5, <2>1, <2>2, <2>3 DEF Gives, g
<1>6. CASE Calm(a) /\ cat = "None"
  <2>1. in_category(h, o, cat) = Return(a, a.objs[o].members)
    BY <1>2, <1>6
  <2>2. a.objs[o].members = ListOf(a, o, cat)
    BY <1>6 DEF ListOf
  <2> QED
    BY <1>5, <1>6, <2>1, <2>2
<1>7. CASE Calm(a) /\ cat # "None" /\ cat \in DOMAIN a.objs[o].cats
  <2>1. in_category(h, o, cat) = Return(a, a.objs[o].cats[cat])
    BY <1>2, <1>7
  <2>2. a.objs[o].cats[cat] = ListOf(a, o, cat)
    BY <1>7 DEF ListOf
  <2> QED
    BY <1>5, <1>7, <2>1, <2>2
<1>8. CASE Calm(a) /\ cat # "None" /\ cat \notin DOMAIN a.objs[o].cats
  <2> DEFINE list == OfClass(a, a.objs[o].members, cat)
             g == Category(a, o, cat, list)
  <2>1. in_category(h, o, cat) = g
    BY <1>2, <1>8
  <2>2. CategoryFits(a, o, cat, list)
    BY DEF CategoryFits
  <2> HIDE DEF list
  <2>3. Stored(a, o, cat, list, g)
    <3>1. Good(a) /\ o \in DOMAIN a.objs /\ a.objs[o].parsed = TRUE
      BY <1>1, <1>3
    <3> QED
        BY <1>8, <2>2, <3>1, CategoryDoes
  <2> HIDE DEF g
  <2>4. Leads(h, g)
    BY <1>1, <2>3, LeadsOn DEF Stored
  <2>5. ListOf(g, o, cat) = list
    BY <1>8, <2>3 DEF ListOf, Stored
  <2>6. g.objs[o].parsed = TRUE /\ g.objs[o].error = a.objs[o].error
    BY <1>1, <2>3 DEF Stored, Leads, Extends, Retains
  <2>7. Gives(h, o, cat, g)
    BY <1>1, <1>8, <2>3, <2>4, <2>5, <2>6 DEF Gives, Stored, Calm
  <2> QED
    BY <2>1, <2>7
<1> QED
  BY <1>4, <1>6, <1>7, <1>8

\* The list is one of objects; only that of all members may have None.
LEMMA ListIs ==
    ASSUME NEW h, Good(h), NEW o \in DOMAIN h.objs, NEW cat, cat # "Block",
           cat = "None" \/ cat \in DOMAIN h.objs[o].cats
    PROVE  /\ ListOf(h, o, cat) \in Seq({None} \cup DOMAIN h.objs)
           /\ cat # "None" =>
                 /\ ListOf(h, o, cat) = OfClass(h, h.objs[o].members, cat)
                 /\ ListOf(h, o, cat) \in Seq(DOMAIN h.objs)
<1>1. h.objs[o].members \in Seq({None} \cup DOMAIN h.objs) /\ ListsFresh(h, o)
  BY DEF Good, Sound, Adopted, Caches
<1>2. CASE cat = "None"
  BY <1>1, <1>2 DEF ListOf
<1>3. CASE cat # "None"
  <2>1. ListOf(h, o, cat) = OfClass(h, h.objs[o].members, cat)
    BY <1>1, <1>3 DEF ListOf, ListsFresh
  <2>2. OfClass(h, h.objs[o].members, cat) \in Seq(DOMAIN h.objs)
    BY <1>1, OfClassIs
  <2>3. Range(OfClass(h, h.objs[o].members, cat)) \subseteq {None} \cup DOMAIN h.objs
    BY <2>2, SeqOver
  <2> QED
    BY <2>1, <2>2, <2>3, SeqOver
<1> QED
  BY <1>2, <1>3

\* The names of a list are asked for, one after the other.
NameHolds(c, b, s, k, a) ==
    /\ Leads(b, a)
    /\ Calm(a) => /\ a.objs = b.objs
                  /\ \A i \in 1..k : s[i] \in DOMAIN b.objs /\ b.objs[s[i]].pd # <<>>
    /\ (Calm(b) /\ \A i \in DOMAIN s : s[i] \in DOMAIN b.objs /\ b.objs[s[i]].pd # <<>>)
          => Calm(a)
NameLoop == INSTANCE Iterate_proofs WITH Step <- next_name, Holds <- NameHolds

LEMMA NextName ==
    ASSUME files \in Docs, NEW h, Good(h), NEW c, NEW m \in {None} \cup DOMAIN h.objs
    PROVE  LET g == next_name(c, h, m) IN
           /\ Leads(h, g)
           /\ Calm(g) => /\ Calm(h) /\ g.objs = h.objs
                         /\ m \in DOMAIN h.objs /\ h.objs[m].pd # <<>>
           /\ (Calm(h) /\ m \in DOMAIN h.objs /\ h.objs[m].pd # <<>>) => Calm(g)
<1>1. CASE ~ Calm(h)
  <2>1. next_name(c, h, m) = h
    BY Zenon, <1>1 DEF next_name, Then, Calm
  <2> QED
    BY <1>1, <2>1, LeadsSelf
<1>2. CASE Calm(h) /\ m = None
  <2>1. next_name(c, h, m) = Raise(h, "AttributeError")
    BY Zenon, <1>2 DEF next_name, Then, Calm
  <2> QED
    BY <1>2, <2>1, NoneIsNone, ResultLeads, RaiseDoes DEF Good
<1>3. CASE Calm(h) /\ m # None
  <2> DEFINE g == name(h, m)
  <2>1. next_name(c, h, m) = g
    BY Zenon, <1>3 DEF next_name, Then, Calm
  <2>2. m \in DOMAIN h.objs
    BY <1>3
  <2>3. /\ Leads(h, g) /\ (Calm(g) => g.objs[m].pd # <<>> /\ g.objs = h.objs)
        /\ h.objs[m].pd # <<>> => Calm(g)
    BY <1>3, <2>2, Name
  <2> HIDE DEF g
  <2> QED
    BY <1>3, <2>1, <2>2, <2>3
<1> QED
  BY <1>1, <1>2, <1>3

LEMMA NameAllDoes ==
    ASSUME files \in Docs, NEW h, Good(h), NEW os \in Seq({None} \cup DOMAIN h.objs)
    PROVE  LET g == NameAll(h, os) IN
           /\ Leads(h, g)
           /\ Calm(g) => /\ g.objs = h.objs
                         /\ \A i \in DOMAIN os : os[i] \in DOMAIN h.objs /\ h.objs[os[i]].pd # <<>>
           /\ (Calm(h) /\ \A i \in DOMAIN os : os[i] \in DOMAIN h.objs /\ h.objs[os[i]].pd # <<>>)
                 => Calm(g)
<1> DEFINE g == NameLoop!Loop(<<>>, h, os)
<1>1. NameAll(h, os) = g
  BY Zenon DEF NameAll, EachName!Loop, EachName!Run, NameLoop!Loop, NameLoop!Run
<1>2. /\ Len(os) \in Nat /\ DOMAIN os = 1..Len(os)
      /\ \A k \in 1..Len(os) : os[k] \in {None} \cup DOMAIN h.objs
  OBVIOUS
<1>3. NameHolds(<<>>, h, os, 0, h)
  BY LeadsSelf DEF NameHolds
<1>4. ASSUME NEW k \in 1..Len(os), NEW a, NameHolds(<<>>, h, os, k - 1, a)
      PROVE  NameHolds(<<>>, h, os, k, next_name(<<>>, a, os[k]))
  <2> DEFINE b == next_name(<<>>, a, os[k])
  <2>1. Leads(h, a)
    BY <1>4 DEF NameHolds
  <2>2. Good(a) /\ os[k] \in {None} \cup DOMAIN a.objs
    BY <1>2, <2>1, LeadsIn
  <2>3. /\ Leads(a, b)
        /\ Calm(b) => /\ Calm(a) /\ b.objs = a.objs
                      /\ os[k] \in DOMAIN a.objs /\ a.objs[os[k]].pd # <<>>
        /\ (Calm(a) /\ os[k] \in DOMAIN a.objs /\ a.objs[os[k]].pd # <<>>) => Calm(b)
    BY <2>2, NextName
  <2> HIDE DEF b
  <2>4. Leads(h, b)
    BY <2>1, <2>3, LeadsOn
  <2>5. ASSUME Calm(b)
        PROVE  /\ b.objs = h.objs
               /\ \A i \in 1..k : os[i] \in DOMAIN h.objs /\ h.objs[os[i]].pd # <<>>
    <3>1. /\ a.objs = h.objs
          /\ \A i \in 1..(k - 1) : os[i] \in DOMAIN h.objs /\ h.objs[os[i]].pd # <<>>
      BY <1>4, <2>3, <2>5 DEF NameHolds
    <3>2. \A i \in 1..k : i \in 1..(k - 1) \/ i = k
      BY <1>2
    <3> QED
      BY <2>3, <2>5, <3>1, <3>2
  <2>6. ASSUME Calm(h),
               \A i \in DOMAIN os : os[i] \in DOMAIN h.objs /\ h.objs[os[i]].pd # <<>>
        PROVE  Calm(b)
    <3>1. Calm(a) /\ a.objs = h.objs
      BY <1>4, <2>6 DEF NameHolds
    <3> QED
      BY <1>2, <2>3, <2>6, <3>1
  <2> QED
    BY <2>4, <2>5, <2>6 DEF NameHolds, b
<1>5. NameHolds(<<>>, h, os, Len(os), g)
  BY <1>2, <1>3, <1>4, NameLoop!LoopKeeps
<1> HIDE DEF g
<1> QED
  BY <1>1, <1>2, <1>5 DEF NameHolds

IsDict(h, list, dict) ==
    DOMAIN dict = NamesOf(h, list) /\ \A n \in DOMAIN dict : Held(h, list, n, dict[n])

LEMMA DictionaryIs ==
    ASSUME NEW h, Shaped(h), NEW os \in Seq(DOMAIN h.objs)
    PROVE  IsDict(h, os, Dictionary(h, os))
<1> DEFINE dict == Dictionary(h, os)
           At(n) == {i \in DOMAIN os : NameOf(h, os[i]) = n}
<1>1. /\ DOMAIN dict = NamesOf(h, os)
      /\ \A n \in DOMAIN dict :
            dict[n] = IF Cardinality(At(n)) > 1 THEN Duplicated
                      ELSE os[CHOOSE i \in At(n) : TRUE]
  BY DEF Dictionary, NamesOf, NameOf
<1> HIDE DEF dict
<1>2. ASSUME NEW n \in DOMAIN dict PROVE Held(h, os, n, dict[n])
  <2> DEFINE at == At(n)
             d == Cardinality(at)
  <2>1. at # {}
    BY <1>1 DEF NamesOf
  <2>2. Held(h, os, n, dict[n]) =
           IF \E i, j \in at : i # j THEN dict[n] = Duplicated
           ELSE at # {} /\ \A i \in at : os[i] = dict[n]
    BY DEF Held
  <2>3. at \subseteq 1..Len(os) /\ Len(os) \in Nat /\ \A i \in at : os[i] \in DOMAIN h.objs
    OBVIOUS
  <2>4. dict[n] = IF d > 1 THEN Duplicated ELSE os[CHOOSE i \in at : TRUE]
    BY <1>1
  <2> HIDE DEF at
  <2>5. IsFiniteSet(at) /\ d \in Nat /\ d # 0
    <3>1. IsFiniteSet(1..Len(os))
      BY <2>3, FS_Interval
    <3>2. IsFiniteSet(at)
      BY <2>3, <3>1, FS_Subset
    <3> QED
      BY <2>1, <3>2, FS_CardinalityType, FS_EmptySet
  <2> DEFINE c == CHOOSE i \in at : TRUE
  <2>6. c \in at
    BY <2>1
  <2> HIDE DEF c
  <2>7. CASE d > 1
    <3>1. \E i, j \in at : i # j
      <4>1. SUFFICES ASSUME \A j \in at : j = c PROVE FALSE
        BY <2>6
      <4>2. at = {c}
        BY <2>6, <4>1
      <4>3. d = 1
        BY <4>2, FS_Singleton
      <4> QED
        BY <2>7, <4>3
    <3> QED
      BY <2>2, <2>4, <2>7, <3>1
  <2>8. CASE ~ (d > 1)
    <3>1. d = 1
      BY <2>5, <2>8
    <3>2. PICK x : at = {x}
      BY <2>5, <3>1, FS_Singleton
    <3>3. dict[n] = os[c] /\ \A i \in at : os[i] = os[c]
      BY <2>4, <2>6, <2>8, <3>2 DEF c
    <3>4. ~ \E i, j \in at : i # j
      BY <3>2
    <3> QED
      BY <2>1, <2>2, <3>3, <3>4
  <2> QED
    BY <2>7, <2>8
<1> QED
  BY <1>1, <1>2 DEF IsDict, dict

\* What holds when a dictionary is kept.
DictFits(h, o, cat, dict) ==
    /\ h.objs[o].parsed = TRUE
    /\ cat = "None" \/ cat \in DOMAIN h.objs[o].cats \ {"Block"}
    /\ \A i \in DOMAIN ListOf(h, o, cat) :
          ListOf(h, o, cat)[i] \in DOMAIN h.objs /\ h.objs[ListOf(h, o, cat)[i]].pd # <<>>
    /\ IsDict(h, ListOf(h, o, cat), dict)
Recorded(h, o, cat, g) ==
    Leads(h, g) /\ g.val = g.objs[o].dicts[cat] /\ g.exc = h.exc /\ DictFits(g, o, cat, g.val)

LEMMA EntriesDoes ==
    ASSUME files \in Docs, NEW h, Good(h), NEW o \in DOMAIN h.objs,
           NEW cat, NEW dict, DictFits(h, o, cat, dict)
    PROVE  Recorded(h, o, cat, Entries(h, o, cat, dict))
<1> DEFINE v == With(h.objs[o].dicts, cat, dict)
           k == Put(h, o, "dicts", v)
           g == Return(k, dict)
<1>1. Entries(h, o, cat, dict) = g
  BY DEF Entries, Put
<1>2. /\ DOMAIN v = DOMAIN h.objs[o].dicts \cup {cat} /\ v[cat] = dict
      /\ \A c \in DOMAIN h.objs[o].dicts \ {cat} : v[c] = h.objs[o].dicts[c]
  BY DEF With
<1>3. /\ Shaped(h) /\ Referenced(h) /\ Sound(h, o) /\ h.objs[o].parsed = TRUE
      /\ "dicts" \in Fields \ {"class", "pd", "refid"} /\ "dicts" \in Fields
  BY DEF Good, Fields, DictFits
<1> HIDE DEF v
<1>4. /\ Shaped(k) /\ DOMAIN k.objs = DOMAIN h.objs /\ k.refs = h.refs /\ k.exc = h.exc
      /\ k.failed = h.failed /\ k.objs[o].dicts = v
      /\ \A f \in Fields \ {"dicts"} : k.objs[o][f] = h.objs[o][f]
      /\ \A p \in DOMAIN h.objs \ {o} : k.objs[p] = h.objs[p]
  BY <1>3, PutDoes
<1>5. Referenced(k) /\ Grows(h, k)
  BY <1>3, PutReferenced
<1> HIDE DEF k
<1>6. /\ k.objs[o].members = h.objs[o].members /\ k.objs[o].cats = h.objs[o].cats
      /\ k.objs[o].parsed = TRUE /\ k.objs[o].error = h.objs[o].error
      /\ k.objs[o].class = h.objs[o].class /\ k.objs[o].pd = h.objs[o].pd
      /\ k.objs[o].refid = h.objs[o].refid
  BY <1>3, <1>4 DEF Fields
<1>7. Retains(h, k, o)
  BY <1>3, <1>4, <1>6 DEF Retains
<1>8. MadeOf(k.objs[o]) /\ Fresh(k, o) /\ Adopted(k, o) /\ Childless(k, o)
  BY <1>3, <1>4, <1>6 DEF Sound, MadeOf, Fresh, Adopted, Childless
<1> DEFINE os == h.objs[o].members
<1>9. os \in Seq({None} \cup DOMAIN h.objs)
  BY <1>3 DEF Sound, Adopted
<1>10. FileRead(k, o)
  <2> SUFFICES ASSUME h.objs[o].class \in {"DoxyClass", "DoxyFile"}, h.objs[o].parsed,
                      ~ (o \in h.failed \/ h.objs[o].error)
               PROVE  /\ Readable(h.objs[o].refid)
                      /\ MadeFrom(k, os, Unique(MemberDefs(h.objs[o].refid)))
    BY <1>3, <1>4, <1>6 DEF FileRead, Sound
  <2>1. /\ Readable(h.objs[o].refid)
        /\ MadeFrom(h, os, Unique(MemberDefs(h.objs[o].refid)))
    BY <1>3 DEF FileRead, Sound
  <2>2. h.objs[o].refid # "index"
    BY <1>3 DEF Sound, MadeOf
  <2> HIDE DEF os
  <2> QED
    BY <1>5, <1>9, <2>1, <2>2, ReadableIs, MadeFromStays
<1>11. ListsFresh(k, o)
  <2>1. \A c : OfClass(k, os, c) = OfClass(h, os, c)
    BY <1>5, <1>9, OfClassStays
  <2>2. ListsFresh(h, o)
    BY <1>3 DEF Sound, Caches
  <2> QED
    BY <1>6, <2>1, <2>2 DEF ListsFresh
<1>12. BlocksFresh(k, o)
  <2>1. ASSUME NEW m \in Range(os), m # None PROVE IsBlock(k.objs[m]) <=> IsBlock(h.objs[m])
    <3>1. m \in DOMAIN h.objs
      BY <1>9, <2>1 DEF Range
    <3> QED
      BY <1>5, <3>1 DEF Grows, IsBlock
  <2>2. BlocksFresh(h, o)
    BY <1>3 DEF Sound, Caches
  <2> QED
    BY <1>6, <2>1, <2>2 DEF BlocksFresh
<1>13. Listed(h, o) /\ DictsHold(h, o)
  BY <1>3 DEF Sound, Caches
<1>14. \A c : ListOf(k, o, c) = ListOf(h, o, c)
  BY <1>6 DEF ListOf
<1>15. ASSUME NEW c \in DOMAIN v
       PROVE  /\ c = "None" \/ c \in DOMAIN h.objs[o].cats \ {"Block"}
              /\ \A i \in DOMAIN ListOf(h, o, c) :
                    /\ ListOf(h, o, c)[i] \in DOMAIN h.objs
                    /\ h.objs[ListOf(h, o, c)[i]].pd # <<>>
              /\ IsDict(h, ListOf(h, o, c), v[c])
  <2>1. CASE c = cat
    BY <1>2, <2>1 DEF DictFits
  <2>2. CASE c \in DOMAIN h.objs[o].dicts \ {cat}
    BY <1>2, <1>13, <2>2 DEF Listed, DictsHold, IsDict
  <2> QED
    BY <1>2, <1>15, <2>1, <2>2
<1>16. ASSUME NEW c \in DOMAIN v PROVE IsDict(k, ListOf(h, o, c), v[c])
  <2> DEFINE l == ListOf(h, o, c)
             d == v[c]
  <2>1. IsDict(h, l, d) /\ \A i \in DOMAIN l : l[i] \in DOMAIN h.objs
    BY <1>15
  <2> HIDE DEF l, d
  <2>2. IsDict(k, l, d)
    BY <1>5, <2>1, HeldStays DEF IsDict
  <2> QED
    BY <2>2 DEF l, d
<1>17. DictsHold(k, o)
  BY <1>4, <1>14, <1>16 DEF DictsHold, IsDict
<1>18. Listed(k, o)
  <2>1. ASSUME "Block" \in DOMAIN h.objs[o].cats
        PROVE  /\ h.objs[o].cats["Block"] \in Seq(DOMAIN h.objs)
               /\ \A m \in Range(h.objs[o].cats["Block"]) : k.objs[m].pd # <<>>
    <3> DEFINE list == h.objs[o].cats["Block"]
    <3>1. list \in Seq(DOMAIN h.objs) /\ \A m \in Range(list) : h.objs[m].pd # <<>>
      BY <1>13, <2>1 DEF Listed
    <3> HIDE DEF list
    <3>2. Range(list) \subseteq DOMAIN h.objs
      BY <3>1, SeqOver
    <3>3. \A m \in Range(list) : k.objs[m].pd # <<>>
      BY <1>5, <3>1, <3>2 DEF Grows
    <3> QED
      BY <3>1, <3>3 DEF list
  <2>2. ASSUME NEW c \in DOMAIN v
        PROVE  \A i \in DOMAIN ListOf(h, o, c) : k.objs[ListOf(h, o, c)[i]].pd # <<>>
    BY <1>5, <1>15 DEF Grows
  <2> QED
    BY <1>4, <1>6, <1>14, <1>15, <2>1, <2>2 DEF Listed
<1>19. Sound(k, o)
  BY <1>8, <1>10, <1>11, <1>12, <1>17, <1>18 DEF Sound, Caches
<1>20. ASSUME NEW p \in DOMAIN h.objs \ {o} PROVE Retains(h, k, p) /\ Sound(k, p)
  <2>1. Retains(h, k, p)
    BY <1>4 DEF Retains
  <2> QED
    BY <1>3, <1>4, <1>5, <2>1, SoundStays DEF Good
<1>21. Leads(h, k)
  BY <1>4, <1>5, <1>7, <1>19, <1>20 DEF Good, Leads, Extends
<1>22. /\ Leads(k, g) /\ g.objs = k.objs /\ g.val = dict /\ g.exc = k.exc
  BY <1>4, <1>21, ResultLeads, ResultDoes DEF Leads
<1> HIDE DEF g
<1>23. Leads(h, g)
  BY <1>21, <1>22, LeadsOn
<1>24. DictFits(g, o, cat, dict)
  <2> DEFINE l == ListOf(h, o, cat)
  <2>1. /\ cat = "None" \/ cat \in DOMAIN h.objs[o].cats \ {"Block"}
        /\ \A i \in DOMAIN l : l[i] \in DOMAIN h.objs /\ h.objs[l[i]].pd # <<>>
        /\ IsDict(h, l, dict)
    BY DEF DictFits
  <2>2. ListOf(g, o, cat) = l
    BY <1>14, <1>22 DEF ListOf
  <2> HIDE DEF l
  <2>3. Grows(h, g)
    BY <1>23, LeadsIn
  <2>4. IsDict(g, l, dict)
    BY <2>1, <2>3, HeldStays DEF IsDict
  <2>5. \A i \in DOMAIN l : l[i] \in DOMAIN g.objs /\ g.objs[l[i]].pd # <<>>
    BY <2>1, <2>3 DEF Grows
  <2> QED
    BY <1>6, <1>22, <2>1, <2>2, <2>4, <2>5 DEF DictFits
<1> QED
  BY <1>1, <1>2, <1>4, <1>22, <1>23, <1>24 DEF Recorded

LEMMA DictStays ==
    ASSUME NEW h, NEW g, g.objs = h.objs, NEW o, NEW cat, NEW dict, DictFits(h, o, cat, dict)
    PROVE  DictFits(g, o, cat, dict)
<1> DEFINE list == ListOf(h, o, cat)
<1>1. ListOf(g, o, cat) = list
  BY DEF ListOf
<1>2. /\ h.objs[o].parsed = TRUE
      /\ cat = "None" \/ cat \in DOMAIN h.objs[o].cats \ {"Block"}
      /\ \A i \in DOMAIN list : list[i] \in DOMAIN h.objs /\ h.objs[list[i]].pd # <<>>
      /\ IsDict(h, list, dict)
  BY DEF DictFits
<1> HIDE DEF list
<1>3. Grows(h, g)
  BY DEF Grows
<1>4. IsDict(g, list, dict)
  BY <1>2, <1>3, HeldStays DEF IsDict
<1> QED
  BY <1>1, <1>2, <1>4 DEF DictFits

\* What a call of get_dict_members gives.
GivesDict(h, o, cat, g) ==
    /\ Leads(h, g) /\ o \in DOMAIN g.objs
    /\ Calm(g) => DictFits(g, o, cat, g.val)

LEMMA GetDictMembers ==
    ASSUME files \in Docs, NEW h, Good(h), Calm(h), NEW o \in DOMAIN h.objs,
           NEW cat, cat # "Block"
    PROVE  GivesDict(h, o, cat, get_dict_members(h, o, cat))
<1> DEFINE a == in_category(h, o, cat)
           list == ListOf(a, o, cat)
           k == NameAll(a, a.val)
           dict == Dictionary(k, a.val)
           r == Entries(k, o, cat, dict)
<1>1. get_dict_members(h, o, cat) =
         IF ~ Calm(a) THEN a
         ELSE IF cat \in DOMAIN a.objs[o].dicts THEN Return(a, a.objs[o].dicts[cat])
         ELSE IF ~ Calm(k) THEN k ELSE r
  BY Zenon DEF get_dict_members, Then, Calm
<1>2. Gives(h, o, cat, a)
  BY InCategory
<1> HIDE DEF a
<1>3. Leads(h, a) /\ o \in DOMAIN a.objs
  BY <1>2 DEF Gives
<1>4. Good(a) /\ Shaped(a)
  BY <1>3, LeadsIn DEF Good
<1>5. CASE ~ Calm(a)
  BY <1>1, <1>3, <1>5 DEF GivesDict
<1>6. ASSUME Calm(a)
      PROVE  /\ a.val = list /\ a.objs[o].parsed = TRUE
             /\ cat = "None" \/ cat \in DOMAIN a.objs[o].cats
             /\ list \in Seq({None} \cup DOMAIN a.objs)
  BY <1>2, <1>3, <1>4, <1>6, ListIs DEF Gives
<1>7. CASE Calm(a) /\ cat \in DOMAIN a.objs[o].dicts
  <2> DEFINE v == a.objs[o].dicts[cat]
             g == Return(a, v)
  <2>1. Leads(a, g) /\ g.objs = a.objs /\ g.val = v
    BY <1>4, ResultLeads, ResultDoes
  <2>2. get_dict_members(h, o, cat) = g
    BY <1>1, <1>7
  <2> HIDE DEF g
  <2>3. Leads(h, g)
    BY <1>3, <2>1, LeadsOn
  <2>4. Listed(a, o) /\ DictsHold(a, o)
    BY <1>3, <1>4 DEF Good, Sound, Caches
  <2>5. DictFits(a, o, cat, v)
    BY <1>6, <1>7, <2>4 DEF Listed, DictsHold, DictFits, IsDict
  <2> HIDE DEF v
  <2>6. DictFits(g, o, cat, v)
    BY <2>1, <2>5, DictStays
  <2> QED
    BY <1>3, <2>1, <2>2, <2>3, <2>6 DEF GivesDict
<1>8. CASE Calm(a) /\ cat \notin DOMAIN a.objs[o].dicts
  <2>1. a.val = list /\ list \in Seq({None} \cup DOMAIN a.objs)
    BY <1>6, <1>8
  <2> HIDE DEF list
  <2>2. /\ Leads(a, k)
        /\ Calm(k) => /\ k.objs = a.objs
                      /\ \A i \in DOMAIN list : list[i] \in DOMAIN a.objs /\ a.objs[list[i]].pd # <<>>
    BY <1>4, <2>1, NameAllDoes
  <2> HIDE DEF k
  <2>3. Leads(h, k)
    BY <1>3, <2>2, LeadsOn
  <2>4. Good(k) /\ Shaped(k) /\ o \in DOMAIN k.objs
    BY <1>3, <2>2, LeadsIn DEF Good
  <2>5. CASE ~ Calm(k)
    BY <1>1, <1>8, <2>3, <2>4, <2>5 DEF GivesDict
  <2>6. CASE Calm(k)
    <3>1. k.objs = a.objs /\ ListOf(k, o, cat) = list
      BY <2>2, <2>6 DEF ListOf, list
    <3>2. \A i \in DOMAIN list : list[i] \in DOMAIN k.objs /\ k.objs[list[i]].pd # <<>>
      BY <2>2, <2>6, <3>1
    <3>3. list \in Seq(DOMAIN k.objs)
      <4>1. Range(list) \subseteq DOMAIN k.objs
        BY <3>2 DEF Range
      <4> QED
        BY <2>1, <4>1, SeqOver
    <3>4. IsDict(k, list, dict)
      BY <2>1, <2>4, <3>3, DictionaryIs
    <3> HIDE DEF dict
    <3>5. DictFits(k, o, cat, dict)
      BY <1>6, <1>8, <3>1, <3>2, <3>4 DEF DictFits
    <3>6. Recorded(k, o, cat, r)
      BY <2>4, <3>5, EntriesDoes
    <3>7. get_dict_members(h, o, cat) = r
      BY <1>1, <1>8, <2>6
    <3> HIDE DEF r
    <3>8. Leads(h, r)
      BY <2>3, <3>6, LeadsOn DEF Recorded
    <3>9. o \in DOMAIN r.objs
      BY <2>4, <3>6, LeadsIn DEF Recorded
    <3> QED
      BY <3>6, <3>7, <3>8, <3>9 DEF GivesDict, Recorded
  <2> QED
    BY <2>5, <2>6
<1> QED
  BY <1>5, <1>7, <1>8

\* Part by part, a name leads to an object.
PartHolds(c, b, s, k, a) == Leads(b, a) /\ (Calm(a) => a.val \in DOMAIN a.objs)
PartLoop == INSTANCE Iterate_proofs WITH Step <- look_up, Holds <- PartHolds

\* What a call of look_up gives: an object of the list that has the name.
LooksUp(cat, h, part, g) ==
    \E k : /\ k = get_dict_members(h, h.val, cat) /\ GivesDict(h, h.val, cat, k) /\ Leads(h, g)
           /\ Calm(g) => /\ Calm(k) /\ g.objs = k.objs /\ g.val \in DOMAIN g.objs
                         /\ <<part>> \in DOMAIN k.val /\ g.val = k.val[<<part>>]
                         /\ \E i \in DOMAIN ListOf(k, h.val, cat) :
                               g.val = ListOf(k, h.val, cat)[i]
           /\ (Calm(k) /\ g.exc = "NoSuchMember") => <<part>> \notin DOMAIN k.val

LEMMA LookUp ==
    ASSUME files \in Docs, NEW h, Good(h), Calm(h), h.val \in DOMAIN h.objs,
           NEW cat, cat # "Block", NEW part
    PROVE  LooksUp(cat, h, part, look_up(cat, h, part))
<1> DEFINE o == h.val
           k == get_dict_members(h, o, cat)
           nm == <<part>>
           value == k.val[nm]
           g == look_up(cat, h, part)
           list == ListOf(k, o, cat)
<1>1. g = IF ~ Calm(k) THEN k
          ELSE IF nm \notin DOMAIN k.val THEN Raise(k, "NoSuchMember")
          ELSE IF value = Duplicated THEN Raise(k, "Duplicate")
          ELSE Return(k, value)
  BY Zenon DEF look_up, Then, Calm
<1>2. GivesDict(h, o, cat, k) /\ k = get_dict_members(h, o, cat)
  BY GetDictMembers
<1> HIDE DEF o, k, nm, g
<1>3. Leads(h, k) /\ (Calm(k) => DictFits(k, o, cat, k.val))
  BY <1>2 DEF GivesDict
<1>4. Good(k) /\ Shaped(k)
  BY <1>3, LeadsIn DEF Good
<1> DEFINE Found == /\ Calm(k) /\ g.objs = k.objs /\ g.val \in DOMAIN g.objs
                    /\ nm \in DOMAIN k.val /\ g.val = k.val[nm]
                    /\ \E i \in DOMAIN list : g.val = list[i]
<1>5. /\ Leads(h, g) /\ (Calm(g) => Found)
      /\ (Calm(k) /\ g.exc = "NoSuchMember") => nm \notin DOMAIN k.val
  <2>1. CASE ~ Calm(k)
    <3>1. g = k
      BY <1>1, <2>1
    <3> QED
      BY <1>3, <2>1, <3>1
  <2>2. CASE Calm(k) /\ nm \notin DOMAIN k.val
    <3>1. g = Raise(k, "NoSuchMember")
      BY <1>1, <2>2
    <3>2. Leads(k, g) /\ ~ Calm(g)
      BY <1>4, <3>1, ResultLeads, RaiseDoes
    <3>3. Leads(h, g)
      BY <1>3, <3>2, LeadsOn
    <3> QED
      BY <2>2, <3>2, <3>3
  <2>3. CASE Calm(k) /\ nm \in DOMAIN k.val /\ value = Duplicated
    <3>1. g = Raise(k, "Duplicate")
      BY <1>1, <2>3
    <3>2. Leads(k, g) /\ ~ Calm(g) /\ g.exc = "Duplicate"
      BY <1>4, <3>1, ResultLeads, ResultDoes, RaiseDoes
    <3>3. Leads(h, g)
      BY <1>3, <3>2, LeadsOn
    <3> QED
      BY <3>2, <3>3
  <2>4. CASE Calm(k) /\ nm \in DOMAIN k.val /\ value # Duplicated
    <3>1. g = Return(k, value)
      BY <1>1, <2>4
    <3> HIDE DEF value
    <3>2. Leads(k, g) /\ g.objs = k.objs /\ g.val = value /\ g.exc = k.exc
      BY <1>4, <3>1, ResultLeads, ResultDoes
    <3>3. Leads(h, g)
      BY <1>3, <3>2, LeadsOn
    <3>4. DictFits(k, o, cat, k.val)
      BY <1>3, <2>4
    <3>5. Held(k, list, nm, value)
      BY <2>4, <3>4 DEF DictFits, IsDict, value
    <3>6. \A i \in DOMAIN list : list[i] \in DOMAIN k.objs
      BY <3>4 DEF DictFits
    <3>7. \E i \in DOMAIN list : value = list[i]
      <4> HIDE DEF list
      <4> QED
        BY <2>4, <3>5 DEF Held
    <3>8. Found
      <4> HIDE DEF list
      <4> QED
        BY <2>4, <3>2, <3>6, <3>7 DEF value
    <3>9. g.exc = "NoSuchMember" => FALSE
      <4>1. k.exc # "NoSuchMember"
        BY Zenon, <2>4 DEF Calm
      <4> QED
        BY <3>2, <4>1
    <3> QED
      BY <3>3, <3>8, <3>9
  <2> QED
    BY <2>1, <2>2, <2>3, <2>4
<1> QED
  BY <1>2, <1>5 DEF LooksUp, o, nm, g

LEMMA GetMember ==
    ASSUME files \in Docs, NEW h, Good(h), Calm(h), NEW o \in DOMAIN h.objs,
           NEW nm, IsSeq(nm), NEW cat, cat # "Block"
    PROVE  LET g == get_member(h, o, nm, cat) IN
           Leads(h, g) /\ (Calm(g) => g.val \in DOMAIN g.objs)
<1> DEFINE b == Return(h, o)
           g == PartLoop!Loop(cat, b, nm)
<1>1. get_member(h, o, nm, cat) = g
  BY Zenon DEF get_member, EachPart!Loop, EachPart!Run, PartLoop!Loop, PartLoop!Run
<1>2. Leads(h, b) /\ b.val = o /\ b.objs = h.objs
  BY ResultLeads, ResultDoes DEF Good
<1> HIDE DEF b
<1>3. Len(nm) \in Nat
  BY SeqElements
<1>4. PartHolds(cat, b, nm, 0, b)
  BY <1>2, LeadsIn, LeadsSelf DEF PartHolds
<1>5. ASSUME NEW k \in 1..Len(nm), NEW a, PartHolds(cat, b, nm, k - 1, a)
      PROVE  PartHolds(cat, b, nm, k, look_up(cat, a, nm[k]))
  <2> DEFINE d == look_up(cat, a, nm[k])
  <2>1. Leads(b, a) /\ Good(a)
    BY <1>5, LeadsIn DEF PartHolds
  <2>2. CASE ~ Calm(a)
    <3>1. d = a
      BY Zenon, <2>2 DEF look_up, Then, Calm
    <3> HIDE DEF d
    <3> QED
      BY <1>5, <2>1, <2>2, <3>1 DEF PartHolds, d
  <2>3. CASE Calm(a)
    <3>1. LooksUp(cat, a, nm[k], d)
      BY <1>5, <2>1, <2>3, LookUp DEF PartHolds
    <3> HIDE DEF d
    <3>2. Leads(a, d) /\ (Calm(d) => d.val \in DOMAIN d.objs)
      BY <3>1 DEF LooksUp
    <3>3. Leads(b, d)
      BY <2>1, <3>2, LeadsOn
    <3> QED
      BY <3>2, <3>3 DEF PartHolds, d
  <2> QED
    BY <2>2, <2>3
<1>6. PartHolds(cat, b, nm, Len(nm), g)
  BY <1>3, <1>4, <1>5, PartLoop!LoopKeeps
<1> HIDE DEF g
<1>7. Leads(h, g)
  BY <1>2, <1>6, LeadsOn DEF PartHolds
<1> QED
  BY <1>1, <1>6, <1>7 DEF PartHolds

LEMMA AbsentDoes ==
    ASSUME files \in Docs, NEW h, Good(h), NEW v
    PROVE  LET g == Absent(h, v) IN
           /\ Leads(h, g)
           /\ Calm(g) => \/ h.exc = "NoSuchMember" /\ g.val = v
                         \/ Calm(h) /\ g = h
<1>1. CASE h.exc = "NoSuchMember"
  <2> DEFINE e == ""
             k == Raise(h, e)
             g == Return(k, v)
  <2>1. Absent(h, v) = g
    BY Zenon, <1>1 DEF Absent
  <2> HIDE DEF e
  <2>2. Leads(h, k)
    BY ResultLeads
  <2> HIDE DEF k
  <2>3. Leads(k, g) /\ g.val = v
    BY <2>2, LeadsIn, ResultLeads, ResultDoes DEF Good
  <2> HIDE DEF g
  <2>4. Leads(h, g)
    BY <2>2, <2>3, LeadsOn
  <2> QED
    BY <1>1, <2>1, <2>3, <2>4
<1>2. CASE h.exc # "NoSuchMember"
  <2>1. Absent(h, v) = h
    BY Zenon, <1>2 DEF Absent
  <2> QED
    BY <2>1, LeadsSelf
<1> QED
  BY <1>1, <1>2

LEMMA HasMember ==
    ASSUME files \in Docs, NEW h, Good(h), Calm(h), NEW o \in DOMAIN h.objs,
           NEW nm, IsSeq(nm), NEW cat, cat # "Block"
    PROVE  LET g == has_member(h, o, nm, cat)
               a == get_member(h, o, nm, cat) IN
           /\ Leads(h, g)
           /\ Calm(g) => \/ g.val = TRUE /\ Calm(a)
                         \/ g.val = FALSE /\ a.exc = "NoSuchMember"
<1> DEFINE a == get_member(h, o, nm, cat)
           t == TRUE
           n == FALSE
           b == IF Calm(a) THEN Return(a, t) ELSE a
           g == Absent(b, n)
<1>1. has_member(h, o, nm, cat) = g
  BY Zenon DEF has_member, Then, Calm
<1>2. Leads(h, a)
  BY GetMember
<1> HIDE DEF a, t, n
<1>3. Good(a) /\ Shaped(a)
  BY <1>2, LeadsIn DEF Good
<1>4. Leads(a, b) /\ b.exc = a.exc /\ (Calm(a) => b.val = t)
  BY <1>3, ResultLeads, ResultDoes, LeadsSelf
<1> HIDE DEF b
<1>5. Leads(h, b) /\ Good(b)
  BY <1>2, <1>4, LeadsOn, LeadsIn
<1>6. Leads(b, g) /\ (Calm(g) => \/ b.exc = "NoSuchMember" /\ g.val = n
                                 \/ Calm(b) /\ g = b)
  BY <1>5, AbsentDoes
<1> HIDE DEF g
<1>7. Leads(h, g)
  BY <1>5, <1>6, LeadsOn
<1>8. Calm(b) <=> Calm(a)
  BY <1>4 DEF Calm
<1>9. Calm(g) => \/ g.val = t /\ Calm(a)
                 \/ g.val = n /\ a.exc = "NoSuchMember"
  BY <1>4, <1>6, <1>8
<1> QED
  BY <1>1, <1>7, <1>9 DEF t, n, a

-----------------------------------------------------------------------------
\* Blocks: the classes that have a make function among their friends.

Friends(obj) == IF Readable(obj.refid) THEN NamesOfKind(obj.refid, "friend") ELSE {}
\* What get_member finds among them: it looks for a name of one part.
Befriends(obj, nm) == Len(nm) = 1 /\ nm \in Friends(obj)

LEMMA ClassOfKind ==
    \A k \in DOMAIN mem_classes : /\ mem_classes[k] = "DoxyFriend" <=> k = "friend"
                                  /\ mem_classes[k] = "DoxyClass" <=> k = "class"
  BY DEF mem_classes

LEMMA FriendNames ==
    ASSUME files \in Docs, NEW h, Good(h), NEW o \in DOMAIN h.objs,
           h.objs[o].class = "DoxyClass", h.objs[o].parsed = TRUE,
           "DoxyFriend" \in DOMAIN h.objs[o].cats
    PROVE  NamesOf(h, ListOf(h, o, "DoxyFriend")) = Friends(h.objs[o])
<1> DEFINE cat == "DoxyFriend"
           ms == h.objs[o].members
           list == ListOf(h, o, cat)
           refid == h.objs[o].refid
           pds == Unique(MemberDefs(refid))
<1>1. ms \in Seq({None} \cup DOMAIN h.objs)
  BY DEF Good, Sound, Adopted
<1>2. list = OfClass(h, ms, cat)
  BY DEF Good, Sound, Caches, ListsFresh, ListOf
<1>3. \A m : m \in Range(list) <=> m \in Range(ms) /\ m # None /\ h.objs[m].class = cat
  <2> HIDE DEF cat, ms, list
  <2> QED
    BY <1>1, <1>2, OfClassIs
<1>4. \/ ms = <<>> /\ ~ Readable(refid)
      \/ Readable(refid) /\ MadeFrom(h, ms, pds)
  <2>1. FileRead(h, o)
    BY DEF Good, Sound
  <2> QED
    BY <2>1 DEF FileRead
<1>5. NamesOf(h, list) = {NameOf(h, m) : m \in Range(list)}
  BY DEF NamesOf, Range
<1>6. CASE ms = <<>> /\ ~ Readable(refid)
  <2>1. Range(list) = {}
    BY <1>3, <1>6 DEF Range
  <2> HIDE DEF list
  <2> QED
    BY <1>5, <1>6, <2>1 DEF Friends, list
<1>7. CASE Readable(refid) /\ MadeFrom(h, ms, pds)
  <2>1. /\ DOMAIN ms = 1..Len(ms)
        /\ \A i \in DOMAIN pds : i \in DOMAIN ms => Represents(h, ms[i], pds[i])
    BY <1>1, <1>7 DEF MadeFrom
  <2>2. DOMAIN pds = DOMAIN ms
    <3>1. pds \in Seq(Range(pds))
      <4>1. refid # "index"
        BY DEF Good, Sound, MadeOf
      <4> QED
        BY <1>7, <4>1, ReadableIs DEF IsSeq
    <3> QED
      BY <1>1, <1>7, <3>1 DEF MadeFrom
  <2> HIDE DEF list, ms, pds
  <2>3. ASSUME NEW m \in Range(list)
        PROVE  \E n \in Range(pds) : KindOf(n) = "friend" /\ PdName(n) = NameOf(h, m)
    <3>1. PICK i \in DOMAIN ms : m = ms[i]
      BY <1>3 DEF Range
    <3>2. Represents(h, m, pds[i]) /\ pds[i] \in Range(pds)
      BY <2>1, <2>2, <3>1 DEF Range
    <3>3. m # None /\ h.objs[m].class = "DoxyFriend"
      BY <1>3
    <3> QED
      BY <3>2, <3>3, ClassOfKind DEF Represents
  <2>4. ASSUME NEW n \in Range(pds), KindOf(n) = "friend"
        PROVE  \E m \in Range(list) : PdName(n) = NameOf(h, m)
    <3>1. PICK i \in DOMAIN pds : n = pds[i]
      BY DEF Range
    <3>2. Represents(h, ms[i], n) /\ ms[i] \in Range(ms)
      BY <2>1, <2>2, <3>1 DEF Range
    <3>3. "friend" \in DOMAIN mem_classes /\ mem_classes["friend"] = "DoxyFriend"
      BY DEF mem_classes
    <3>4. ms[i] # None /\ h.objs[ms[i]].class = cat /\ NameOf(h, ms[i]) = PdName(n)
      BY <2>4, <3>2, <3>3 DEF Represents
    <3> QED
      BY <1>3, <3>2, <3>4
  <2>5. Friends(h.objs[o]) = {PdName(n) : n \in {x \in Range(pds) : KindOf(x) = "friend"}}
    BY <1>7 DEF Friends, NamesOfKind, pds
  <2> QED
    BY <1>5, <2>3, <2>4, <2>5 DEF list
<1> QED
  BY <1>4, <1>6, <1>7

\* The names that the script makes of a name.
LEMMA NamesMade ==
    ASSUME NEW nm, IsName(nm)
    PROVE  /\ IsSeq(make_name(nm)) /\ Len(make_name(nm)) = Len(nm)
           /\ IsSeq(header_of(nm))
<1> DEFINE e == Append(nm[Len(nm)], ".h")
           at == {i \in DOMAIN nm : Len(nm[i]) > 1}
           x == CHOOSE i \in at : \A j \in at : i <= j
           v == nm[Len(nm)] \o <<"make", "">>
           w == <<Head(nm[x]), "make">> \o Tail(nm[x])
           Set(i, d) == [nm EXCEPT ![i] = d]
<1>1. ASSUME NEW i, NEW d
      PROVE  IsSeq(Set(i, d)) /\ Len(Set(i, d)) = Len(nm)
  <2>1. CASE i \in DOMAIN nm
    BY <2>1, SeqUpdate DEF IsName
  <2>2. CASE i \notin DOMAIN nm
    <3>1. nm \in Seq(Range(nm))
      BY DEF IsName, IsSeq
    <3>2. [nm EXCEPT ![i] = d] = nm
      BY <2>2, <3>1
    <3> QED
      BY <3>2 DEF IsName
  <2> QED
    BY <2>1, <2>2
<1>2. header_of(nm) = Set(Len(nm), e)
  BY DEF header_of
<1>3. make_name(nm) = IF at = {} THEN Set(Len(nm), v) ELSE Set(x, w)
  BY DEF make_name
<1> HIDE DEF e, x, v, w, at, Set
<1> QED
  BY <1>1, <1>2, <1>3

\* Only a class whose file can be read is a block, and its name shows it.
LEMMA BlockIs ==
    ASSUME files \in Docs, NEW obj, MadeOf(obj), obj.class = "DoxyClass"
    PROVE  /\ IsBlock(obj) => Readable(obj.refid)
           /\ obj.pd # <<>> =>
                 (IsBlock(obj) <=> Befriends(obj, make_name(PdName(obj.pd[1]))))
<1>1. \A b \in BlockClasses : /\ b \in Range(OfKind(Compounds, "class")) /\ Readable(RefOf(b))
                              /\ make_name(PdName(b)) \in NamesOfKind(RefOf(b), "friend")
  BY DEF BlockClasses, ReadableClasses
<1>2. IsBlock(obj) => Readable(obj.refid)
  BY <1>1 DEF IsBlock
<1>3. ASSUME obj.pd # <<>>
      PROVE  IsBlock(obj) <=> Befriends(obj, make_name(PdName(obj.pd[1])))
  <2> DEFINE pd == obj.pd[1]
  <2>1. KindOf(pd) = "class"
    BY <1>3, ClassOfKind DEF MadeOf
  <2>2. CASE obj.refid = NoRef
    <3>1. ~ Readable(obj.refid)
      BY <2>2, DocsAssumption DEF Readable
    <3> QED
      BY <1>2, <3>1 DEF Friends, Befriends
  <2>3. CASE obj.refid # NoRef
    <3>1. /\ IsEntry(pd) /\ RefOf(pd) = obj.refid
      BY <1>3, <2>3 DEF MadeOf
    <3>2. IsIndex(Compounds)
      BY <3>1, DocsAssumption DEF IsEntry, Compounds
    <3>3. IsSeq(Compounds) /\ pd \in Range(Compounds)
      BY <3>1, <3>2 DEF IsIndex, IsEntry
    <3>4. Range(OfKind(Compounds, "class")) = {c \in Range(Compounds) : KindOf(c) = "class"}
      <4> DEFINE at == {i \in DOMAIN Compounds : KindOf(Compounds[i]) = "class"}
      <4>1. at \in SUBSET (DOMAIN Compounds)
        OBVIOUS
      <4>2. Range(Picked(Compounds, at)) = {Compounds[i] : i \in at}
        BY <3>3, <4>1, SeqPicked
      <4> QED
        BY <4>2 DEF OfKind, Range
    <3>5. \A b \in BlockClasses : RefOf(b) = obj.refid => b = pd
      BY <1>1, <3>1, <3>2, <3>3, <3>4 DEF IsIndex, RefOf, AreOne
    <3>6. pd \in BlockClasses <=> Befriends(obj, make_name(PdName(pd)))
      <4>1. Len(make_name(PdName(pd))) = Len(PdName(pd))
        BY <3>2, <3>3, NamesMade DEF IsIndex
      <4> QED
        BY <2>1, <3>1, <3>3, <3>4, <4>1
           DEF BlockClasses, ReadableClasses, Friends, Befriends
    <3> QED
      BY <3>1, <3>5, <3>6 DEF IsBlock
  <2> QED
    BY <2>2, <2>3
<1> QED
  BY <1>2, <1>3

\* An object that was read without an error is asked again: nothing is read.
LEMMA Ready ==
    ASSUME NEW h, NEW o, h.objs[o].parsed, ~ h.objs[o].error
    PROVE  confirm_no_error(h, o) = h
<1>1. check_parsed(h, o) = h
  BY Zenon DEF check_parsed, parse_index, parse_object
<1> QED
  BY Zenon, <1>1 DEF confirm_no_error, Confirm

\* The friends of a class have names.
LEMMA FriendDict ==
    ASSUME files \in Docs, NEW h, Good(h), Calm(h), NEW o \in DOMAIN h.objs,
           h.objs[o].parsed = TRUE, ~ h.objs[o].error
    PROVE  Calm(get_dict_members(h, o, "DoxyFriend"))
<1> DEFINE cat == "DoxyFriend"
           a == in_category(h, o, cat)
           k == NameAll(a, a.val)
           dict == Dictionary(k, a.val)
           r == Entries(k, o, cat, dict)
           list == OfClass(h, h.objs[o].members, cat)
<1>1. get_dict_members(h, o, cat) =
         IF ~ Calm(a) THEN a
         ELSE IF cat \in DOMAIN a.objs[o].dicts THEN Return(a, a.objs[o].dicts[cat])
         ELSE IF ~ Calm(k) THEN k ELSE r
  BY Zenon DEF get_dict_members, Then, Calm
<1>2. cat # "None" /\ cat # "Block"
  OBVIOUS
<1>3. in_category(h, o, cat) =
         IF cat \in DOMAIN h.objs[o].cats THEN Return(h, h.objs[o].cats[cat])
         ELSE Category(h, o, cat, list)
  <2>1. confirm_no_error(h, o) = h
    BY Ready
  <2> HIDE DEF cat
  <2> QED
    BY Zenon, <1>2, <2>1 DEF in_category, Then, Calm
<1> HIDE DEF cat
<1>4. Gives(h, o, cat, a)
  BY <1>2, InCategory
<1>5. Shaped(h) /\ h.objs[o].members \in Seq({None} \cup DOMAIN h.objs)
  BY DEF Good, Sound, Adopted
<1>6. Calm(a)
  <2>1. CASE cat \in DOMAIN h.objs[o].cats
    <3> DEFINE v == h.objs[o].cats[cat]
    <3>1. a = Return(h, v)
      BY <1>3, <2>1
    <3> HIDE DEF a, v
    <3>2. a.exc = h.exc
      BY <1>5, <3>1, ResultDoes
    <3> QED
      BY <3>2 DEF Calm
  <2>2. CASE cat \notin DOMAIN h.objs[o].cats
    <3>1. a = Category(h, o, cat, list)
      BY <1>3, <2>2
    <3> HIDE DEF a
    <3>2. CategoryFits(h, o, cat, list)
      BY <1>2 DEF CategoryFits
    <3> HIDE DEF list
    <3>3. Stored(h, o, cat, list, a)
      BY <1>2, <2>2, <3>1, <3>2, CategoryDoes
    <3>4. a.exc = h.exc
      BY <3>3 DEF Stored
    <3> QED
      BY <3>4 DEF Calm
  <2> QED
    BY <2>1, <2>2
<1> HIDE DEF a, list
<1>7. /\ Leads(h, a) /\ Good(a) /\ Shaped(a) /\ o \in DOMAIN a.objs
      /\ a.val = ListOf(a, o, cat) /\ cat \in DOMAIN a.objs[o].cats
  BY <1>2, <1>4, <1>6, LeadsIn DEF Gives, Good
<1>8. /\ a.val \in Seq(DOMAIN a.objs) /\ a.val = OfClass(a, a.objs[o].members, cat)
      /\ a.objs[o].members \in Seq({None} \cup DOMAIN a.objs)
  BY <1>2, <1>7, ListIs DEF Good, Sound, Adopted
<1>9. \A i \in DOMAIN a.val : a.val[i] \in DOMAIN a.objs /\ a.objs[a.val[i]].pd # <<>>
  <2> SUFFICES ASSUME NEW i \in DOMAIN a.val
               PROVE  a.val[i] \in DOMAIN a.objs /\ a.objs[a.val[i]].pd # <<>>
    OBVIOUS
  <2>1. a.val[i] \in Range(a.val) /\ a.val[i] \in DOMAIN a.objs
    BY <1>8 DEF Range
  <2>2. a.objs[a.val[i]].class = cat
    BY <1>8, <2>1, OfClassIs
  <2>3. MadeOf(a.objs[a.val[i]])
    BY <1>7, <2>1 DEF Good, Sound
  <2> QED
    BY <2>1, <2>2, <2>3 DEF MadeOf, cat
<1>10. CASE cat \in DOMAIN a.objs[o].dicts
  <2> DEFINE v == a.objs[o].dicts[cat]
             g == Return(a, v)
  <2>1. get_dict_members(h, o, cat) = g
    BY <1>1, <1>6, <1>10
  <2> HIDE DEF v
  <2>2. g.exc = a.exc
    BY <1>7, ResultDoes
  <2> HIDE DEF g
  <2>3. Calm(g)
    BY <1>6, <2>2 DEF Calm
  <2> QED
    BY <2>1, <2>3 DEF cat
<1>11. CASE cat \notin DOMAIN a.objs[o].dicts
  <2> DEFINE os == a.val
  <2>1. os \in Seq({None} \cup DOMAIN a.objs)
    <3>1. Range(os) \subseteq {None} \cup DOMAIN a.objs
      BY <1>8, SeqOver
    <3> QED
      BY <1>8, <3>1, SeqOver
  <2>2. Calm(k) /\ k.objs = a.objs /\ Leads(a, k)
    BY <1>6, <1>7, <1>9, <2>1, NameAllDoes
  <2> HIDE DEF k
  <2>3. Good(k) /\ o \in DOMAIN k.objs /\ Shaped(k)
    BY <1>7, <2>2, LeadsIn DEF Good
  <2>4. IsDict(k, os, dict)
    BY <1>8, <2>2, <2>3, DictionaryIs
  <2> HIDE DEF dict
  <2>5. a.objs[o].parsed = TRUE /\ ListOf(k, o, cat) = os
    BY <1>4, <1>6, <1>7, <2>2 DEF Gives, ListOf
  <2>6. DictFits(k, o, cat, dict)
    BY <1>2, <1>7, <1>9, <2>2, <2>4, <2>5 DEF DictFits
  <2>7. Recorded(k, o, cat, r)
    BY <2>3, <2>6, EntriesDoes
  <2> HIDE DEF r
  <2>8. r.exc = k.exc
    BY <2>7 DEF Recorded
  <2>9. Calm(r)
    BY <2>2, <2>8 DEF Calm
  <2> QED
    BY <1>1, <1>6, <1>11, <2>2, <2>9 DEF cat
<1> QED
  BY <1>10, <1>11

\* Part by part, a name is looked up among the friends of o: a friend has none.
FriendHolds(c, b, s, k, a) ==
    /\ Leads(b, a)
    /\ k = 0 => a = b
    /\ k = 1 => /\ Calm(a) => /\ a.val \in DOMAIN a.objs /\ a.objs[a.val].class = "DoxyFriend"
                              /\ <<s[1]>> \in Friends(b.objs[b.val])
                /\ a.exc = "NoSuchMember" => <<s[1]>> \notin Friends(b.objs[b.val])
    /\ k > 1 => ~ Calm(a)
FriendLoop == INSTANCE Iterate_proofs WITH Step <- look_up, Holds <- FriendHolds

LEMMA OfClassHas ==
    ASSUME NEW h, NEW os, os \in Seq({None} \cup DOMAIN h.objs), NEW cat,
           NEW m, m \in Range(OfClass(h, os, cat))
    PROVE  m \in Range(os) /\ h.objs[m].class = cat
<1> DEFINE P == {i \in DOMAIN os : os[i] # None /\ h.objs[os[i]].class = cat}
<1>1. m \in Range(Picked(os, P)) /\ P \in SUBSET (DOMAIN os) /\ IsSeq(os)
  BY SeqOver DEF OfClass
<1>2. m \in {os[i] : i \in P}
  <2> HIDE DEF P
  <2> QED
    BY <1>1, SeqPicked
<1> QED
  BY <1>2 DEF Range

LEMMA ListedClass ==
    ASSUME NEW h, Good(h), NEW o \in DOMAIN h.objs, NEW cat, cat # "None", cat # "Block",
           cat \in DOMAIN h.objs[o].cats, NEW i \in DOMAIN ListOf(h, o, cat)
    PROVE  /\ h.objs[ListOf(h, o, cat)[i]].class = cat
           /\ ListOf(h, o, cat)[i] \in Range(h.objs[o].members)
<1> DEFINE list == ListOf(h, o, cat)
           ms == h.objs[o].members
           m == list[i]
           c == cat
<1>1. list = OfClass(h, ms, c) /\ ms \in Seq({None} \cup DOMAIN h.objs)
  BY ListIs DEF Good, Sound, Adopted
<1>2. m \in Range(list)
  BY DEF Range
<1> HIDE DEF list, ms, m, c
<1>3. m \in Range(ms) /\ h.objs[m].class = c
  BY <1>1, <1>2, OfClassHas
<1> QED
  BY <1>3 DEF m, ms, list, c

LEMMA LookUpCalm ==
    ASSUME NEW cat, NEW h, NEW part
    PROVE  ~ Calm(h) => look_up(cat, h, part) = h
  BY Zenon DEF look_up, Then, Calm

LEMMA FirstFriend ==
    ASSUME files \in Docs, NEW b, Good(b), Calm(b), b.val \in DOMAIN b.objs,
           b.objs[b.val].class = "DoxyClass", b.objs[b.val].parsed = TRUE,
           ~ b.objs[b.val].error, NEW part
    PROVE  LET d == look_up("DoxyFriend", b, part) IN
           /\ Leads(b, d)
           /\ Calm(d) => /\ d.val \in DOMAIN d.objs /\ d.objs[d.val].class = "DoxyFriend"
                         /\ <<part>> \in Friends(b.objs[b.val])
           /\ d.exc = "NoSuchMember" => <<part>> \notin Friends(b.objs[b.val])
<1> DEFINE o == b.val
           cat == "DoxyFriend"
           d == look_up(cat, b, part)
           nm == <<part>>
<1>1. cat # "None" /\ cat # "Block"
  OBVIOUS
<1>2. Calm(get_dict_members(b, o, cat))
  BY FriendDict
<1> HIDE DEF cat
<1>3. LooksUp(cat, b, part, d)
  BY <1>1, LookUp
<1> HIDE DEF d
<1>4. PICK k : /\ k = get_dict_members(b, o, cat) /\ GivesDict(b, o, cat, k) /\ Leads(b, d)
               /\ Calm(d) => /\ Calm(k) /\ d.objs = k.objs /\ d.val \in DOMAIN d.objs
                             /\ nm \in DOMAIN k.val /\ d.val = k.val[nm]
                             /\ \E i \in DOMAIN ListOf(k, o, cat) : d.val = ListOf(k, o, cat)[i]
               /\ (Calm(k) /\ d.exc = "NoSuchMember") => nm \notin DOMAIN k.val
  BY <1>3 DEF LooksUp
<1>5. Calm(k)
  BY <1>2, <1>4
<1> HIDE DEF nm
<1>6. /\ Leads(b, k) /\ o \in DOMAIN k.objs /\ DictFits(k, o, cat, k.val)
  BY <1>4, <1>5 DEF GivesDict
<1>7. Good(k) /\ k.objs[o].class = b.objs[o].class /\ k.objs[o].refid = b.objs[o].refid
  BY <1>6, LeadsIn DEF Grows
<1>8. /\ k.objs[o].parsed = TRUE /\ cat \in DOMAIN k.objs[o].cats
      /\ DOMAIN k.val = NamesOf(k, ListOf(k, o, cat))
  BY <1>1, <1>6 DEF DictFits, IsDict
<1>9. NamesOf(k, ListOf(k, o, cat)) = Friends(k.objs[o])
  BY <1>6, <1>7, <1>8, FriendNames DEF cat
<1>10. Friends(k.objs[o]) = Friends(b.objs[o])
  BY <1>7 DEF Friends
<1>11. ASSUME Calm(d)
       PROVE  d.objs[d.val].class = cat
  <2>1. PICK i \in DOMAIN ListOf(k, o, cat) : d.val = ListOf(k, o, cat)[i]
    BY <1>4, <1>11
  <2>2. k.objs[ListOf(k, o, cat)[i]].class = cat
    BY <1>1, <1>6, <1>7, <1>8, ListedClass
  <2> QED
    BY <1>4, <1>11, <2>1, <2>2
<1>12. (Calm(d) => nm \in Friends(b.objs[o]))
       /\ (d.exc = "NoSuchMember" => nm \notin Friends(b.objs[o]))
  BY <1>4, <1>5, <1>8, <1>9, <1>10
<1> QED
  BY <1>4, <1>11, <1>12 DEF d, cat, nm

LEMMA NextFriend ==
    ASSUME files \in Docs, NEW a, Good(a), Calm(a), a.val \in DOMAIN a.objs,
           a.objs[a.val].class = "DoxyFriend", NEW part
    PROVE  LET d == look_up("DoxyFriend", a, part) IN Leads(a, d) /\ ~ Calm(d)
<1> DEFINE o == a.val
           cat == "DoxyFriend"
           d == look_up(cat, a, part)
<1>1. cat # "None" /\ cat # "Block"
  OBVIOUS
<1> HIDE DEF cat
<1>2. LooksUp(cat, a, part, d)
  BY <1>1, LookUp
<1> HIDE DEF d
<1>3. PICK k : /\ GivesDict(a, o, cat, k) /\ Leads(a, d)
               /\ Calm(d) => Calm(k) /\ \E i \in DOMAIN ListOf(k, o, cat) : TRUE
  BY <1>2 DEF LooksUp
<1>4. ASSUME Calm(d) PROVE FALSE
  <2> DEFINE list == ListOf(k, o, cat)
             ms == k.objs[o].members
  <2>1. /\ Leads(a, k) /\ o \in DOMAIN k.objs /\ DictFits(k, o, cat, k.val)
    BY <1>3, <1>4 DEF GivesDict
  <2>2. Good(k) /\ k.objs[o].class = "DoxyFriend"
    BY <2>1, LeadsIn DEF Grows
  <2>3. ms = <<>>
    BY <2>1, <2>2 DEF Good, Sound, Childless
  <2>4. cat \in DOMAIN k.objs[o].cats
    BY <1>1, <2>1 DEF DictFits
  <2>5. PICK i \in DOMAIN list : TRUE
    BY <1>3, <1>4
  <2>6. list[i] \in Range(ms)
    BY <1>1, <2>1, <2>2, <2>4, ListedClass
  <2> HIDE DEF list, ms
  <2> QED
    BY <2>3, <2>6 DEF Range
<1> QED
  BY <1>3, <1>4 DEF d, cat

LEMMA FriendMember ==
    ASSUME files \in Docs, NEW h, Good(h), Calm(h), NEW o \in DOMAIN h.objs,
           h.objs[o].class = "DoxyClass", h.objs[o].parsed = TRUE, ~ h.objs[o].error,
           NEW nm, IsSeq(nm), Len(nm) # 0
    PROVE  LET g == get_member(h, o, nm, "DoxyFriend") IN
           /\ Leads(h, g)
           /\ Calm(g) => Befriends(h.objs[o], nm)
           /\ g.exc = "NoSuchMember" => ~ Befriends(h.objs[o], nm)
<1> DEFINE cat == "DoxyFriend"
           b == Return(h, o)
           F == Friends(h.objs[o])
           g == FriendLoop!Loop(cat, b, nm)
<1>1. get_member(h, o, nm, cat) = g
  BY Zenon DEF get_member, EachPart!Loop, EachPart!Run, FriendLoop!Loop, FriendLoop!Run
<1>2. Leads(h, b) /\ b.val = o /\ b.objs = h.objs /\ b.exc = h.exc
  BY ResultLeads, ResultDoes DEF Good
<1> HIDE DEF b
<1>3. Good(b) /\ Calm(b)
  BY <1>2, LeadsIn DEF Calm
<1>4. Len(nm) \in Nat
  BY SeqElements
<1>5. FriendHolds(cat, b, nm, 0, b)
  BY <1>3, LeadsSelf DEF FriendHolds
<1>6. ASSUME NEW k \in 1..Len(nm), NEW a, FriendHolds(cat, b, nm, k - 1, a)
      PROVE  FriendHolds(cat, b, nm, k, look_up(cat, a, nm[k]))
  <2> DEFINE d == look_up(cat, a, nm[k])
  <2>1. Leads(b, a) /\ Good(a)
    BY <1>6, LeadsIn DEF FriendHolds
  <2>2. CASE k = 1
    <3>1. a = b
      BY <1>6, <2>2 DEF FriendHolds
    <3>2. d = look_up("DoxyFriend", b, nm[1])
      BY <2>2, <3>1
    <3> HIDE DEF d
    <3>3. /\ Leads(b, d)
          /\ Calm(d) => /\ d.val \in DOMAIN d.objs /\ d.objs[d.val].class = "DoxyFriend"
                        /\ <<nm[1]>> \in Friends(b.objs[b.val])
          /\ d.exc = "NoSuchMember" => <<nm[1]>> \notin Friends(b.objs[b.val])
      BY <1>2, <1>3, <3>2, FirstFriend
    <3>4. FriendHolds(cat, b, nm, k, d)
      BY <2>2, <3>3 DEF FriendHolds
    <3> QED
      BY <3>4 DEF d
  <2>3. CASE k # 1 /\ ~ Calm(a)
    <3>1. d = a
      BY <2>3, LookUpCalm
    <3> HIDE DEF d
    <3>2. FriendHolds(cat, b, nm, k, d)
      BY <2>1, <2>3, <3>1 DEF FriendHolds
    <3> QED
      BY <3>2 DEF d
  <2>4. CASE k # 1 /\ Calm(a)
    <3>1. k - 1 = 1
      BY <1>6, <2>4 DEF FriendHolds
    <3>2. a.val \in DOMAIN a.objs /\ a.objs[a.val].class = "DoxyFriend"
      BY <1>6, <2>4, <3>1 DEF FriendHolds
    <3>3. Leads(a, d) /\ ~ Calm(d)
      BY <2>1, <2>4, <3>2, NextFriend
    <3> HIDE DEF d
    <3>4. Leads(b, d)
      BY <2>1, <3>3, LeadsOn
    <3>5. FriendHolds(cat, b, nm, k, d)
      BY <2>4, <3>3, <3>4 DEF FriendHolds
    <3> QED
      BY <3>5 DEF d
  <2> QED
    BY <2>2, <2>3, <2>4
<1>7. FriendHolds(cat, b, nm, Len(nm), g)
  BY <1>4, <1>5, <1>6, FriendLoop!LoopKeeps
<1> HIDE DEF g
<1>8. Leads(h, g)
  BY <1>2, <1>7, LeadsOn DEF FriendHolds
<1>9. CASE Len(nm) = 1
  <2>1. nm = <<nm[1]>>
    BY <1>9 DEF IsSeq
  <2>2. (Calm(g) => nm \in F) /\ (g.exc = "NoSuchMember" => nm \notin F)
    BY <1>2, <1>7, <1>9, <2>1 DEF FriendHolds
  <2> QED
    BY <1>1, <1>8, <1>9, <2>2 DEF Befriends
<1>10. CASE Len(nm) # 1
  <2>1. Len(nm) > 1
    BY <1>4, <1>10
  <2>2. ~ Calm(g)
    BY <1>7, <2>1 DEF FriendHolds
  <2> QED
    BY <1>1, <1>8, <1>10, <2>2 DEF Befriends
<1> QED
  BY <1>9, <1>10

\* An error is that the file cannot be read.
LEMMA ErrorUnreadable ==
    ASSUME NEW h, Good(h), NEW o \in DOMAIN h.objs, h.objs[o].class = "DoxyClass",
           h.objs[o].parsed = TRUE, h.objs[o].error
    PROVE  ~ Readable(h.objs[o].refid)
<1>1. FileRead(h, o)
  BY DEF Good, Sound
<1> QED
  BY <1>1 DEF FileRead

\* What the test of a class gives: whether it is a block.  A block has a name.
Tests(h, o, g) ==
    /\ Leads(h, g) /\ o \in {None} \cup DOMAIN g.objs
    /\ Calm(g) => \/ g.val = TRUE /\ o # None /\ IsBlock(g.objs[o]) /\ g.objs[o].pd # <<>>
                  \/ g.val = FALSE /\ (o = None \/ ~ IsBlock(g.objs[o]))

LEMMA NoClass ==
    ASSUME files \in Docs, NEW h, Good(h), NEW o \in {None} \cup DOMAIN h.objs, NEW n, n = FALSE,
           o # None => h.objs[o].class # "DoxyClass" \/ ~ Readable(h.objs[o].refid)
    PROVE  Tests(h, o, Return(h, n))
<1> DEFINE g == Return(h, n)
<1>1. Leads(h, g) /\ g.val = n /\ g.objs = h.objs
  BY ResultLeads, ResultDoes DEF Good
<1> HIDE DEF g
<1>2. o # None => ~ IsBlock(g.objs[o])
  <2> SUFFICES ASSUME o # None PROVE ~ IsBlock(g.objs[o])
    OBVIOUS
  <2>1. CASE h.objs[o].class # "DoxyClass"
    BY <1>1, <2>1 DEF IsBlock
  <2>2. CASE h.objs[o].class = "DoxyClass"
    <3>1. MadeOf(h.objs[o])
      BY DEF Good, Sound
    <3>2. IsBlock(h.objs[o]) => Readable(h.objs[o].refid)
      BY <2>2, <3>1, BlockIs
    <3> QED
      BY <1>1, <2>2, <3>2
  <2> QED
    BY <2>1, <2>2
<1>3. Tests(h, o, g)
  BY <1>1, <1>2 DEF Tests
<1> QED
  BY <1>3 DEF g

\* An object that was made of parse data has a name.
LEMMA NameIs ==
    ASSUME files \in Docs, NEW h, Good(h), NEW o \in DOMAIN h.objs, h.objs[o].pd # <<>>
    PROVE  IsName(NameOf(h, o))
<1>1. MadeOf(h.objs[o]) /\ NameOf(h, o) = PdName(h.objs[o].pd[1])
  BY DEF Good, Sound, NameOf, PdName
<1>2. CASE h.objs[o].refid = NoRef
  BY <1>1, <1>2 DEF MadeOf, IsMemberdef
<1>3. CASE h.objs[o].refid # NoRef
  <2>1. IsEntry(h.objs[o].pd[1])
    BY <1>1, <1>3 DEF MadeOf
  <2>2. IsIndex(Compounds)
    BY <2>1, DocsAssumption DEF IsEntry, Compounds
  <2> QED
    BY <1>1, <2>1, <2>2 DEF IsEntry, IsIndex
<1> QED
  BY <1>2, <1>3

LEMMA HasMake ==
    ASSUME files \in Docs, NEW h, Good(h), Calm(h), NEW o \in DOMAIN h.objs,
           h.objs[o].class = "DoxyClass", h.objs[o].parsed = TRUE, ~ h.objs[o].error,
           h.objs[o].pd # <<>>
    PROVE  Tests(h, o, has_member(h, o, make_name(NameOf(h, o)), "DoxyFriend"))
<1> DEFINE nm == make_name(NameOf(h, o))
           cat == "DoxyFriend"
           a == get_member(h, o, nm, cat)
           g == has_member(h, o, nm, cat)
<1>1. MadeOf(h.objs[o]) /\ NameOf(h, o) = PdName(h.objs[o].pd[1])
  BY DEF Good, Sound, NameOf, PdName
<1>2. IsName(NameOf(h, o))
  BY NameIs
<1>3. IsSeq(nm) /\ Len(nm) # 0
  <2>1. Len(NameOf(h, o)) # 0
    BY <1>2 DEF IsName, IsSeq
  <2> QED
    BY <1>2, <2>1, NamesMade
<1>4. IsBlock(h.objs[o]) <=> Befriends(h.objs[o], nm)
  BY <1>1, BlockIs
<1> HIDE DEF nm
<1>5. /\ Calm(a) => Befriends(h.objs[o], nm)
      /\ a.exc = "NoSuchMember" => ~ Befriends(h.objs[o], nm)
  BY <1>3, FriendMember
<1>6. /\ Leads(h, g)
      /\ Calm(g) => \/ g.val = TRUE /\ Calm(a)
                    \/ g.val = FALSE /\ a.exc = "NoSuchMember"
  BY <1>3, HasMember
<1> HIDE DEF a, g
<1>7. o \in DOMAIN g.objs /\ g.objs[o].pd # <<>>
      /\ (IsBlock(g.objs[o]) <=> IsBlock(h.objs[o])) /\ o # None
  BY <1>6, LeadsIn, NoneIsNone DEF Grows, IsBlock, Good
<1>8. Tests(h, o, g)
  BY <1>4, <1>5, <1>6, <1>7 DEF Tests
<1> QED
  BY <1>8 DEF g, nm

LEMMA TestsOn ==
    ASSUME NEW h, NEW k, Leads(h, k), NEW o, NEW g, Tests(k, o, g)
    PROVE  Tests(h, o, g)
  BY LeadsOn DEF Tests

LEMMA BlockTest ==
    ASSUME files \in Docs, NEW h, Good(h), Calm(h), NEW o \in {None} \cup DOMAIN h.objs
    PROVE  Tests(h, o, BlockIncludes(h, o))
<1> DEFINE n == FALSE
<1>1. CASE o = None \/ h.objs[o].class # "DoxyClass"
  <2>1. BlockIncludes(h, o) = Return(h, n)
    BY Zenon, <1>1 DEF BlockIncludes
  <2>2. n = FALSE
    OBVIOUS
  <2> HIDE DEF n
  <2>3. Tests(h, o, Return(h, n))
    BY <1>1, <2>2, NoClass
  <2> QED
    BY <2>1, <2>3
<1>2. CASE o # None /\ h.objs[o].class = "DoxyClass"
  <2> DEFINE a == error(h, o)
             k == name(a, o)
             g == has_member(k, o, make_name(k.val), "DoxyFriend")
  <2>1. BlockIncludes(h, o) = IF ~ Calm(a) THEN a
                              ELSE IF a.val THEN Return(a, n)
                              ELSE IF ~ Calm(k) THEN k ELSE g
    <3>1. ~ (o = None \/ h.objs[o].class # "DoxyClass")
      BY <1>2
    <3> QED
      BY Zenon, <3>1 DEF BlockIncludes, Then, Calm
  <2>2. /\ Leads(h, a) /\ o \in DOMAIN a.objs
        /\ Calm(a) => a.objs[o].parsed = TRUE /\ a.val = a.objs[o].error
    BY <1>2, Error
  <2> HIDE DEF a
  <2>3. Good(a) /\ a.objs[o].class = "DoxyClass"
    BY <1>2, <2>2, LeadsIn DEF Grows
  <2>4. CASE ~ Calm(a)
    <3>1. Tests(h, o, a)
      BY <2>2, <2>4 DEF Tests
    <3> QED
      BY <2>1, <2>4, <3>1
  <2>5. CASE Calm(a) /\ a.val
    <3>1. BlockIncludes(h, o) = Return(a, n)
      BY Zenon, <2>1, <2>5
    <3>2. a.objs[o].error
      BY Zenon, <2>2, <2>5
    <3>3. ~ Readable(a.objs[o].refid)
      BY <2>2, <2>3, <2>5, <3>2, ErrorUnreadable
    <3>4. n = FALSE
      OBVIOUS
    <3> HIDE DEF n
    <3>5. Tests(a, o, Return(a, n))
      BY <2>2, <2>3, <3>3, <3>4, NoClass
    <3> QED
      BY <2>2, <3>1, <3>5, TestsOn
  <2>6. CASE Calm(a) /\ ~ a.val
    <3>1. BlockIncludes(h, o) = IF ~ Calm(k) THEN k ELSE g
      BY Zenon, <2>1, <2>6
    <3>2. ~ a.objs[o].error
      BY Zenon, <2>2, <2>6
    <3>3. /\ Leads(a, k)
          /\ Calm(k) => k.objs[o].pd # <<>> /\ k.val = NameOf(k, o) /\ k.objs = a.objs
      BY <2>2, <2>3, <2>6, Name
    <3> HIDE DEF k, g
    <3>4. Good(k) /\ o \in DOMAIN k.objs /\ Leads(h, k)
      BY <2>2, <3>3, LeadsIn, LeadsOn
    <3>5. CASE ~ Calm(k)
      <4>1. Tests(h, o, k)
        BY <3>4, <3>5 DEF Tests
      <4> QED
        BY <3>1, <3>5, <4>1
    <3>6. CASE Calm(k)
      <4>1. k.objs[o].class = "DoxyClass" /\ k.objs[o].parsed = TRUE /\ k.objs[o].pd # <<>>
        BY <2>2, <2>3, <2>6, <3>3, <3>6
      <4>2. ~ k.objs[o].error
        BY Zenon, <3>2, <3>3, <3>6
      <4>3. Tests(k, o, g)
        BY <3>3, <3>4, <3>6, <4>1, <4>2, HasMake DEF g
      <4> QED
        BY <3>1, <3>4, <3>6, <4>3, TestsOn
    <3> QED
      BY <3>5, <3>6
  <2> QED
    BY <2>4, <2>5, <2>6
<1> QED
  BY <1>1, <1>2

\* The blocks among the members that were tested so far.
IsTested(h, s, k, list) ==
    /\ list \in Seq(DOMAIN h.objs)
    /\ \A m \in Range(list) : h.objs[m].pd # <<>>
    /\ \A i \in 1..k : s[i] \in Range(list) <=> s[i] # None /\ IsBlock(h.objs[s[i]])
    /\ \A m \in Range(list) : IsBlock(h.objs[m])
BlockHolds(c, b, s, k, a) ==
    Leads(b.h, a.h) /\ (Calm(a.h) => IsTested(a.h, s, k, a.list))
BlockLoop == INSTANCE Iterate_proofs WITH Step <- next_block, Holds <- BlockHolds

LEMMA TestedStays ==
    ASSUME NEW h, NEW g, Grows(h, g), NEW s, NEW k, NEW list,
           \A i \in 1..k : s[i] \in {None} \cup DOMAIN h.objs, IsTested(h, s, k, list)
    PROVE  IsTested(g, s, k, list)
<1>1. list \in Seq(DOMAIN h.objs) /\ Range(list) \subseteq DOMAIN h.objs
  BY SeqOver DEF IsTested
<1>2. list \in Seq(DOMAIN g.objs)
  <2>1. Range(list) \subseteq DOMAIN g.objs
    BY <1>1 DEF Grows
  <2> QED
    BY <1>1, <2>1, SeqOver
<1>3. \A m \in DOMAIN h.objs : (IsBlock(g.objs[m]) <=> IsBlock(h.objs[m]))
                               /\ g.objs[m].pd = h.objs[m].pd
  BY DEF Grows, IsBlock
<1> QED
  BY <1>1, <1>2, <1>3 DEF IsTested

LEMMA AppendIn ==
    ASSUME NEW S, NEW s \in Seq(S), NEW m \in S
    PROVE  Append(s, m) \in Seq(S)
  OBVIOUS

\* The class under test is kept when it is a block.
LEMMA TestedMore ==
    ASSUME NEW h, Shaped(h), NEW s, NEW k \in Nat, k # 0, NEW list, IsTested(h, s, k - 1, list),
           NEW m, m = s[k], m \in {None} \cup DOMAIN h.objs
    PROVE  /\ (m # None /\ IsBlock(h.objs[m]) /\ h.objs[m].pd # <<>>)
                 => IsTested(h, s, k, Append(list, m))
           /\ (m = None \/ ~ IsBlock(h.objs[m])) => IsTested(h, s, k, list)
<1>1. \A i \in 1..k : i \in 1..(k - 1) \/ i = k
  OBVIOUS
<1>2. ASSUME m # None, IsBlock(h.objs[m]), h.objs[m].pd # <<>>
      PROVE  IsTested(h, s, k, Append(list, m))
  <2> DEFINE more == Append(list, m)
  <2>1. more \in Seq(DOMAIN h.objs) /\ Range(more) = Range(list) \cup {m}
    <3>1. IsSeq(list) /\ list \in Seq(DOMAIN h.objs)
      BY SeqOver DEF IsTested
    <3>2. more \in Seq(DOMAIN h.objs)
      BY <1>2, <3>1, AppendIn
    <3>3. /\ DOMAIN more = 1..(Len(list) + 1) /\ DOMAIN list = 1..Len(list) /\ Len(list) \in Nat
          /\ \A i \in DOMAIN list : more[i] = list[i]
          /\ more[Len(list) + 1] = m
      BY <3>1, SeqAppend, SeqElements
    <3> HIDE DEF more
    <3>4. \A i \in DOMAIN more : i \in DOMAIN list \/ i = Len(list) + 1
      BY <3>3
    <3>5. DOMAIN list \subseteq DOMAIN more /\ Len(list) + 1 \in DOMAIN more
      BY <3>3
    <3> QED
      BY <3>2, <3>3, <3>4, <3>5 DEF Range
  <2> HIDE DEF more
  <2>2. IsTested(h, s, k, more)
    BY <1>1, <1>2, <2>1 DEF IsTested
  <2> QED
    BY <2>2 DEF more
<1>3. ASSUME m = None \/ ~ IsBlock(h.objs[m])
      PROVE  IsTested(h, s, k, list)
  <2>1. None \notin Range(list)
    BY NoneIsNone, SeqOver DEF IsTested
  <2> QED
    BY <1>1, <1>3, <2>1 DEF IsTested
<1> QED
  BY <1>2, <1>3

LEMMA SelectBlocksDoes ==
    ASSUME files \in Docs, NEW h, Good(h), NEW os \in Seq({None} \cup DOMAIN h.objs)
    PROVE  LET a == SelectBlocks(h, os) IN
           /\ Leads(h, a.h)
           /\ Calm(a.h) => IsTested(a.h, os, Len(os), a.list)
<1> DEFINE none == <<>>
           b == [h |-> h, list |-> none]
           r == BlockLoop!Loop(<<>>, b, os)
<1>1. SelectBlocks(h, os) = r
  BY Zenon DEF SelectBlocks, EachBlock!Loop, EachBlock!Run, BlockLoop!Loop, BlockLoop!Run
<1>2. b.h = h /\ b.list = none
  OBVIOUS
<1>3. IsTested(h, os, 0, none)
  BY DEF IsTested, Range
<1> HIDE DEF none, b
<1>4. Len(os) \in Nat /\ DOMAIN os = 1..Len(os) /\ Range(os) \subseteq {None} \cup DOMAIN h.objs
  BY SeqOver
<1>5. \A i \in 1..Len(os) : os[i] \in {None} \cup DOMAIN h.objs
  BY <1>4 DEF Range
<1>6. BlockHolds(<<>>, b, os, 0, b)
  BY <1>2, <1>3, LeadsSelf DEF BlockHolds
<1>7. ASSUME NEW k \in 1..Len(os), NEW a, BlockHolds(<<>>, b, os, k - 1, a)
      PROVE  BlockHolds(<<>>, b, os, k, next_block(<<>>, a, os[k]))
  <2> DEFINE m == os[k]
             d == next_block(<<>>, a, m)
             t == BlockIncludes(a.h, m)
  <2>1. Leads(h, a.h) /\ Good(a.h) /\ Shaped(a.h) /\ Grows(h, a.h)
    BY <1>2, <1>7, LeadsIn DEF BlockHolds, Good
  <2>2. \A i \in 1..Len(os) : os[i] \in {None} \cup DOMAIN a.h.objs
    BY <1>5, <2>1 DEF Grows
  <2>3. CASE ~ Calm(a.h)
    <3>1. d = a
      BY Zenon, <2>3 DEF next_block, Calm
    <3> HIDE DEF d
    <3>2. BlockHolds(<<>>, b, os, k, d)
      BY <1>2, <2>1, <2>3, <3>1 DEF BlockHolds
    <3> QED
      BY <3>2 DEF d, m
  <2>4. CASE Calm(a.h)
    <3>1. d = [h |-> t, list |-> IF Calm(t) /\ t.val THEN Append(a.list, m) ELSE a.list]
      BY Zenon, <2>4 DEF next_block, Tested, Calm
    <3>2. Tests(a.h, m, t)
      BY <2>1, <2>2, <2>4, BlockTest
    <3>3. IsTested(a.h, os, k - 1, a.list)
      BY <1>7, <2>4 DEF BlockHolds
    <3>4. k \in Nat /\ k # 0 /\ \A i \in 1..(k - 1) : i \in 1..Len(os)
      BY <1>4
    <3> HIDE DEF t, d
    <3>5. Leads(h, t) /\ Good(t) /\ Shaped(t) /\ Grows(a.h, t)
      BY <2>1, <3>2, LeadsOn, LeadsIn DEF Tests, Good
    <3>6. IsTested(t, os, k - 1, a.list)
      BY <2>2, <3>3, <3>4, <3>5, TestedStays
    <3>7. m = os[k] /\ m \in {None} \cup DOMAIN t.objs
      BY <3>2 DEF Tests
    <3> HIDE DEF m
    <3>8. Calm(t) => IsTested(t, os, k, IF Calm(t) /\ t.val THEN Append(a.list, m) ELSE a.list)
      <4>1. CASE Calm(t) /\ t.val
        <5>1. m # None /\ IsBlock(t.objs[m]) /\ t.objs[m].pd # <<>>
          BY <3>2, <4>1 DEF Tests
        <5>2. IsTested(t, os, k, Append(a.list, m))
          BY <3>4, <3>5, <3>6, <3>7, <5>1, TestedMore
        <5> QED
          BY Zenon, <4>1, <5>2
      <4>2. CASE Calm(t) /\ ~ t.val
        <5>1. m = None \/ ~ IsBlock(t.objs[m])
          BY <3>2, <4>2 DEF Tests
        <5>2. IsTested(t, os, k, a.list)
          BY <3>4, <3>5, <3>6, <3>7, <5>1, TestedMore
        <5> QED
          BY Zenon, <4>2, <5>2
      <4> QED
        BY Zenon, <4>1, <4>2
    <3>9. d.h = t /\ d.list = IF Calm(t) /\ t.val THEN Append(a.list, m) ELSE a.list
      BY <3>1
    <3>10. BlockHolds(<<>>, b, os, k, d)
      BY Zenon, <1>2, <3>5, <3>8, <3>9 DEF BlockHolds
    <3> QED
      BY <3>10 DEF d, m
  <2> QED
    BY <2>3, <2>4
<1>8. BlockHolds(<<>>, b, os, Len(os), r)
  BY <1>4, <1>6, <1>7, BlockLoop!LoopKeeps
<1> HIDE DEF r
<1> QED
  BY <1>1, <1>2, <1>8 DEF BlockHolds

\* What the category of the blocks gives: objects with a name.
GivesBlocks(h, g) ==
    /\ Leads(h, g)
    /\ Calm(g) => /\ g.val \in Seq(DOMAIN g.objs)
                  /\ \A m \in Range(g.val) : g.objs[m].pd # <<>>

LEMMA InBlocks ==
    ASSUME files \in Docs, NEW h, Good(h), Calm(h), NEW o \in DOMAIN h.objs
    PROVE  GivesBlocks(h, in_blocks(h, o))
<1> DEFINE a == confirm_no_error(h, o)
           v == a.objs[o].cats["Block"]
           ms == a.objs[o].members
           s == SelectBlocks(a, ms)
           g == Category(s.h, o, "Block", s.list)
<1>1. in_blocks(h, o) = IF ~ Calm(a) THEN a
                        ELSE IF "Block" \in DOMAIN a.objs[o].cats THEN Return(a, v)
                        ELSE IF ~ Calm(s.h) THEN s.h ELSE g
  BY Zenon DEF in_blocks, KeepBlocks, Then, Calm
<1>2. /\ Leads(h, a) /\ o \in DOMAIN a.objs /\ a.objs[o].parsed = TRUE
  BY ConfirmNoError
<1> HIDE DEF a
<1>3. Good(a) /\ Shaped(a)
  BY <1>2, LeadsIn DEF Good
<1>4. CASE ~ Calm(a)
  BY <1>1, <1>2, <1>4 DEF GivesBlocks
<1>5. CASE Calm(a) /\ "Block" \in DOMAIN a.objs[o].cats
  <2>1. in_blocks(h, o) = Return(a, v)
    BY <1>1, <1>5
  <2>2. v \in Seq(DOMAIN a.objs) /\ \A m \in Range(v) : a.objs[m].pd # <<>>
    BY <1>2, <1>3, <1>5 DEF Good, Sound, Caches, Listed
  <2> HIDE DEF v
  <2> DEFINE r == Return(a, v)
  <2>3. Leads(a, r) /\ r.objs = a.objs /\ r.val = v
    BY <1>3, ResultLeads, ResultDoes
  <2> HIDE DEF r
  <2>4. Leads(h, r)
    BY <1>2, <2>3, LeadsOn
  <2>5. GivesBlocks(h, r)
    BY <2>2, <2>3, <2>4 DEF GivesBlocks
  <2> QED
    BY <2>1, <2>5 DEF r
<1>6. CASE Calm(a) /\ "Block" \notin DOMAIN a.objs[o].cats
  <2>1. ms \in Seq({None} \cup DOMAIN a.objs)
    BY <1>2, <1>3 DEF Good, Sound, Adopted
  <2>2. in_blocks(h, o) = IF ~ Calm(s.h) THEN s.h ELSE g
    BY <1>1, <1>6
  <2>3. ms = a.objs[o].members
    OBVIOUS
  <2> HIDE DEF ms
  <2>4. Leads(a, s.h) /\ (Calm(s.h) => IsTested(s.h, ms, Len(ms), s.list))
    BY <1>3, <2>1, SelectBlocksDoes
  <2> HIDE DEF s
  <2> DEFINE k == s.h
             list == s.list
  <2>5. Leads(h, k) /\ Good(k) /\ Grows(a, k)
    BY <1>2, <2>4, LeadsOn, LeadsIn
  <2>6. o \in DOMAIN k.objs /\ k.objs[o].members = ms /\ k.objs[o].parsed = TRUE
    BY <1>2, <2>3, <2>4 DEF Leads, Extends, Grows, Retains
  <2>7. CASE ~ Calm(k)
    BY <2>2, <2>5, <2>7 DEF GivesBlocks
  <2>8. CASE Calm(k)
    <3>1. IsTested(k, ms, Len(ms), list)
      BY <2>4, <2>8
    <3>2. in_blocks(h, o) = g
      BY <2>2, <2>8
    <3>3. g = Category(k, o, "Block", list)
      OBVIOUS
    <3> HIDE DEF k, list, g
    <3>4. /\ list \in Seq(DOMAIN k.objs) /\ \A m \in Range(list) : k.objs[m].pd # <<>>
          /\ \A m \in Range(ms) : m \in Range(list) <=> m # None /\ IsBlock(k.objs[m])
      BY <2>1, <3>1 DEF IsTested, Range
    <3>5. CategoryFits(k, o, "Block", list)
      BY <2>6, <3>4 DEF CategoryFits
    <3>6. Stored(k, o, "Block", list, g)
      BY <2>5, <2>6, <3>3, <3>5, CategoryDoes
    <3>7. Leads(k, g) /\ g.val = list /\ Grows(k, g)
      BY <3>6, LeadsIn DEF Stored
    <3>8. Leads(h, g)
      BY <2>5, <3>7, LeadsOn
    <3>9. list \in Seq(DOMAIN g.objs) /\ \A m \in Range(list) : g.objs[m].pd # <<>>
      <4>1. Range(list) \subseteq DOMAIN k.objs
        BY <3>4, SeqOver
      <4>2. Range(list) \subseteq DOMAIN g.objs /\ \A m \in Range(list) : g.objs[m].pd = k.objs[m].pd
        BY <3>7, <4>1 DEF Grows
      <4>3. list \in Seq(DOMAIN g.objs)
        BY <3>4, <4>2, SeqOver
      <4> QED
        BY <3>4, <4>2, <4>3
    <3> QED
      BY <3>2, <3>7, <3>8, <3>9 DEF GivesBlocks
  <2> QED
    BY <2>7, <2>8
<1> QED
  BY <1>4, <1>5, <1>6

-----------------------------------------------------------------------------
\* The functions of the script.

LEMMA CombineDescriptions ==
    ASSUME files \in Docs, NEW h, Good(h), Calm(h), NEW o \in DOMAIN h.objs
    PROVE  Leads(h, combine_descriptions(h, o))
<1> DEFINE a == data(h, o, "brief")
           x == Raise(a, "AttributeError")
           k == data(a, o, "detailed")
           y == Raise(k, "AttributeError")
           g == Return(k, Given(a.val) \o Given(k.val))
<1>1. \/ combine_descriptions(h, o) = a
      \/ combine_descriptions(h, o) = x
      \/ Calm(a) /\ (\/ combine_descriptions(h, o) = k
                     \/ combine_descriptions(h, o) = y
                     \/ combine_descriptions(h, o) = g)
  BY Zenon DEF combine_descriptions, Then, Calm
<1>2. Leads(h, a)
  BY Data
<1> HIDE DEF a
<1>3. Leads(h, x) /\ Good(a) /\ o \in DOMAIN a.objs
  BY <1>2, LeadsIn, LeadsOn, ResultLeads
<1>4. ASSUME Calm(a)
      PROVE  Leads(h, k) /\ Leads(h, y) /\ Leads(h, g)
  <2>1. Leads(a, k) /\ Good(k)
    BY <1>3, <1>4, Data, LeadsIn
  <2> DEFINE j == Given(a.val) \o Given(k.val)
  <2> HIDE DEF k, j
  <2>2. Leads(k, y) /\ Leads(k, Return(k, j))
    BY <2>1, ResultLeads
  <2> HIDE DEF y, g
  <2>3. Leads(h, k)
    BY <1>2, <2>1, LeadsOn
  <2> QED
    BY <2>2, <2>3, LeadsOn DEF g, j
<1> HIDE DEF x, k, y, g
<1> QED
  BY <1>1, <1>2, <1>3, <1>4

LEMMA MakeEntry ==
    ASSUME files \in Docs, NEW h, Good(h), Calm(h), NEW o \in DOMAIN h.objs,
           NEW nm, NEW desc, NEW sig
    PROVE  Leads(h, make_entry(h, o, nm, desc, sig))
<1> DEFINE r == make_entry(h, o, nm, desc, sig)
           x == Return(h, <<>>)
           a == IF desc = <<>> THEN combine_descriptions(h, o) ELSE Return(h, desc[1])
           v == IF a.val = <<>> /\ sig = <<>> THEN <<>>
                ELSE <<[name |-> nm, description |-> a.val, sig |-> sig]>>
           g == Return(a, v)
<1>1. r = x \/ r = a \/ r = g
  BY Zenon DEF make_entry, Then, Calm
<1>2. Leads(h, x) /\ Leads(h, a)
  BY CombineDescriptions, ResultLeads
<1> HIDE DEF x, a, v
<1>3. Leads(h, g)
  BY <1>2, LeadsIn, LeadsOn, ResultLeads
<1> HIDE DEF g
<1>4. Leads(h, r)
  <2> HIDE DEF r
  <2> QED
    BY <1>1, <1>2, <1>3
<1> QED
  BY <1>4

LEMMA MakeFuncEntry ==
    ASSUME files \in Docs, NEW h, Good(h), Calm(h), NEW o \in DOMAIN h.objs,
           NEW nm, NEW desc, NEW params
    PROVE  Leads(h, make_func_entry(h, o, nm, desc, params))
<1> DEFINE r == make_func_entry(h, o, nm, desc, params)
           a == IF params = <<>> THEN data(h, o, "params") ELSE Return(h, params[1])
           sig == <<a.val>>
           g == make_entry(a, o, nm, desc, sig)
<1>1. r = IF Calm(a) THEN g ELSE a
  BY Zenon DEF make_func_entry, Then, Calm
<1>2. Leads(h, a)
  BY Data, ResultLeads
<1> HIDE DEF a, sig
<1>3. Calm(a) => Leads(a, g)
  BY <1>2, LeadsIn, MakeEntry
<1> HIDE DEF g
<1>4. Leads(h, r)
  <2> HIDE DEF r
  <2> QED
    BY <1>1, <1>2, <1>3, LeadsOn
<1> QED
  BY <1>4

FuncHolds(o, b, s, k, a) == Leads(b, a)
FuncLoop == INSTANCE Iterate_proofs WITH Step <- next_func, Holds <- FuncHolds

LEMMA NextFunc ==
    ASSUME files \in Docs, NEW h, Good(h), NEW o, NEW f \in DOMAIN h.objs
    PROVE  Leads(h, next_func(o, h, f))
<1> DEFINE r == next_func(o, h, f)
           nm == NameOf(h, o) \o NameOf(h, f)
           a == make_func_entry(h, f, nm, <<>>, <<>>)
           v == h.val \o a.val
           g == Return(a, v)
<1>1. r = h \/ (Calm(h) /\ (r = a \/ r = g))
  BY Zenon DEF next_func, Then, Calm
<1> HIDE DEF nm, v
<1>2. Calm(h) => Leads(h, a)
  BY MakeFuncEntry
<1> HIDE DEF a
<1>3. Calm(h) => Leads(h, g)
  BY <1>2, LeadsIn, LeadsOn, ResultLeads
<1> HIDE DEF g
<1>4. Leads(h, r)
  <2> HIDE DEF r
  <2> QED
    BY <1>1, <1>2, <1>3, LeadsSelf
<1> QED
  BY <1>4

LEMMA FuncEntries ==
    ASSUME files \in Docs, NEW h, Good(h), Calm(h), NEW o \in DOMAIN h.objs, NEW own
    PROVE  Leads(h, func_entries(h, o, own))
<1> DEFINE cat == "DoxyFunction"
           a == in_category(h, o, cat)
           fs == a.val
           b == Return(a, own)
           g == FuncLoop!Loop(o, b, fs)
<1>1. func_entries(h, o, own) = IF Calm(a) THEN g ELSE a
  BY Zenon DEF func_entries, Then, Calm, EachFunc!Loop, EachFunc!Run, FuncLoop!Loop, FuncLoop!Run
<1>2. cat # "None" /\ cat # "Block"
  OBVIOUS
<1> HIDE DEF cat
<1>3. Gives(h, o, cat, a)
  BY <1>2, InCategory
<1> HIDE DEF a
<1>4. Leads(h, a) /\ Good(a) /\ o \in DOMAIN a.objs
  BY <1>3, LeadsIn DEF Gives
<1>5. Leads(a, b) /\ b.objs = a.objs
  BY <1>4, ResultLeads, ResultDoes DEF Good
<1>6. ASSUME Calm(a)
      PROVE  Leads(h, g)
  <2>1. fs \in Seq(DOMAIN b.objs)
    <3>1. fs = ListOf(a, o, cat) /\ cat \in DOMAIN a.objs[o].cats
      BY <1>2, <1>3, <1>6 DEF Gives
    <3> QED
      BY <1>2, <1>4, <1>5, <3>1, ListIs
  <2> HIDE DEF b, fs
  <2>2. Len(fs) \in Nat /\ \A k \in 1..Len(fs) : fs[k] \in DOMAIN b.objs
    BY <2>1
  <2>3. Good(b)
    BY <1>5, LeadsIn
  <2>4. FuncHolds(o, b, fs, 0, b)
    BY <2>3, LeadsSelf DEF FuncHolds
  <2>5. ASSUME NEW k \in 1..Len(fs), NEW c, FuncHolds(o, b, fs, k - 1, c)
        PROVE  FuncHolds(o, b, fs, k, next_func(o, c, fs[k]))
    <3>1. Leads(b, c) /\ Good(c) /\ fs[k] \in DOMAIN c.objs
      BY <2>2, <2>5, LeadsIn DEF FuncHolds
    <3>2. Leads(c, next_func(o, c, fs[k]))
      BY <3>1, NextFunc
    <3> QED
      BY <3>1, <3>2, LeadsOn DEF FuncHolds
  <2>6. FuncHolds(o, b, fs, Len(fs), g)
    BY <2>2, <2>4, <2>5, FuncLoop!LoopKeeps
  <2> HIDE DEF g
  <2> QED
    BY <1>4, <1>5, <2>6, LeadsOn DEF FuncHolds
<1> HIDE DEF g
<1> QED
  BY <1>1, <1>4, <1>6

LEMMA MakeClassEntry ==
    ASSUME files \in Docs, NEW h, Good(h), Calm(h), NEW o \in DOMAIN h.objs, NEW desc
    PROVE  Leads(h, make_class_entry(h, o, desc))
<1> DEFINE none == <<>>
           a == make_entry(h, o, NameOf(h, o), desc, none)
           g == func_entries(a, o, a.val)
<1>1. make_class_entry(h, o, desc) = IF Calm(a) THEN g ELSE a
  BY Zenon DEF make_class_entry, Then, Calm
<1> HIDE DEF none
<1>2. Leads(h, a)
  BY MakeEntry
<1> HIDE DEF a
<1>3. Calm(a) => Leads(a, g)
  BY <1>2, LeadsIn, FuncEntries
<1> HIDE DEF g
<1> QED
  BY <1>1, <1>2, <1>3, LeadsOn

LEMMA FileDescription ==
    ASSUME files \in Docs, NEW h, Good(h), Calm(h), NEW nm, IsName(nm)
    PROVE  Leads(h, file_description(h, nm))
<1> DEFINE a == get_member(h, 1, header_of(nm), "DoxyFile")
           k == combine_descriptions(a, a.val)
           b == IF Calm(a) THEN k ELSE a
           none == <<>>
           g == Absent(b, none)
<1>1. file_description(h, nm) = g
  BY Zenon DEF file_description, Then, Calm
<1> HIDE DEF none
<1>2. Leads(h, a) /\ (Calm(a) => a.val \in DOMAIN a.objs)
  BY NamesMade, GetMember DEF Good, Shaped
<1> HIDE DEF a
<1>3. Calm(a) => Leads(a, k)
  BY <1>2, LeadsIn, CombineDescriptions
<1> HIDE DEF k
<1>4. Leads(h, b)
  BY <1>2, <1>3, LeadsOn
<1> HIDE DEF b
<1>5. Leads(b, g)
  BY <1>4, LeadsIn, AbsentDoes
<1> HIDE DEF g
<1> QED
  BY <1>1, <1>4, <1>5, LeadsOn

LEMMA MakeBlockEntry ==
    ASSUME files \in Docs, NEW h, Good(h), Calm(h), NEW o \in DOMAIN h.objs,
           h.objs[o].pd # <<>>
    PROVE  Leads(h, make_block_entry(h, o))
<1> DEFINE r == make_block_entry(h, o)
           nm == NameOf(h, o)
           g1 == combine_descriptions(h, o)
           g2 == get_member(g1, 1, make_name(nm), "DoxyFunction")
           g3 == combine_descriptions(g2, g2.val)
           g4 == file_description(g3, nm)
           super == <<g1.val \o g3.val \o g4.val>>
           g5 == make_class_entry(g4, o, super)
           g6 == get_member(g5, o, nm, "DoxyFunction")
           g7 == data(g6, g6.val, "params")
           g8 == make_func_entry(g7, g2.val, NameOf(g7, g2.val), super, <<g7.val>>)
           g9 == Return(g8, g5.val \o g8.val)
<1>1. r = IF ~ Calm(g1) THEN g1 ELSE IF ~ Calm(g2) THEN g2 ELSE IF ~ Calm(g3) THEN g3
          ELSE IF ~ Calm(g4) THEN g4 ELSE IF ~ Calm(g5) THEN g5 ELSE IF ~ Calm(g6) THEN g6
          ELSE IF ~ Calm(g7) THEN g7 ELSE IF ~ Calm(g8) THEN g8 ELSE g9
  BY Zenon DEF make_block_entry, Then, Calm
<1>2. IsName(nm) /\ IsSeq(nm) /\ IsSeq(make_name(nm))
  BY NameIs, NamesMade DEF IsName
<1> HIDE DEF r, nm, g9, g8, g7, g6, g5, super, g4, g3, g2, g1
<1>3. Leads(h, g1)
  BY CombineDescriptions DEF g1
<1>4. CASE ~ Calm(g1)
  BY <1>1, <1>3, <1>4 DEF r
<1>5. CASE Calm(g1)
  <2>1. Leads(g1, g2) /\ (Calm(g2) => g2.val \in DOMAIN g2.objs)
    BY <1>2, <1>3, <1>5, LeadsIn, GetMember DEF g2, Good, Shaped
  <2>2. Leads(h, g2)
    BY <1>3, <2>1, LeadsOn
  <2>3. CASE ~ Calm(g2)
    BY <1>1, <1>5, <2>2, <2>3 DEF r
  <2>4. CASE Calm(g2)
    <3>1. Leads(g2, g3)
      BY <2>1, <2>4, LeadsIn, CombineDescriptions DEF g3
    <3>2. Leads(h, g3)
      BY <2>2, <3>1, LeadsOn
    <3>3. CASE ~ Calm(g3)
      BY <1>1, <1>5, <2>4, <3>2, <3>3 DEF r
    <3>4. CASE Calm(g3)
      <4>1. Leads(g3, g4)
        BY <1>2, <3>2, <3>4, LeadsIn, FileDescription DEF g4
      <4>2. Leads(h, g4) /\ Leads(g2, g4)
        BY <3>1, <3>2, <4>1, LeadsOn
      <4>3. CASE ~ Calm(g4)
        BY <1>1, <1>5, <2>4, <3>4, <4>2, <4>3 DEF r
      <4>4. CASE Calm(g4)
        <5>1. Leads(g4, g5)
          BY <4>2, <4>4, LeadsIn, MakeClassEntry DEF g5
        <5>2. Leads(h, g5) /\ Leads(g2, g5)
          BY <4>2, <5>1, LeadsOn
        <5>3. CASE ~ Calm(g5)
          BY <1>1, <1>5, <2>4, <3>4, <4>4, <5>2, <5>3 DEF r
        <5>4. CASE Calm(g5)
          <6>1. Leads(g5, g6) /\ (Calm(g6) => g6.val \in DOMAIN g6.objs)
            BY <1>2, <5>2, <5>4, LeadsIn, GetMember DEF g6
          <6>2. Leads(h, g6) /\ Leads(g2, g6)
            BY <5>2, <6>1, LeadsOn
          <6>3. CASE ~ Calm(g6)
            BY <1>1, <1>5, <2>4, <3>4, <4>4, <5>4, <6>2, <6>3 DEF r
          <6>4. CASE Calm(g6)
            <7>1. Leads(g6, g7)
              BY <6>1, <6>4, LeadsIn, Data DEF g7
            <7>2. Leads(h, g7) /\ Leads(g2, g7)
              BY <6>2, <7>1, LeadsOn
            <7>3. CASE ~ Calm(g7)
              BY <1>1, <1>5, <2>4, <3>4, <4>4, <5>4, <6>4, <7>2, <7>3 DEF r
            <7>4. CASE Calm(g7)
              <8>1. Leads(g7, g8)
                BY <2>1, <2>4, <7>2, <7>4, LeadsIn, MakeFuncEntry DEF g8
              <8>2. Leads(h, g8)
                BY <7>2, <8>1, LeadsOn
              <8>3. Leads(h, g9)
                BY <8>2, LeadsIn, LeadsOn, ResultLeads DEF g9
              <8> QED
                BY <1>1, <1>5, <2>4, <3>4, <4>4, <5>4, <6>4, <7>4, <8>2, <8>3 DEF r
            <7> QED
              BY <7>3, <7>4
          <6> QED
            BY <6>3, <6>4
        <5> QED
          BY <5>3, <5>4
      <4> QED
        BY <4>3, <4>4
    <3> QED
      BY <3>3, <3>4
  <2> QED
    BY <2>3, <2>4
<1> QED
  BY <1>4, <1>5

-----------------------------------------------------------------------------
\* The script and the other program.

\* The invariant: the heap is good at all times, and calm between two steps of
\* the script; the objects that a loop has left are there, and those of the loop
\* over the blocks have a name.
SwigInv ==
    /\ files \in Docs /\ Good(heap)
    /\ pc \in {"start", "blocks", "functions", "classes"} => Calm(heap)
    /\ todo \in Seq(DOMAIN heap.objs)
    /\ pc = "blocks" => \A m \in Range(todo) : heap.objs[m].pd # <<>>

LEMMA ClearDoes ==
    ASSUME files \in Docs, NEW h, Good(h)
    PROVE  Leads(h, Clear(h)) /\ Clear(h).objs = h.objs /\ Calm(Clear(h))
<1> DEFINE e == ""
           a == Raise(h, e)
           g == Return(a, None)
<1>1. Clear(h) = g
  BY Zenon DEF Clear, Return, Raise
<1>2. Leads(h, a) /\ a.objs = h.objs /\ a.exc = e
  <2> HIDE DEF e
  <2> QED
    BY ResultLeads, ResultDoes DEF Good
<1>3. Calm(a)
  BY Zenon, <1>2 DEF Calm
<1> HIDE DEF a
<1>4. Leads(a, g) /\ g.objs = a.objs /\ g.exc = a.exc
  BY <1>2, LeadsIn, ResultLeads, ResultDoes DEF Good
<1> HIDE DEF g
<1>5. Calm(g)
  BY Zenon, <1>3, <1>4 DEF Calm
<1>6. Leads(h, g)
  BY <1>2, <1>4, LeadsOn
<1> QED
  BY <1>1, <1>2, <1>4, <1>5, <1>6

\* A list that the heap has grown under.
LEMMA ListStays ==
    ASSUME NEW h, NEW g, Leads(h, g), NEW list \in Seq(DOMAIN h.objs)
    PROVE  /\ list \in Seq(DOMAIN g.objs) /\ Range(list) \subseteq DOMAIN h.objs
           /\ \A m \in Range(list) : g.objs[m].pd = h.objs[m].pd
<1>1. Range(list) \subseteq DOMAIN h.objs /\ Grows(h, g)
  BY SeqOver, LeadsIn
<1>2. Range(list) \subseteq DOMAIN g.objs
  BY <1>1 DEF Grows
<1> QED
  BY <1>1, <1>2, SeqOver DEF Grows

LEMMA TailOf ==
    ASSUME NEW S, NEW s \in Seq(S), s # <<>>
    PROVE  /\ Head(s) \in S /\ Head(s) \in Range(s)
           /\ Tail(s) \in Seq(S) /\ Range(Tail(s)) \subseteq Range(s)
<1>1. Head(s) \in S /\ Head(s) \in Range(s) /\ Tail(s) \in Seq(S)
  BY DEF Range
<1>2. ASSUME NEW i \in DOMAIN Tail(s)
      PROVE  i + 1 \in DOMAIN s /\ Tail(s)[i] = s[i + 1]
  OBVIOUS
<1>3. Range(Tail(s)) \subseteq Range(s)
  <2> DEFINE t == Tail(s)
  <2>1. \A i \in DOMAIN t : \E j \in DOMAIN s : t[i] = s[j]
    BY <1>2
  <2> HIDE DEF t
  <2>2. Range(t) \subseteq Range(s)
    BY <2>1 DEF Range
  <2> QED
    BY <2>2 DEF t
<1> QED
  BY <1>1, <1>3

LEMMA EmptyGood == Good(EmptyHeap)
<1> DEFINE obj == [class |-> "DoxyIndex", pd |-> <<>>, refid |-> NoRef,
                   parsed |-> FALSE, error |-> FALSE, members |-> <<>>,
                   data |-> <<>>, cats |-> <<>>, dicts |-> <<>>]
           e == ""
           b == [objs |-> <<>>, refs |-> <<>>, exc |-> e, val |-> None, failed |-> {}]
           g == New(b, "DoxyIndex", <<>>, NoRef)
<1>1. EmptyHeap = g
  BY Zenon DEF EmptyHeap
<1> HIDE DEF e
<1>2. g.objs = Append(<<>>, obj) /\ g.refs = <<>> /\ g.failed = {}
  BY DEF New
<1>3. DOMAIN g = {"objs", "refs", "exc", "val", "failed"}
  BY DEF New
<1>4. Untouched(obj) /\ MadeOf(obj) /\ DOMAIN obj = Fields
  BY DEF Untouched, MadeOf, NoRef, Fields
<1>5. obj.class = "DoxyIndex" /\ obj.refid = NoRef /\ obj.pd = <<>>
  OBVIOUS
<1> HIDE DEF g, obj
<1>6. g.objs = <<obj>> /\ DOMAIN g.objs = {1} /\ g.objs[1] = obj
  BY <1>2
<1>7. IsSeq(g.objs)
  BY <1>6 DEF IsSeq, Range
<1>8. Shaped(g)
  BY <1>2, <1>3, <1>4, <1>6, <1>7 DEF Shaped
<1>9. Referenced(g)
  BY <1>2, <1>5, <1>6 DEF Referenced
<1>10. Sound(g, 1)
  BY <1>2, <1>4, <1>6, SoundUntouched
<1> QED
  BY <1>1, <1>6, <1>8, <1>9, <1>10 DEF Good

LEMMA SwigInitInv == SwigInit => SwigInv
<1> SUFFICES ASSUME SwigInit PROVE SwigInv
  OBVIOUS
<1>1. files \in Docs /\ heap = EmptyHeap /\ todo = <<>>
  BY DEF SwigInit, Docs
<1>2. Calm(heap)
  BY Zenon, <1>1 DEF Calm, EmptyHeap, New
<1>3. Good(heap)
  BY <1>1, EmptyGood
<1> QED
  BY <1>1, <1>2, <1>3 DEF SwigInv, Range

\* The files stay as they are, and so does what the invariant takes from them.
LEMMA GoodStays ==
    ASSUME files' = files, NEW h, heap' = h, Good(h)
    PROVE  Good(heap)'
<1>1. Compounds' = Compounds
  BY DEF Compounds
<1>2. \A r : Readable(r)' <=> Readable(r)
  BY DEF Readable
<1>3. \A r : MemberDefs(r)' = MemberDefs(r)
  BY DEF MemberDefs, Def
<1>4. \A r, k : NamesOfKind(r, k)' = NamesOfKind(r, k)
  BY <1>3 DEF NamesOfKind
<1>5. ReadableClasses' = ReadableClasses
  BY <1>1, <1>2 DEF ReadableClasses
<1>6. BlockClasses' = BlockClasses
  BY <1>4, <1>5 DEF BlockClasses
<1>7. \A obj : IsBlock(obj)' <=> IsBlock(obj)
  BY <1>6 DEF IsBlock
<1>8. ASSUME NEW o \in DOMAIN h.objs
      PROVE  Sound(heap, o)'
  <2>1. Sound(h, o)
    BY DEF Good
  <2>2. MadeOf(heap.objs[o])'
    BY <1>1, <2>1 DEF Sound, MadeOf, IsEntry
  <2>3. Fresh(heap, o)' /\ Adopted(heap, o)' /\ Childless(heap, o)'
    BY <2>1 DEF Sound
  <2>4. FileRead(heap, o)'
    BY <1>2, <1>3, <2>1 DEF Sound, FileRead
  <2>5. ListsFresh(heap, o)' /\ DictsHold(heap, o)' /\ Listed(heap, o)'
    BY <2>1 DEF Sound, Caches
  <2>6. BlocksFresh(heap, o)'
    BY <1>7, <2>1 DEF Sound, Caches, BlocksFresh
  <2> QED
    BY <2>2, <2>3, <2>4, <2>5, <2>6 DEF Sound, Caches
<1> QED
  BY <1>8 DEF Good

\* What a step does to the heap, the objects that are left and where the script is.
Moves(k, list) ==
    /\ heap' = k /\ Leads(heap, k) /\ todo' = list /\ list \in Seq(DOMAIN k.objs)
    /\ pc' \in {"start", "blocks", "functions", "classes"} => Calm(k)
    /\ pc' = "blocks" => \A m \in Range(list) : k.objs[m].pd # <<>>

LEMMA MovesKeep ==
    ASSUME SwigInv, files' = files, NEW k, NEW list, Moves(k, list)
    PROVE  SwigInv' /\ Extends(heap, heap')
<1>1. Good(heap)'
  BY GoodStays DEF Moves, Leads
<1>2. files' \in Docs
  BY DEF SwigInv
<1>3. Calm(heap)' <=> Calm(k)
  BY Zenon DEF Calm, Moves
<1> QED
  BY <1>1, <1>2, <1>3 DEF SwigInv, Moves, Leads

LEMMA NoneLeft ==
    ASSUME NEW S
    PROVE  <<>> \in Seq(S) /\ Range(<<>>) = {}
  BY DEF Range

\* A loop takes its next object.
LEMMA EnteredKeeps ==
    ASSUME SwigInv, NEW g, Leads(heap, g), Entered(g), todo # <<>>
    PROVE  SwigInv' /\ Extends(heap, heap')
<1> DEFINE e == ""
           f == [g EXCEPT !.exc = IF @ = "ParsingError" THEN e ELSE @]
           v == IF g.exc = "ParsingError" THEN e ELSE g.exc
           a == Raise(g, v)
           k == Return(a, None)
           on == Calm(g) \/ g.exc = "ParsingError"
           none == <<>>
<1>1. /\ heap' = [g EXCEPT !.exc = IF @ = "ParsingError" THEN e ELSE @, !.val = None]
      /\ files' = files
      /\ on => pc' = pc /\ todo' = Tail(todo)
      /\ ~ on => pc' = "aborted" /\ todo' = none
  BY Zenon DEF Entered, Calm
<1>2. heap' = k
  <2> HIDE DEF e
  <2> QED
    BY <1>1 DEF Return, Raise
<1>3. on => v = e
  <2>1. CASE Calm(g)
    BY Zenon, <2>1 DEF Calm
  <2>2. CASE g.exc = "ParsingError"
    BY Zenon, <2>2
  <2> QED
    BY <2>1, <2>2
<1>4. e = ""
  OBVIOUS
<1> HIDE DEF v, e
<1>5. Good(g) /\ Shaped(g) /\ files \in Docs
  BY LeadsIn DEF Good, SwigInv
<1>6. Leads(heap, a) /\ a.exc = v
  BY <1>5, ResultLeads, ResultDoes, LeadsOn
<1> HIDE DEF a
<1>7. Leads(heap, k) /\ k.exc = v
  BY <1>5, <1>6, ResultLeads, ResultDoes, LeadsIn, LeadsOn DEF Good
<1> HIDE DEF k
<1>8. on => Calm(k)
  BY Zenon, <1>3, <1>4, <1>7 DEF Calm
<1> HIDE DEF on
<1>9. todo \in Seq(DOMAIN heap.objs) /\ Good(k)
  BY <1>7, LeadsIn DEF SwigInv
<1>10. CASE on
  <2> DEFINE list == Tail(todo)
  <2>1. list \in Seq(DOMAIN heap.objs) /\ Range(list) \subseteq Range(todo)
    BY <1>9, TailOf
  <2>2. todo' = list /\ pc' = pc
    BY <1>1, <1>10
  <2> HIDE DEF list
  <2>3. /\ list \in Seq(DOMAIN k.objs) /\ Range(list) \subseteq DOMAIN heap.objs
        /\ \A m \in Range(list) : k.objs[m].pd = heap.objs[m].pd
    BY <1>7, <2>1, ListStays
  <2>4. pc' = "blocks" => \A m \in Range(list) : k.objs[m].pd # <<>>
    BY <2>1, <2>2, <2>3 DEF SwigInv
  <2>5. Moves(k, list)
    BY <1>2, <1>7, <1>8, <1>10, <2>2, <2>3, <2>4 DEF Moves
  <2> QED
    BY <1>1, <2>5, MovesKeep
<1>11. CASE ~ on
  <2>1. none \in Seq(DOMAIN k.objs) /\ pc' = "aborted" /\ todo' = none
    BY <1>1, <1>11
  <2> HIDE DEF none
  <2>2. Moves(k, none)
    BY <1>2, <1>7, <2>1 DEF Moves
  <2> QED
    BY <1>1, <2>2, MovesKeep
<1> QED
  BY <1>10, <1>11

\* The list of the next loop is made: of the blocks, whose objects have names, or
\* of other objects.
LEMMA LoopKeeps ==
    ASSUME SwigInv, NEW from, NEW to, NEW g, Leads(heap, g), NEW list,
           Loop(from, to, g, list), Calm(g) => list \in Seq(DOMAIN g.objs),
           (Calm(g) /\ to = "blocks") => \A m \in Range(list) : g.objs[m].pd # <<>>
    PROVE  SwigInv' /\ Extends(heap, heap')
<1> DEFINE none == <<>>
<1>1. /\ files' = files
      /\ Calm(g) => heap' = Clear(g) /\ pc' = to /\ todo' = list
      /\ ~ Calm(g) => heap' = g /\ pc' = "aborted" /\ todo' = none
  BY Zenon DEF Loop, Calm
<1>2. Good(g)
  BY LeadsIn
<1>3. CASE Calm(g)
  <2> DEFINE k == Clear(g)
  <2>1. Leads(heap, k) /\ k.objs = g.objs /\ Calm(k)
    BY <1>2, ClearDoes, LeadsOn DEF SwigInv
  <2>2. heap' = k /\ pc' = to /\ todo' = list
    BY <1>1, <1>3
  <2> HIDE DEF k
  <2>3. Moves(k, list)
    BY <1>3, <2>1, <2>2 DEF Moves
  <2> QED
    BY <1>1, <2>3, MovesKeep
<1>4. CASE ~ Calm(g)
  <2>1. heap' = g /\ pc' = "aborted" /\ todo' = none /\ none \in Seq(DOMAIN g.objs)
    BY <1>1, <1>4
  <2> HIDE DEF none
  <2>2. Moves(g, none)
    BY <1>2, <2>1 DEF Moves
  <2> QED
    BY <1>1, <2>2, MovesKeep
<1> QED
  BY <1>3, <1>4

LEMMA BlocksKeep ==
    ASSUME SwigInv, FindBlocks
    PROVE  SwigInv' /\ Extends(heap, heap')
<1> DEFINE g == in_blocks(heap, 1)
<1>1. Loop("start", "blocks", g, g.val) /\ pc = "start"
  BY DEF FindBlocks, Loop
<1>2. files \in Docs /\ Good(heap) /\ Calm(heap) /\ 1 \in DOMAIN heap.objs
  BY <1>1 DEF SwigInv, Good, Shaped
<1>3. GivesBlocks(heap, g)
  BY <1>2, InBlocks
<1> HIDE DEF g
<1> QED
  BY <1>1, <1>3, LoopKeeps DEF GivesBlocks

\* The list of a category without those that the loops before have seen.
LEMMA CategoryKeeps ==
    ASSUME SwigInv, Calm(heap), NEW from, NEW to, to # "blocks", NEW cat, cat # "None",
           cat # "Block", NEW g, g = in_category(heap, 1, cat),
           NEW P, Loop(from, to, g, Picked(g.val, P)), P \subseteq DOMAIN g.val
    PROVE  SwigInv' /\ Extends(heap, heap')
<1>1. files \in Docs /\ Good(heap) /\ 1 \in DOMAIN heap.objs
  BY DEF SwigInv, Good, Shaped
<1>2. Gives(heap, 1, cat, g)
  BY <1>1, InCategory
<1>3. Leads(heap, g) /\ Good(g) /\ 1 \in DOMAIN g.objs
  BY <1>2, LeadsIn DEF Gives
<1> DEFINE list == Picked(g.val, P)
<1>4. ASSUME Calm(g)
      PROVE  list \in Seq(DOMAIN g.objs)
  <2>1. g.val = ListOf(g, 1, cat) /\ cat \in DOMAIN g.objs[1].cats
    BY <1>2, <1>4 DEF Gives
  <2>2. g.val \in Seq(DOMAIN g.objs)
    BY <1>3, <2>1, ListIs
  <2>3. IsSeq(g.val) /\ P \in SUBSET (DOMAIN g.val)
    BY <2>2, SeqOver
  <2> QED
    BY <2>2, <2>3, SeqPicked
<1>5. Loop(from, to, g, list)
  OBVIOUS
<1> HIDE DEF list
<1> QED
  BY <1>3, <1>4, <1>5, LoopKeeps

LEMMA FunctionsKeep ==
    ASSUME SwigInv, FindFunctions
    PROVE  SwigInv' /\ Extends(heap, heap')
<1> DEFINE g == in_category(heap, 1, "DoxyFunction")
           P == {i \in DOMAIN g.val : NameOf(g, g.val[i]) \notin make_funcs}
<1>1. Loop("blocks", "functions", g, Picked(g.val, P)) /\ pc = "blocks"
  BY DEF FindFunctions, Loop
<1>2. Calm(heap)
  BY <1>1 DEF SwigInv
<1>3. P \subseteq DOMAIN g.val /\ g = in_category(heap, 1, "DoxyFunction")
  OBVIOUS
<1> HIDE DEF g, P
<1> QED
  BY <1>1, <1>2, <1>3, CategoryKeeps

LEMMA ClassesKeep ==
    ASSUME SwigInv, FindClasses
    PROVE  SwigInv' /\ Extends(heap, heap')
<1> DEFINE g == in_category(heap, 1, "DoxyClass")
           P == {i \in DOMAIN g.val : NameOf(g, g.val[i]) \notin blocks}
<1>1. Loop("functions", "classes", g, Picked(g.val, P)) /\ pc = "functions"
  BY DEF FindClasses, Loop
<1>2. Calm(heap)
  BY <1>1 DEF SwigInv
<1>3. P \subseteq DOMAIN g.val /\ g = in_category(heap, 1, "DoxyClass")
  OBVIOUS
<1> HIDE DEF g, P
<1> QED
  BY <1>1, <1>2, <1>3, CategoryKeeps

LEMMA BlockEntryKeeps ==
    ASSUME SwigInv, BlockEntry
    PROVE  SwigInv' /\ Extends(heap, heap')
<1> DEFINE o == Head(todo)
           nm == make_name(NameOf(heap, o))
           a == get_member(heap, 1, nm, "DoxyFunction")
           k == make_block_entry(a, o)
           g == IF Calm(a) THEN k ELSE a
<1>1. Entered(g) /\ pc = "blocks" /\ todo # <<>>
  BY Zenon DEF BlockEntry, Then, Calm
<1>2. files \in Docs /\ Good(heap) /\ Calm(heap) /\ 1 \in DOMAIN heap.objs
  BY <1>1 DEF SwigInv, Good, Shaped
<1>3. o \in DOMAIN heap.objs /\ o \in Range(todo)
  BY <1>1, TailOf DEF SwigInv
<1>4. heap.objs[o].pd # <<>>
  BY <1>1, <1>3 DEF SwigInv
<1> HIDE DEF o
<1>5. IsSeq(nm)
  BY <1>2, <1>3, <1>4, NameIs, NamesMade
<1> HIDE DEF nm
<1>6. Leads(heap, a)
  BY <1>2, <1>5, GetMember
<1> HIDE DEF a
<1>7. Good(a) /\ o \in DOMAIN a.objs /\ a.objs[o].pd # <<>>
  BY <1>3, <1>4, <1>6, LeadsIn DEF Grows
<1>8. Calm(a) => Leads(a, k)
  BY <1>2, <1>7, MakeBlockEntry
<1> HIDE DEF k
<1>9. Leads(heap, g)
  BY <1>6, <1>8, LeadsOn
<1> HIDE DEF g
<1> QED
  BY <1>1, <1>9, EnteredKeeps

LEMMA FunctionEntryKeeps ==
    ASSUME SwigInv, FunctionEntry
    PROVE  SwigInv' /\ Extends(heap, heap')
<1> DEFINE o == Head(todo)
           nm == NameOf(heap, o)
           none == <<>>
           g == make_func_entry(heap, o, nm, none, none)
<1>1. Entered(g) /\ pc = "functions" /\ todo # <<>>
  BY DEF FunctionEntry
<1>2. files \in Docs /\ Good(heap) /\ Calm(heap) /\ o \in DOMAIN heap.objs
  BY <1>1, TailOf DEF SwigInv
<1> HIDE DEF o, nm, none
<1>3. Leads(heap, g)
  BY <1>2, MakeFuncEntry
<1> HIDE DEF g
<1> QED
  BY <1>1, <1>3, EnteredKeeps

LEMMA ClassEntryKeeps ==
    ASSUME SwigInv, ClassEntry
    PROVE  SwigInv' /\ Extends(heap, heap')
<1> DEFINE o == Head(todo)
           none == <<>>
           g == make_class_entry(heap, o, none)
<1>1. Entered(g) /\ pc = "classes" /\ todo # <<>>
  BY DEF ClassEntry
<1>2. files \in Docs /\ Good(heap) /\ Calm(heap) /\ o \in DOMAIN heap.objs
  BY <1>1, TailOf DEF SwigInv
<1> HIDE DEF o, none
<1>3. Leads(heap, g)
  BY <1>2, MakeClassEntry
<1> HIDE DEF g
<1> QED
  BY <1>1, <1>3, EnteredKeeps

\* The other program: every call of it.
LEMMA CallLeads ==
    ASSUME files \in Docs, NEW h, Good(h), Calm(h), NEW o \in DOMAIN h.objs, CallOn(h, o)
    PROVE  \E k : heap' = k /\ Leads(h, k)
<1>1. CASE Does(members(h, o))
  BY <1>1, Members DEF Does
<1>2. CASE Does(in_blocks(h, o))
  BY <1>2, InBlocks DEF Does, GivesBlocks
<1>3. CASE Does(name(h, o))
  BY <1>3, Name DEF Does
<1>4. CASE Does(data(h, o, "brief"))
  BY <1>4, Data DEF Does
<1>5. CASE \E cat \in Categories : Does(in_category(h, o, cat))
  <2>1. PICK cat \in Categories : Does(in_category(h, o, cat))
    BY <1>5
  <2>2. cat # "Block"
    BY DEF Categories
  <2> QED
    BY <2>1, <2>2, InCategory DEF Does, Gives
<1>6. CASE \E nm \in LibraryNames, cat \in {"None", "DoxyFunction"} :
              Does(get_member(h, o, nm, cat)) \/ Does(has_member(h, o, nm, cat))
  <2>1. PICK nm \in LibraryNames, cat \in {"None", "DoxyFunction"} :
              Does(get_member(h, o, nm, cat)) \/ Does(has_member(h, o, nm, cat))
    BY <1>6
  <2>2. IsSeq(nm) /\ cat # "Block"
    BY NamesAssumption
  <2>3. Leads(h, get_member(h, o, nm, cat)) /\ Leads(h, has_member(h, o, nm, cat))
    BY <2>2, GetMember, HasMember
  <2> QED
    BY <2>1, <2>3 DEF Does
<1> QED
  BY <1>1, <1>2, <1>3, <1>4, <1>5, <1>6 DEF CallOn

LEMMA LibraryCallKeeps ==
    ASSUME SwigInv, LibraryCall
    PROVE  SwigInv' /\ Extends(heap, heap')
<1> DEFINE h == Clear(heap)
<1>1. /\ files' = files /\ pc' = "library" /\ todo' = todo
      /\ \E o \in DOMAIN heap.objs : CallOn(h, o)
  BY DEF LibraryCall
<1>2. Leads(heap, h) /\ h.objs = heap.objs /\ Calm(h) /\ files \in Docs
  BY ClearDoes DEF SwigInv
<1> HIDE DEF h
<1>3. PICK k : heap' = k /\ Leads(h, k)
  BY <1>1, <1>2, LeadsIn, CallLeads
<1>4. Leads(heap, k) /\ Good(k)
  BY <1>2, <1>3, LeadsOn, LeadsIn
<1>5. todo \in Seq(DOMAIN k.objs)
  BY <1>4, ListStays DEF SwigInv
<1>6. Moves(k, todo)
  BY <1>1, <1>3, <1>4, <1>5 DEF Moves
<1> QED
  BY <1>1, <1>6, MovesKeep

LEMMA UnchangedKeeps ==
    ASSUME SwigInv, files' = files, heap' = heap, todo' = todo,
           pc' = pc \/ pc' = "done"
    PROVE  SwigInv' /\ Extends(heap, heap')
<1>1. Leads(heap, heap)
  BY LeadsSelf DEF SwigInv
<1>2. Moves(heap, todo)
  BY <1>1 DEF SwigInv, Moves
<1> QED
  BY <1>2, MovesKeep

LEMMA StepKeeps ==
    ASSUME SwigInv, [SwigNext]_swigvars
    PROVE  SwigInv' /\ Extends(heap, heap')
<1>1. CASE FindBlocks
  BY <1>1, BlocksKeep
<1>2. CASE BlockEntry
  BY <1>2, BlockEntryKeeps
<1>3. CASE FindFunctions
  BY <1>3, FunctionsKeep
<1>4. CASE FunctionEntry
  BY <1>4, FunctionEntryKeeps
<1>5. CASE FindClasses
  BY <1>5, ClassesKeep
<1>6. CASE ClassEntry
  BY <1>6, ClassEntryKeeps
<1>7. CASE WriteFile
  BY <1>7, UnchangedKeeps DEF WriteFile
<1>8. CASE LibraryCall
  BY <1>8, LibraryCallKeeps
<1>9. CASE UNCHANGED swigvars
  BY <1>9, UnchangedKeeps DEF swigvars
<1> QED
  BY <1>1, <1>2, <1>3, <1>4, <1>5, <1>6, <1>7, <1>8, <1>9 DEF SwigNext

\* Whatever the files say, whatever is missing or malformed in them and whatever is
\* called in whatever order, the heap stays good and the script goes on with objects
\* that are there and have the names it asks them for.
THEOREM SwigInvCorrect == SwigSpec => []SwigInv
<1>1. SwigInit => SwigInv
  BY SwigInitInv
<1>2. SwigInv /\ [SwigNext]_swigvars => SwigInv'
  BY StepKeeps
<1> QED
  BY <1>1, <1>2, PTL DEF SwigSpec

\* However an object is reached, by a reference of a group, by the index or as a
\* member, there is one object of a refid: convert_mem, from_refid and the cache that
\* they share never make a second one.
THEOREM SharedByRefidCorrect == SwigSpec => []SharedByRefid
<1>1. SwigInv => SharedByRefid
  BY DEF SwigInv, Good, Referenced, SharedByRefid
<1> QED
  BY <1>1, SwigInvCorrect, PTL

\* What an object has after its first access is what its file says, or nothing where
\* the file is no XML, is missing or does not build, for every file.
THEOREM MembersOfFileCorrect == SwigSpec => []MembersOfFile
<1>1. SwigInv => MembersOfFile
  BY DEF SwigInv, Good, Sound, MembersOfFile
<1> QED
  BY <1>1, SwigInvCorrect, PTL

\* The mark of a name that two elements have is none of them.
LEMMA HeldFresh ==
    ASSUME NEW h, Shaped(h), NEW o, DictsHold(h, o), Listed(h, o)
    PROVE  DictsFresh(h, o)
<1>1. ASSUME NEW cat \in DOMAIN h.objs[o].dicts, NEW n \in DOMAIN h.objs[o].dicts[cat]
      PROVE  Entry(h, ListOf(h, o, cat), n, h.objs[o].dicts[cat][n])
  <2> DEFINE list == ListOf(h, o, cat)
             value == h.objs[o].dicts[cat][n]
             same == {i \in DOMAIN list : NameOf(h, list[i]) = n}
  <2>1. DOMAIN h.objs[o].dicts[cat] = NamesOf(h, list) /\ Held(h, list, n, value)
    BY <1>1 DEF DictsHold
  <2>2. \A i \in DOMAIN list : list[i] \in DOMAIN h.objs
    BY <1>1 DEF Listed
  <2> HIDE DEF list, value
  <2>3. \A i \in DOMAIN list : list[i] # Duplicated
    <3>1. DOMAIN h.objs = 1..Len(h.objs)
      BY SeqElements DEF Shaped
    <3> QED
      BY <2>2, <3>1 DEF Duplicated
  <2>4. same # {}
    BY <1>1, <2>1 DEF NamesOf
  <2>5. IF \E i, j \in same : i # j THEN value = Duplicated
        ELSE \A i \in same : list[i] = value
    BY <2>1 DEF Held
  <2>6. IF \E i, j \in same : i # j THEN value \notin {list[i] : i \in DOMAIN list}
        ELSE \A i \in same : list[i] = value
    BY <2>3, <2>5
  <2> QED
    BY <2>4, <2>6 DEF Entry, list, value
<1>2. ASSUME NEW cat \in DOMAIN h.objs[o].dicts
      PROVE  DOMAIN h.objs[o].dicts[cat] = NamesOf(h, ListOf(h, o, cat))
  BY <1>2 DEF DictsHold
<1> QED
  BY <1>1, <1>2 DEF DictsFresh

\* The lists and dictionaries that in_category and get_dict_members keep never go
\* stale: they are those of the members, after any calls and failures.
THEOREM CachesFreshCorrect == SwigSpec => []CachesFresh
<1>1. SwigInv => CachesFresh
  <2>1. ASSUME SwigInv, NEW o \in DOMAIN heap.objs
        PROVE  ListsFresh(heap, o) /\ BlocksFresh(heap, o) /\ DictsFresh(heap, o)
    BY <2>1, HeldFresh DEF SwigInv, Good, Sound, Caches
  <2> QED
    BY <2>1 DEF CachesFresh
<1> QED
  BY <1>1, SwigInvCorrect, PTL

\* No call reads an object again, nor changes what its reading left: the flag that
\* _parse sets first keeps the result of a failed reading as well.
THEOREM ReadOnceCorrect == SwigSpec => ReadOnce
<1> DEFINE Once == \A o \in DOMAIN heap.objs : heap.objs[o].parsed =>
                      /\ o \in DOMAIN heap'.objs /\ heap'.objs[o].parsed
                      /\ heap'.objs[o].members = heap.objs[o].members
                      /\ heap'.objs[o].error = heap.objs[o].error
                      /\ o \in heap'.failed <=> o \in heap.failed
<1>1. SwigInv /\ [SwigNext]_swigvars => Once
  <2> SUFFICES ASSUME SwigInv, [SwigNext]_swigvars, NEW o \in DOMAIN heap.objs,
                      heap.objs[o].parsed
               PROVE  /\ o \in DOMAIN heap'.objs /\ heap'.objs[o].parsed
                      /\ heap'.objs[o].members = heap.objs[o].members
                      /\ heap'.objs[o].error = heap.objs[o].error
                      /\ o \in heap'.failed <=> o \in heap.failed
    OBVIOUS
  <2>1. Extends(heap, heap')
    BY StepKeeps
  <2>2. heap.objs[o].parsed = TRUE
    BY DEF SwigInv, Good, Sound, Fresh, Untouched
  <2>3. o \in DOMAIN heap'.objs /\ Retains(heap, heap', o)
    BY <2>1, <2>2 DEF Extends, Grows
  <2> QED
    BY <2>2, <2>3 DEF Retains
<1> HIDE DEF Once
<1>2. SwigInv /\ [SwigNext]_swigvars => [Once]_heap
  BY <1>1
<1> QED
  BY <1>2, SwigInvCorrect, PTL DEF SwigSpec, ReadOnce, Once

=============================================================================
