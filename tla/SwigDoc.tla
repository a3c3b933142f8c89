------------------------------ MODULE SwigDoc ------------------------------
(***************************************************************************)
(* docs/doxygen/swig_doc.py: the script that makes docstrings for SWIG out *)
(* of what doxyxml reads, one step per docstring it tries to make, and a   *)
(* program that calls doxyxml in any order, as its module says it can be   *)
(* used.  A process runs one of the two.                                   *)
(***************************************************************************)
EXTENDS DoxyXml

CONSTANTS ScriptDocs,    \* the documentation that the script may find
          LibraryDocs,   \* and the other program
          LibraryNames,  \* the names that program asks for
          MaxCalls       \* bound: the calls that program makes

VARIABLES pc,          \* what is under way: "blocks", "functions", "classes",
                       \*   "done", "aborted", or "library"
          todo,        \* the objects that the loop under way has left
          blocks,      \* the names of the blocks
          make_funcs,  \* the names of their make functions
          output,      \* the docstrings made so far
          calls        \* calls of the library that are left

swigvars == <<files, heap, pc, todo, blocks, make_funcs, output, calls>>

Clear(h) == [h EXCEPT !.exc = "", !.val = None]
NameOf(h, o) == h.objs[o].pd[1].field["name"][1]

\* gr_foo_bar -> gr_make_foo_bar (only the first "_" counts)
make_name(nm) ==
    LET at == {i \in DOMAIN nm : Len(nm[i]) > 1} IN
    IF at = {} THEN [nm EXCEPT ![Len(nm)] = @ \o <<"make", "">>]
    ELSE [nm EXCEPT ![CHOOSE i \in at : \A j \in at : i <= j] =
            <<Head(@), "make">> \o Tail(@)]

\* Mutant: a class whose file is not XML is asked for its friends all the same.
BlockIncludes_NoErrorTest(h, o) ==
    IF o = None \/ h.objs[o].class # "DoxyClass" THEN Return(h, FALSE)
    ELSE Then(name(h, o), LAMBDA k : has_member(k, o, make_name(k.val), "DoxyFriend"))

\* Block.includes
BlockIncludes(h, o) ==
    IF o = None \/ h.objs[o].class # "DoxyClass" THEN Return(h, FALSE)
    ELSE Then(error(h, o), LAMBDA g :
           IF g.val THEN Return(g, FALSE)
           ELSE Then(name(g, o), LAMBDA k :
                  has_member(k, o, make_name(k.val), "DoxyFriend")))

\* in_category(Block): the list is kept when no test raises.
Tested(h, list, m) == [h |-> h, list |-> IF h.exc = "" /\ h.val THEN Append(list, m)
                                         ELSE list]
next_block(c, a, m) ==
    IF a.h.exc # "" THEN a ELSE Tested(BlockIncludes(a.h, m), a.list, m)
EachBlock == INSTANCE Iterate WITH Step <- next_block
SelectBlocks(h, os) == EachBlock!Loop(<<>>, [h |-> h, list |-> <<>>], os)
KeepBlocks(a, o) == Then(a.h, LAMBDA k : Category(k, o, "Block", a.list))
in_blocks(h, o) == Then(confirm_no_error(h, o), LAMBDA g :
    IF "Block" \in DOMAIN g.objs[o].cats THEN Return(g, g.objs[o].cats["Block"])
    ELSE KeepBlocks(SelectBlocks(g, g.objs[o].members), o))

\* The description of an entry: its texts that are not empty, which are written
\* with a break between them.
Given(text) == IF text = <<>> THEN <<>> ELSE <<text>>

\* strip() of a description that is None fails.
combine_descriptions(h, o) ==
    Then(data(h, o, "brief"), LAMBDA g : LET brief == g.val IN
      IF brief = <<NoText>> THEN Raise(g, "AttributeError")
      ELSE Then(data(g, o, "detailed"), LAMBDA k :
             IF k.val = <<NoText>> THEN Raise(k, "AttributeError")
             ELSE Return(k, Given(brief) \o Given(k.val))))

IsOperator(nm) == \E i \in DOMAIN nm : "operator" \in Range(nm[i])

\* The optional parameters description and params are lists of at most one; sig is
\* the signature that templ has, if any.  An empty docstring makes no entry.
make_entry(h, o, nm, desc, sig) ==
    IF IsOperator(nm) THEN Return(h, <<>>)
    ELSE Then(IF desc = <<>> THEN combine_descriptions(h, o)
              ELSE Return(h, desc[1]), LAMBDA g :
           Return(g, IF g.val = <<>> /\ sig = <<>> THEN <<>>
                     ELSE <<[name |-> nm, description |-> g.val, sig |-> sig]>>))

make_func_entry(h, o, nm, desc, params) ==
    Then(IF params = <<>> THEN data(h, o, "params") ELSE Return(h, params[1]),
         LAMBDA g : make_entry(g, o, nm, desc, <<g.val>>))

\* The entries of a member function, after those of before.
next_func(o, h, f) == Then(h, LAMBDA g : LET before == g.val IN
    Then(make_func_entry(g, f, NameOf(g, o) \o NameOf(g, f), <<>>, <<>>),
         LAMBDA k : Return(k, before \o k.val)))
EachFunc == INSTANCE Iterate WITH Step <- next_func
func_entries(h, o, own) == Then(in_category(h, o, "DoxyFunction"), LAMBDA g :
    EachFunc!Loop(o, Return(g, own), g.val))

\* Mutant: the functions of the class without the class itself.
make_class_entry_FunctionsOnly(h, o, desc) == func_entries(h, o, <<>>)

\* The entries of a class: its own, and one per member function.
make_class_entry(h, o, desc) ==
    Then(make_entry(h, o, NameOf(h, o), desc, <<>>), LAMBDA g : func_entries(g, o, g.val))

header_of(nm) == [nm EXCEPT ![Len(nm)] = Append(@, ".h")]

\* The description of the file of a block; that there is no such file is fine.
file_description(h, nm) ==
    Absent(Then(get_member(h, 1, header_of(nm), "DoxyFile"),
                LAMBDA g : combine_descriptions(g, g.val)), <<>>)

make_block_entry(h, o) ==
    LET nm == NameOf(h, o) IN
    Then(combine_descriptions(h, o), LAMBDA g1 : LET class_desc == g1.val IN
    Then(get_member(g1, 1, make_name(nm), "DoxyFunction"), LAMBDA g2 :
      LET make_func == g2.val IN
    Then(combine_descriptions(g2, make_func), LAMBDA g3 :
      LET make_func_desc == g3.val IN
    Then(file_description(g3, nm), LAMBDA g4 :
      LET super == <<class_desc \o make_func_desc \o g4.val>> IN
    Then(make_class_entry(g4, o, super), LAMBDA g5 : LET entries == g5.val IN
    Then(get_member(g5, o, nm, "DoxyFunction"), LAMBDA g6 :
    Then(data(g6, g6.val, "params"), LAMBDA g7 :
    Then(make_func_entry(g7, make_func, NameOf(g7, make_func), super, <<g7.val>>),
         LAMBDA g8 : Return(g8, entries \o g8.val)))))))))
-----------------------------------------------------------------------------
\* What doxygen writes and its schemas say: the objects that build() makes have
\* lists of children; a name has at least one part; the kinds of members are not
\* those of compounds; both have descriptions, which may be empty; a memberdef has
\* no refid, an entry of the index has one of its own, and no two classes have one
\* name; no file of a compound is called index, and none has no name.
Docs == ScriptDocs \cup LibraryDocs
IsSeq(s) == s \in Seq(Range(s))
IsName(nm) == IsSeq(nm) /\ nm # <<>>
IsRef(refid) == refid \notin {NoRef, "index"}
CompoundKinds == {"class", "file", "namespace", "group", "struct", "union", "dir", "page"}
IsDescribed(def) ==
    \A t \in {"briefdescription", "detaileddescription"} :
       Description(def.field[t]) # <<NoText>>
IsMemberdef(pd) ==
    /\ "refid" \notin DOMAIN pd.attr /\ IsName(PdName(pd)) /\ IsDescribed(pd)
    /\ pd.attr["kind"] \notin CompoundKinds
IsCompounddef(cdef) ==
    /\ IsDescribed(cdef)
    /\ \A f \in {"sectiondef", "innergroup", "innerclass"} : IsSeq(cdef.field[f])
    /\ \A s \in Range(cdef.field["sectiondef"]) :
          /\ IsSeq(s.field["memberdef"])
          /\ \A pd \in Range(s.field["memberdef"]) : IsMemberdef(pd)
    /\ \A f \in {"innergroup", "innerclass"} :
          \A ref \in Range(cdef.field[f]) : IsRef(ref.attr["refid"])
AreOne(pd, qd) ==
    \/ pd.attr["refid"] = qd.attr["refid"]
    \/ /\ pd.attr["kind"] = "class" /\ qd.attr["kind"] = "class"
       /\ PdName(pd) = PdName(qd)
IsIndex(pds) ==
    /\ IsSeq(pds)
    /\ \A pd \in Range(pds) :
          /\ "refid" \in DOMAIN pd.attr /\ IsRef(pd.attr["refid"]) /\ IsName(PdName(pd))
          /\ pd.attr["kind"] \notin DOMAIN mem_classes \ CompoundKinds
          /\ \A qd \in Range(pds) : AreOne(pd, qd) => pd = qd
ASSUME DocsAssumption ==
    \A doc \in Docs :
       /\ NoRef \notin DOMAIN doc
       /\ ("index" \in DOMAIN doc /\ doc["index"].ok) => IsIndex(CompoundsOf(doc["index"].root))
       /\ \A r \in DOMAIN doc \ {"index"} :
            (doc[r].ok /\ ~Malformed(doc[r].root) /\ ~Bare(doc[r].root)) =>
               IsCompounddef(CompounddefOf(doc[r].root))
\* A name is split into its parts.
ASSUME NamesAssumption == \A nm \in LibraryNames : IsSeq(nm)
-----------------------------------------------------------------------------
\* The script.  A loop takes its next object: ParsingError skips it, any other
\* exception ends the script before it writes anything.
Entered(g) ==
    /\ heap' = [g EXCEPT !.exc = IF @ = "ParsingError" THEN "" ELSE @, !.val = None]
    /\ IF g.exc \in {"", "ParsingError"}
       THEN /\ output' = IF g.exc = "" THEN output \o g.val ELSE output
            /\ pc' = pc /\ todo' = Tail(todo)
       ELSE pc' = "aborted" /\ todo' = <<>> /\ output' = <<>>
    /\ UNCHANGED <<files, blocks, calls>>

\* The list of the next loop is made.
Loop(from, to, g, list) ==
    /\ pc = from /\ todo = <<>>
    /\ heap' = IF g.exc = "" THEN Clear(g) ELSE g
    /\ IF g.exc = "" THEN pc' = to /\ todo' = list /\ output' = output
       ELSE pc' = "aborted" /\ todo' = <<>> /\ output' = <<>>
    /\ UNCHANGED <<files, make_funcs, calls>>

FindBlocks ==
    LET g == in_blocks(heap, 1) IN
    /\ Loop("start", "blocks", g, g.val)
    /\ blocks' = IF g.exc = "" THEN {NameOf(g, o) : o \in Range(g.val)} ELSE {}

BlockEntry ==
    LET o == Head(todo)
        g == get_member(heap, 1, make_name(NameOf(heap, o)), "DoxyFunction")
    IN /\ pc = "blocks" /\ todo # <<>>
       /\ make_funcs' = IF g.exc = "" THEN make_funcs \cup {NameOf(g, g.val)}
                        ELSE make_funcs
       /\ Entered(Then(g, LAMBDA k : make_block_entry(k, o)))

FindFunctions ==
    LET g == in_category(heap, 1, "DoxyFunction") IN
    /\ Loop("blocks", "functions", g,
            Picked(g.val, {i \in DOMAIN g.val : NameOf(g, g.val[i]) \notin make_funcs}))
    /\ UNCHANGED blocks

FunctionEntry ==
    LET o == Head(todo) IN
    /\ pc = "functions" /\ todo # <<>>
    /\ Entered(make_func_entry(heap, o, NameOf(heap, o), <<>>, <<>>))
    /\ UNCHANGED make_funcs

FindClasses ==
    LET g == in_category(heap, 1, "DoxyClass") IN
    /\ Loop("functions", "classes", g,
            Picked(g.val, {i \in DOMAIN g.val : NameOf(g, g.val[i]) \notin blocks}))
    /\ UNCHANGED blocks

ClassEntry ==
    /\ pc = "classes" /\ todo # <<>>
    /\ Entered(make_class_entry(heap, Head(todo), <<>>))
    /\ UNCHANGED make_funcs

\* The file is written.
WriteFile ==
    /\ pc = "classes" /\ todo = <<>> /\ pc' = "done"
    /\ UNCHANGED <<files, heap, todo, blocks, make_funcs, output, calls>>
-----------------------------------------------------------------------------
\* The other program: it calls a method of an object and goes on when the call
\* raises an exception.
Categories == {"None", "DoxyFunction", "DoxyClass", "DoxyFriend", "DoxyFile"}
Does(g) == heap' = g
CallOn(h, o) ==
    \/ Does(members(h, o))
    \/ Does(in_blocks(h, o))
    \/ o # 1 /\ Does(name(h, o))
    \/ h.objs[o].class \in {"DoxyFunction", "DoxyClass", "DoxyFile"}
       /\ Does(data(h, o, "brief"))
    \/ \E cat \in Categories : Does(in_category(h, o, cat))
    \/ \E nm \in LibraryNames, cat \in {"None", "DoxyFunction"} :
          /\ h.objs[o].class \in {"DoxyIndex", "DoxyClass", "DoxyGroup"}
          /\ Does(get_member(h, o, nm, cat)) \/ Does(has_member(h, o, nm, cat))

LibraryCall ==
    /\ pc = "library" /\ calls > 0 /\ calls' = calls - 1
    /\ \E o \in DOMAIN heap.objs : CallOn(Clear(heap), o)
    /\ UNCHANGED <<files, pc, todo, blocks, make_funcs, output>>
-----------------------------------------------------------------------------
SwigInit ==
    /\ \/ pc = "start" /\ files \in ScriptDocs
       \/ pc = "library" /\ files \in LibraryDocs
    /\ heap = EmptyHeap /\ todo = <<>> /\ blocks = {} /\ make_funcs = {}
    /\ output = <<>> /\ calls = MaxCalls

SwigNext ==
    \/ FindBlocks \/ BlockEntry \/ FindFunctions \/ FunctionEntry
    \/ FindClasses \/ ClassEntry \/ WriteFile
    \/ LibraryCall

SwigSpec == SwigInit /\ [][SwigNext]_swigvars
-----------------------------------------------------------------------------
\* What the documentation says, taken from the files and not from the objects.
Compounds == CompoundsOf(files["index"].root)
RefOf(c) == c.attr["refid"]
KindOf(c) == c.attr["kind"]
OfKind(cs, k) == Picked(cs, {i \in DOMAIN cs : KindOf(cs[i]) = k})
IsHeader(c) == KindOf(c) = "file" /\ Last(Last(PdName(c))) = ".h"
Headers == Picked(Compounds, {i \in DOMAIN Compounds : IsHeader(Compounds[i])})
Readable(refid) == /\ refid \in DOMAIN files /\ files[refid].ok
                   /\ ~Malformed(files[refid].root) /\ ~Bare(files[refid].root)
Def(refid) == CompounddefOf(files[refid].root)
MemberDefs(refid) == Memberdefs(Def(refid))
\* Only the first of the members of one name counts.
NamesOfKind(refid, k) ==
    {PdName(m) : m \in {n \in Range(Unique(MemberDefs(refid))) : KindOf(n) = k}}
ReadableClasses == {c \in Range(OfKind(Compounds, "class")) : Readable(RefOf(c))}
\* A class in a namespace is no block, whatever its friends: get_member looks
\* for the namespace among them.
BlockClasses == {c \in ReadableClasses :
                   /\ Len(PdName(c)) = 1
                   /\ make_name(PdName(c)) \in NamesOfKind(RefOf(c), "friend")}
Declaring(f) == {i \in DOMAIN Headers :
                   f \in NamesOfKind(RefOf(Headers[i]), "function")}

\* The script writes its file exactly when the documentation is complete enough:
\* a file that is not XML is tolerated for a class and for no header, one that
\* is missing for neither, and a block needs one make function among the headers,
\* a constructor, and at most one header of its name.
Usable ==
    /\ "index" \in DOMAIN files /\ files["index"].ok
    /\ \A c \in Range(Compounds) : KindOf(c) \in DOMAIN mem_classes
    /\ \A c \in Range(Headers) : Readable(RefOf(c))
    /\ \A c \in Range(OfKind(Compounds, "class")) :
          RefOf(c) \in DOMAIN files /\ (files[RefOf(c)].ok => Readable(RefOf(c)))
    /\ \A b \in BlockClasses :
          /\ Cardinality(Declaring(make_name(PdName(b)))) = 1
          /\ PdName(b) \in NamesOfKind(RefOf(b), "function")
          /\ Cardinality({i \in DOMAIN Headers :
                            PdName(Headers[i]) = header_of(PdName(b))}) <= 1
AbortsExactly == pc \in {"done", "aborted"} => (pc = "done" <=> Usable)

\* What describes a class: its own texts, and for a block those of its make
\* function and of the header of its name.
HasText(def) == \E t \in {"briefdescription", "detaileddescription"} :
                   Description(def.field[t]) # <<>>
MakesOf(b) == {m \in UNION {Range(Unique(MemberDefs(RefOf(h)))) : h \in Range(Headers)} :
                 KindOf(m) = "function" /\ PdName(m) = make_name(PdName(b))}
FilesOf(b) == {Def(RefOf(h)) : h \in {k \in Range(Headers) : PdName(k) = header_of(PdName(b))}}
IsDocumented(c) ==
    \/ HasText(Def(RefOf(c)))
    \/ c \in BlockClasses /\ \E def \in MakesOf(c) \cup FilesOf(c) : HasText(def)

\* A file that is written has a docstring for every function of a header and
\* every function of a class that can be read, and for such a class when anything
\* describes it, but for operators; the failure of one class costs the entries of
\* no other thing.
Documented ==
    {nm \in UNION {NamesOfKind(RefOf(h), "function") : h \in Range(Headers)}
            \cup UNION {{PdName(c) \o f : f \in NamesOfKind(RefOf(c), "function")}
                          : c \in ReadableClasses}
            \cup {PdName(c) : c \in {k \in ReadableClasses : IsDocumented(k)}}
        : ~IsOperator(nm)}
OutputComplete == pc = "done" => {e.name : e \in Range(output)} = Documented

\* The lists of an object are made of its members; the list of the blocks has the
\* members whose file shows that they are blocks.
ListsFresh(h, o) ==
    \A cat \in DOMAIN h.objs[o].cats \ {"Block"} :
       h.objs[o].cats[cat] = OfClass(h, h.objs[o].members, cat)
IsBlock(obj) == /\ obj.class = "DoxyClass"
                /\ \E b \in BlockClasses : RefOf(b) = obj.refid
BlocksFresh(h, o) ==
    "Block" \in DOMAIN h.objs[o].cats =>
       \A m \in Range(h.objs[o].members) :
          m \in Range(h.objs[o].cats["Block"]) <=> m # None /\ IsBlock(h.objs[m])

\* A dictionary has every name of its list, with the one object of that name; a
\* name that two objects of the list have leads to none of them.  (To the class
\* Duplicate, where base.py:126 speaks of None.)
ListOf(h, o, cat) == IF cat = "None" THEN h.objs[o].members ELSE h.objs[o].cats[cat]
NamesOf(h, list) == {NameOf(h, list[i]) : i \in DOMAIN list}
Entry(h, list, nm, value) ==
    LET same == {i \in DOMAIN list : NameOf(h, list[i]) = nm} IN
    /\ same # {}
    /\ IF \E i, j \in same : i # j THEN value \notin {list[i] : i \in DOMAIN list}
       ELSE \A i \in same : list[i] = value
DictsFresh(h, o) ==
    \A cat \in DOMAIN h.objs[o].dicts :
       LET list == ListOf(h, o, cat)
           dict == h.objs[o].dicts[cat]
       IN DOMAIN dict = NamesOf(h, list) /\ \A n \in DOMAIN dict : Entry(h, list, n, dict[n])

\* The lists and dictionaries that an object keeps are those of its members,
\* whatever was read, cached or refused before.
CachesFresh ==
    \A o \in DOMAIN heap.objs :
       ListsFresh(heap, o) /\ BlocksFresh(heap, o) /\ DictsFresh(heap, o)

\* A reference and the index lead to one object: nothing is read twice, and what
\* one path found out is known on the other.
SharedByRefid ==
    \A o1, o2 \in DOMAIN heap.objs :
       heap.objs[o1].refid = heap.objs[o2].refid /\ heap.objs[o1].refid # NoRef
          => o1 = o2

\* A member is what its memberdef says: None for a kind that no class takes.
Represents(h, m, pd) ==
    IF KindOf(pd) \notin DOMAIN mem_classes THEN m = None
    ELSE /\ m # None /\ h.objs[m].class = mem_classes[KindOf(pd)]
         /\ NameOf(h, m) = PdName(pd)
MadeFrom(h, ms, pds) ==
    Len(ms) = Len(pds) /\ \A i \in DOMAIN pds : Represents(h, ms[i], pds[i])
FileRead(h, o) ==
    LET obj == h.objs[o] IN
    obj.class \in {"DoxyClass", "DoxyFile"} /\ obj.parsed =>
       IF o \in h.failed \/ obj.error
       THEN obj.members = <<>> /\ ~Readable(obj.refid)
       ELSE Readable(obj.refid) /\ MadeFrom(h, obj.members, Unique(MemberDefs(obj.refid)))

\* An object that was read has the members of its file, in the order of the file
\* and each name once.  After a reading that raised an exception the object
\* passes for one that was read, with what there was before the exception.
MembersOfFile == \A o \in DOMAIN heap.objs : FileRead(heap, o)

\* An object is read at most once: its members, its error and that its reading
\* failed stay as the reading left them, whatever is called later.
ReadOnce ==
    [][\A o \in DOMAIN heap.objs : heap.objs[o].parsed =>
          /\ o \in DOMAIN heap'.objs /\ heap'.objs[o].parsed
          /\ heap'.objs[o].members = heap.objs[o].members
          /\ heap'.objs[o].error = heap.objs[o].error
          /\ o \in heap'.failed <=> o \in heap.failed]_heap

=============================================================================
