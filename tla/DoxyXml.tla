------------------------------ MODULE DoxyXml ------------------------------
(***************************************************************************)
(* docs/doxygen/doxyxml: the library that reads the XML of doxygen lazily  *)
(* (base.py, doxyindex.py).  An object reads its file at the first access  *)
(* to its contents, keeps what it found, and keeps the lists and           *)
(* dictionaries it made of it; objects with a refid are shared.            *)
(*                                                                         *)
(* A method takes the heap of objects and gives the heap it leaves, with   *)
(* the value it returned (val) or the exception it raised (exc).  A name   *)
(* is the sequence of its parts between "::", a part the sequence of its   *)
(* bits between "_"; the ".h" of a file name is a bit.                     *)
(***************************************************************************)
EXTENDS Integers, Sequences, FiniteSets, TLC, SequencesExt, DoxygenText, Ascending

\* What the generated classes and text.py make of a file: DoxygenTree.
CONSTANTS Malformed(_),      \* the root of a compound's file: building it raises
          Bare(_),           \*   the object made of it has no compounddef
          CompounddefOf(_),  \*   the object of its compounddef
          CompoundsOf(_),    \* the root of the index: the objects of its compounds
          Description(_)     \* the text of a description that may be missing

VARIABLES files,   \* refid -> its XML: [ok, root]; a refid without one is no file
          heap     \* the objects, the cache of references, the last result

NoRef == "no refid"
None == 0          \* Python's None where an object could be
Duplicated == -1   \* the class Duplicate as a value of a dictionary

\* dict[key] = value
With(dict, key, value) ==
    [k \in DOMAIN dict \cup {key} |-> IF k = key THEN value ELSE dict[k]]
Raise(h, e) == [h EXCEPT !.exc = e]
Return(h, v) == [h EXCEPT !.val = v]
Then(h, Op(_)) == IF h.exc = "" THEN Op(h) ELSE h

\* Base.__init__
New(h, class, pd, refid) ==
    [h EXCEPT !.objs = Append(@, [class |-> class, pd |-> pd, refid |-> refid,
                 parsed |-> FALSE, error |-> FALSE, members |-> <<>>,
                 data |-> <<>>, cats |-> <<>>, dicts |-> <<>>]),
              !.refs = IF refid = NoRef THEN @ ELSE With(@, refid, Len(h.objs) + 1),
              !.val = Len(h.objs) + 1]

EmptyHeap == New([objs |-> <<>>, refs |-> <<>>, exc |-> "", val |-> None,
                  failed |-> {}], "DoxyIndex", <<>>, NoRef)

\* Mutant: the cache of references is written and not read.
from_refid_Uncached(h, class, refid) == New(h, class, <<>>, refid)

from_refid(h, class, refid) ==
    IF refid \in DOMAIN h.refs THEN Return(h, h.refs[refid])
    ELSE New(h, class, <<>>, refid)

from_parse_data(h, class, pd) ==
    LET refid == IF "refid" \in DOMAIN pd.attr THEN pd.attr["refid"] ELSE NoRef
    IN IF refid \in DOMAIN h.refs THEN Return(h, h.refs[refid])
       ELSE New(h, class, <<pd>>, refid)

\* can_parse of the classes in Base.mem_classes
mem_classes == [k \in {"function", "class", "file", "namespace", "group", "friend",
                       "variable", "struct", "union", "define", "typedef", "enum",
                       "dir", "page"} |->
                  CASE k = "function"  -> "DoxyFunction"
                    [] k = "class"     -> "DoxyClass"
                    [] k = "file"      -> "DoxyFile"
                    [] k = "namespace" -> "DoxyNamespace"
                    [] k = "group"     -> "DoxyGroup"
                    [] k = "friend"    -> "DoxyFriend"
                    [] OTHER           -> "DoxyOther"]

\* The StandardError of get_cls is printed, and the result is None.
convert_mem(h, pd) ==
    IF pd.attr["kind"] \in DOMAIN mem_classes
    THEN from_parse_data(h, mem_classes[pd.attr["kind"]], pd)
    ELSE Return(h, None)

set_descriptions(h, o, pd) ==
    [h EXCEPT !.objs[o].data =
        With(With(@, "brief", Description(pd.field["briefdescription"])),
             "detailed", Description(pd.field["detaileddescription"]))]

\* Kept as a member of o: what convert_mem or from_refid returned.
Adopt(h, o) == [h EXCEPT !.objs[o].members = Append(@, h.val)]

with_members(c, pds, section) == pds \o section.field["memberdef"]
EachSection == INSTANCE Iterate WITH Step <- with_members
Memberdefs(cdef) == EachSection!Loop(<<>>, <<>>, cdef.field["sectiondef"])
PdName(pd) == pd.field["name"][1]

\* The pairs of process_memberdefs tell members apart by name only: the class
\* of every memberdef is the same.  (The object made of a second member of a
\* name is not kept: nobody has it.)
FirstOfName(pds) ==
    {i \in DOMAIN pds : \A j \in 1..(i - 1) : PdName(pds[j]) # PdName(pds[i])}
Unique(pds) == Picked(pds, FirstOfName(pds))

add_member(o, h, pd) == Adopt(convert_mem(h, pd), o)
EachMember == INSTANCE Iterate WITH Step <- add_member

\* Mutant: the memberdefs are not made unique.
process_memberdefs_Repeated(h, o, cdef) == EachMember!Loop(o, h, Memberdefs(cdef))

process_memberdefs(h, o, cdef) == EachMember!Loop(o, h, Unique(Memberdefs(cdef)))

\* The part of DoxyGroup._parse before the members.
add_inner(c, h, ref) == Adopt(from_refid(h, c.class, ref.attr["refid"]), c.group)
EachInner == INSTANCE Iterate WITH Step <- add_inner
add_all(h, o, class, refs) == EachInner!Loop([group |-> o, class |-> class], h, refs)
inner(h, o, cdef) ==
    LET Title == IF cdef.field["title"] = <<>> THEN <<>>
                 ELSE Description(cdef.field["title"])
    IN add_all(add_all([h EXCEPT !.objs[o].data = With(@, "title", Title)],
                       o, "DoxyGroup", cdef.field["innergroup"]),
               o, "DoxyClass", cdef.field["innerclass"])

\* _parse of DoxyClass, DoxyFile and DoxyGroup once retrieve_data has the XML.
parse_compound(h, o, cdef) ==
    process_memberdefs(IF h.objs[o].class = "DoxyGroup" THEN inner(h, o, cdef)
                       ELSE set_descriptions(h, o, cdef), o, cdef)

\* Without a compounddef set_descriptions finds no text, and what comes next fails.
parse_bare(h, o) ==
    Raise(IF h.objs[o].class = "DoxyGroup" THEN h
          ELSE [h EXCEPT !.objs[o].data =
                  With(With(@, "brief", <<NoText>>), "detailed", <<NoText>>)],
          "AttributeError")

\* A file that is not XML (ExpatError) is an error of the object; DoxyFile uses
\* the data before it looks at the error.  Any other failure is raised, and the
\* object stays as it is: parsed, without an error, without members.
parse_file(h, o, doc) ==
    IF ~doc.ok
    THEN [h EXCEPT !.objs[o].error = TRUE,
                   !.exc = IF h.objs[o].class = "DoxyFile" THEN "AttributeError" ELSE ""]
    ELSE IF Malformed(doc.root) THEN Raise(h, "ValueError")
    ELSE IF Bare(doc.root) THEN parse_bare(h, o)
    ELSE parse_compound(h, o, CompounddefOf(doc.root))

retrieve_and_parse(h, o) ==
    IF h.objs[o].refid \notin DOMAIN files THEN Raise(h, "IOError")
    ELSE parse_file(h, o, files[h.objs[o].refid])

set_parameters(h, o, pd) ==
    [h EXCEPT !.objs[o].data =
        With(@, "params", [i \in DOMAIN pd.field["param"] |->
                             pd.field["param"][i].field["declname"][1]])]

\* _parse() sets the flag first; failed is a history of the objects whose
\* _parse raised an exception.
Parsed(h, o) == [h EXCEPT !.objs[o].parsed = TRUE]
Noted(h, o) == IF h.exc = "" THEN h ELSE [h EXCEPT !.failed = @ \cup {o}]

\* Mutant: an object is read although it was.
parse_object_Again(h, o) ==
    CASE h.objs[o].class = "DoxyFunction" ->
           set_parameters(set_descriptions(Parsed(h, o), o, h.objs[o].pd[1]),
                          o, h.objs[o].pd[1])
      [] h.objs[o].class \in {"DoxyClass", "DoxyFile", "DoxyGroup"} ->
           Noted(retrieve_and_parse(Parsed(h, o), o), o)
      [] OTHER -> Parsed(h, o)

\* _parse of every class but the index.
parse_object(h, o) ==
    IF h.objs[o].parsed THEN h
    ELSE CASE h.objs[o].class = "DoxyFunction" ->
                set_parameters(set_descriptions(Parsed(h, o), o, h.objs[o].pd[1]),
                               o, h.objs[o].pd[1])
           [] h.objs[o].class \in {"DoxyClass", "DoxyFile", "DoxyGroup"} ->
                Noted(retrieve_and_parse(Parsed(h, o), o), o)
           [] OTHER -> Parsed(h, o)

Confirm(h, o) == IF h.exc = "" /\ h.objs[o].error
                 THEN Raise(h, "ParsingError") ELSE h

\* DoxyIndex._parse: the members of a header are members of the index, before
\* the header itself; other files are left out.  A kind that no class takes is
\* printed by convert_mem and raised by the get_cls that follows.
Attach(h, os) == [h EXCEPT !.objs[1].members = @ \o os]
add_compound(h, pd, o) ==
    IF o = None THEN Raise(h, "StandardError")
    ELSE IF mem_classes[pd.attr["kind"]] # "DoxyFile" THEN Attach(h, <<o>>)
    ELSE IF Last(Last(PdName(pd))) # ".h" THEN h
    ELSE Then(Confirm(parse_object(h, o), o),       \* converted.members()
              LAMBDA g : Attach(g, g.objs[o].members \o <<o>>))
next_compound(c, h, pd) ==
    Then(h, LAMBDA g : Then(convert_mem(g, pd), LAMBDA k : add_compound(k, pd, k.val)))
EachCompound == INSTANCE Iterate WITH Step <- next_compound
add_compounds(h, root) == EachCompound!Loop(<<>>, h, CompoundsOf(root))

parse_index(h) ==
    IF h.objs[1].parsed THEN h
    ELSE Noted(IF "index" \notin DOMAIN files THEN Raise(Parsed(h, 1), "IOError")
               ELSE IF ~files["index"].ok THEN Raise(Parsed(h, 1), "ExpatError")
               ELSE add_compounds(Parsed(h, 1), files["index"].root), 1)

check_parsed(h, o) == IF o = 1 THEN parse_index(h) ELSE parse_object(h, o)
confirm_no_error(h, o) == Confirm(check_parsed(h, o), o)

members(h, o) == Then(confirm_no_error(h, o), LAMBDA g : Return(g, g.objs[o].members))

\* An object that was made from a reference has no parse data; compounddef has
\* no name, and without data there is no compounddef.
name(h, o) ==
    IF h.objs[o].pd # <<>> THEN Return(h, h.objs[o].pd[1].field["name"][1])
    ELSE Then(check_parsed(h, o), LAMBDA g : Raise(g, "AttributeError"))

error(h, o) == Then(check_parsed(h, o), LAMBDA g : Return(g, g.objs[o].error))

\* The properties brief_description, params, ...: a key that _parse did not get
\* to is missing.
data(h, o, key) == Then(confirm_no_error(h, o), LAMBDA g :
    IF key \in DOMAIN g.objs[o].data THEN Return(g, g.objs[o].data[key])
    ELSE Raise(g, "KeyError"))

\* in_category for a category that is a class of objects; "None" is all.
OfClass(h, os, cat) ==
    Picked(os, {i \in DOMAIN os : os[i] # None /\ h.objs[os[i]].class = cat})
Category(h, o, cat, list) ==
    Return([h EXCEPT !.objs[o].cats = With(@, cat, list)], list)

\* Mutant: the list is made of the members that are there before the file is read.
in_category_Unread(h, o, cat) == Then(confirm_no_error(h, o), LAMBDA g :
    IF cat = "None" THEN Return(g, g.objs[o].members)
    ELSE IF cat \in DOMAIN h.objs[o].cats THEN Return(g, h.objs[o].cats[cat])
    ELSE Category(g, o, cat, OfClass(h, h.objs[o].members, cat)))

in_category(h, o, cat) == Then(confirm_no_error(h, o), LAMBDA g :
    IF cat = "None" THEN Return(g, g.objs[o].members)
    ELSE IF cat \in DOMAIN g.objs[o].cats THEN Return(g, g.objs[o].cats[cat])
    ELSE Category(g, o, cat, OfClass(g, g.objs[o].members, cat)))

\* The entries of a list of objects by name.
Dictionary(h, os) ==
    LET Name(i) == h.objs[os[i]].pd[1].field["name"][1]
    IN [n \in {Name(i) : i \in DOMAIN os} |->
          LET at == {i \in DOMAIN os : Name(i) = n}
          IN IF Cardinality(at) > 1 THEN Duplicated ELSE os[CHOOSE i \in at : TRUE]]

\* name() of every member comes first: it fails for None and for an object made
\* from a reference (after reading its file).
next_name(c, h, m) ==
    Then(h, LAMBDA g : IF m = None THEN Raise(g, "AttributeError") ELSE name(g, m))
EachName == INSTANCE Iterate WITH Step <- next_name
NameAll(h, os) == EachName!Loop(<<>>, h, os)
Entries(h, o, cat, dict) ==
    Return([h EXCEPT !.objs[o].dicts = With(@, cat, dict)], dict)
get_dict_members(h, o, cat) == Then(in_category(h, o, cat), LAMBDA g :
    IF cat \in DOMAIN g.objs[o].dicts THEN Return(g, g.objs[o].dicts[cat])
    ELSE Then(NameAll(g, g.val), LAMBDA k : Entries(k, o, cat, Dictionary(k, g.val))))

\* get_member: a part of the name is looked up in the object that the parts
\* before it name.
look_up(cat, h, part) == Then(h, LAMBDA l : Then(get_dict_members(l, l.val, cat),
    LAMBDA g : IF <<part>> \notin DOMAIN g.val THEN Raise(g, "NoSuchMember")
               ELSE IF g.val[<<part>>] = Duplicated THEN Raise(g, "Duplicate")
               ELSE Return(g, g.val[<<part>>])))
EachPart == INSTANCE Iterate WITH Step <- look_up
get_member(h, o, nm, cat) == EachPart!Loop(cat, Return(h, o), nm)

\* The two callers of get_member that take NoSuchMember for an answer.
Absent(h, v) == IF h.exc = "NoSuchMember" THEN Return(Raise(h, ""), v) ELSE h
has_member(h, o, nm, cat) ==
    Absent(Then(get_member(h, o, nm, cat), LAMBDA g : Return(g, TRUE)), FALSE)

=============================================================================
