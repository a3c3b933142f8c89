----------------------------- MODULE MCDoxygen -----------------------------
(***************************************************************************)
(* Instances for SwigDoc and DoxygenCopy: small sets of XML files like the *)
(* ones that doxygen writes for a block gr_a and a class gr_b, with each   *)
(* of the things that can be wrong with them; one sample of every element. *)
(***************************************************************************)
EXTENDS SwigDoc, DoxygenCopy

\* What the generated classes and text.py make of a file.
MCMalformed(root) == Unbuildable("DoxygenType", root)
MCBare(root) == Build("DoxygenType", root, TRUE).field["compounddef"] = <<>>
MCCompounddefOf(root) == Build("DoxygenType", root, TRUE).field["compounddef"][1]
MCCompoundsOf(root) == Build("IndexType", root, TRUE).field["compound"]
MCDescription(obj) == description(obj)

\* Names.
A == <<<<"gr", "a">>>>
B == <<<<"ns">>, <<"gr", "b">>>>
MakeA == <<<<"gr", "make", "a">>>>
Word(w) == Txt(<<<<w>>>>)
Named_(tag, nm) == Elem(tag, <<>>, <<Txt(nm)>>)

\* Descriptions: a sentence with a reference and an emphasis, or an empty one.
Para(w) == Elem("para", <<>>, <<Word(w), Elem("ref", [refid |-> "r"], <<Word("ref")>>),
                                Elem("emphasis", <<>>, <<Word("lost")>>)>>)
Brief(w) == Elem("briefdescription", <<>>, <<Txt(<<Blank>>), Para(w), Txt(<<Blank>>)>>)
Detailed(w) == Elem("detaileddescription", <<>>,
                    IF w = "" THEN <<>> ELSE <<Para(w), Para(w)>>)

Texts(w) == <<Brief(w), Detailed("more")>>
Silence == <<Elem("briefdescription", <<>>, <<>>), Detailed("")>>

Described(kind, nm, params, texts) ==
    Elem("memberdef", [kind |-> kind, id |-> "m"],
         <<Named_("name", nm)>> \o params \o texts)
Member(kind, nm, params) == Described(kind, nm, params, <<Brief("member"), Detailed("")>>)
Param == Elem("param", <<>>, <<Elem("type", <<>>, <<Word("int")>>),
                               Elem("declname", <<>>, <<Word("n")>>)>>)
Unnamed == Elem("param", <<>>, <<Elem("type", <<>>, <<Word("int")>>)>>)

File(kind, more, mems, texts) ==
    [ok |-> TRUE, root |-> Elem("doxygen", [version |-> "1"],
       <<Elem("compounddef", [kind |-> kind, id |-> "c"],
              <<Elem("compoundname", <<>>, <<Word("c")>>)>> \o more \o
              <<Elem("sectiondef", [kind |-> "func"], mems)>> \o texts)>>)]
NoCompound == [ok |-> TRUE, root |-> Elem("doxygen", [version |-> "1"], <<>>)]
Corrupt == [ok |-> FALSE, root |-> Word("?")]
BadLine == Elem("location", [line |-> <<"x">>], <<>>)

Compound(kind, refid, nm) ==
    Elem("compound", [kind |-> kind, refid |-> refid], <<Named_("name", nm)>>)
Index(compounds) == [ok |-> TRUE, root |-> Elem("doxygenindex", [version |-> "1"], compounds)]
InnerClass(refid) == Elem("innerclass", [refid |-> refid], <<Word("x")>>)

\* A documentation: the file of the block, of its header, where its make
\* function is declared, whether it has a constructor and a friend, what else is
\* in the index.  Nothing but the make function describes the block ("told"), and
\* not even that ("silent").
Doc(v) ==
    LET header(nm) == <<<<"gr", nm, ".h">>>>
        ClassA == File("class", <<>>,
            (IF v.friend THEN <<Member("friend", MakeA, <<>>)>> ELSE <<>>)
            \o (IF v.ctor THEN <<Member("function", A, <<Param, Unnamed>>),
                                 Member("function", A, <<>>)>> ELSE <<>>)
            \o <<Member("property", <<<<"p">>>>, <<>>), Member("variable", <<<<"v">>>>, <<>>),
                 Member("function", <<<<"operator", "x">>>>, <<>>)>>,
            IF v.make \in {"told", "silent"} THEN Silence ELSE Texts("block"))
        HeaderA == File("file", <<>>,
            (CASE v.make = "no"     -> <<>>
               [] v.make = "silent" -> <<Described("function", MakeA, <<>>, Silence)>>
               [] OTHER             -> <<Member("function", MakeA, <<Param>>)>>)
            \o <<Member("function", <<<<"f">>>>, <<Param, Param>>)>>,
            IF v.make \in {"told", "silent"} THEN Silence ELSE Texts("file"))
        HeaderB == File("file", <<>>,
            (IF v.make = "ab" THEN <<Member("function", MakeA, <<>>)>> ELSE <<>>)
            \o <<Member("function", <<<<"g">>>>, <<>>)>>, Texts(""))
        Kept == {"index", "b", "bh", "ah2", "grp"} \cup (IF v.class = "missing" THEN {} ELSE {"a"})
                \cup (IF v.header = "missing" THEN {} ELSE {"ah"})
    IN [r \in Kept |->
         CASE r = "index" /\ v.index = "corrupt" -> Corrupt
           [] r = "index" -> Index(
                <<Compound("file", "cc", <<<<"gr", "a", ".cc">>>>),
                  Compound("class", "b", B), Compound("file", "bh", header("b"))>>
                \o (IF v.index = "twice" THEN <<Compound("file", "ah2", header("a"))>> ELSE <<>>)
                \o <<Compound("file", "ah", header("a")), Compound("class", "a", A),
                     Compound("group", "grp", <<<<"grp">>>>)>>
                \o (IF v.index = "odd" THEN <<Compound("interface", "i", <<<<"i">>>>)>> ELSE <<>>)
                \o <<Compound("namespace", "ns", <<<<"ns">>>>)>>)
           [] r = "a" -> (CASE v.class = "corrupt" -> Corrupt
                           [] v.class = "bare" -> NoCompound
                           [] OTHER -> ClassA)
           [] r = "ah" -> (CASE v.header = "corrupt" -> Corrupt
                            [] v.header = "bare" -> NoCompound
                            [] v.header = "badline" ->
                                 File("file", <<BadLine>>, <<>>, Texts("file"))
                            [] OTHER -> HeaderA)
           [] r = "bh" -> HeaderB
           [] r = "ah2" -> File("file", <<>>, <<>>, Texts("other"))
           [] r = "b" -> File("class", <<>>, <<Member("function", <<<<"h">>>>, <<>>),
                                             Member("friend", make_name(B), <<>>)>>,
                              <<Elem("briefdescription", <<>>, <<>>), Detailed("more")>>)
           [] r = "grp" -> File("group", <<Elem("title", <<>>, <<Word("title")>>),
                                  InnerClass("a"), InnerClass("ghost")>>, <<>>, Texts("group"))]

Variants == {v \in [class: {"ok", "corrupt", "missing", "bare"},
                    header: {"ok", "corrupt", "missing", "badline", "bare"},
                    make: {"a", "ab", "no", "told", "silent"}, ctor: BOOLEAN, friend: BOOLEAN,
                    index: {"plain", "twice", "odd", "corrupt"}] :
                v.make \in {"told", "silent"} => v.class = "ok" /\ v.header = "ok"}
MCScriptDocs == {Doc(v) : v \in Variants}
MCLibraryDocs == {Doc(v) : v \in {w \in Variants : /\ w.make = "ab" /\ w.ctor /\ w.friend
                                                 /\ w.index \in {"plain", "odd"}
                                                 /\ w.header \in {"ok", "corrupt"}}}
MCLibraryNames == {A, B, MakeA}

\* A sample of an element: every attribute or none, every child (two of a list), text
\* around the children where the class keeps it; depth levels of children.
Attrs(row, some) == [a \in {n \in DOMAIN row.attrs : some} |->
                       IF row.attrs[a] = "int" THEN Number ELSE <<a>>]
RECURSIVE Sample(_, _, _, _, _)
Sample(tag, class, token, depth, some) ==
    LET row == Factory(class, FALSE)
        Text_ == IF row.text = "none" THEN <<>> ELSE <<Txt(<<token>>)>>
        Kid(k) == IF k[3] = "str" THEN Elem(k[1], <<>>, <<Txt(<<token>>)>>)
                  ELSE Sample(k[1], k[3], token, depth - 1, some)
        Kids(k) == <<Kid(k)>> \o Text_ \o (IF k[2] \in {"many", "texts", "item"}
                                           THEN <<Kid(k)>> ELSE <<>>)
    IN Elem(tag, Attrs(row, some), Text_ \o
            IF depth = 0 THEN <<>>
            ELSE FlattenSeq([i \in DOMAIN row.kids |-> Kids(row.kids[i])]))
MCSources == {[class |-> c, node |-> Sample("sample", c, t, d, some)] :
                c \in Classes \ {"docParaTypeSub"}, t \in {<<"w">>, Markup}, d \in 0..2,
                some \in BOOLEAN}

\* A process runs one of the three programs.
Idle == [class |-> "idle"]
Init == \/ SwigInit /\ source = Idle /\ built = Nothing
           /\ copy = [wellformed |-> FALSE] /\ reread = Nothing
        \/ CopyInit /\ pc = "idle" /\ files = <<>> /\ heap = EmptyHeap /\ todo = <<>>
           /\ blocks = {} /\ make_funcs = {} /\ output = <<>> /\ calls = 0
Next == \/ SwigNext /\ UNCHANGED copyvars
        \/ source # Idle /\ CopyNext /\ UNCHANGED swigvars
vars == <<swigvars, copyvars>>
Spec == Init /\ [][Next]_vars

=============================================================================
