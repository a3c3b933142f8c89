---------------------------- MODULE DoxygenTree ----------------------------
(***************************************************************************)
(* What the generated classes of DoxygenSchema do with a document: build() *)
(* turns a DOM tree into objects, export() writes objects as XML, and      *)
(* doxyxml/text.py takes the text out of the objects of a description.     *)
(*                                                                         *)
(* A DOM node is an element [tag, attrs, kids] or a text [text].  CDATA    *)
(* sections, which doxygen does not write, and the prefixes of qualified   *)
(* names are left out.                                                     *)
(***************************************************************************)
EXTENDS Naturals, Sequences, FiniteSets, TLC, SequencesExt, DoxygenText

LOCAL S == INSTANCE DoxygenSchema

Elem(tag, attrs, kids) == [tag |-> tag, attrs |-> attrs, kids |-> kids]
Txt(text) == [text |-> text]
IsText(node) == "text" \in DOMAIN node
Classes == DOMAIN S!Schema

\* X.factory() gives an object of the subclass that compound.py registers (sub);
\* when compoundsuper.py runs on its own there is none.  But for paragraphs the
\* subclasses only give a text element that is missing the default '' for None.
Factory(class, sub) ==
    S!Schema[IF sub /\ class = "docParaType" THEN "docParaTypeSub" ELSE class]

KidOf(row, tag) == SelectSeq(row.kids, LAMBDA k : k[1] = tag)
TextOf(nodes) == FlattenSeq([i \in DOMAIN nodes |->
                               IF IsText(nodes[i]) THEN nodes[i].text ELSE <<>>])

\* build() raises: an attribute is not the integer it should be, or an element
\* that should hold a text only holds another one (whose nodeValue is None).
RECURSIVE Unbuildable(_, _)
UnbuildableKid(k, kid) ==
    IF k[3] = "str" THEN \E j \in DOMAIN kid.kids : ~IsText(kid.kids[j])
    ELSE Unbuildable(k[3], kid)
UnbuildableNode(row, node) ==
    \/ \E a \in DOMAIN node.attrs \cap DOMAIN row.attrs :
          row.attrs[a] = "int" /\ node.attrs[a] # Number
    \/ \E kid \in Range(node.kids) :
          /\ ~IsText(kid)
          /\ \E k \in Range(KidOf(row, kid.tag)) : UnbuildableKid(k, kid)
Unbuildable(class, node) == UnbuildableNode(S!Schema[class], node)

\* build(): the object that a class makes of an element.  field holds the
\* children by tag, content_ the items of a mixed class (a name, "" for a text,
\* and a value), content those of docParaTypeSub, valueOf_ the text of a class
\* that has one.
RECURSIVE Build(_, _, _)

\* buildChildren(): what one node adds, <<name, how the class keeps it, value>>.
BuildChild(k, kid, sub) ==
    <<k[1], k[2], IF k[3] = "str" THEN TextOf(kid.kids) ELSE Build(k[3], kid, sub)>>
BuildNode(row, kid, sub) ==
    IF IsText(kid) THEN <<<<"", "txt", kid.text>>>>
    ELSE IF KidOf(row, kid.tag) = <<>> THEN <<>>
    ELSE <<BuildChild(KidOf(row, kid.tag)[1], kid, sub)>>

ItemsOf(parts, hows) ==
    LET kept == SelectSeq(parts, LAMBDA p : p[2] \in hows)
    IN [i \in DOMAIN kept |-> <<kept[i][1], kept[i][3]>>]
ValuesOf(parts, tag) ==
    LET kept == SelectSeq(parts, LAMBDA p : p[1] = tag)
    IN [i \in DOMAIN kept |-> kept[i][3]]
\* A list keeps every value, any other attribute the last one.
FieldOf(how, values, sub) ==
    CASE how \in {"many", "texts"} -> values
      [] values # <<>>             -> <<Last(values)>>
      [] OTHER -> IF how = "text" /\ sub THEN <<<<>>>> ELSE <<>>

\* The object, from the parts that its nodes add.
BuildParts(row, nodes, sub) ==
    FlattenSeq([i \in DOMAIN nodes |-> BuildNode(row, nodes[i], sub)])
BuildObject(class, row, node, parts, sub) ==
    [class |-> class,
     attr  |-> [a \in DOMAIN node.attrs \cap DOMAIN row.attrs |-> node.attrs[a]],
     field |-> [t \in {k[1] : k \in {q \in Range(row.kids) :
                              q[2] \notin {"item", "simple", "content"}}} |->
                  FieldOf(KidOf(row, t)[1][2], ValuesOf(parts, t), sub)],
     content_ |-> IF row.text \in {"mixed", "both", "para"}
                  THEN ItemsOf(parts, {"txt", "item", "simple"}) ELSE <<>>,
     content  |-> IF row.text = "para" THEN ItemsOf(parts, {"txt", "content"}) ELSE <<>>,
     valueOf_ |-> IF row.text \in {"value", "both", "para"}
                  THEN TextOf(node.kids) ELSE <<>>]
BuildAs(class, row, node, sub) ==
    BuildObject(class, row, node, BuildParts(row, node.kids, sub), sub)
Build(class, node, sub) == BuildAs(class, Factory(class, sub), node, sub)

\* export() of an object that was built without compound.py, read back as a
\* node: a class with a valueOf_ writes that text, a mixed class its items, any
\* other class its children in the order of its row, each on a line of its own.
RECURSIVE Export(_, _)

\* exportAttributes(): these attributes are written also when there are none, as
\* what Python prints for None.
Always(class) == CASE class \in {"DoxygenType", "IndexType"} -> {"version"}
                   [] class \in {"CompoundType", "MemberType"} -> {"kind", "refid"}
                   [] OTHER -> {}
ExportAttributes(obj) ==
    obj.attr @@ [a \in Always(obj.class) |-> NoText]

ExportChild(k, v) ==
    CASE k[2] = "repr" -> Elem(k[1], <<>>, <<Txt(<<Printed>>)>>)
      [] k[3] = "str"  -> Elem(k[1], <<>>, <<Txt(v)>>)
      [] OTHER         -> Export(k[1], v)

\* Mutant: an object among the items is exported under the name of its class.
ExportItem_ByClass(row, item) ==
    IF item[1] = "" THEN <<Txt(item[2])>>
    ELSE IF KidOf(row, item[1])[1][2] = "simple"
    THEN <<Elem(item[1], <<>>, <<Txt(item[2])>>)>>
    ELSE <<Txt(<<Blank>>), Export(item[2].class, item[2]), Txt(<<Blank>>)>>

ExportItem(row, item) ==
    IF item[1] = "" THEN <<Txt(item[2])>>
    ELSE IF KidOf(row, item[1])[1][2] = "simple"
    THEN <<Elem(item[1], <<>>, <<Txt(item[2])>>)>>
    ELSE <<Txt(<<Blank>>), Export(item[1], item[2]), Txt(<<Blank>>)>>

Export(tag, obj) ==
    LET row == S!Schema[obj.class]
        Children(k) == FlattenSeq([j \in DOMAIN obj.field[k[1]] |->
                          <<Txt(<<Blank>>), ExportChild(k, obj.field[k[1]][j])>>])
    IN Elem(tag, ExportAttributes(obj),
            CASE row.text = "none" -> FlattenSeq([i \in DOMAIN row.kids |->
                                                    Children(row.kids[i])])
              [] row.text = "mixed" -> FlattenSeq([i \in DOMAIN obj.content_ |->
                                                     ExportItem(row, obj.content_[i])])
              [] OTHER -> <<Txt(obj.valueOf_)>>)

\* MixedContainer.export and exportSimple write a text as it is, without
\* quote_xml: with a reserved character in it the file is not XML any more.
RECURSIVE Unquoted(_)
Unquoted(obj) ==
    LET row == S!Schema[obj.class] IN
    CASE row.text = "none" ->
           \E k \in Range(row.kids) :
              /\ k[2] \in {"one", "many"} /\ k[3] # "str"
              /\ \E v \in Range(obj.field[k[1]]) : Unquoted(v)
      [] row.text = "mixed" ->
           \E item \in Range(obj.content_) :
              IF item[1] = "" \/ KidOf(row, item[1])[1][2] = "simple"
              THEN Markup \in Range(item[2]) ELSE Unquoted(item[2])
      [] OTHER -> FALSE

\* text.py: description_bit takes the text of content, else of content_; a
\* paragraph among the items ends with a break.
RECURSIVE description_bit(_)
description_bit(obj) ==
    LET items == IF obj.class = "docParaType"
                 THEN obj.content ELSE obj.content_
        Bit(item) == (IF item[1] \in {"", "name", "sp"} THEN item[2]
                      ELSE description_bit(item[2]))
                     \o (IF item[1] = "para" THEN <<Break>> ELSE <<>>)
    IN FlattenSeq([i \in DOMAIN items |-> Bit(items[i])])

\* str.strip()
Strip(text) ==
    LET solid == {i \in DOMAIN text : text[i] \notin {Blank, Break}} IN
    IF solid = {} THEN <<>>
    ELSE SubSeq(text, CHOOSE i \in solid : \A j \in solid : i <= j,
                      CHOOSE i \in solid : \A j \in solid : i >= j)

\* text.py: the description of an element that may be missing (obj is a list of
\* at most one object).
description(obj) == IF obj = <<>> THEN <<NoText>>
                    ELSE Strip(description_bit(obj[1]))

=============================================================================
