--------------------------- MODULE DoxygenSchema ---------------------------
(***************************************************************************)
(* The classes that generateDS.py generated from doxygen's XML schemas:     *)
(* docs/doxygen/doxyxml/generated/compoundsuper.py (a file per compound)   *)
(* and indexsuper.py (index.xml).  Each class is one row: the attributes   *)
(* that buildAttributes reads, the child elements that buildChildren takes *)
(* with what becomes of each, and what becomes of the text between them.   *)
(* A child that has no entry is dropped.  DoxygenTree interprets the rows. *)
(*                                                                         *)
(* The getters, setters and adders only read or assign the fields that the *)
(* rows name, and exportLiteral (a dump as Python source, which nothing in *)
(* the repository calls) is left out.                                      *)
(***************************************************************************)
EXTENDS TLC

Str(names) == [a \in names |-> "str"]   \* attributes kept as they are
Int(names) == [a \in names |-> "int"]   \* attributes converted by int()
NoAttrs    == Str({})

One(tag, class)  == <<tag, "one", class>>      \* an object; the last one stays
Repr(tag, class) == <<tag, "repr", class>>     \* an object, exported as a text
Many(tag, class) == <<tag, "many", class>>     \* a list of objects
Text(tag)        == <<tag, "text", "str">>     \* the text of the element
Texts(tag)       == <<tag, "texts", "str">>    \* a list of such texts
Item(tag, class) == <<tag, "item", class>>     \* an object in content_
Simple(tag)      == <<tag, "simple", "str">>   \* a text in content_

\* What a class does with the text between its children: nothing; valueOf_;
\* items of content_ among those of its children; both of the last two.
Plain(attrs, kids) == [attrs |-> attrs, kids |-> kids, text |-> "none"]
Valued(attrs)      == [attrs |-> attrs, kids |-> <<>>, text |-> "value"]
Mixed(attrs, kids) == [attrs |-> attrs, kids |-> kids, text |-> "mixed"]
Both(attrs)        == [attrs |-> attrs, kids |-> <<>>, text |-> "both"]

\* index.xml.  IndexType is the class DoxygenType of indexsuper.py; the other
\* classes keep the names they have in the code.
IndexType == Plain(Str({"version"}), <<Many("compound", "CompoundType")>>)
CompoundType == Plain(Str({"kind", "refid"}), <<Text("name"),
    Many("member", "MemberType")>>)
MemberType == Plain(Str({"kind", "refid"}), <<Text("name")>>)

\* The file of a compound.
DoxygenType == Plain(Str({"version"}), <<
    One("compounddef", "compounddefType")>>)
compounddefType == Plain(Str({"kind", "prot", "id"}), <<
    Text("compoundname"), Repr("title", "docTitleType"),
    Many("basecompoundref", "compoundRefType"),
    Many("derivedcompoundref", "compoundRefType"),
    Many("includes", "incType"), Many("includedby", "incType"),
    One("incdepgraph", "graphType"), One("invincdepgraph", "graphType"),
    Many("innerdir", "refType"), Many("innerfile", "refType"),
    Many("innerclass", "refType"), Many("innernamespace", "refType"),
    Many("innerpage", "refType"), Many("innergroup", "refType"),
    One("templateparamlist", "templateparamlistType"),
    Many("sectiondef", "sectiondefType"),
    One("briefdescription", "descriptionType"),
    One("detaileddescription", "descriptionType"),
    One("inheritancegraph", "graphType"),
    One("collaborationgraph", "graphType"),
    One("programlisting", "listingType"), One("location", "locationType"),
    One("listofallmembers", "listofallmembersType")>>)
listofallmembersType == Plain(NoAttrs, <<Many("member", "memberRefType")>>)
memberRefType == Plain(Str({"virt", "prot", "refid", "ambiguityscope"}), <<
    Text("scope"), Text("name")>>)
scope == Valued(NoAttrs)
name == Valued(NoAttrs)
compoundRefType == Both(Str({"virt", "prot", "refid"}))
reimplementType == Both(Str({"refid"}))
incType == Both(Str({"local", "refid"}))
refType == Both(Str({"prot", "refid"}))
refTextType == Both(Str({"refid", "kindref", "external"}))
sectiondefType == Plain(Str({"kind"}), <<Text("header"),
    One("description", "descriptionType"),
    Many("memberdef", "memberdefType")>>)
memberdefType == Plain(Str({"initonly", "kind", "volatile", "const",
    "raise", "virt", "readable", "prot", "explicit", "new", "final",
    "writable", "add", "static", "remove", "sealed", "mutable", "gettable",
    "inline", "settable", "id"}), <<
    One("templateparamlist", "templateparamlistType"),
    One("type", "linkedTextType"), Text("definition"), Text("argsstring"),
    Text("name"), Text("read"), Text("write"), Text("bitfield"),
    Many("reimplements", "reimplementType"),
    Many("reimplementedby", "reimplementType"), Many("param", "paramType"),
    Many("enumvalue", "enumvalueType"),
    One("initializer", "linkedTextType"),
    One("exceptions", "linkedTextType"),
    One("briefdescription", "descriptionType"),
    One("detaileddescription", "descriptionType"),
    One("inbodydescription", "descriptionType"),
    One("location", "locationType"), Many("references", "referenceType"),
    Many("referencedby", "referenceType")>>)
definition == Valued(NoAttrs)
argsstring == Valued(NoAttrs)
read == Valued(NoAttrs)
write == Valued(NoAttrs)
bitfield == Valued(NoAttrs)
descriptionType == Mixed(NoAttrs, <<Item("title", "docTitleType"),
    Item("para", "docParaType"), Item("sect1", "docSect1Type"),
    Item("internal", "docInternalType")>>)
enumvalueType == Mixed(Str({"prot", "id"}), <<Simple("name"),
    Item("initializer", "linkedTextType"),
    Item("briefdescription", "descriptionType"),
    Item("detaileddescription", "descriptionType")>>)
templateparamlistType == Plain(NoAttrs, <<Many("param", "paramType")>>)
paramType == Plain(NoAttrs, <<One("type", "linkedTextType"),
    Text("declname"), Text("defname"), Text("array"),
    One("defval", "linkedTextType"),
    One("briefdescription", "descriptionType")>>)
declname == Valued(NoAttrs)
defname == Valued(NoAttrs)
array == Valued(NoAttrs)
linkedTextType == Mixed(NoAttrs, <<Item("ref", "docRefTextType")>>)
graphType == Plain(NoAttrs, <<Many("node", "nodeType")>>)
nodeType == Plain(Str({"id"}), <<Text("label"), One("link", "linkType"),
    Many("childnode", "childnodeType")>>)
label == Valued(NoAttrs)
childnodeType == Plain(Str({"relation", "refid"}), <<Texts("edgelabel")>>)
edgelabel == Valued(NoAttrs)
linkType == Valued(Str({"refid", "external"}))
listingType == Plain(NoAttrs, <<Many("codeline", "codelineType")>>)
codelineType == Plain(Str({"external", "refkind",
    "refid"}) @@ Int({"lineno"}), <<Many("highlight", "highlightType")>>)
highlightType == Mixed(Str({"class"}), <<Simple("sp"),
    Item("ref", "docRefTextType")>>)
sp == Valued(NoAttrs)
referenceType == Both(Str({"refid", "compoundref"}) @@ Int({"endline",
    "startline"}))
locationType == Valued(Str({"bodyfile", "file"}) @@ Int({"bodystart",
    "line", "bodyend"}))
docSect1Type == Mixed(Str({"id"}), <<Item("title", "docTitleType"),
    Item("para", "docParaType"), Item("sect2", "docSect2Type"),
    Item("internal", "docInternalS1Type")>>)
docSect2Type == Mixed(Str({"id"}), <<Item("title", "docTitleType"),
    Item("para", "docParaType"), Item("sect3", "docSect3Type"),
    Item("internal", "docInternalS2Type")>>)
docSect3Type == Mixed(Str({"id"}), <<Item("title", "docTitleType"),
    Item("para", "docParaType"), Item("sect4", "docSect4Type"),
    Item("internal", "docInternalS3Type")>>)
docSect4Type == Mixed(Str({"id"}), <<Item("title", "docTitleType"),
    Item("para", "docParaType"), Item("internal", "docInternalS4Type")>>)
docInternalType == Mixed(NoAttrs, <<Item("para", "docParaType"),
    Item("sect1", "docSect1Type")>>)
docInternalS1Type == Mixed(NoAttrs, <<Item("para", "docParaType"),
    Item("sect2", "docSect2Type")>>)
docInternalS2Type == Mixed(NoAttrs, <<Item("para", "docParaType"),
    Item("sect3", "docSect3Type")>>)
docInternalS3Type == Mixed(NoAttrs, <<Item("para", "docParaType"),
    Item("sect3", "docSect4Type")>>)
docInternalS4Type == Mixed(NoAttrs, <<Item("para", "docParaType")>>)
docTitleType == Both(NoAttrs)
docParaType == Both(NoAttrs)
docMarkupType == Both(NoAttrs)
docURLLink == Both(Str({"url"}))
docAnchorType == Both(Str({"id"}))
docFormulaType == Both(Str({"id"}))
docIndexEntryType == Plain(NoAttrs, <<Text("primaryie"),
    Text("secondaryie")>>)
docListType == Plain(NoAttrs, <<Many("listitem", "docListItemType")>>)
docListItemType == Plain(NoAttrs, <<Many("para", "docParaType")>>)
docSimpleSectType == Plain(Str({"kind"}), <<One("title", "docTitleType"),
    Many("para", "docParaType")>>)
docVarListEntryType == Plain(NoAttrs, <<One("term", "docTitleType")>>)
docVariableListType == Valued(NoAttrs)
docRefTextType == Both(Str({"refid", "kindref", "external"}))
docTableType == Plain(Int({"rows", "cols"}), <<Many("row", "docRowType"),
    One("caption", "docCaptionType")>>)
docRowType == Plain(NoAttrs, <<Many("entry", "docEntryType")>>)
docEntryType == Plain(Str({"thead"}), <<Many("para", "docParaType")>>)
docCaptionType == Both(NoAttrs)
docHeadingType == Both(Int({"level"}))
docImageType == Both(Str({"width", "type", "name", "height"}))
docDotFileType == Both(Str({"name"}))
docTocItemType == Both(Str({"id"}))
docTocListType == Plain(NoAttrs, <<Many("tocitem", "docTocItemType")>>)
docLanguageType == Plain(Str({"langid"}), <<Many("para", "docParaType")>>)
docParamListType == Plain(Str({"kind"}), <<
    Many("parameteritem", "docParamListItem")>>)
docParamListItem == Plain(NoAttrs, <<
    Many("parameternamelist", "docParamNameList"),
    One("parameterdescription", "descriptionType")>>)
docParamNameList == Plain(NoAttrs, <<
    Many("parametername", "docParamName")>>)
docParamName == Mixed(Str({"direction"}), <<Item("ref", "docRefTextType")>>)
docXRefSectType == Plain(Str({"id"}), <<Texts("xreftitle"),
    One("xrefdescription", "descriptionType")>>)
docCopyType == Plain(Str({"link"}), <<Many("para", "docParaType"),
    Many("sect1", "docSect1Type"), One("internal", "docInternalType")>>)
docCharType == Valued(Str({"char"}))
docEmptyType == Valued(NoAttrs)

\* The class of the paragraphs that doxyxml reads: compound.py derives it from
\* docParaType and puts the text and the references in a list "content" of its
\* own, and keeps the lists of parameters and the simple sections.
docParaTypeSub == [docParaType EXCEPT !.text = "para", !.kids =
    <<<<"ref", "content", "docRefTextType">>,   \* an object in content
      Many("parameterlist", "docParamListType"),
      Many("simplesect", "docSimpleSectType")>>]

Schema == [
    IndexType |-> IndexType, CompoundType |-> CompoundType,
    MemberType |-> MemberType, DoxygenType |-> DoxygenType,
    compounddefType |-> compounddefType,
    listofallmembersType |-> listofallmembersType,
    memberRefType |-> memberRefType, scope |-> scope, name |-> name,
    compoundRefType |-> compoundRefType, reimplementType |-> reimplementType,
    incType |-> incType, refType |-> refType, refTextType |-> refTextType,
    sectiondefType |-> sectiondefType, memberdefType |-> memberdefType,
    definition |-> definition, argsstring |-> argsstring, read |-> read,
    write |-> write, bitfield |-> bitfield,
    descriptionType |-> descriptionType, enumvalueType |-> enumvalueType,
    templateparamlistType |-> templateparamlistType, paramType |-> paramType,
    declname |-> declname, defname |-> defname, array |-> array,
    linkedTextType |-> linkedTextType, graphType |-> graphType,
    nodeType |-> nodeType, label |-> label, childnodeType |-> childnodeType,
    edgelabel |-> edgelabel, linkType |-> linkType,
    listingType |-> listingType, codelineType |-> codelineType,
    highlightType |-> highlightType, sp |-> sp,
    referenceType |-> referenceType, locationType |-> locationType,
    docSect1Type |-> docSect1Type, docSect2Type |-> docSect2Type,
    docSect3Type |-> docSect3Type, docSect4Type |-> docSect4Type,
    docInternalType |-> docInternalType,
    docInternalS1Type |-> docInternalS1Type,
    docInternalS2Type |-> docInternalS2Type,
    docInternalS3Type |-> docInternalS3Type,
    docInternalS4Type |-> docInternalS4Type, docTitleType |-> docTitleType,
    docParaType |-> docParaType, docMarkupType |-> docMarkupType,
    docURLLink |-> docURLLink, docAnchorType |-> docAnchorType,
    docFormulaType |-> docFormulaType,
    docIndexEntryType |-> docIndexEntryType, docListType |-> docListType,
    docListItemType |-> docListItemType,
    docSimpleSectType |-> docSimpleSectType,
    docVarListEntryType |-> docVarListEntryType,
    docVariableListType |-> docVariableListType,
    docRefTextType |-> docRefTextType, docTableType |-> docTableType,
    docRowType |-> docRowType, docEntryType |-> docEntryType,
    docCaptionType |-> docCaptionType, docHeadingType |-> docHeadingType,
    docImageType |-> docImageType, docDotFileType |-> docDotFileType,
    docTocItemType |-> docTocItemType, docTocListType |-> docTocListType,
    docLanguageType |-> docLanguageType,
    docParamListType |-> docParamListType,
    docParamListItem |-> docParamListItem,
    docParamNameList |-> docParamNameList, docParamName |-> docParamName,
    docXRefSectType |-> docXRefSectType, docCopyType |-> docCopyType,
    docCharType |-> docCharType, docEmptyType |-> docEmptyType,
    docParaTypeSub |-> docParaTypeSub]

=============================================================================
