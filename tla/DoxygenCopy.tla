---------------------------- MODULE DoxygenCopy ----------------------------
(***************************************************************************)
(* compoundsuper.py as a program: main() parses a file and exports what it *)
(* understood of it.  The copy is read again, to compare.                  *)
(***************************************************************************)
EXTENDS DoxygenTree

CONSTANT Sources   \* the elements to copy: [class, node]

VARIABLES source,  \* the element of the file
          built,   \* the object that build() made of it
          copy,    \* what export() wrote: a node, or one that is not XML
          reread   \* the object that build() makes of the copy

copyvars == <<source, built, copy, reread>>
Nothing == [class |-> "none"]

CopyInit == /\ source \in Sources
            /\ built = Nothing /\ copy = [wellformed |-> FALSE] /\ reread = Nothing

\* parse(): the subclasses of compound.py are not there.
Parse ==
    /\ built = Nothing /\ ~Unbuildable(source.class, source.node)
    /\ built' = Build(source.class, source.node, FALSE)
    /\ UNCHANGED <<source, copy, reread>>

Write ==
    /\ built # Nothing /\ "node" \notin DOMAIN copy
    /\ copy' = [wellformed |-> ~Unquoted(built), node |-> Export("copy", built)]
    /\ UNCHANGED <<source, built, reread>>

Reread ==
    /\ "node" \in DOMAIN copy /\ copy.wellformed /\ reread = Nothing
    /\ reread' = Build(source.class, copy.node, FALSE)
    /\ UNCHANGED <<source, built, copy>>

CopyNext == Parse \/ Write \/ Reread

\* Two objects are alike when they differ in white space only, which export()
\* adds around elements.
Solid(text) == SelectSeq(text, LAMBDA t : t # Blank)
RECURSIVE Alike(_, _)
Alike(a, b) ==
    LET row == Factory(a.class, FALSE)
        AsText(tag) == tag = "" \/ KidOf(row, tag)[1][3] = "str"
        Items(o) == SelectSeq(o.content_, LAMBDA i : i[1] # "" \/ Solid(i[2]) # <<>>)
        Value(tag, v, w) == IF AsText(tag) THEN Solid(v) = Solid(w) ELSE Alike(v, w)
    IN /\ a.class = b.class /\ a.attr = b.attr
       /\ Solid(a.valueOf_) = Solid(b.valueOf_)
       /\ \A t \in DOMAIN a.field :
            /\ Len(a.field[t]) = Len(b.field[t])
            /\ \A i \in DOMAIN a.field[t] : Value(t, a.field[t][i], b.field[t][i])
       /\ Len(Items(a)) = Len(Items(b))
       /\ \A i \in DOMAIN Items(a) :
            /\ Items(a)[i][1] = Items(b)[i][1]
            /\ Value(Items(a)[i][1], Items(a)[i][2], Items(b)[i][2])

\* The copy of an element can be read back and says the same, for every class
\* of the schema; except that the title of a compound is replaced by what Python
\* prints for its object, and a missing version, kind or refid by what it prints
\* for None, and that a reserved character in the text of a mixed element makes a
\* file that is not XML.
RECURSIVE Altered(_)
Altered(obj) ==
    \/ ~(Always(obj.class) \subseteq DOMAIN obj.attr)
    \/ \E k \in Range(Factory(obj.class, FALSE).kids) :
          /\ k[2] \in {"repr", "one", "many"} /\ k[3] # "str"
          /\ \E v \in Range(obj.field[k[1]]) : k[2] = "repr" \/ Altered(v)
CopySaysTheSame ==
    /\ reread # Nothing => (Alike(built, reread) <=> ~Altered(built))
    /\ ("node" \in DOMAIN copy /\ ~copy.wellformed) => Unquoted(built)

=============================================================================
