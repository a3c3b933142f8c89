----------------------------- MODULE PmtPython -----------------------------
(***************************************************************************)
(* Values of Python and of PMT, and the conversions between them           *)
(* (python/pmt_to_python.py).  A value is a tuple that begins with its     *)
(* type.  A string that is a program of pmt_rpc is <<"str", "#!">>, with   *)
(* the value that it gives to "arg", if any, as its third part.            *)
(***************************************************************************)
EXTENDS Naturals, FiniteSets, SequencesExt

Null   == <<"None">>       \* None
PmtNil == <<"null">>       \* PMT_NIL, which is also the empty dictionary
Raised == <<"raise">>      \* an exception instead of a value
Str(s) == <<"str", s>>
Object(class) == <<"object", class>>   \* a Python object of a class without a row

\* Mutant: the row of int comes before that of bool.
THE_TABLE_IntFirst ==
    << <<"None", "null">>, <<"int", "integer">>, <<"bool", "bool">>,
       <<"str", "symbol">>, <<"long", "uint64">>, <<"float", "real">>,
       <<"complex", "complex">>, <<"tuple", "tuple">>, <<"list", "vector">>,
       <<"dict", "dict">>, <<"ndarray", "blob">> >>

\* The rows: a Python type and a PMT type.
THE_TABLE ==
    << <<"None", "null">>, <<"bool", "bool">>, <<"str", "symbol">>,
       <<"int", "integer">>, <<"long", "uint64">>, <<"float", "real">>,
       <<"complex", "complex">>, <<"tuple", "tuple">>, <<"list", "vector">>,
       <<"dict", "dict">>, <<"ndarray", "blob">> >>

FirstRow(Test(_)) ==
    LET rows == {i \in DOMAIN THE_TABLE : Test(THE_TABLE[i])}
    IN IF rows = {} THEN <<>>
       ELSE <<THE_TABLE[CHOOSE i \in rows : \A j \in rows : i <= j]>>

\* isinstance: a bool is an int as well.
IsInstance(x, type) == x[1] = type \/ (x[1] = "bool" /\ type = "int")

RECURSIVE Hashable(_)
Hashable(x) == /\ x[1] \notin {"list", "dict", "ndarray"}
               /\ x[1] = "tuple" => \A i \in DOMAIN x[2] : Hashable(x[2][i])

\* pmt_to_python: a PMT of another type stays as it is.  A dictionary whose
\* keys Python cannot hash raises an exception.
RECURSIVE to_python(_)
to_python(p) ==
    LET row == FirstRow(LAMBDA r : r[2] = p[1])
        Elems == [i \in DOMAIN p[2] |-> to_python(p[2][i])]
        Pairs == {<<to_python(q[1]), to_python(q[2])>> : q \in p[2]}
    IN CASE row = <<>> -> <<"pmt">> \o Tail(p)
         [] p[1] \in {"tuple", "vector"} ->
              IF Raised \in Range(Elems) THEN Raised ELSE <<row[1][1], Elems>>
         [] p[1] = "dict" ->
              IF \E q \in Pairs : q[1] = Raised \/ q[2] = Raised \/ ~Hashable(q[1])
              THEN Raised ELSE <<"dict", Pairs>>
         [] p[1] = "blob" -> <<"ndarray", "uint8", p[2]>>
         [] OTHER -> <<row[1][1]>> \o Tail(p)

IsPmt(p) == p # Raised /\ p[1] # "object"

\* python_to_pmt: an object of another class stays as it is, which raises an
\* exception in the constructor of the tuple, vector or dictionary around it.
\* A dictionary without entries is PMT_NIL, the bytes of an array lose its type,
\* and a long is unsigned.
RECURSIVE from_python(_)
from_python(x) ==
    LET row == FirstRow(LAMBDA r : IsInstance(x, r[1]))
        Elems == [i \in DOMAIN x[2] |-> from_python(x[2][i])]
        Pairs == {<<from_python(q[1]), from_python(q[2])>> : q \in x[2]}
    IN CASE x[1] = "pmt" -> <<"other">> \o Tail(x)
         [] row = <<>> -> x
         [] x[1] \in {"tuple", "list"} ->
              IF \A e \in Range(Elems) : IsPmt(e) THEN <<row[1][2], Elems>> ELSE Raised
         [] x[1] = "dict" ->
              IF x[2] = {} THEN PmtNil
              ELSE IF \A q \in Pairs : IsPmt(q[1]) /\ IsPmt(q[2]) THEN <<"dict", Pairs>>
              ELSE Raised
         [] x[1] = "ndarray" -> <<"blob", x[3]>>
         [] x = <<"long", "-1">> -> Raised
         [] OTHER -> <<row[1][2]>> \o Tail(x)

=============================================================================
