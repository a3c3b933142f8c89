------------------------------- MODULE MCRpc -------------------------------
(***************************************************************************)
(* Two clients of an object, and requests of every shape.                  *)
(***************************************************************************)
EXTENDS RpcValues

CONSTANTS a, b

Sym(s)   == <<"symbol", s>>
Tuple(s) == <<"tuple", s>>
Dict(f)  == <<"dict", {<<k, f[k]>> : k \in DOMAIN f}>>
Num      == <<"integer", "42">>
True_    == <<"bool", "True">>
Bytes    == <<"blob", <<"1", "2">>>>
Prog(x)  == <<"symbol", "#!", x>>
BadProg  == <<"symbol", "#!">>
Any_     == <<"other", "any">>
Unhashed == Dict(Bytes :> Num)

MCFunctions == [echo |-> <<"echo">>, raise |-> <<"raise">>, exit |-> <<"exit">>,
                object |-> Object("Foo"), empty |-> <<"dict", {}>>,
                array |-> <<"ndarray", "float64", <<"1", "2">>>>,
                negative |-> <<"long", "-1">>,
                nested |-> <<"list", <<<<"tuple", <<Object("Foo")>>>>>>>>]

AnyArgs == {PmtNil, Tuple(<<>>), Tuple(<<Num, True_, Any_>>),
            Tuple(<<Prog(<<"float", "1.0">>), BadProg>>), Tuple(<<Prog(Object("Foo"))>>),
            <<"vector", <<Bytes>>>>, Sym("ab"), Bytes, Dict(Sym("k") :> Num), Num}
AnyKwargs == {PmtNil, Dict(Sym("k") :> Num), Dict(Sym("k") :> BadProg @@ Sym("l") :> Prog(<<"bool", "True">>)),
              Dict(Sym("k") :> Prog(Object("Foo"))), Dict(Num :> True_), Tuple(<<>>), Unhashed}
Odd == {PmtNil, Tuple(<<Num, Num, Num>>), Sym("ab"), Sym("abc"), Num, Bytes, Any_,
        Dict(Sym("k") :> Num @@ Sym("l") :> Num), Dict(Tuple(<<Bytes>>) :> Num)}
Kinds ==
    [key : {Sym("echo")}, value : {Tuple(<<x, y>>) : x \in AnyArgs, y \in AnyKwargs} \cup Odd]
    \cup [key : {Sym(f) : f \in DOMAIN MCFunctions \ {"echo"}}
                \cup {Sym("missing"), Num, Unhashed, Tuple(<<Num>>), Tuple(<<Num, Num>>)},
          value : {Tuple(<<x, y>>) : x \in {PmtNil, Num},
                                     y \in {PmtNil, Dict(Num :> True_)}} \cup {Num}]

Plain(n) == [key |-> Sym("echo"), value |-> <<"vector", <<Tuple(<<<<"integer", n>>>>), PmtNil>>>>]
\* One client with one request of any kind; or both, the first of them with one of
\* three kinds (served, refused, fatal).
MCPlans ==
    {(a :> <<r>>) @@ (b :> <<>>) : r \in Kinds} \cup
    {(a :> <<[key |-> Sym(f), value |-> Plain("0").value], Plain("1")>>)
       @@ (b :> <<Plain("2")>>) : f \in {"echo", "raise", "exit"}}

MCAnswers == answers
MCRequests == Kinds \cup {Plain("1"), Plain("2")}
              \cup {[key |-> Sym(f), value |-> Plain("0").value] : f \in {"echo", "raise", "exit"}}

=============================================================================
