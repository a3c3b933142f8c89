----------------------------- MODULE RpcValues -----------------------------
(***************************************************************************)
(* What the replies of pmt_rpc say: the answers of PmtRpc in the loop of   *)
(* RpcHandler.                                                             *)
(***************************************************************************)
EXTENDS RpcBus, PmtRpc

answers == {[request |-> r, answer |-> Answer(r)] : r \in Requests}

\* What a request says, told from its PMT.
RECURSIVE Known(_), Same(_), Sendable(_)
\* It can be made a value of Python: no list, dictionary or blob is a key.
Known(p) ==
    LET Key(k) == \/ k[1] \notin {"vector", "dict", "blob", "tuple"}
                  \/ k[1] = "tuple" /\ Hashable(to_python(k))
    IN CASE p[1] \in {"tuple", "vector"} -> \A i \in DOMAIN p[2] : Known(p[2][i])
         [] p[1] = "dict" -> \A q \in p[2] : Known(q[1]) /\ Known(q[2]) /\ Key(q[1])
         [] OTHER -> TRUE
\* A value of Python can be sent, and as what the other side reads it: there
\* are no empty dictionaries, and no arrays but those of bytes.
Sendable(x) ==
    CASE x[1] \in {"tuple", "list"} -> \A i \in DOMAIN x[2] : Sendable(x[2][i])
      [] x[1] = "dict" -> \A q \in x[2] : Sendable(q[1]) /\ Sendable(q[2])
      [] OTHER -> x[1] # "object" /\ x # <<"long", "-1">>
Same(x) ==
    CASE x[1] \in {"tuple", "list"} -> <<x[1], [i \in DOMAIN x[2] |-> Same(x[2][i])]>>
      [] x = <<"dict", {}>> -> Null
      [] x[1] = "dict" -> <<"dict", {<<Same(q[1]), Same(q[2])>> : q \in x[2]}>>
      [] x[1] = "ndarray" -> <<"ndarray", "uint8", x[3]>>
      [] OTHER -> x

Pair(p) == \/ p[1] \in {"tuple", "vector", "blob"} /\ Len(p[2]) = 2
           \/ p[1] = "dict" /\ Cardinality(p[2]) = 2
           \/ p = <<"symbol", "ab">>
\* Two characters, two keys or two bytes are a pair as well, of strings, keys or
\* numbers, of which the second is no dictionary.
ArgsAndKwargs(p) ==
    /\ p[1] \in {"tuple", "vector"}
    /\ p[2][1][1] \in {"null", "tuple", "vector", "symbol", "dict", "blob"}
    /\ p[2][2][1] \in {"null", "dict"}
Method(key) == IF key[1] = "symbol" /\ key[2] \in DOMAIN Functions
               THEN Functions[key[2]] ELSE <<"missing">>
Fatal(r) ==
    \/ ~Known(r.key) \/ ~Known(r.value)
    \/ Pair(r.value) /\ ~ArgsAndKwargs(r.value)
    \/ Pair(r.value) /\ Method(r.key) = <<"exit">>
       /\ \A q \in (IF r.value[2][2] = PmtNil THEN {} ELSE r.value[2][2][2]) :
             q[1][1] = "symbol"
    \/ ~Pair(r.value) /\ r.key[1] = "tuple" /\ Len(r.key[2]) # 1

\* A client reads in a reply what it asked, with the programs among its keywords
\* replaced by what they gave, the result of its call, and an error exactly when
\* the call did not return; or a text alone when one of these cannot be sent.  Only
\* requests that cannot be taken for arguments, or that call a method that exits,
\* have no reply and end the handler.  ("request, result, error =
\* pmt.to_python(msg.value)", qa_pmt_rpc.py:55; the docstring says otherwise, see
\* ReplyAsDocumented.)
RepliesMatch ==
    /\ handler = "dead" => Fatal(Last(handled))
    /\ \A k \in DOMAIN replies :
       LET value == handled[k].value
           pair == Pair(value)
           does == Method(handled[k].key)
           request == to_python(value)
           args == IF ~pair \/ value[2][1] = PmtNil THEN <<>> ELSE Iterated(request[2][1])
           keywords == IF ~pair \/ value[2][2] = PmtNil THEN {} ELSE request[2][2][2]
           asks == IF ~pair \/ keywords = {} THEN request
                   ELSE <<request[1], <<request[2][1],
                            <<"dict", {<<q[1], exec_arg(q[2])>> : q \in keywords}>>>>>>
           returns == /\ pair /\ does \notin {<<"missing">>, <<"raise">>}
                      /\ \A q \in keywords : q[1][1] = "str"
           result == IF ~returns THEN Null
                     ELSE IF does = <<"echo">>
                     THEN <<"tuple", [i \in DOMAIN args |-> exec_arg(args[i])]>>
                     ELSE does
           reply == to_python(replies[k].value)
       IN /\ ~Fatal(handled[k])
          /\ IF Sendable(asks) /\ Sendable(result)
             THEN /\ reply[1] = "tuple" /\ Len(reply[2]) = 3
                  /\ reply[2][1] = Same(asks) /\ reply[2][2] = Same(result)
                  /\ (reply[2][3] = Null) <=> returns
             ELSE reply = Str("exception")

\* "msg.value = (args, kwargs, result, error)  Thats the same args, kwargs passed
\* before" (pmt_rpc.py:42): a reply that is a tuple has four parts, of which the
\* first two are those of the request.
ReplyAsDocumented ==
    \A k \in DOMAIN replies :
       LET value == handled[k].value
           request == to_python(value)
           reply == to_python(replies[k].value)
       IN Pair(value) /\ reply[1] = "tuple" =>
             /\ Len(reply[2]) = 4
             /\ reply[2][1] = Same(request[2][1]) /\ reply[2][2] = Same(request[2][2])

=============================================================================
