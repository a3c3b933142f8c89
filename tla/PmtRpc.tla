------------------------------ MODULE PmtRpc ------------------------------
(***************************************************************************)
(* What pmt_rpc (python/pmt_rpc.py) makes of a request: the call of a      *)
(* method of an object, and the reply that tells what it returned.         *)
(***************************************************************************)
EXTENDS PmtPython

CONSTANTS
    Functions   \* name -> what the method of that name does: "echo" returns its
                \*   arguments, "raise" and "exit" raise an Exception and a
                \*   SystemExit, any other returns the value given

\* The elements that Python iterates over; Raised for a value that has none.
\* Strings are longer than two characters, but for "ab".
Iterated(x) ==
    CASE x[1] \in {"tuple", "list"} -> x[2]
      [] x[1] = "str" -> IF x = Str("ab") THEN <<Str("a"), Str("b")>>
                         ELSE <<Str("a"), Str("b"), Str("c")>>
      [] x[1] = "dict" -> LET keys == SetToSeq(x[2])
                          IN [i \in DOMAIN keys |-> keys[i][1]]
      [] x[1] = "ndarray" -> [i \in DOMAIN x[3] |-> Object("numpy.uint8")]
      [] OTHER -> Raised

\* _exec_arg
exec_arg(arg) ==
    IF arg[1] = "str" /\ arg[2] = "#!" /\ Len(arg) = 3 THEN arg[3] ELSE arg

Failed(request, err) == <<"tuple", <<request, Null, Str(err)>>>>

\* The call of the method: keywords must be strings.
Call(fcn_name, args, kwargs) ==
    LET does == Functions[fcn_name[2]] IN
    CASE \E q \in kwargs : q[1][1] # "str" -> <<"exception">>
      [] does = <<"raise">> -> <<"exception">>
      [] does = <<"exit">>  -> Raised
      [] does = <<"echo">>  -> <<"tuple", args>>
      [] OTHER -> does

\* handle_request: the result, or Raised.  The values of kwargs are replaced in
\* the request itself, those of args in a copy.
handle_request(fcn_name, request) ==
    LET parts == Iterated(request)
        args == IF parts[1] = Null THEN <<>> ELSE Iterated(parts[1])
        kwargs == IF parts[2] = Null THEN <<"dict", {}>> ELSE parts[2]
        Squashed == {<<q[1], exec_arg(q[2])>> : q \in kwargs[2]}
        request_ == IF parts[2] = Null THEN request
                    ELSE <<request[1], <<parts[1], <<"dict", Squashed>>>>>>
        Result == Call(fcn_name, [i \in DOMAIN args |-> exec_arg(args[i])], Squashed)
    IN CASE parts = Raised \/ Len(parts) # 2 ->
              \* '%s' with a tuple wants as many values as the tuple has
              IF fcn_name[1] = "tuple" /\ Len(fcn_name[2]) # 1 THEN Raised
              ELSE Failed(request, "cannot parse")
         [] args = Raised \/ kwargs[1] # "dict" -> Raised
         [] fcn_name[1] # "str" \/ fcn_name[2] \notin DOMAIN Functions ->
              Failed(request_, "cannot find")
         [] Result = Raised -> Raised
         [] Result = <<"exception">> -> Failed(request_, "cannot execute")
         [] OTHER -> <<"tuple", <<request_, Result, Null>>>>

\* What becomes of a request in work(): the value of the reply, or Raised.  A
\* result that cannot be converted is replaced by the text of the exception.
Answer(r) ==
    LET key == to_python(r.key)
        value == to_python(r.value)
        result == IF key = Raised \/ value = Raised THEN Raised
                  ELSE handle_request(key, value)
        pmt == from_python(result)
    IN IF result = Raised THEN Raised
       ELSE IF IsPmt(pmt) THEN pmt ELSE from_python(Str("exception"))

=============================================================================
