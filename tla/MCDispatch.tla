---------------------------- MODULE MCDispatch -----------------------------
(***************************************************************************)
(* Instances of ServiceDispatch: services of up to three of ten methods,   *)
(* requests with up to three arguments.                                    *)
(***************************************************************************)
EXTENDS ServiceDispatch, SequencesExt

In(name, type) == [name |-> name, type |-> type, out |-> FALSE]
Out(name, type) == [name |-> name, type |-> type, out |-> TRUE]
Method(params, returns) == [invokable |-> TRUE, params |-> params, returns |-> returns]

\* As QML declares them, without, with one and with two parameters.
Qml == {Method(<<>>, "variant"),
        Method(<<In("a", "variant")>>, "variant"),
        Method(<<In("a", "variant"), In("b", "variant")>>, "variant")}

\* As C++ does, with a map, with output parameters, with a type that has no JSON
\* type, with one that is not known, and one that is not public.
Cpp == {Method(<<In("a", "string")>>, "variant"),
        Method(<<In("a", "int")>>, "void"),
        Method(<<In("a", "map"), In("b", "date")>>, "void"),
        Method(<<Out("a", "variant")>>, "void"),
        Method(<<Out("a", "int"), In("b", "int"), In("c", "string")>>, "void"),
        Method(<<In("a", "unknown")>>, "variant"),
        [Method(<<In("a", "variant"), In("b", "date")>>, "void") EXCEPT !.invokable = FALSE]}

\* A method with one parameter more than dispatch passes.
Eleven == Method([i \in 1..11 |-> In("p", "variant")], "variant")

Injective(s) == \A i, j \in DOMAIN s : s[i] = s[j] => i = j

MCServices == {s \in BoundedSeq(Qml \cup Cpp, 3) : s # <<>> /\ Injective(s)} \cup {<<Eleven>>}

Sent == {"number", "string", "object"}
MCRequests ==
  [byName : {FALSE}, args : BoundedSeq(Sent, 2) \cup {<<"number", "number", "string">>}]
    \cup [byName : {TRUE}, args : [{"a"} -> Sent] \cup [{"a", "b"} -> {"number", "object"}] \cup {<<>>}]

\* A service with one method, of a string, as in the test.
TestServices == {<<Method(<<In("string", "string")>>, "string")>>}
TestRequests ==
  [byName : {FALSE}, args : {<<"string">>}] \cup [byName : {TRUE}, args : [{"string"} -> {"string"}]]

MCUnconvertible == {<<"object", "date">>}
=============================================================================
