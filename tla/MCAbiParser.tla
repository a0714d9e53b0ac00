----------------------------- MODULE MCAbiParser ----------------------------
(***************************************************************************)
(* A small instance of AbiParser: ABIs of two elements, functions of every *)
(* type the code knows as a value and as an array, next to events,         *)
(* elements without a type, functions without inputs or outputs, tuples,   *)
(* arrays of arrays and arrays whose bracket is not closed.                *)
(***************************************************************************)
EXTENDS AbiParser

T(b, s, a, l) == [base |-> b, size |-> s, array |-> a, length |-> l, nested |-> FALSE]

MCPlainTypes ==
    {T("uint", <<>>, "none", <<>>), T("uint", <<8>>, "none", <<>>),
     T("int", <<2, 5, 6>>, "none", <<>>), T("address", <<>>, "none", <<>>),
     T("bool", <<>>, "none", <<>>), T("bytes", <<>>, "none", <<>>),
     T("bytes", <<3, 2>>, "none", <<>>), T("string", <<>>, "none", <<>>)}

MCTypes ==
    MCPlainTypes
        \cup {[t EXCEPT !.array = "dynamic"] : t \in MCPlainTypes}
        \cup {[t EXCEPT !.array = "static", !.length = l] :
                t \in MCPlainTypes, l \in {<<3>>, <<1, 2>>, <<1, 0, 5>>}}
        \cup {T("(", <<>>, "none", <<>>), T("tuple", <<>>, "none", <<>>),
              T("uint", <<8>>, "unclosed", <<3>>)}
        \cup {[T("uint", <<8>>, a, IF a = "static" THEN <<3>> ELSE <<>>) EXCEPT !.nested = TRUE] :
                a \in {"static", "dynamic"}}

F(n, ins, outs) ==
    [kind |-> "function", name |-> n, arrays |-> "both", inputs |-> ins, outputs |-> outs]
Other(k) == [F("e", <<>>, <<>>) EXCEPT !.kind = k]
Lacking(a) == [F("f", <<T("bool", <<>>, "none", <<>>)>>, <<>>) EXCEPT !.arrays = a]

MCFirst ==
    {Other("other"), Other("untyped"), Lacking("inputs"), Lacking("outputs")}
        \cup {F("f", <<t>>, <<T("bool", <<>>, "none", <<>>)>>) : t \in MCTypes}

MCSecond ==
    {Other("other"), Other("untyped")}
        \cup {F("g", <<t, T("uint", <<8>>, "none", <<>>)>>, <<>>) : t \in MCTypes}
        \cup {F("h", <<T("bool", <<>>, "none", <<>>)>>, <<t>>) : t \in MCTypes}

MCAbis == {<<>>} \cup {<<e>> : e \in MCFirst} \cup {<<e, g>> : e \in MCFirst, g \in MCSecond}
=============================================================================
