----------------------------- MODULE MCCallData -----------------------------
(***************************************************************************)
(* A small instance of CallData: a contract of seven functions, two of them*)
(* overloads of pay, and two calls.  Between them the functions take a     *)
(* value of every type, alone, next to a dynamic one before and after it,  *)
(* and in arrays of two.  A dictionary has every value the contract needs, *)
(* or all but one of those a function takes first or last.                 *)
(***************************************************************************)
EXTENDS CallData

In(n, t) == [name |-> n, type |-> t, arrayType |-> "UNKNOWN"]
ArrayIn(n, t, e) == [name |-> n, type |-> t, arrayType |-> e]

MCFunctions == <<
    [name |-> "transfer", inputs |-> <<In("to", "ADDRESS"), In("amount", "UINT")>>],
    [name |-> "pay", inputs |-> <<In("to", "ADDRESS")>>],
    [name |-> "note", inputs |-> <<In("text", "STRING"), In("amount", "UINT"),
                                   In("blob", "BYTES_DYNAMIC"), In("root", "BYTES_STATIC")>>],
    [name |-> "pay", inputs |-> <<In("to", "ADDRESS"), In("amount", "UINT")>>],
    [name |-> "vote", inputs |-> <<In("flag", "BOOL")>>],
    [name |-> "batch", inputs |-> <<ArrayIn("amounts", "ARRAY_DYNAMIC", "UINT"),
                                    ArrayIn("names", "ARRAY_STATIC", "STRING"),
                                    ArrayIn("pair", "ARRAY_STATIC", "INT")>>],
    [name |-> "swap", inputs |-> <<In("root", "BYTES_STATIC"),
                                   ArrayIn("pair", "ARRAY_STATIC", "INT"), In("to", "ADDRESS")>>]>>

MCNames == {"transfer", "pay", "note", "vote", "batch", "swap", "burn"}

Value(t, n, v) == [type |-> t, size |-> n, value |-> v, elements |-> <<>>]
ArrayOf(t, es) == [type |-> t, size |-> Len(es), value |-> "array", elements |-> es]

Full ==
    [to |-> Value("ADDRESS", 20, "to"),
     amount |-> Value("UINT", 8, "amount"),
     text |-> Value("STRING", 33, "text"),
     blob |-> Value("BYTES_DYNAMIC", 32, "blob"),
     root |-> Value("BYTES_STATIC", 32, "root"),
     flag |-> Value("BOOL", 1, "true"),
     amounts |-> ArrayOf("ARRAY_DYNAMIC", <<Value("UINT", 8, "a1"), Value("UINT", 1, "a2")>>),
     names |-> ArrayOf("ARRAY_STATIC", <<Value("STRING", 33, "n1"), Value("STRING", 0, "n2")>>),
     pair |-> ArrayOf("ARRAY_STATIC", <<Value("INT", 4, "i1"), Value("INT", 2, "i2")>>)]

Without(n) == [m \in DOMAIN Full \ {n} |-> Full[m]]

MCDictionaries ==
    {Full, Without("to"), Without("amount"), Without("root"),
     [Full EXCEPT !.flag.value = "false"],
     [Full EXCEPT !.amount.size = 32],
     [Full EXCEPT !.pair.elements[1].type = "UNKNOWN"],
     [Full EXCEPT !.names.elements[1].type = "STRING", !.names.elements[2].type = "UNKNOWN"],
     [Full EXCEPT !.amounts = ArrayOf("ARRAY_DYNAMIC", <<>>)]}
=============================================================================
