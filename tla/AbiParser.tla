------------------------------ MODULE AbiParser -----------------------------
(***************************************************************************)
(* abi/abi.cpp: from the JSON ABI of a contract to its functions           *)
(* (parseContract), and from a function to the text its selector is hashed *)
(* from (FunctionAbi::getSignature).                                       *)
(*                                                                         *)
(* An element of the ABI is [kind, name, arrays, inputs, outputs]: kind is *)
(* "function", "other" (an event, a constructor) or "untyped" (no type     *)
(* property), arrays tells which of inputs and outputs is a JSON array.  A *)
(* type is its text cut in parts, [base, size, array, length, nested]:     *)
(* uint8[12] has base "uint", size <<8>>, array "static" and length        *)
(* <<1, 2>>; nested tells whether more brackets follow, as in uint8[3][2]. *)
(* Sizes have three digits at most: the ABI has none above 256, and the    *)
(* code has room for no more.                                              *)
(***************************************************************************)
EXTENDS Integers, Sequences, SequencesExt

CONSTANTS
    Abis        \* what the constructor of Contract may be given

\* The text of a type in its parts: only an array with a number has a length,
\* and only one whose bracket is closed has another behind it.
IsType(t) ==
    /\ t.size \in Seq(0..9) /\ Len(t.size) <= 3
    /\ t.length \in Seq(0..9)
    /\ t.array \in {"none", "dynamic", "static", "unclosed"}
    /\ t.array \in {"none", "dynamic"} => t.length = <<>>
    /\ t.nested \in BOOLEAN
    /\ t.nested => t.array \in {"dynamic", "static"}

ASSUME AbisAssumption ==
    \A a \in Abis :
        /\ a \in Seq(Range(a))
        /\ \A e \in Range(a) :
            /\ e.inputs \in Seq(Range(e.inputs))
            /\ e.outputs \in Seq(Range(e.outputs))
            /\ \A t \in Range(e.inputs) \cup Range(e.outputs) : IsType(t)

VARIABLES
    abi,        \* the ABI
    at,         \* its element under way
    phase,      \* "element", "inputs" or "outputs", "idle" at the end
    parsed,     \* inputs of the element parsed, and outputs of it after them
    functions,  \* _functions of the contract
    parsedAs    \* what parseContract returned, "NONE" while it runs

abiVars == <<abi, at, phase, parsed, functions, parsedAs>>

Bases == {"uint", "int", "address", "bool", "bytes", "string"}
Plains == {"UINT", "INT", "ADDRESS", "BOOL", "BYTES_STATIC", "BYTES_DYNAMIC", "STRING"}

\* The number the digits stand for.
Number(digits) ==
    LET value[i \in 0..Len(digits)] ==
            IF i = 0 THEN 0 ELSE 10 * value[i - 1] + digits[i]
    IN value[Len(digits)]

\* The loop that copies the text between the brackets moves its source by one
\* at each turn and indexes it by the turn: it takes every other character.
ArraySize(digits) ==
    Number([n \in 1..((Len(digits) + 1) \div 2) |-> digits[2 * n - 1]])

\* getTypeAndSizeFromString, the type without its array.
PlainType(t) ==
    CASE t.base = "uint" -> "UINT"
      [] t.base = "int" -> "INT"
      [] t.base = "address" -> "ADDRESS"
      [] t.base = "bool" -> "BOOL"
      [] t.base = "string" -> "STRING"
      [] t.base = "bytes" /\ t.size = <<>> -> "BYTES_DYNAMIC"
      [] t.base = "bytes" /\ t.size # <<>> -> "BYTES_STATIC"

Integer(type) == type \in {"UINT", "INT"}

SizeBytes(t) ==
    CASE Integer(PlainType(t)) ->
            IF t.size = <<>> /\ t.array = "none" THEN 32 ELSE Number(t.size) \div 8
      [] PlainType(t) = "BYTES_STATIC" -> Number(t.size)
      [] OTHER -> 0

Abi(type, bytes, arrayType, length) ==
    [type |-> type, sizeBytes |-> bytes, arrayType |-> arrayType, arraySize |-> length]

StaticArray(t) ==
    Abi("ARRAY_STATIC", SizeBytes(t), PlainType(t), ArraySize(t.length))

Refused == Abi("REFUSED", 0, "UNKNOWN", 0)

\* parseInputOutput: what it may make of a type.  A text that starts like no
\* type it knows leaves the type of the new object unread, so it is any.  A
\* text in parentheses is a tuple; it stands for an input without a name or a
\* type too.  The search for a bracket that is not closed runs past the text.
\* Nobody looks at what follows the first pair: an array of arrays passes for
\* an array.
Parsed(t) ==
    CASE t.base = "(" -> {Refused}
      [] t.base \notin Bases \cup {"("} ->
            {Refused} \cup {Abi(type, 0, "UNKNOWN", 0) : type \in Plains}
      [] t.base \in Bases ->
            CASE t.array = "none" -> {Abi(PlainType(t), SizeBytes(t), "UNKNOWN", 0)}
              [] t.array = "dynamic" -> {Abi("ARRAY_DYNAMIC", SizeBytes(t), PlainType(t), 0)}
              [] t.array = "static" -> {StaticArray(t)}
              [] t.array = "unclosed" -> {Refused, StaticArray(t)}

-----------------------------------------------------------------------------

AbiInit ==
    /\ abi \in Abis
    /\ at = 1
    /\ phase = "element"
    /\ parsed = <<>>
    /\ functions = <<>>
    /\ parsedAs = "NONE"

InElement == phase = "element" /\ at <= Len(abi)
element == abi[at]

\* Any error ends parseContract (a text that is no JSON array, like an ABI whose
\* first element is untyped); the functions so far stay with the caller,
\* and the constructor of Contract does not look at the result.
Stop ==
    /\ phase' = "idle"
    /\ parsedAs' = "ERROR_JSON_PARSE"
    /\ UNCHANGED <<abi, at, parsed, functions>>

SkipElement ==
    /\ InElement
    /\ element.kind = "other"
    /\ at' = at + 1
    /\ UNCHANGED <<abi, phase, parsed, functions, parsedAs>>

UntypedElement ==
    /\ InElement
    /\ element.kind = "untyped"
    /\ Stop

\* Fault: the types of the function before are still there.
BeginFunctionStale ==
    /\ InElement
    /\ element.kind = "function"
    /\ element.arrays # "outputs"
    /\ phase' = "inputs"
    /\ UNCHANGED <<abi, at, parsed, functions, parsedAs>>

BeginFunction ==
    /\ InElement
    /\ element.kind = "function"
    /\ element.arrays # "outputs"
    /\ phase' = "inputs"
    /\ parsed' = <<>>
    /\ UNCHANGED <<abi, at, functions, parsedAs>>

NoInputs ==
    /\ InElement
    /\ element.kind = "function"
    /\ element.arrays = "outputs"
    /\ Stop

\* The types of the function under way, inputs first.
TypesOf(e) == e.inputs \o e.outputs

InputToParse == phase = "inputs" /\ Len(parsed) < Len(element.inputs)
OutputToParse == phase = "outputs" /\ Len(parsed) < Len(TypesOf(element))

Parse ==
    /\ InputToParse \/ OutputToParse
    /\ \E a \in Parsed(TypesOf(element)[Len(parsed) + 1]) \ {Refused} :
        parsed' = Append(parsed, a)
    /\ UNCHANGED <<abi, at, phase, functions, parsedAs>>

Refuse ==
    /\ InputToParse \/ OutputToParse
    /\ Refused \in Parsed(TypesOf(element)[Len(parsed) + 1])
    /\ Stop

BeginOutputs ==
    /\ phase = "inputs"
    /\ ~InputToParse
    /\ element.arrays # "inputs"
    /\ phase' = "outputs"
    /\ UNCHANGED <<abi, at, parsed, functions, parsedAs>>

NoOutputs ==
    /\ phase = "inputs"
    /\ ~InputToParse
    /\ element.arrays = "inputs"
    /\ Stop

\* Fault: the outputs end up among the inputs.
EndFunctionMixes ==
    /\ phase = "outputs"
    /\ ~OutputToParse
    /\ functions' = Append(functions, [name |-> element.name, inputs |-> parsed])
    /\ phase' = "element"
    /\ at' = at + 1
    /\ UNCHANGED <<abi, parsed, parsedAs>>

\* The function is complete: it joins the others.
EndFunction ==
    /\ phase = "outputs"
    /\ ~OutputToParse
    /\ functions' = Append(functions,
                       [name |-> element.name,
                        inputs |-> SubSeq(parsed, 1, Len(element.inputs))])
    /\ phase' = "element"
    /\ at' = at + 1
    /\ UNCHANGED <<abi, parsed, parsedAs>>

EndOfAbi ==
    /\ phase = "element"
    /\ at > Len(abi)
    /\ phase' = "idle"
    /\ parsedAs' = "SUCCESS"
    /\ UNCHANGED <<abi, at, parsed, functions>>

AbiNext ==
    \/ SkipElement
    \/ UntypedElement
    \/ BeginFunction
    \/ NoInputs
    \/ Parse
    \/ Refuse
    \/ BeginOutputs
    \/ NoOutputs
    \/ EndFunction
    \/ EndOfAbi

AbiSpec == AbiInit /\ [][AbiNext]_abiVars

-----------------------------------------------------------------------------
(* The signature of a parsed function, and the one the Ethereum ABI asks   *)
(* for.  The text of a type is again cut in parts, with numbers for digits *)
(* and 0 where there are none.                                             *)

Text(base, size, array, length) ==
    [base |-> base, size |-> size, array |-> array, length |-> length, nested |-> FALSE]

\* EthereumTypeNameToStringLT
TypeName(type) ==
    CASE type = "UINT" -> "uint"
      [] type = "INT" -> "int"
      [] type = "ADDRESS" -> "address"
      [] type = "BOOL" -> "bool"
      [] type \in {"BYTES_STATIC", "BYTES_DYNAMIC"} -> "bytes"
      [] type = "STRING" -> "string"

SizeText(type, bytes) == IF Integer(type) THEN 8 * bytes ELSE bytes

\* getSignature, one input of it.
InputText(a) ==
    CASE a.type = "ARRAY_STATIC" ->
            Text(TypeName(a.arrayType), SizeText(a.arrayType, a.sizeBytes),
                 "static", a.arraySize)
      [] a.type = "ARRAY_DYNAMIC" ->
            Text(TypeName(a.arrayType), SizeText(a.arrayType, a.sizeBytes), "dynamic", 0)
      [] OTHER -> Text(TypeName(a.type), SizeText(a.type, a.sizeBytes), "none", 0)

getSignature(f) == [name |-> f.name, inputs |-> [k \in DOMAIN f.inputs |-> InputText(f.inputs[k])]]

\* The canonical text of a type: uint and int are uint256 and int256.
Canonical(t) ==
    [base |-> t.base,
     size |-> IF t.base \in {"uint", "int"} /\ t.size = <<>> THEN 256 ELSE Number(t.size),
     array |-> t.array, length |-> Number(t.length), nested |-> t.nested]

Signature(e) == [name |-> e.name, inputs |-> [k \in DOMAIN e.inputs |-> Canonical(e.inputs[k])]]

\* The elements of a that are functions, among its first n.
FunctionsAmong(a, n) ==
    LET found[i \in 0..Len(a)] ==
            IF i = 0 THEN <<>>
            ELSE IF a[i].kind = "function" THEN Append(found[i - 1], a[i]) ELSE found[i - 1]
    IN found[n]

Declared(n) == FunctionsAmong(abi, n)

\* The types the ABI has, of those that are no tuples and no arrays of arrays
\* (contract.h: not supported): integers are as wide as a number of bytes, and
\* only they and bytes have a size.
Known(t) ==
    /\ t.base \in Bases
    /\ t.array # "unclosed" /\ ~t.nested
    /\ t.base \in {"uint", "int"} => Number(t.size) % 8 = 0
    /\ t.base \notin {"uint", "int", "bytes"} => t.size = <<>>

LongArray(t) == t.array = "static" /\ Len(t.length) > 1
UnsizedIntArray(t) == t.base \in {"uint", "int"} /\ t.size = <<>> /\ t.array # "none"

\* Function f of the contract has the signature of its declaration.
SignatureKept(f) == getSignature(functions[f]) = Signature(Declared(Len(abi))[f])
TypesIn(f) == Range(Declared(Len(abi))[f].inputs)

-----------------------------------------------------------------------------
(* Properties *)

\* The contract knows the functions of the ABI in order, up to the element the
\* parser is at or stopped at, each with all of its inputs and no output among
\* them; all of them when parseContract returns SUCCESS.
FunctionsInOrder ==
    LET declared == Declared(at - 1) IN
    /\ Len(functions) = Len(declared)
    /\ \A f \in DOMAIN functions :
        /\ functions[f].name = declared[f].name
        /\ Len(functions[f].inputs) = Len(declared[f].inputs)
    /\ parsedAs = "SUCCESS" => at = Len(abi) + 1

\* The selector of a function is hashed from its canonical signature, when
\* its types are known, its static arrays have less than ten elements and its
\* arrays of integers say how wide they are.
SelectorIsCanonical ==
    \A f \in DOMAIN functions :
        (\A t \in TypesIn(f) : Known(t) /\ ~LongArray(t) /\ ~UnsizedIntArray(t))
            => SignatureKept(f)
=============================================================================
