------------------------------ MODULE CallData ------------------------------
(***************************************************************************)
(* Contract::generateCallData (contract/contract.cpp): the bytes of a call *)
(* of a contract function, from the functions of the contract and the      *)
(* dictionary of values the application filled.  The caller's out string   *)
(* outlives the calls.  Call data is a sequence of words of 32 bytes, plus *)
(* the selector; what the code writes into a word is a pair.               *)
(*                                                                         *)
(* A value is [type, size, value, elements] as in ParameterValue: size is  *)
(* in bytes for integers, bytes and strings and in elements for arrays.    *)
(* Elements are not arrays (contract.h: nested arrays are not supported).  *)
(* The encoder goes by the declared type of an input, and by the type of   *)
(* the value only for the elements of an array.                            *)
(***************************************************************************)
EXTENDS Integers, Sequences, SequencesExt

CONSTANTS
    Functions,      \* the contract: a sequence of [name, inputs]
    Dictionaries,   \* what the application may pass as params
    Names,          \* the function names it may ask for
    MaxCalls        \* bound: calls of generateCallData

\* A value has a size, and an array that many elements.
IsValue(v) ==
    /\ v.size \in Nat
    /\ v.type \in {"ARRAY_STATIC", "ARRAY_DYNAMIC"} =>
          \A e \in 1..v.size : v.elements[e].size \in Nat

ASSUME CallAssumption ==
    /\ Functions \in Seq(Range(Functions))
    /\ \A f \in Range(Functions) : f.inputs \in Seq(Range(f.inputs))
    /\ \A d \in Dictionaries : \A n \in DOMAIN d : IsValue(d[n])

VARIABLES
    pc,             \* "idle", "function" or "inputs" in generateCallData
    name,           \* functionName of the latest call
    params,         \* its dictionary: from input names to values
    index,          \* the function of the loop over _functions
    parts,          \* staticHeadsOrDynamicTails
    contractData,   \* the local buffer
    out,            \* the caller's string
    ret,            \* what the latest call returned, "NONE" while it runs
    calls           \* calls begun

vars == <<pc, name, params, index, parts, contractData, out, ret, calls>>

Simple == {"UINT", "INT", "ADDRESS", "BOOL"}
DynamicTypes == {"BYTES_DYNAMIC", "STRING", "ARRAY_DYNAMIC", "TUPLE_DYNAMIC"}
Encodable == Simple \cup {"BYTES_STATIC", "BYTES_DYNAMIC", "STRING"}

\* InputOutputAbi::IsDynamic
IsDynamic(input) ==
    \/ input.type \in DynamicTypes
    \/ input.type = "ARRAY_STATIC" /\ input.arrayType \in DynamicTypes

Selector(f) == <<"selector", f>>
Unread == <<"unread", 0>>

\* generateBytesForStaticBytes: n bytes in whole words, padded at the end.
Chunks(v) == [c \in 1..((v.size + 31) \div 32) |-> <<v.value, c>>]

\* generateBytesForSimpleType.  Integers wider than 8 bytes are to be done:
\* the word is not written.  A bool is judged by the address of the value.
SimpleWord(v, type) ==
    CASE type \in {"UINT", "INT"} /\ v.size > 8 -> Unread
      [] type = "BOOL" -> <<"true", 1>>
      [] OTHER -> <<v.value, 1>>

\* generateBytesForParameter, of a type that is no array.
ElementWords(v, type) ==
    CASE type \in Simple -> <<SimpleWord(v, type)>>
      [] type \in {"BYTES_DYNAMIC", "STRING"} -> <<<<"length", v.size>>>> \o Chunks(v)
      [] type = "BYTES_STATIC" -> Chunks(v)
      [] OTHER -> <<>>

ArrayParts(v) == [e \in 1..v.size |-> ElementWords(v.elements[e], v.elements[e].type)]

\* generateBytesForStaticArrayOfStaticElements: an element of unknown type ends
\* the loop.
StaticElements(v) ==
    FlattenSeq([e \in 1..v.size |->
        IF \A k \in 1..e : v.elements[k].type # "UNKNOWN" THEN ArrayParts(v)[e] ELSE <<>>])

\* The offset of part e of an array of dynamic elements, from its first head.
ElementOffset(v, e) ==
    32 * (v.size + Len(FlattenSeq(SubSeq(ArrayParts(v), 1, e - 1))))

\* The number of bytes of an element of another type is never set, so the
\* offsets behind it are any.
ElementHead(v, e) ==
    IF \A k \in 1..(e - 1) : v.elements[k].type \in Encodable
    THEN <<"offset", ElementOffset(v, e)>>
    ELSE Unread

StaticArrayOfDynamicElements(v) ==
    [e \in 1..v.size |-> ElementHead(v, e)] \o FlattenSeq(ArrayParts(v))

\* generateBytesForParameter.  An empty array has no words at all, and dynamic
\* arrays of dynamic elements and tuples are not supported.
ParameterWords(v, type) ==
    IF type \notin {"ARRAY_STATIC", "ARRAY_DYNAMIC"}
    THEN ElementWords(v, type)
    ELSE IF v.size <= 0
    THEN <<>>
    ELSE LET dynamic == v.elements[1].type \in DynamicTypes IN
         CASE type = "ARRAY_STATIC" /\ dynamic -> StaticArrayOfDynamicElements(v)
           [] type = "ARRAY_STATIC" /\ ~dynamic -> StaticElements(v)
           [] type = "ARRAY_DYNAMIC" /\ dynamic -> <<>>
           [] OTHER -> <<<<"length", v.size>>>> \o StaticElements(v)

-----------------------------------------------------------------------------

Init ==
    /\ pc = "idle"
    /\ name \in Names
    /\ params \in Dictionaries
    /\ index = 1
    /\ parts = <<>>
    /\ contractData = <<>>
    /\ out = <<>>
    /\ ret = "NONE"
    /\ calls = 0

\* Fault: the buffer outlives the call.
CallKeepsData(n, d) ==
    /\ pc = "idle"
    /\ calls < MaxCalls
    /\ calls' = calls + 1
    /\ pc' = "function"
    /\ name' = n
    /\ params' = d
    /\ index' = 1
    /\ parts' = <<>>
    /\ ret' = "NONE"
    /\ UNCHANGED <<contractData, out>>

\* generateCallData is called; out holds what the last call left in it.
Call(n, d) ==
    /\ pc = "idle"
    /\ calls < MaxCalls
    /\ calls' = calls + 1
    /\ pc' = "function"
    /\ name' = n
    /\ params' = d
    /\ index' = 1
    /\ parts' = <<>>
    /\ contractData' = <<>>
    /\ ret' = "NONE"
    /\ UNCHANGED out

inputs == Functions[index].inputs

SkipFunction ==
    /\ pc = "function"
    /\ index <= Len(Functions)
    /\ Functions[index].name # name
    /\ index' = index + 1
    /\ UNCHANGED <<pc, name, params, parts, contractData, out, ret, calls>>

\* The selector goes to the buffer, behind what an earlier function of the
\* same name has put there, and the buffer to out.
EnterFunction ==
    /\ pc = "function"
    /\ index <= Len(Functions)
    /\ Functions[index].name = name
    /\ pc' = "inputs"
    /\ parts' = <<>>
    /\ contractData' = Append(contractData, Selector(index))
    /\ out' = contractData'
    /\ UNCHANGED <<name, params, index, ret, calls>>

InputLeft == pc = "inputs" /\ Len(parts) < Len(inputs)
input == inputs[Len(parts) + 1]

EncodeParameter ==
    /\ InputLeft
    /\ input.name \in DOMAIN params
    /\ parts' = Append(parts, ParameterWords(params[input.name], input.type))
    /\ UNCHANGED <<pc, name, params, index, contractData, out, ret, calls>>

\* The parts of the inputs that are dynamic, or that are static, in order.
PartsThatAre(dynamic) ==
    FlattenSeq([p \in DOMAIN parts |->
        IF IsDynamic(inputs[p]) = dynamic THEN parts[p] ELSE <<>>])

MissingParameter ==
    /\ InputLeft
    /\ input.name \notin DOMAIN params
    /\ pc' = "idle"
    /\ ret' = "ERROR_BAD_PARAMETER"
    /\ UNCHANGED <<name, params, index, parts, contractData, out, calls>>

\* Static parts, then dynamic tails.  The head of a dynamic part is worked out
\* too, in a buffer that goes nowhere.
Assemble ==
    /\ pc = "inputs"
    /\ Len(parts) = Len(inputs)
    /\ contractData' = contractData \o PartsThatAre(FALSE) \o PartsThatAre(TRUE)
    /\ out' = contractData'
    /\ pc' = "function"
    /\ index' = index + 1
    /\ UNCHANGED <<name, params, parts, ret, calls>>

\* Every function has been looked at, whether one had the name or not.
Return ==
    /\ pc = "function"
    /\ index > Len(Functions)
    /\ pc' = "idle"
    /\ ret' = "SUCCESS"
    /\ UNCHANGED <<name, params, index, parts, contractData, out, calls>>

Next ==
    \/ \E n \in Names, d \in Dictionaries : Call(n, d)
    \/ SkipFunction
    \/ EnterFunction
    \/ EncodeParameter
    \/ MissingParameter
    \/ Assemble
    \/ Return

Spec == Init /\ [][Next]_vars

-----------------------------------------------------------------------------
(* The Ethereum ABI, for the values the library says it supports.          *)

\* Whether a value that is no array has an encoding in the code: no false, no
\* integer of more than 8 bytes, no tuple.
Plain(v) ==
    /\ v.type \in Encodable
    /\ v.type # "BOOL" \/ v.value = "true"
    /\ v.type \in {"UINT", "INT"} => v.size <= 8

\* An array is not empty, its elements are of one kind, and those of a dynamic
\* array are static.
Supported(v) ==
    IF v.type \notin {"ARRAY_STATIC", "ARRAY_DYNAMIC"}
    THEN Plain(v)
    ELSE /\ v.size > 0
         /\ \A e \in 1..v.size : Plain(v.elements[e])
         /\ \/ \A e \in 1..v.size : v.elements[e].type \notin DynamicTypes
            \/ /\ v.type = "ARRAY_STATIC"
               /\ \A e \in 1..v.size : v.elements[e].type \in DynamicTypes

\* Values side by side, the dynamic ones by reference: an offset in place of
\* the value, and the value after all of them.  The words that hold the offsets
\* are there when `heads`.
Tuple(values, dynamic, heads) ==
    LET Static(k) == IF dynamic[k] THEN <<>> ELSE values[k]
        TailOf(k) == IF dynamic[k] THEN values[k] ELSE <<>>
        width == Len(FlattenSeq([k \in DOMAIN values |->
                     IF dynamic[k] THEN <<0>> ELSE values[k]]))
        Offset(k) == 32 * (width + Len(FlattenSeq([j \in 1..(k - 1) |-> TailOf(j)])))
        HeadOf(k) == IF dynamic[k] /\ heads THEN <<<<"offset", Offset(k)>>>> ELSE Static(k)
    IN FlattenSeq([k \in DOMAIN values |-> HeadOf(k)])
         \o FlattenSeq([k \in DOMAIN values |-> TailOf(k)])

AbiSimple(v) ==
    CASE v.type \in Simple -> <<<<v.value, 1>>>>
      [] v.type = "BYTES_STATIC" -> Chunks(v)
      [] OTHER -> <<<<"length", v.size>>>> \o Chunks(v)

\* A dynamic array has its length in front.
AbiWords(v) ==
    IF v.type \notin {"ARRAY_STATIC", "ARRAY_DYNAMIC"}
    THEN AbiSimple(v)
    ELSE (IF v.type = "ARRAY_DYNAMIC" THEN <<<<"length", v.size>>>> ELSE <<>>)
            \o Tuple([e \in 1..v.size |-> AbiSimple(v.elements[e])],
                     [e \in 1..v.size |-> v.elements[e].type \in DynamicTypes],
                     TRUE)

CallOf(f, heads) ==
    LET ins == Functions[f].inputs IN
    <<Selector(f)>>
        \o Tuple([k \in DOMAIN ins |-> AbiWords(params[ins[k].name])],
                 [k \in DOMAIN ins |-> IsDynamic(ins[k])],
                 heads)

\* The call data of function f with the latest values.
AbiCall(f) == CallOf(f, TRUE)

\* The functions the latest call asked for, and whether the call is one the
\* library supports: every value there, of its input's type, and encodable.
Asked == {f \in DOMAIN Functions : Functions[f].name = name}

SupportedInputs(f) ==
    \A k \in DOMAIN Functions[f].inputs :
        LET in == Functions[f].inputs[k] IN
        /\ in.name \in DOMAIN params
        /\ params[in.name].type = in.type
        /\ Supported(params[in.name])

Done == pc = "idle" /\ ret = "SUCCESS"

-----------------------------------------------------------------------------
(* Properties *)

\* After a SUCCESS the call data of the one function with the name asked for is
\* the ABI's, as the tests of generateCallData expect it, also where an input is
\* dynamic.
CallIsAbi ==
    Done => \A f \in Asked :
        Asked = {f} /\ SupportedInputs(f) => out = AbiCall(f)

\* That of a function whose inputs are all static is, word for word and in the
\* order of its inputs, whatever earlier calls left in out.
Static(f) == \A k \in DOMAIN Functions[f].inputs : ~IsDynamic(Functions[f].inputs[k])

StaticCallIsAbi ==
    Done => \A f \in Asked :
        Asked = {f} /\ Static(f) /\ SupportedInputs(f) => out = AbiCall(f)
=============================================================================
