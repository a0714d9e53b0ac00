--------------------------- MODULE Contract_proofs --------------------------
(***************************************************************************)
(* Theorems about the contract: AbiParser, which makes its functions of an *)
(* ABI, and CallData, which makes the bytes of a call, for every ABI,      *)
(* contract and dictionary of values.                                      *)
(***************************************************************************)
EXTENDS AbiParser, CallData, RecursionLemmas, SequenceTheorems, TLAPS

-----------------------------------------------------------------------------
(* Numbers. *)

LEMMA NextNumber ==
    ASSUME NEW a \in Nat, NEW b \in 0..9
    PROVE  10 * a + b \in Nat
OBVIOUS

(* The recursive definition in Number has a solution along its digits. *)
LEMMA NumberDef ==
    ASSUME NEW s \in Seq(0..9)
    PROVE  \E v \in [0..Len(s) -> Nat] :
               /\ v[0] = 0
               /\ \A i \in 1..Len(s) : v[i] = 10 * v[i - 1] + s[i]
               /\ Number(s) = v[Len(s)]
<1>. DEFINE m == Len(s)
            step == [p \in (1..m) \X Nat |-> 10 * p[2] + s[p[1]]]
            Is(f) == f = [i \in 0..Len(s) |-> IF i = 0 THEN 0 ELSE 10 * f[i - 1] + s[i]]
<1>1. m \in Nat /\ \A i \in 1..m : s[i] \in 0..9
    OBVIOUS
<1>2. step \in [(1..m) \X Nat -> Nat]
    <2>. HIDE DEF m
    <2>1. ASSUME NEW p \in (1..m) \X Nat PROVE 10 * p[2] + s[p[1]] \in Nat
        <3>1. p[2] \in Nat /\ s[p[1]] \in 0..9
            BY <1>1
        <3>. QED  BY <3>1, NextNumber
    <2>. QED  BY <2>1
<1>3. PICK f \in [0..m -> Nat] : f[0] = 0 /\ \A i \in 1..m : f[i] = step[<<i, f[i - 1]>>]
    <2>1. Along(Nat, m, 0, step)
        <3>. HIDE DEF m, step
        <3>. QED  BY <1>1, <1>2 DEF Along
    <2>. HIDE DEF m, step
    <2>. QED  BY <2>1, ListRecursion
<1>4. ASSUME NEW i \in 1..m PROVE f[i] = 10 * f[i - 1] + s[i]
    <2>1. i - 1 \in 0..m /\ f[i - 1] \in Nat
        BY <1>1
    <2>2. f[i] = step[<<i, f[i - 1]>>]
        BY <1>3
    <2>. QED  BY <2>1, <2>2
<1>5. Is(f)
    <2>. HIDE DEF m
    <2>1. \A i \in 0..m : f[i] = IF i = 0 THEN 0 ELSE 10 * f[i - 1] + s[i]
        BY <1>1, <1>3, <1>4
    <2>. QED  BY <2>1 DEF m
<1>. DEFINE v == CHOOSE g : Is(g)
<1>6. Is(v)
    <2>. HIDE DEF Is
    <2>. QED  BY <1>5
<1>7. Number(s) = v[Len(s)]
    BY Zenon DEF Number
<1>8. DOMAIN v = 0..m /\ v[0] = 0 /\ \A i \in 1..m : v[i] = 10 * v[i - 1] + s[i]
    <2>. HIDE DEF v
    <2>. QED  BY <1>1, <1>6
<1>9. v \in [0..m -> Nat]
    <2>. DEFINE S == {i \in 0..m : v[i] \in Nat}
    <2>. HIDE DEF v, m
    <2>1. 0 \in S
        BY <1>1, <1>8
    <2>2. ASSUME NEW i \in 1..m, i - 1 \in S PROVE i \in S
        <3>1. v[i - 1] \in Nat /\ s[i] \in 0..9
            BY <1>1, <2>2
        <3>2. v[i] \in Nat
            <4>1. v[i] = 10 * v[i - 1] + s[i]
                BY <1>8
            <4>. QED  BY <3>1, <4>1, NextNumber
        <3>. QED  BY <1>1, <3>2
    <2>3. 0..m \subseteq S
        <3>. HIDE DEF S
        <3>. QED  BY <1>1, <2>1, <2>2, InductionUpTo
    <2>4. v = [i \in 0..m |-> v[i]]
        BY <1>6, <1>8 DEF m
    <2>. QED  BY <2>3, <2>4
<1>. HIDE DEF v
<1>. QED  BY <1>7, <1>8, <1>9

LEMMA NumberType ==
    ASSUME NEW s \in Seq(0..9)
    PROVE  Number(s) \in Nat
<1>1. Len(s) \in 0..Len(s)
    OBVIOUS
<1>. QED  BY <1>1, NumberDef

LEMMA NumberEmpty == Number(<<>>) = 0
<1>1. <<>> \in Seq(0..9) /\ Len(<<>>) = 0
    OBVIOUS
<1>. QED  BY <1>1, NumberDef

(* One digit is its own number, which is why a static array with less than  *)
(* ten elements has the right length.                                        *)
LEMMA ShortArraySize ==
    ASSUME NEW s \in Seq(0..9), Len(s) <= 1
    PROVE  ArraySize(s) = Number(s)
<1>1. [n \in 1..((Len(s) + 1) \div 2) |-> s[2 * n - 1]] = s
    <2>1. CASE s = <<>>
        <3>1. (Len(s) + 1) \div 2 = 0
            BY <2>1
        <3>. QED  BY <2>1, <3>1
    <2>2. CASE Len(s) = 1
        <3>1. (Len(s) + 1) \div 2 = 1
            BY <2>2
        <3>2. s = [n \in 1..1 |-> s[n]]
            BY <2>2
        <3>3. \A n \in 1..1 : 2 * n - 1 = n
            OBVIOUS
        <3>. QED  BY <3>1, <3>2, <3>3
    <2>3. s = <<>> \/ Len(s) = 1
        <3>. DEFINE n == Len(s)
        <3>1. s # <<>> => n \in Nat \ {0}
            BY EmptySeq
        <3>2. n <= 1
            OBVIOUS
        <3>. HIDE DEF n
        <3>3. s # <<>> => n = 1
            BY <3>1, <3>2
        <3>. QED  BY <3>3 DEF n
    <2>. QED  BY <2>1, <2>2, <2>3
<1>. QED  BY <1>1 DEF ArraySize

-----------------------------------------------------------------------------
(* Types and their texts. *)

LEMMA PlainTypes ==
    ASSUME NEW t, t.base \in Bases
    PROVE  /\ PlainType(t) \in Plains
           /\ TypeName(PlainType(t)) = t.base
           /\ Integer(PlainType(t)) <=> t.base \in {"uint", "int"}
           /\ PlainType(t) = "BYTES_STATIC" <=> t.base = "bytes" /\ t.size # <<>>
BY DEF Bases, PlainType, Plains, TypeName, Integer

(* The size of a type the ABI has is printed as it was read. *)
LEMMA SizeKept ==
    ASSUME NEW t, IsType(t), Known(t), ~UnsizedIntArray(t)
    PROVE  SizeText(PlainType(t), SizeBytes(t))
               = IF t.base \in {"uint", "int"} /\ t.size = <<>> THEN 256 ELSE Number(t.size)
<1>1. t.base \in Bases /\ Number(t.size) \in Nat
    BY NumberType DEF IsType, Known
<1>2. CASE t.base \in {"uint", "int"}
    <2>1. CASE t.size = <<>>
        <3>1. t.array = "none"
            BY <1>2, <2>1 DEF UnsizedIntArray
        <3>2. Integer(PlainType(t))
            BY <1>1, <1>2, PlainTypes
        <3>3. SizeBytes(t) = 32
            BY <2>1, <3>1, <3>2 DEF SizeBytes, Integer
        <3>. QED  BY <1>2, <2>1, <3>2, <3>3 DEF SizeText
    <2>2. CASE t.size # <<>>
        <3>1. SizeBytes(t) = Number(t.size) \div 8
            BY <1>1, <1>2, <2>2, PlainTypes DEF SizeBytes
        <3>2. 8 * (Number(t.size) \div 8) = Number(t.size)
            BY <1>1, <1>2 DEF Known
        <3>. QED  BY <1>1, <1>2, <2>2, <3>1, <3>2, PlainTypes DEF SizeText
    <2>. QED  BY <2>1, <2>2
<1>3. CASE t.base \notin {"uint", "int"}
    <2>1. SizeText(PlainType(t), SizeBytes(t)) = SizeBytes(t)
        BY <1>1, <1>3, PlainTypes DEF SizeText
    <2>2. CASE t.size = <<>>
        BY <1>1, <1>3, <2>1, <2>2, PlainTypes, NumberEmpty DEF SizeBytes
    <2>3. CASE t.size # <<>>
        BY <1>1, <1>3, <2>1, <2>3, PlainTypes DEF SizeBytes, Known
    <2>. QED  BY <2>2, <2>3
<1>. QED  BY <1>2, <1>3

(* What is made of a type the ABI has is printed as its canonical text. *)
LEMMA TextKept ==
    ASSUME NEW t, IsType(t), Known(t), ~LongArray(t), ~UnsizedIntArray(t),
           NEW a \in Parsed(t)
    PROVE  InputText(a) = Canonical(t)
<1>. DEFINE size == SizeText(PlainType(t), SizeBytes(t))
<1>1. /\ t.base \in Bases /\ t.base # "(" /\ TypeName(PlainType(t)) = t.base
      /\ PlainType(t) \notin {"ARRAY_STATIC", "ARRAY_DYNAMIC"}
    BY PlainTypes DEF Known, Plains, Bases
<1>2. Canonical(t) = Text(t.base, size, t.array, Number(t.length))
    <2>1. t.nested = FALSE
        BY DEF IsType, Known
    <2>. HIDE DEF size
    <2>2. IF t.base \in {"uint", "int"} /\ t.size = <<>> THEN size = 256 ELSE size = Number(t.size)
        BY SizeKept DEF size
    <2>. QED  BY <2>1, <2>2 DEF Canonical, Text
<1>3. CASE t.array = "none"
    <2>1. a = Abi(PlainType(t), SizeBytes(t), "UNKNOWN", 0)
        BY <1>1, <1>3 DEF Parsed
    <2>2. InputText(a) = Text(TypeName(PlainType(t)), size, "none", 0)
        BY <1>1, <2>1 DEF InputText, Abi
    <2>3. Number(t.length) = 0
        BY <1>3, NumberEmpty DEF IsType
    <2>. QED  BY <1>1, <1>2, <1>3, <2>2, <2>3
<1>4. CASE t.array = "dynamic"
    <2>1. a = Abi("ARRAY_DYNAMIC", SizeBytes(t), PlainType(t), 0)
        BY <1>1, <1>4 DEF Parsed
    <2>2. InputText(a) = Text(TypeName(PlainType(t)), size, "dynamic", 0)
        BY <1>1, <2>1 DEF InputText, Abi
    <2>3. Number(t.length) = 0
        BY <1>4, NumberEmpty DEF IsType
    <2>. QED  BY <1>1, <1>2, <1>4, <2>2, <2>3
<1>5. CASE t.array = "static"
    <2>1. a = Abi("ARRAY_STATIC", SizeBytes(t), PlainType(t), ArraySize(t.length))
        BY <1>1, <1>5 DEF Parsed, StaticArray
    <2>2. InputText(a) = Text(TypeName(PlainType(t)), size, "static", ArraySize(t.length))
        BY <1>1, <2>1 DEF InputText, Abi
    <2>3. ArraySize(t.length) = Number(t.length)
        <3>1. t.length \in Seq(0..9) /\ Len(t.length) <= 1
            BY <1>5, LenProperties DEF IsType, LongArray
        <3>. QED  BY <3>1, ShortArraySize
    <2>. QED  BY <1>1, <1>2, <1>5, <2>2, <2>3
<1>. QED  BY <1>3, <1>4, <1>5 DEF IsType, Known

-----------------------------------------------------------------------------
(* The functions of an ABI. *)

(* The recursive definition in FunctionsAmong has a solution along the ABI. *)
LEMMA FunctionsAmongDef ==
    ASSUME NEW E, NEW a \in Seq(E)
    PROVE  /\ FunctionsAmong(a, 0) = <<>>
           /\ \A i \in 1..Len(a) : FunctionsAmong(a, i) =
                  IF a[i].kind = "function" THEN Append(FunctionsAmong(a, i - 1), a[i])
                  ELSE FunctionsAmong(a, i - 1)
<1>. DEFINE m == Len(a)
            step == [p \in (1..m) \X Seq(E) |->
                        IF a[p[1]].kind = "function" THEN Append(p[2], a[p[1]]) ELSE p[2]]
            Is(f) == f = [i \in 0..Len(a) |->
                        IF i = 0 THEN <<>>
                        ELSE IF a[i].kind = "function" THEN Append(f[i - 1], a[i])
                        ELSE f[i - 1]]
<1>1. m \in Nat /\ <<>> \in Seq(E) /\ \A i \in 1..m : a[i] \in E
    OBVIOUS
<1>2. step \in [(1..m) \X Seq(E) -> Seq(E)]
    <2>. HIDE DEF m
    <2>. QED  BY <1>1
<1>3. PICK f \in [0..m -> Seq(E)] : f[0] = <<>> /\ \A i \in 1..m : f[i] = step[<<i, f[i - 1]>>]
    <2>1. Along(Seq(E), m, <<>>, step)
        <3>. HIDE DEF m, step
        <3>. QED  BY <1>1, <1>2 DEF Along
    <2>. HIDE DEF m, step
    <2>. QED  BY <2>1, ListRecursion
<1>4. ASSUME NEW i \in 1..m
      PROVE  f[i] = IF a[i].kind = "function" THEN Append(f[i - 1], a[i]) ELSE f[i - 1]
    <2>1. i - 1 \in 0..m /\ f[i - 1] \in Seq(E)
        <3>. HIDE DEF m
        <3>. QED  BY <1>1
    <2>2. f[i] = step[<<i, f[i - 1]>>]
        BY <1>3
    <2>. QED  BY <2>1, <2>2
<1>5. Is(f)
    <2>. HIDE DEF m
    <2>1. \A i \in 0..m : f[i] = IF i = 0 THEN <<>>
                                 ELSE IF a[i].kind = "function" THEN Append(f[i - 1], a[i])
                                 ELSE f[i - 1]
        <3>. HIDE DEF step
        <3>1. \A i \in 0..m : i = 0 \/ (i # 0 /\ i \in 1..m)
            BY <1>1
        <3>. QED  BY <1>3, <1>4, <3>1, Zenon
    <2>. QED  BY <2>1 DEF m
<1>. DEFINE v == CHOOSE g : Is(g)
<1>6. Is(v)
    <2>. HIDE DEF Is
    <2>. QED  BY <1>5
<1>7. \A n : FunctionsAmong(a, n) = v[n]
    BY Zenon DEF FunctionsAmong
<1>8. v[0] = <<>> /\ \A i \in 1..m : v[i] =
          IF a[i].kind = "function" THEN Append(v[i - 1], a[i]) ELSE v[i - 1]
    <2>1. v = [i \in 0..m |->
                    IF i = 0 THEN <<>>
                    ELSE IF a[i].kind = "function" THEN Append(v[i - 1], a[i])
                    ELSE v[i - 1]]
        BY <1>6, Zenon
    <2>. HIDE DEF v, m
    <2>2. 0 \in 0..m /\ \A i \in 1..m : i \in 0..m /\ i # 0
        BY <1>1
    <2>3. \A i \in 0..m : v[i] = IF i = 0 THEN <<>>
                    ELSE IF a[i].kind = "function" THEN Append(v[i - 1], a[i])
                    ELSE v[i - 1]
        BY <2>1, Zenon
    <2>. QED  BY <2>2, <2>3, Zenon
<1>. HIDE DEF v
<1>. QED  BY <1>7, <1>8

(* They are functions of the ABI, and those among fewer elements come first. *)
LEMMA FunctionsAmongGrow ==
    ASSUME NEW E, NEW a \in Seq(E), NEW n \in 0..Len(a)
    PROVE  /\ FunctionsAmong(a, n) \in Seq(E)
           /\ \A k \in 0..n : /\ Len(FunctionsAmong(a, k)) <= Len(FunctionsAmong(a, n))
                              /\ \A f \in 1..Len(FunctionsAmong(a, k)) :
                                    FunctionsAmong(a, k)[f] = FunctionsAmong(a, n)[f]
<1>. DEFINE m == Len(a)
            F(i) == FunctionsAmong(a, i)
            P(i) == /\ F(i) \in Seq(E)
                    /\ \A k \in 0..i : /\ F(k) \in Seq(E)
                                       /\ Len(F(k)) <= Len(F(i))
                                       /\ \A f \in 1..Len(F(k)) : F(k)[f] = F(i)[f]
            S == {i \in 0..m : P(i)}
<1>1. m \in Nat /\ \A i \in 1..m : a[i] \in E
    OBVIOUS
<1>2. F(0) = <<>> /\ \A i \in 1..m : F(i) =
          IF a[i].kind = "function" THEN Append(F(i - 1), a[i]) ELSE F(i - 1)
    BY FunctionsAmongDef
<1>. HIDE DEF m, F
<1>3. 0 \in S
    <2>1. F(0) \in Seq(E)
        BY <1>2, EmptySeq
    <2>2. \A k \in 0..0 : k = 0
        OBVIOUS
    <2>. QED  BY <1>1, <2>1, <2>2
<1>4. ASSUME NEW i \in 1..m, i - 1 \in S PROVE i \in S
    <2>1. P(i - 1) /\ i \in 0..m /\ \A k \in 0..i : k = i \/ k \in 0..(i - 1)
        BY <1>1, <1>4
    <2>2. /\ F(i) \in Seq(E) /\ Len(F(i - 1)) <= Len(F(i))
          /\ \A f \in 1..Len(F(i - 1)) : F(i - 1)[f] = F(i)[f]
        <3>1. CASE a[i].kind = "function"
            <4>1. F(i) = Append(F(i - 1), a[i]) /\ a[i] \in E /\ F(i - 1) \in Seq(E)
                BY <1>1, <1>2, <2>1, <3>1
            <4>. QED  BY <4>1
        <3>2. CASE a[i].kind # "function"
            <4>1. F(i) = F(i - 1) /\ F(i - 1) \in Seq(E)
                BY <1>2, <2>1, <3>2
            <4>. QED  BY <4>1
        <3>. QED  BY <3>1, <3>2
    <2>3. ASSUME NEW k \in 0..i
          PROVE  F(k) \in Seq(E) /\ Len(F(k)) <= Len(F(i)) /\ \A f \in 1..Len(F(k)) : F(k)[f] = F(i)[f]
        <3>1. CASE k = i
            BY <2>2, <3>1
        <3>2. CASE k \in 0..(i - 1)
            <4>1. F(k) \in Seq(E) /\ Len(F(k)) <= Len(F(i - 1)) /\ \A f \in 1..Len(F(k)) : F(k)[f] = F(i - 1)[f]
                BY <2>1, <3>2
            <4>2. Len(F(i)) \in Nat /\ Len(F(i - 1)) \in Nat
                BY <2>1, <2>2
            <4>3. Len(F(k)) \in Nat /\ Len(F(k)) <= Len(F(i))
                BY <2>2, <4>1, <4>2
            <4>4. \A f \in 1..Len(F(k)) : f \in 1..Len(F(i - 1))
                BY <4>1, <4>2, <4>3
            <4>. QED  BY <2>2, <4>1, <4>3, <4>4
        <3>. QED  BY <2>1, <3>1, <3>2
    <2>4. P(i)
        BY <2>2, <2>3
    <2>. QED  BY <2>1, <2>4
<1>5. 0..m \subseteq S
    <2>. HIDE DEF S
    <2>. QED  BY <1>1, <1>3, <1>4, InductionUpTo
<1>. QED  BY <1>5 DEF m, F

-----------------------------------------------------------------------------
(* The inductive invariant of the parser. *)

Results ==
    [type : Plains \cup {"ARRAY_STATIC", "ARRAY_DYNAMIC", "REFUSED"}, sizeBytes : Int,
     arrayType : Plains \cup {"UNKNOWN"}, arraySize : Int]

\* The functions a contract may have once it was given a.
ContractFunctions(a) == [name : {e.name : e \in Range(a)}, inputs : Seq(Results)]

PlaceInv ==
    /\ abi \in Abis
    /\ at \in 1..Len(abi) + 1
    /\ phase \in {"element", "inputs", "outputs", "idle"}
    /\ parsed \in Seq(Results)
    /\ functions \in Seq(ContractFunctions(abi))
    /\ phase \in {"inputs", "outputs"} => at \in 1..Len(abi) /\ element.kind = "function"
    /\ parsedAs = "SUCCESS" => at = Len(abi) + 1

\* What has been parsed of the element under way comes of its types in order.
ParsedInv ==
    /\ phase = "inputs" => Len(parsed) <= Len(element.inputs)
    /\ phase = "outputs" => Len(parsed) \in Len(element.inputs)..Len(TypesOf(element))
    /\ phase \in {"inputs", "outputs"} =>
          \A i \in 1..Len(parsed) : parsed[i] \in Parsed(TypesOf(element)[i])

\* A function of the contract is what was made of a declaration.
MadeOf(f, e) ==
    /\ f.name = e.name
    /\ Len(f.inputs) = Len(e.inputs)
    /\ \A k \in 1..Len(e.inputs) : f.inputs[k] \in Parsed(e.inputs[k])

KnownInv ==
    /\ Len(functions) = Len(Declared(at - 1))
    /\ \A f \in 1..Len(functions) : MadeOf(functions[f], Declared(at - 1)[f])

AbiInv == PlaceInv /\ ParsedInv /\ KnownInv

(* What the assumption says of an ABI that the parser may be given. *)
LEMMA AbiType ==
    ASSUME NEW a \in Abis
    PROVE  /\ a \in Seq(Range(a))
           /\ \A i \in 1..Len(a) :
                /\ a[i] \in Range(a)
                /\ a[i].inputs \in Seq(Range(a[i].inputs))
                /\ a[i].outputs \in Seq(Range(a[i].outputs))
                /\ \A t \in Range(a[i].inputs) \cup Range(a[i].outputs) : IsType(t)
<1>1. a \in Seq(Range(a))
    BY AbisAssumption
<1>2. \A i \in 1..Len(a) : a[i] \in Range(a)
    BY <1>1
<1>. QED  BY <1>1, <1>2, AbisAssumption

(* The types of an element are its inputs and then its outputs. *)
LEMMA TypesOfElement ==
    ASSUME NEW a \in Abis, NEW i \in 1..Len(a)
    PROVE  /\ Len(a[i].inputs) \in Nat
           /\ Len(TypesOf(a[i])) \in Nat
           /\ Len(a[i].inputs) <= Len(TypesOf(a[i]))
           /\ \A k \in 1..Len(a[i].inputs) : TypesOf(a[i])[k] = a[i].inputs[k]
           /\ \A k \in 1..Len(TypesOf(a[i])) : IsType(TypesOf(a[i])[k])
<1>. DEFINE u == a[i].inputs
            v == a[i].outputs
            T == Range(u) \cup Range(v)
<1>1. /\ u \in Seq(Range(u)) /\ v \in Seq(Range(v))
      /\ \A t \in T : IsType(t)
    BY AbiType
<1>2. u \in Seq(T) /\ v \in Seq(T)
    <2>. DEFINE U == Range(u)
                V == Range(v)
    <2>. HIDE DEF u, v, U, V
    <2>. QED  BY <1>1 DEF U, V
<1>. HIDE DEF u, v, T
<1>3. /\ Len(u) \in Nat /\ Len(u \o v) \in Nat /\ Len(u) <= Len(u \o v)
      /\ u \o v \in Seq(T)
      /\ \A k \in 1..Len(u) : (u \o v)[k] = u[k]
    BY <1>2
<1>4. \A k \in 1..Len(u \o v) : (u \o v)[k] \in T
    <2>. DEFINE w == u \o v
    <2>. HIDE DEF w
    <2>. QED  BY <1>3 DEF w
<1>. QED  BY <1>1, <1>3, <1>4 DEF u, v, TypesOf

LEMMA OddsUpTo ==
    ASSUME NEW m \in Nat
    PROVE  (m + 1) \div 2 \in Nat /\ \A n \in 1..((m + 1) \div 2) : 2 * n - 1 \in 1..m
OBVIOUS

(* What is made of a type is the record of a type. *)
LEMMA ParsedType ==
    ASSUME NEW t, IsType(t)
    PROVE  Parsed(t) \subseteq Results
<1>1. Number(t.size) \in Nat /\ Number(t.length) \in Nat
    BY NumberType DEF IsType
<1>2. Refused \in Results
    BY DEF Refused, Results, Abi
<1>3. CASE t.base = "("
    BY <1>2, <1>3 DEF Parsed, Bases
<1>4. CASE t.base \notin Bases \cup {"("}
    <2>1. Parsed(t) = {Refused} \cup {Abi(type, 0, "UNKNOWN", 0) : type \in Plains}
        BY <1>4 DEF Parsed
    <2>2. \A type \in Plains : Abi(type, 0, "UNKNOWN", 0) \in Results
        BY DEF Abi, Results
    <2>. QED  BY <1>2, <2>1, <2>2
<1>5. CASE t.base \in Bases
    <2>1. PlainType(t) \in Plains
        BY <1>5, PlainTypes
    <2>2. SizeBytes(t) \in Int
        BY <1>1 DEF SizeBytes
    <2>3. ArraySize(t.length) \in Int
        <3>. DEFINE s == t.length
                    u == [n \in 1..((Len(s) + 1) \div 2) |-> s[2 * n - 1]]
        <3>1. s \in Seq(0..9) /\ Len(s) \in Nat
            BY LenProperties DEF IsType
        <3>2. (Len(s) + 1) \div 2 \in Nat /\ \A n \in 1..((Len(s) + 1) \div 2) : 2 * n - 1 \in 1..Len(s)
            BY <3>1, OddsUpTo
        <3>3. u \in Seq(0..9)
            <4>. HIDE DEF s
            <4>. QED  BY <3>1, <3>2
        <3>. HIDE DEF u
        <3>4. Number(u) \in Int
            BY <3>3, NumberType
        <3>. QED  BY <3>4 DEF u, ArraySize
    <2>4. /\ Abi(PlainType(t), SizeBytes(t), "UNKNOWN", 0) \in Results
          /\ Abi("ARRAY_DYNAMIC", SizeBytes(t), PlainType(t), 0) \in Results
          /\ StaticArray(t) \in Results
        BY <2>1, <2>2, <2>3 DEF Abi, Results, StaticArray
    <2>5. t.base # "("
        BY <1>5 DEF Bases
    <2>6. Parsed(t) \subseteq {Refused, StaticArray(t), Abi(PlainType(t), SizeBytes(t), "UNKNOWN", 0),
                                 Abi("ARRAY_DYNAMIC", SizeBytes(t), PlainType(t), 0)}
        <3>. HIDE DEF Refused
        <3>. QED  BY <1>5, <2>5 DEF Parsed, IsType
    <2>. QED  BY <1>2, <2>4, <2>6
<1>. QED  BY <1>3, <1>4, <1>5

LEMMA AbiInitInv == AbiInit => AbiInv
<1>. SUFFICES ASSUME AbiInit PROVE AbiInv
    OBVIOUS
<1>1. abi \in Seq(Range(abi)) /\ Len(abi) \in Nat
    BY AbiType, LenProperties DEF AbiInit
<1>2. PlaceInv
    <2>1. <<>> \in Seq(Results) /\ <<>> \in Seq(ContractFunctions(abi))
        BY EmptySeq
    <2>. QED  BY <1>1, <2>1 DEF AbiInit, PlaceInv
<1>3. ParsedInv
    BY DEF AbiInit, ParsedInv
<1>4. KnownInv
    <2>1. Declared(at - 1) = <<>>
        <3>1. at - 1 = 0
            BY DEF AbiInit
        <3>. QED  BY <1>1, <3>1, FunctionsAmongDef DEF Declared
    <2>. QED  BY <2>1 DEF AbiInit, KnownInv
<1>. QED  BY <1>2, <1>3, <1>4 DEF AbiInv

(* A step that leaves the functions and the place among the elements alone.  *)
LEMMA SameFunctions ==
    ASSUME KnownInv, UNCHANGED <<abi, at, functions>>
    PROVE  KnownInv'
BY DEF KnownInv, Declared, MadeOf

(* An error or the end of the ABI: nothing but phase and result change. *)
LEMMA NothingMoreIsParsed ==
    ASSUME AbiInv, UNCHANGED <<abi, at, parsed, functions>>, phase' = "idle",
           parsedAs' = "SUCCESS" => at = Len(abi) + 1
    PROVE  AbiInv'
<1>1. PlaceInv'
    BY DEF AbiInv, PlaceInv, ContractFunctions
<1>2. ParsedInv'
    BY DEF ParsedInv
<1>. QED  BY <1>1, <1>2, SameFunctions DEF AbiInv

LEMMA StopInv == AbiInv /\ Stop => AbiInv'
BY NothingMoreIsParsed DEF Stop

LEMMA EndOfAbiInv == AbiInv /\ EndOfAbi => AbiInv'
<1>. SUFFICES ASSUME AbiInv, EndOfAbi PROVE AbiInv'
    OBVIOUS
<1>1. Len(abi) \in Nat
    BY AbiType, LenProperties DEF AbiInv, PlaceInv
<1>2. at = Len(abi) + 1
    BY <1>1 DEF AbiInv, PlaceInv, EndOfAbi
<1>. QED  BY <1>2, NothingMoreIsParsed DEF EndOfAbi

LEMMA SkipElementInv == AbiInv /\ SkipElement => AbiInv'
<1>. SUFFICES ASSUME AbiInv, SkipElement PROVE AbiInv'
    OBVIOUS
<1>1. /\ abi \in Abis /\ abi' = abi /\ at \in 1..Len(abi) /\ at' = at + 1
      /\ Len(abi) \in Nat /\ abi \in Seq(Range(abi))
    BY AbiType, LenProperties DEF AbiInv, PlaceInv, SkipElement, InElement
<1>2. parsedAs' = "SUCCESS" => at' = Len(abi) + 1
    BY <1>1 DEF AbiInv, PlaceInv, SkipElement
<1>3. PlaceInv'
    BY <1>1, <1>2 DEF AbiInv, PlaceInv, SkipElement, InElement, ContractFunctions
<1>4. ParsedInv'
    BY DEF SkipElement, InElement, ParsedInv
<1>5. Declared(at - 1)' = Declared(at - 1)
    <2>1. FunctionsAmong(abi, at) = FunctionsAmong(abi, at - 1)
        BY <1>1, FunctionsAmongDef DEF SkipElement, element
    <2>2. (at + 1) - 1 = at
        BY <1>1
    <2>. QED  BY <1>1, <2>1, <2>2 DEF Declared
<1>6. KnownInv'
    BY <1>5 DEF AbiInv, KnownInv, MadeOf, SkipElement
<1>. QED  BY <1>3, <1>4, <1>6 DEF AbiInv

LEMMA BeginFunctionInv == AbiInv /\ BeginFunction => AbiInv'
<1>. SUFFICES ASSUME AbiInv, BeginFunction PROVE AbiInv'
    OBVIOUS
<1>1. abi \in Abis /\ at \in 1..Len(abi) /\ Len(abi) \in Nat
    BY AbiType, LenProperties DEF AbiInv, PlaceInv, BeginFunction, InElement
<1>2. <<>> \in Seq(Results) /\ Len(<<>>) = 0
    BY EmptySeq
<1>3. PlaceInv'
    BY <1>1, <1>2 DEF AbiInv, PlaceInv, BeginFunction, ContractFunctions, element
<1>4. ParsedInv'
    BY <1>1, <1>2, TypesOfElement DEF ParsedInv, BeginFunction, element
<1>5. KnownInv'
    BY SameFunctions DEF AbiInv, BeginFunction
<1>. QED  BY <1>3, <1>4, <1>5 DEF AbiInv

LEMMA ParseInv == AbiInv /\ Parse => AbiInv'
<1>. SUFFICES ASSUME AbiInv, Parse PROVE AbiInv'
    OBVIOUS
<1>. DEFINE n == Len(parsed)
<1>1. /\ abi \in Abis /\ at \in 1..Len(abi)
      /\ parsed \in Seq(Results) /\ n \in Nat
      /\ UNCHANGED <<abi, at, phase, functions, parsedAs>>
    BY LenProperties DEF AbiInv, PlaceInv, Parse, InputToParse, OutputToParse
<1>2. PICK a \in Parsed(TypesOf(element)[n + 1]) : parsed' = Append(parsed, a)
    BY DEF Parse
<1>3. n + 1 \in 1..Len(TypesOf(element))
    BY <1>1, TypesOfElement DEF Parse, InputToParse, OutputToParse, element
<1>4. a \in Results
    BY <1>1, <1>2, <1>3, TypesOfElement, ParsedType DEF element
<1>5. /\ parsed' \in Seq(Results) /\ Len(parsed') = n + 1 /\ parsed'[n + 1] = a
      /\ \A i \in 1..n : parsed'[i] = parsed[i]
    BY <1>1, <1>2, <1>4
<1>6. PlaceInv'
    BY <1>1, <1>5 DEF AbiInv, PlaceInv, ContractFunctions, element
<1>7. ParsedInv'
    <2>. HIDE DEF n
    <2>1. phase = "inputs" => n + 1 <= Len(element.inputs)
        BY <1>1, TypesOfElement DEF Parse, InputToParse, OutputToParse, element, n
    <2>2. phase = "outputs" => n + 1 \in Len(element.inputs)..Len(TypesOf(element))
        BY <1>1, TypesOfElement DEF AbiInv, ParsedInv, Parse, InputToParse, OutputToParse, element, n
    <2>3. phase \in {"inputs", "outputs"} =>
              \A i \in 1..n : parsed[i] \in Parsed(TypesOf(element)[i])
        BY DEF AbiInv, ParsedInv, n
    <2>4. \A i \in 1..(n + 1) : i \in 1..n \/ i = n + 1
        BY <1>1
    <2>5. element' = element /\ phase' = phase
        BY <1>1 DEF element
    <2>. QED  BY <1>2, <1>5, <2>1, <2>2, <2>3, <2>4, <2>5 DEF ParsedInv
<1>8. KnownInv'
    BY <1>1, SameFunctions DEF AbiInv
<1>. QED  BY <1>6, <1>7, <1>8 DEF AbiInv

LEMMA BeginOutputsInv == AbiInv /\ BeginOutputs => AbiInv'
<1>. SUFFICES ASSUME AbiInv, BeginOutputs PROVE AbiInv'
    OBVIOUS
<1>1. abi \in Abis /\ at \in 1..Len(abi) /\ Len(parsed) \in Nat
    BY LenProperties DEF AbiInv, PlaceInv, BeginOutputs
<1>2. PlaceInv'
    BY DEF AbiInv, PlaceInv, BeginOutputs, ContractFunctions, element
<1>3. Len(parsed) \in Len(element.inputs)..Len(TypesOf(element))
    BY <1>1, TypesOfElement DEF AbiInv, ParsedInv, BeginOutputs, InputToParse, element
<1>4. ParsedInv'
    BY <1>3 DEF AbiInv, ParsedInv, BeginOutputs, element
<1>5. KnownInv'
    BY SameFunctions DEF AbiInv, BeginOutputs
<1>. QED  BY <1>2, <1>4, <1>5 DEF AbiInv

LEMMA EndFunctionInv == AbiInv /\ EndFunction => AbiInv'
<1>. SUFFICES ASSUME AbiInv, EndFunction PROVE AbiInv'
    OBVIOUS
<1>. DEFINE e == abi[at]
            n == Len(e.inputs)
            ins == SubSeq(parsed, 1, n)
            new == [name |-> e.name, inputs |-> ins]
            known == Declared(at - 1)
<1>1. /\ abi \in Abis /\ at \in 1..Len(abi) /\ e.kind = "function"
      /\ parsed \in Seq(Results) /\ functions \in Seq(ContractFunctions(abi))
      /\ Len(abi) \in Nat /\ abi \in Seq(Range(abi)) /\ e \in Range(abi)
      /\ functions' = Append(functions, new)
      /\ at' = at + 1 /\ abi' = abi /\ phase' = "element" /\ parsed' = parsed
      /\ parsedAs' = parsedAs
    BY AbiType, LenProperties DEF AbiInv, PlaceInv, EndFunction, element
<1>2. /\ n \in Nat /\ n <= Len(parsed)
      /\ \A k \in 1..n : TypesOf(e)[k] = e.inputs[k]
      /\ \A k \in 1..Len(parsed) : parsed[k] \in Parsed(TypesOf(e)[k])
    BY <1>1, TypesOfElement DEF AbiInv, ParsedInv, EndFunction, element
<1>3. ins \in Seq(Results) /\ Len(ins) = n /\ \A k \in 1..n : ins[k] = parsed[k]
    <2>. HIDE DEF n
    <2>. QED  BY <1>1, <1>2
<1>4. MadeOf(new, e)
    <2>1. ASSUME NEW k \in 1..n PROVE ins[k] \in Parsed(e.inputs[k])
        <3>. HIDE DEF ins, n
        <3>1. k \in 1..Len(parsed)
            BY <1>1, <1>2, LenProperties
        <3>. QED  BY <1>2, <1>3, <3>1
    <2>. HIDE DEF ins
    <2>. QED  BY <1>3, <2>1 DEF MadeOf
<1>5. new \in ContractFunctions(abi)
    <2>. HIDE DEF ins
    <2>. QED  BY <1>1, <1>3 DEF ContractFunctions
<1>6. PlaceInv'
    <2>. HIDE DEF new
    <2>1. functions' \in Seq(ContractFunctions(abi))
        BY <1>1, <1>5
    <2>2. parsedAs # "SUCCESS"
        BY <1>1 DEF AbiInv, PlaceInv
    <2>. QED  BY <1>1, <2>1, <2>2 DEF PlaceInv, ContractFunctions
<1>7. ParsedInv'
    BY <1>1 DEF ParsedInv
<1>8. KnownInv'
    <2>1. known \in Seq(Range(abi)) /\ Declared(at) = Append(known, e)
        <3>1. at - 1 \in 0..Len(abi)
            BY <1>1
        <3>2. FunctionsAmong(abi, at) = Append(FunctionsAmong(abi, at - 1), abi[at])
            BY <1>1, FunctionsAmongDef
        <3>. QED  BY <1>1, <3>1, <3>2, FunctionsAmongGrow DEF Declared
    <2>2. Declared(at - 1)' = Declared(at)
        <3>1. (at + 1) - 1 = at
            BY <1>1
        <3>. QED  BY <1>1, <3>1 DEF Declared
    <2>3. Len(functions) = Len(known) /\ \A f \in 1..Len(functions) : MadeOf(functions[f], known[f])
        BY DEF AbiInv, KnownInv
    <2>. HIDE DEF known, new, e
    <2>4. /\ Len(functions) \in Nat /\ Len(functions') = Len(functions) + 1
          /\ functions'[Len(functions) + 1] = new
          /\ \A f \in 1..Len(functions) : functions'[f] = functions[f]
        BY <1>1
    <2>5. /\ Len(Declared(at)) = Len(known) + 1 /\ Declared(at)[Len(known) + 1] = e
          /\ \A f \in 1..Len(known) : Declared(at)[f] = known[f]
        BY <1>1, <2>1
    <2>6. ASSUME NEW f \in 1..Len(functions') PROVE MadeOf(functions'[f], Declared(at)[f])
        <3>1. f \in 1..Len(functions) \/ f = Len(functions) + 1
            BY <2>4
        <3>. QED  BY <1>4, <2>3, <2>4, <2>5, <3>1
    <2>. QED  BY <2>2, <2>3, <2>4, <2>5, <2>6 DEF KnownInv, MadeOf
<1>. QED  BY <1>6, <1>7, <1>8 DEF AbiInv

(* The parser keeps what it has made of an ABI apart from what it is making. *)
THEOREM ParserInvariant == AbiSpec => []AbiInv
<1>1. AbiInv /\ [AbiNext]_abiVars => AbiInv'
    <2>. SUFFICES ASSUME AbiInv, [AbiNext]_abiVars PROVE AbiInv'
        OBVIOUS
    <2>1. CASE SkipElement
        BY <2>1, SkipElementInv
    <2>2. CASE UntypedElement \/ NoInputs \/ Refuse \/ NoOutputs
        BY <2>2, StopInv DEF UntypedElement, NoInputs, Refuse, NoOutputs
    <2>3. CASE BeginFunction
        BY <2>3, BeginFunctionInv
    <2>4. CASE Parse
        BY <2>4, ParseInv
    <2>5. CASE BeginOutputs
        BY <2>5, BeginOutputsInv
    <2>6. CASE EndFunction
        BY <2>6, EndFunctionInv
    <2>7. CASE EndOfAbi
        BY <2>7, EndOfAbiInv
    <2>8. CASE UNCHANGED abiVars
        <3>. USE <2>8 DEF abiVars
        <3>1. PlaceInv'
            BY DEF AbiInv, PlaceInv, ContractFunctions, element
        <3>2. ParsedInv'
            BY DEF AbiInv, ParsedInv, element
        <3>. QED  BY <3>1, <3>2, SameFunctions DEF AbiInv
    <2>. QED  BY <2>1, <2>2, <2>3, <2>4, <2>5, <2>6, <2>7, <2>8 DEF AbiNext
<1>. QED  BY <1>1, AbiInitInv, PTL DEF AbiSpec

(* The contract knows the functions of the ABI it was given, in order, up to *)
(* where parseContract is or stopped, each with its inputs and only those.   *)
THEOREM FunctionsKnown == AbiSpec => []FunctionsInOrder
<1>1. AbiInv => FunctionsInOrder
    <2>. SUFFICES ASSUME AbiInv PROVE FunctionsInOrder
        OBVIOUS
    <2>1. DOMAIN functions = 1..Len(functions)
        BY LenProperties DEF AbiInv, PlaceInv
    <2>. QED  BY <2>1 DEF AbiInv, PlaceInv, KnownInv, MadeOf, FunctionsInOrder
<1>. QED  BY <1>1, ParserInvariant, PTL

(* The signature printed of a function, of which the selector is hashed, is  *)
(* the canonical one of its declaration, for the types named in the property. *)
THEOREM SelectorsCanonical == AbiSpec => []SelectorIsCanonical
<1>1. AbiInv => SelectorIsCanonical
    <2>. SUFFICES ASSUME AbiInv, NEW f \in DOMAIN functions,
                         \A t \in TypesIn(f) : Known(t) /\ ~LongArray(t) /\ ~UnsizedIntArray(t)
                  PROVE  SignatureKept(f)
        BY DEF SelectorIsCanonical
    <2>. DEFINE all == Declared(Len(abi))
                e == all[f]
    <2>1. /\ abi \in Abis /\ abi \in Seq(Range(abi)) /\ Len(abi) \in Nat
          /\ at - 1 \in 0..Len(abi) /\ Len(abi) \in 0..Len(abi)
          /\ functions \in Seq(ContractFunctions(abi)) /\ f \in 1..Len(functions)
        BY AbiType, LenProperties DEF AbiInv, PlaceInv
    <2>2. /\ all \in Seq(Range(abi)) /\ Len(Declared(at - 1)) <= Len(all)
          /\ \A g \in 1..Len(Declared(at - 1)) : Declared(at - 1)[g] = all[g]
        BY <2>1, FunctionsAmongGrow DEF Declared
    <2>3. MadeOf(functions[f], e) /\ Len(functions) = Len(Declared(at - 1))
        BY <2>1, <2>2 DEF AbiInv, KnownInv
    <2>4. f \in 1..Len(all)
        <3>. HIDE DEF all
        <3>. QED  BY <2>1, <2>2, <2>3
    <2>5. e \in Range(abi)
        <3>. HIDE DEF all
        <3>. QED  BY <2>2, <2>4
    <2>6. /\ e.inputs \in Seq(Range(e.inputs)) /\ Len(e.inputs) \in Nat
          /\ \A t \in Range(e.inputs) : IsType(t)
        BY <2>1, <2>5, AbisAssumption, LenProperties
    <2>. HIDE DEF all
    <2>7. ASSUME NEW k \in 1..Len(e.inputs)
          PROVE  InputText(functions[f].inputs[k]) = Canonical(e.inputs[k])
        <3>1. e.inputs[k] \in Range(e.inputs) /\ Range(e.inputs) = TypesIn(f)
            BY <2>6 DEF TypesIn, all
        <3>. QED  BY <2>3, <2>6, <3>1, TextKept DEF MadeOf
    <2>8. /\ functions[f].inputs \in Seq(Results)
          /\ DOMAIN functions[f].inputs = 1..Len(e.inputs)
          /\ DOMAIN e.inputs = 1..Len(e.inputs)
        <3>1. functions[f] \in ContractFunctions(abi)
            BY <2>1
        <3>2. functions[f].inputs \in Seq(Results)
            BY <3>1 DEF ContractFunctions
        <3>. QED  BY <2>3, <2>6, <3>2, LenProperties DEF MadeOf
    <2>9. getSignature(functions[f]) = Signature(e)
        BY <2>3, <2>7, <2>8 DEF getSignature, Signature, MadeOf
    <2>. QED  BY <2>9 DEF SignatureKept, all
<1>. QED  BY <1>1, ParserInvariant, PTL

-----------------------------------------------------------------------------
(* Sequences of sequences side by side. *)

(* The recursive definition in FlattenSeq has a solution along the sequence. *)
LEMMA FlattenDef ==
    ASSUME NEW C, NEW s \in Seq(Seq(C))
    PROVE  \E v \in [0..Len(s) -> Seq(C)] :
               /\ v[0] = <<>>
               /\ \A i \in 1..Len(s) : v[i] = v[i - 1] \o s[i]
               /\ FlattenSeq(s) = v[Len(s)]
<1>. DEFINE m == Len(s)
            step == [p \in (1..m) \X Seq(C) |-> p[2] \o s[p[1]]]
            Is(f) == f = [i \in 1..Len(s) |-> IF i = 1 THEN s[i] ELSE f[i - 1] \o s[i]]
<1>1. m \in Nat /\ <<>> \in Seq(C) /\ \A i \in 1..m : s[i] \in Seq(C)
    OBVIOUS
<1>2. CASE s = <<>>
    <2>1. m = 0 /\ FlattenSeq(s) = <<>>
        BY <1>2 DEF FlattenSeq
    <2>. DEFINE v == [i \in 0..m |-> <<>>]
    <2>2. v \in [0..m -> Seq(C)] /\ v[0] = <<>> /\ v[m] = <<>> /\ 1..m = {}
        BY <1>1, <2>1
    <2>. HIDE DEF v
    <2>. QED  BY <2>1, <2>2
<1>3. CASE s # <<>>
    <2>0. m # 0 /\ 1 \in 1..m
        <3>1. m # 0
            BY <1>3, EmptySeq
        <3>. HIDE DEF m
        <3>. QED  BY <1>1, <3>1
    <2>1. step \in [(1..m) \X Seq(C) -> Seq(C)]
        <3>. HIDE DEF m
        <3>1. \A i \in 1..m, x \in Seq(C) : x \o s[i] \in Seq(C)
            BY <1>1
        <3>. QED  BY <3>1
    <2>2. PICK f \in [0..m -> Seq(C)] : f[0] = <<>> /\ \A i \in 1..m : f[i] = step[<<i, f[i - 1]>>]
        <3>1. Along(Seq(C), m, <<>>, step)
            <4>. HIDE DEF m, step
            <4>. QED  BY <1>1, <2>1 DEF Along
        <3>. HIDE DEF m, step
        <3>. QED  BY <3>1, ListRecursion
    <2>3. ASSUME NEW i \in 1..m PROVE f[i] = f[i - 1] \o s[i]
        <3>1. i - 1 \in 0..m /\ f[i - 1] \in Seq(C)
            <4>. HIDE DEF m
            <4>. QED  BY <1>1
        <3>2. f[i] = step[<<i, f[i - 1]>>]
            BY <2>2
        <3>. QED  BY <3>1, <3>2
    <2>4. f[1] = s[1]
        <3>1. f[1] = <<>> \o s[1]
            <4>1. f[1] = f[1 - 1] \o s[1]
                BY <2>0, <2>3
            <4>2. 1 - 1 = 0 /\ f[0] = <<>>
                BY <2>2
            <4>. QED  BY <4>1, <4>2
        <3>. HIDE DEF m
        <3>2. s[1] \in Seq(C)
            BY <1>1, <2>0
        <3>. QED  BY <3>1, <3>2
    <2>. DEFINE g == [i \in 1..m |-> f[i]]
    <2>5. Is(g)
        <3>1. \A i \in 1..m : i # 1 => i - 1 \in 1..m
            <4>. HIDE DEF m
            <4>. QED  BY <1>1
        <3>2. \A i \in 1..m : g[i] = f[i]
            OBVIOUS
        <3>. HIDE DEF g, m
        <3>3. \A i \in 1..m : f[i] = IF i = 1 THEN s[i] ELSE g[i - 1] \o s[i]
            BY <2>3, <2>4, <3>1, <3>2, Zenon
        <3>. QED  BY <3>3, Zenon DEF g, m
    <2>. DEFINE v == CHOOSE h : Is(h)
    <2>6. Is(v)
        <3>. HIDE DEF Is
        <3>. QED  BY <2>5
    <2>7. FlattenSeq(s) = v[Len(s)]
        BY <2>0, Zenon DEF FlattenSeq
    <2>8. /\ DOMAIN v = 1..m /\ v[1] = s[1]
          /\ \A i \in 1..m : i # 1 => v[i] = v[i - 1] \o s[i]
        <3>1. v = [i \in 1..m |-> IF i = 1 THEN s[i] ELSE v[i - 1] \o s[i]]
            BY <2>6, Zenon
        <3>. HIDE DEF v, m
        <3>. QED  BY <2>0, <3>1, Zenon
    <2>. DEFINE w == [i \in 0..m |-> IF i = 0 THEN <<>> ELSE v[i]]
    <2>. HIDE DEF v, m
    <2>9. w[0] = <<>> /\ \A i \in 1..m : w[i] = v[i]
        BY <1>1
    <2>10. ASSUME NEW i \in 1..m PROVE w[i] = w[i - 1] \o s[i]
        <3>1. CASE i = 1
            <4>1. i - 1 = 0 /\ s[i] \in Seq(C)
                BY <1>1, <3>1
            <4>2. w[i] = s[i]
                BY <2>8, <2>9, <3>1
            <4>3. <<>> \o s[i] = s[i]
                BY <4>1
            <4>. HIDE DEF w
            <4>. QED  BY <2>9, <4>1, <4>2, <4>3
        <3>2. CASE i # 1
            <4>1. i - 1 \in 1..m
                BY <1>1, <3>2
            <4>. HIDE DEF w
            <4>. QED  BY <2>8, <2>9, <3>2, <4>1
        <3>. QED  BY <3>1, <3>2
    <2>11. w \in [0..m -> Seq(C)]
        <3>. DEFINE S == {i \in 0..m : w[i] \in Seq(C)}
        <3>0. w = [i \in 0..m |-> w[i]]
            OBVIOUS
        <3>. HIDE DEF w
        <3>1. 0 \in S
            <4>1. 0 \in 0..m /\ w[0] \in Seq(C)
                BY <1>1, <2>9, EmptySeq
            <4>. QED  BY <4>1
        <3>2. ASSUME NEW i \in 1..m, i - 1 \in S PROVE i \in S
            <4>1. w[i - 1] \in Seq(C) /\ s[i] \in Seq(C) /\ i \in 0..m
                BY <1>1, <3>2
            <4>2. w[i - 1] \o s[i] \in Seq(C)
                BY <4>1
            <4>. QED  BY <2>10, <4>1, <4>2
        <3>3. 0..m \subseteq S
            <4>. HIDE DEF S
            <4>. QED  BY <1>1, <3>1, <3>2, InductionUpTo
        <3>. QED  BY <3>0, <3>3
    <2>12. FlattenSeq(s) = w[m]
        <3>1. m \in 1..m
            BY <1>1, <2>0
        <3>. HIDE DEF w
        <3>. QED  BY <2>7, <2>9, <3>1 DEF m
    <2>. HIDE DEF w
    <2>. QED  BY <2>9, <2>10, <2>11, <2>12 DEF m
<1>. QED  BY <1>2, <1>3

LEMMA FlattenType ==
    ASSUME NEW C, NEW s \in Seq(Seq(C))
    PROVE  FlattenSeq(s) \in Seq(C)
<1>. DEFINE m == Len(s)
<1>1. PICK v \in [0..m -> Seq(C)] : FlattenSeq(s) = v[m]
    BY FlattenDef
<1>2. m \in 0..m
    OBVIOUS
<1>. HIDE DEF m
<1>. QED  BY <1>1, <1>2

(* Nothing side by side is nothing. *)
LEMMA FlattenEmpties ==
    ASSUME NEW C, NEW s \in Seq(Seq(C)), \A i \in 1..Len(s) : s[i] = <<>>
    PROVE  FlattenSeq(s) = <<>>
<1>. DEFINE m == Len(s)
<1>1. PICK v \in [0..m -> Seq(C)] : /\ v[0] = <<>>
                                    /\ \A i \in 1..m : v[i] = v[i - 1] \o s[i]
                                    /\ FlattenSeq(s) = v[m]
    BY FlattenDef
<1>. DEFINE S == {i \in 0..m : v[i] = <<>>}
<1>2. m \in Nat
    OBVIOUS
<1>3. ASSUME NEW i \in 1..m, i - 1 \in S PROVE i \in S
    <2>1. v[i] = <<>> \o <<>>
        BY <1>1, <1>3
    <2>2. i \in 0..m /\ <<>> \o <<>> = <<>>
        OBVIOUS
    <2>. QED  BY <2>1, <2>2
<1>4. 0..m \subseteq S
    <2>1. 0 \in S
        BY <1>1, <1>2
    <2>. HIDE DEF S, m
    <2>. QED  BY <1>2, <1>3, <2>1, InductionUpTo
<1>. QED  BY <1>1, <1>2, <1>4

(* Single words side by side are the words. *)
LEMMA FlattenSingles ==
    ASSUME NEW C, NEW x \in Seq(C)
    PROVE  FlattenSeq([i \in 1..Len(x) |-> <<x[i]>>]) = x
<1>. DEFINE m == Len(x)
            s == [i \in 1..m |-> <<x[i]>>]
<1>1. m \in Nat /\ \A i \in 1..m : x[i] \in C
    OBVIOUS
<1>2. s \in Seq(Seq(C)) /\ Len(s) = m /\ \A i \in 1..m : s[i] = <<x[i]>>
    <2>. HIDE DEF m
    <2>. QED  BY <1>1
<1>3. PICK v \in [0..m -> Seq(C)] : /\ v[0] = <<>>
                                    /\ \A i \in 1..m : v[i] = v[i - 1] \o s[i]
                                    /\ FlattenSeq(s) = v[m]
    <2>. HIDE DEF s, m
    <2>. QED  BY <1>2, FlattenDef
<1>. DEFINE S == {i \in 0..m : Len(v[i]) = i /\ \A k \in 1..i : v[i][k] = x[k]}
<1>. HIDE DEF s, m
<1>4. ASSUME NEW i \in 1..m, i - 1 \in S PROVE i \in S
    <2>1. /\ v[i - 1] \in Seq(C) /\ Len(v[i - 1]) = i - 1
          /\ \A k \in 1..i - 1 : v[i - 1][k] = x[k]
          /\ x[i] \in C /\ i \in 0..m /\ i - 1 \in Nat
        BY <1>1, <1>4
    <2>2. v[i] = v[i - 1] \o <<x[i]>>
        BY <1>2, <1>3
    <2>3. Len(v[i]) = i /\ v[i][i] = x[i] /\ \A k \in 1..i - 1 : v[i][k] = v[i - 1][k]
        BY <2>1, <2>2
    <2>4. \A k \in 1..i : k = i \/ k \in 1..i - 1
        OBVIOUS
    <2>. QED  BY <2>1, <2>3, <2>4
<1>5. 0..m \subseteq S
    <2>1. 0 \in S
        BY <1>1, <1>3
    <2>. HIDE DEF S
    <2>. QED  BY <1>1, <1>4, <2>1, InductionUpTo
<1>6. m \in 0..m /\ v[m] \in Seq(C) /\ Len(v[m]) = m /\ \A k \in 1..m : v[m][k] = x[k]
    BY <1>1, <1>5
<1>7. v[m] = x
    <2>. DEFINE y == v[m]
    <2>. HIDE DEF y
    <2>. QED  BY <1>6, SeqEqual DEF y, m
<1>. QED  BY <1>3, <1>7 DEF s, m

-----------------------------------------------------------------------------
(* Values and their words. *)

\* The words made of the contents in S.
WordsOf(S) == (S \cup {"selector", "length", "offset", "true", "unread"}) \X Nat

(* A value that is no array is written as the ABI asks for. *)
LEMMA PlainWords ==
    ASSUME NEW v, Plain(v), v.size \in Nat, NEW S, v.value \in S
    PROVE  /\ ElementWords(v, v.type) = AbiSimple(v)
           /\ AbiSimple(v) \in Seq(WordsOf(S))
<1>. DEFINE W == WordsOf(S)
<1>1. Chunks(v) \in Seq(W)
    <2>1. (v.size + 31) \div 32 \in Nat
        OBVIOUS
    <2>2. \A c \in 1..((v.size + 31) \div 32) : <<v.value, c>> \in W
        BY DEF WordsOf
    <2>. HIDE DEF W
    <2>. QED  BY <2>1, <2>2, IsASeq DEF Chunks
<1>2. <<"length", v.size>> \in W /\ <<v.value, 1>> \in W
    BY DEF WordsOf
<1>. HIDE DEF W
<1>3. CASE v.type \in Simple
    <2>1. ElementWords(v, v.type) = <<SimpleWord(v, v.type)>> /\ AbiSimple(v) = <<<<v.value, 1>>>>
        BY <1>3 DEF ElementWords, AbiSimple, Simple
    <2>2. SimpleWord(v, v.type) = <<v.value, 1>>
        <3>1. CASE v.type \in {"UINT", "INT"}
            <4>1. ~(v.size > 8)
                BY <3>1 DEF Plain
            <4>. QED  BY <3>1, <4>1 DEF SimpleWord
        <3>2. CASE v.type = "BOOL"
            BY <3>2 DEF SimpleWord, Plain
        <3>3. CASE v.type = "ADDRESS"
            BY <3>3 DEF SimpleWord
        <3>. QED  BY <1>3, <3>1, <3>2, <3>3 DEF Simple
    <2>. QED  BY <1>2, <2>1, <2>2 DEF W
<1>4. CASE v.type = "BYTES_STATIC"
    BY <1>1, <1>4 DEF ElementWords, AbiSimple, Simple, W
<1>5. CASE v.type \in {"BYTES_DYNAMIC", "STRING"}
    <2>1. /\ ElementWords(v, v.type) = <<<<"length", v.size>>>> \o Chunks(v)
          /\ AbiSimple(v) = <<<<"length", v.size>>>> \o Chunks(v)
        BY <1>5 DEF ElementWords, AbiSimple, Simple
    <2>2. <<<<"length", v.size>>>> \in Seq(W)
        BY <1>2
    <2>3. <<<<"length", v.size>>>> \o Chunks(v) \in Seq(W)
        BY <1>1, <2>2, ConcatProperties
    <2>. QED  BY <2>1, <2>3 DEF W
<1>. QED  BY <1>3, <1>4, <1>5 DEF Plain, Encodable

\* The parts of Tuple: where the tail of value k begins, the heads, the tails.
TailsOf(P, D) == [k \in DOMAIN P |-> IF D[k] THEN P[k] ELSE <<>>]
OffsetIn(P, D, k) ==
    32 * (Len(FlattenSeq([j \in DOMAIN P |-> IF D[j] THEN <<0>> ELSE P[j]]))
            + Len(FlattenSeq([j \in 1..(k - 1) |-> IF D[j] THEN P[j] ELSE <<>>])))
HeadsOf(P, D, heads) ==
    [k \in DOMAIN P |-> IF D[k] /\ heads THEN <<<<"offset", OffsetIn(P, D, k)>>>>
                        ELSE IF D[k] THEN <<>> ELSE P[k]]

LEMMA TupleDef ==
    ASSUME NEW P, NEW D, NEW heads
    PROVE  Tuple(P, D, heads) = FlattenSeq(HeadsOf(P, D, heads)) \o FlattenSeq(TailsOf(P, D))
BY Zenon DEF Tuple, HeadsOf, TailsOf, OffsetIn

(* Static values side by side. *)
LEMMA TupleStatic ==
    ASSUME NEW W, NEW P \in Seq(Seq(W)), NEW D, NEW heads, \A k \in 1..Len(P) : ~D[k]
    PROVE  Tuple(P, D, heads) = FlattenSeq(P)
<1>1. DOMAIN P = 1..Len(P) /\ Len(P) \in Nat
    OBVIOUS
<1>2. HeadsOf(P, D, heads) = P
    <2>1. HeadsOf(P, D, heads) = [k \in 1..Len(P) |-> P[k]]
        BY <1>1, Zenon DEF HeadsOf
    <2>. QED  BY <2>1
<1>3. TailsOf(P, D) = [k \in 1..Len(P) |-> <<>>]
    BY <1>1, Zenon DEF TailsOf
<1>4. FlattenSeq(TailsOf(P, D)) = <<>>
    <2>. DEFINE t == [k \in 1..Len(P) |-> <<>>]
    <2>1. <<>> \in Seq(W) /\ \A k \in 1..Len(P) : t[k] = <<>>
        OBVIOUS
    <2>2. t \in Seq(Seq(W)) /\ Len(t) = Len(P)
        BY <1>1, <2>1, IsASeq
    <2>. HIDE DEF t
    <2>3. FlattenSeq(t) = <<>>
        BY <2>1, <2>2, FlattenEmpties
    <2>. QED  BY <1>3, <2>3 DEF t
<1>5. FlattenSeq(P) \in Seq(W)
    BY FlattenType
<1>. DEFINE x == FlattenSeq(P)
<1>6. x \o <<>> = x
    <2>. HIDE DEF x
    <2>. QED  BY <1>5, ConcatEmptySeq DEF x
<1>. QED  BY <1>2, <1>4, <1>6, TupleDef, Zenon

(* Dynamic values by reference, the offsets counted from the first of them. *)
LEMMA TupleDynamic ==
    ASSUME NEW W, NEW P \in Seq(Seq(W)), NEW D, \A k \in 1..Len(P) : D[k]
    PROVE  Tuple(P, D, TRUE) =
               [k \in 1..Len(P) |->
                   <<"offset", 32 * (Len(P) + Len(FlattenSeq(SubSeq(P, 1, k - 1))))>>]
               \o FlattenSeq(P)
<1>. DEFINE n == Len(P)
            off(k) == <<"offset", 32 * (n + Len(FlattenSeq(SubSeq(P, 1, k - 1))))>>
            offs == [k \in 1..n |-> off(k)]
<1>1. DOMAIN P = 1..n /\ n \in Nat /\ \A k \in 1..n : P[k] \in Seq(W)
    OBVIOUS
<1>2. TailsOf(P, D) = P
    <2>1. TailsOf(P, D) = [k \in 1..n |-> P[k]]
        BY <1>1, Zenon DEF TailsOf
    <2>. QED  BY <2>1
<1>. HIDE DEF n
<1>3. Len(FlattenSeq([j \in DOMAIN P |-> IF D[j] THEN <<0>> ELSE P[j]])) = n
    <2>. DEFINE x == [j \in 1..n |-> 0]
    <2>1. x \in Seq({0}) /\ Len(x) = n
        BY <1>1, IsASeq
    <2>2. [j \in 1..n |-> <<x[j]>>] = [j \in 1..n |-> <<0>>]
        OBVIOUS
    <2>3. [j \in DOMAIN P |-> IF D[j] THEN <<0>> ELSE P[j]] = [j \in 1..n |-> <<0>>]
        BY <1>1, Zenon DEF n
    <2>. HIDE DEF x
    <2>4. FlattenSeq([j \in 1..n |-> <<x[j]>>]) = x
        BY <2>1, FlattenSingles
    <2>. QED  BY <2>1, <2>2, <2>3, <2>4
<1>4. ASSUME NEW k \in 1..n
      PROVE  [j \in 1..(k - 1) |-> IF D[j] THEN P[j] ELSE <<>>] = SubSeq(P, 1, k - 1)
    <2>1. k - 1 \in Nat /\ \A j \in 1..(k - 1) : j \in 1..n
        BY <1>1
    <2>2. SubSeq(P, 1, k - 1) = [j \in 1..(k - 1) |-> P[j]]
        BY <2>1
    <2>3. \A j \in 1..(k - 1) : D[j]
        BY <2>1 DEF n
    <2>. QED  BY <2>2, <2>3, Zenon
<1>5. \A k \in 1..n : <<"offset", OffsetIn(P, D, k)>> = off(k)
    BY <1>3, <1>4, Zenon DEF OffsetIn
<1>6. HeadsOf(P, D, TRUE) = [k \in 1..n |-> <<offs[k]>>]
    <2>1. \A k \in 1..n : offs[k] = <<"offset", OffsetIn(P, D, k)>>
        BY <1>5, Zenon
    <2>. HIDE DEF offs
    <2>. QED  BY <1>1, <2>1, Zenon DEF HeadsOf, n
<1>7. FlattenSeq(HeadsOf(P, D, TRUE)) = offs
    <2>. DEFINE C == {off(k) : k \in 1..n}
    <2>1. offs \in Seq(C) /\ Len(offs) = n
        <3>1. offs \in [1..n -> C]
            <4>. HIDE DEF off
            <4>. QED  OBVIOUS
        <3>. HIDE DEF offs, C
        <3>. QED  BY <1>1, <3>1
    <2>. HIDE DEF offs, C
    <2>2. FlattenSeq([k \in 1..n |-> <<offs[k]>>]) = offs
        BY <2>1, FlattenSingles
    <2>. QED  BY <1>6, <2>2
<1>. QED  BY <1>2, <1>7, TupleDef, Zenon DEF n

\* The contents of a value and of its elements.
Contents(v) == {v.value} \cup {v.elements[e].value : e \in 1..v.size}

(* A supported array is written as the ABI asks for. *)
LEMMA ArrayWords ==
    ASSUME NEW v, Supported(v), IsValue(v), v.type \in {"ARRAY_STATIC", "ARRAY_DYNAMIC"}
    PROVE  /\ ParameterWords(v, v.type) = AbiWords(v)
           /\ AbiWords(v) \in Seq(WordsOf(Contents(v)))
<1>. DEFINE n == v.size
            W == WordsOf(Contents(v))
            P == [e \in 1..n |-> AbiSimple(v.elements[e])]
            D == [e \in 1..n |-> v.elements[e].type \in DynamicTypes]
            offs == [k \in 1..n |-> <<"offset", 32 * (n + Len(FlattenSeq(SubSeq(P, 1, k - 1))))>>]
            front == IF v.type = "ARRAY_DYNAMIC" THEN <<<<"length", v.size>>>> ELSE <<>>
<1>1. n \in Nat /\ n > 0 /\ 1 \in 1..n
    BY DEF IsValue, Supported
<1>2. ASSUME NEW e \in 1..n
      PROVE  /\ ElementWords(v.elements[e], v.elements[e].type) = AbiSimple(v.elements[e])
             /\ AbiSimple(v.elements[e]) \in Seq(W)
    <2>1. Plain(v.elements[e]) /\ v.elements[e].size \in Nat /\ v.elements[e].value \in Contents(v)
        BY DEF IsValue, Supported, Contents
    <2>. QED  BY <2>1, PlainWords
<1>3. ArrayParts(v) = P
    BY <1>2, Zenon DEF ArrayParts
<1>10. \A e \in 1..n : v.elements[e].type \in Encodable /\ v.elements[e].type # "UNKNOWN"
    BY DEF Supported, Plain, Encodable, Simple
<1>4. AbiWords(v) = front \o Tuple(P, D, TRUE)
    BY Zenon DEF AbiWords
<1>5. <<>> \in Seq(W) /\ <<<<"length", n>>>> \in Seq(W)
    <2>1. <<"length", n>> \in W
        BY <1>1 DEF WordsOf
    <2>. HIDE DEF W
    <2>. QED  BY <2>1
<1>6. P \in Seq(Seq(W)) /\ Len(P) = n
    <2>. HIDE DEF W
    <2>1. P \in [1..n -> Seq(W)]
        BY <1>2
    <2>. HIDE DEF P
    <2>. QED  BY <1>1, <2>1
<1>7. FlattenSeq(P) \in Seq(W)
    <2>. HIDE DEF P, W
    <2>. QED  BY <1>6, FlattenType
<1>8. CASE \A e \in 1..n : v.elements[e].type \notin DynamicTypes
    <2>1. \A e \in 1..n : ~D[e]
        BY <1>8
    <2>2. Tuple(P, D, TRUE) = FlattenSeq(P)
        <3>. HIDE DEF P, D, W, n
        <3>. QED  BY <1>6, <2>1, TupleStatic
    <2>9. StaticElements(v) = FlattenSeq(P)
        <3>1. \A e \in 1..n : \A k \in 1..e : v.elements[k].type # "UNKNOWN"
            <4>1. \A e \in 1..n : \A k \in 1..e : k \in 1..n
                BY <1>1
            <4>. QED  BY <1>10, <4>1
        <3>. DEFINE Q == [e \in 1..v.size |->
                 IF \A k \in 1..e : v.elements[k].type # "UNKNOWN"
                 THEN ArrayParts(v)[e] ELSE <<>>]
        <3>2. \A e \in 1..n : P[e] = AbiSimple(v.elements[e])
            OBVIOUS
        <3>3. Q = P
            BY <1>3, <3>1, <3>2, Zenon
        <3>4. StaticElements(v) = FlattenSeq(Q)
            BY Zenon DEF StaticElements
        <3>. HIDE DEF P, Q
        <3>. QED  BY <3>3, <3>4
    <2>3. ParameterWords(v, v.type)
              = IF v.type = "ARRAY_STATIC" THEN FlattenSeq(P)
                ELSE <<<<"length", v.size>>>> \o FlattenSeq(P)
        <3>1. v.elements[1].type \notin DynamicTypes
            BY <1>1, <1>8
        <3>2. CASE v.type = "ARRAY_STATIC"
            <4>. HIDE DEF P
            <4>. QED  BY <1>1, <2>9, <3>1, <3>2 DEF ParameterWords
        <3>3. CASE v.type = "ARRAY_DYNAMIC"
            <4>. HIDE DEF P
            <4>. QED  BY <1>1, <2>9, <3>1, <3>3 DEF ParameterWords
        <3>. QED  BY <3>2, <3>3
    <2>4. <<>> \o FlattenSeq(P) = FlattenSeq(P)
        <3>. HIDE DEF P, W
        <3>. QED  BY <1>7, ConcatEmptySeq
    <2>5. <<<<"length", n>>>> \o FlattenSeq(P) \in Seq(W)
        <3>. HIDE DEF P, W, n
        <3>. QED  BY <1>5, <1>7, ConcatProperties
    <2>. HIDE DEF P, D, W
    <2>. QED  BY <1>4, <1>7, <2>2, <2>3, <2>4, <2>5 DEF W
<1>9. CASE v.type = "ARRAY_STATIC" /\ \A e \in 1..n : v.elements[e].type \in DynamicTypes
    <2>1. \A e \in 1..n : D[e]
        BY <1>9
    <2>2. Tuple(P, D, TRUE) = offs \o FlattenSeq(P)
        <3>1. Tuple(P, D, TRUE) =
                  [k \in 1..Len(P) |->
                      <<"offset", 32 * (Len(P) + Len(FlattenSeq(SubSeq(P, 1, k - 1))))>>]
                  \o FlattenSeq(P)
            <4>. HIDE DEF P, D, W, n
            <4>. QED  BY <1>6, <2>1, TupleDynamic
        <3>. HIDE DEF P, D, n
        <3>. QED  BY <1>6, <3>1, Zenon
    <2>3. ParameterWords(v, v.type) = offs \o FlattenSeq(P)
        <3>1. v.elements[1].type \in DynamicTypes
            BY <1>1, <1>9
        <3>2. ParameterWords(v, v.type) = StaticArrayOfDynamicElements(v)
            BY <1>1, <1>9, <3>1 DEF ParameterWords
        <3>3. \A e \in 1..n : ElementOffset(v, e) = 32 * (n + Len(FlattenSeq(SubSeq(P, 1, e - 1))))
            BY <1>3, Zenon DEF ElementOffset
        <3>5. \A e \in 1..n : \A k \in 1..(e - 1) : v.elements[k].type \in Encodable
            <4>1. \A e \in 1..n : \A k \in 1..(e - 1) : k \in 1..n
                BY <1>1
            <4>. QED  BY <1>10, <4>1
        <3>4. [e \in 1..v.size |-> ElementHead(v, e)] = offs
            <4>. HIDE DEF P
            <4>. QED  BY <3>3, <3>5, Zenon DEF ElementHead
        <3>. QED  BY <1>3, <3>2, <3>4, Zenon DEF StaticArrayOfDynamicElements
    <2>4. offs \in Seq(W)
        <3>. DEFINE off(k) == 32 * (n + Len(FlattenSeq(SubSeq(P, 1, k - 1))))
        <3>1. ASSUME NEW k \in 1..n PROVE off(k) \in Nat
            <4>. HIDE DEF P, W, n
            <4>1. SubSeq(P, 1, k - 1) \in Seq(Seq(W))
                <5>. DEFINE C == Seq(W)
                <5>. HIDE DEF C
                <5>1. P \in Seq(C) /\ Len(P) = n /\ k - 1 \in 0..n
                    BY <1>1, <1>6 DEF C
                <5>2. SubSeq(P, 1, k - 1) \in Seq(C)
                    BY <1>1, <5>1
                <5>. QED  BY <5>2 DEF C
            <4>2. FlattenSeq(SubSeq(P, 1, k - 1)) \in Seq(W)
                BY <4>1, FlattenType
            <4>3. Len(FlattenSeq(SubSeq(P, 1, k - 1))) \in Nat
                BY <4>2, LenProperties
            <4>. QED  BY <1>1, <4>3
        <3>2. \A k \in 1..n : <<"offset", off(k)>> \in W
            <4>. HIDE DEF off
            <4>. QED  BY <3>1 DEF WordsOf
        <3>3. offs \in [1..n -> W]
            <4>. HIDE DEF W
            <4>. QED  BY <3>2
        <3>. HIDE DEF offs, W
        <3>. QED  BY <1>1, <3>3
    <2>5. offs \o FlattenSeq(P) \in Seq(W)
        <3>. HIDE DEF offs, P, W
        <3>. QED  BY <1>7, <2>4, ConcatProperties
    <2>6. <<>> \o (offs \o FlattenSeq(P)) = offs \o FlattenSeq(P)
        <3>. HIDE DEF offs, P, W
        <3>. QED  BY <2>5, ConcatEmptySeq
    <2>7. front = <<>>
        BY <1>9
    <2>. HIDE DEF P, D, W, offs, front
    <2>. QED  BY <1>4, <2>2, <2>3, <2>5, <2>6, <2>7 DEF W
<1>. QED  BY <1>8, <1>9 DEF Supported

(* So is every supported value. *)
LEMMA SupportedWords ==
    ASSUME NEW v, Supported(v), IsValue(v)
    PROVE  /\ ParameterWords(v, v.type) = AbiWords(v)
           /\ AbiWords(v) \in Seq(WordsOf(Contents(v)))
<1>1. CASE v.type \notin {"ARRAY_STATIC", "ARRAY_DYNAMIC"}
    <2>1. Plain(v) /\ v.size \in Nat /\ v.value \in Contents(v)
        BY <1>1 DEF Supported, IsValue, Contents
    <2>2. ParameterWords(v, v.type) = ElementWords(v, v.type) /\ AbiWords(v) = AbiSimple(v)
        BY <1>1 DEF ParameterWords, AbiWords
    <2>. QED  BY <2>1, <2>2, PlainWords
<1>. QED  BY <1>1, ArrayWords

-----------------------------------------------------------------------------
(* The inductive invariant of generateCallData. *)

\* The parts of function f, those of its static or of its dynamic inputs side
\* by side, and what they make behind the selector.
Encoded(f) ==
    LET ins == Functions[f].inputs IN
    [k \in 1..Len(ins) |-> ParameterWords(params[ins[k].name], ins[k].type)]
Among(f, dynamic) ==
    FlattenSeq([k \in 1..Len(Functions[f].inputs) |->
        IF IsDynamic(Functions[f].inputs[k]) = dynamic THEN Encoded(f)[k] ELSE <<>>])
Assembled(f) == <<Selector(f)>> \o Among(f, FALSE) \o Among(f, TRUE)

LoopInv ==
    /\ pc \in {"idle", "function", "inputs"}
    /\ params \in Dictionaries
    /\ index \in 1..Len(Functions) + 1
    /\ Done => index = Len(Functions) + 1
    /\ pc = "inputs" => index \in Asked

\* The parts so far are those of the first inputs.
PartsInv ==
    pc = "inputs" =>
        /\ Len(parts) \in 0..Len(inputs)
        /\ parts = [k \in 1..Len(parts) |-> Encoded(index)[k]]

\* Before the one function asked for nothing is written, after it all of it is.
BufferInv ==
    \A f \in DOMAIN Functions : Asked = {f} =>
        /\ pc = "function" /\ index <= f => contractData = <<>>
        /\ pc = "inputs" => contractData = <<Selector(f)>>
        /\ (pc = "function" \/ Done) /\ index > f => out = Assembled(f)

CallInv == LoopInv /\ PartsInv /\ BufferInv

LEMMA ContractType ==
    /\ Len(Functions) \in Nat /\ DOMAIN Functions = 1..Len(Functions)
    /\ \A f \in 1..Len(Functions) :
          /\ Functions[f].inputs \in Seq(Range(Functions[f].inputs))
          /\ Len(Functions[f].inputs) \in Nat
          /\ DOMAIN Functions[f].inputs = 1..Len(Functions[f].inputs)
<1>1. Functions \in Seq(Range(Functions))
    BY CallAssumption
<1>2. \A f \in 1..Len(Functions) : Functions[f] \in Range(Functions)
    BY <1>1
<1>3. \A f \in 1..Len(Functions) : Functions[f].inputs \in Seq(Range(Functions[f].inputs))
    BY <1>2, CallAssumption
<1>. QED  BY <1>1, <1>3, LenProperties

LEMMA CallInitInv == Init => CallInv
<1>. SUFFICES ASSUME Init PROVE CallInv
    OBVIOUS
<1>. USE DEF Init
<1>1. LoopInv
    BY ContractType DEF LoopInv, Done
<1>2. PartsInv
    BY DEF PartsInv
<1>3. BufferInv
    BY DEF BufferInv, Done
<1>. QED  BY <1>1, <1>2, <1>3 DEF CallInv

LEMMA CallInvKept ==
    ASSUME NEW n \in Names, NEW d \in Dictionaries, CallInv, Call(n, d)
    PROVE  CallInv'
<1>. USE DEF Call
<1>1. LoopInv'
    BY ContractType DEF LoopInv, Done
<1>2. PartsInv'
    BY DEF PartsInv
<1>3. BufferInv'
    BY ContractType DEF BufferInv, Done
<1>. QED  BY <1>1, <1>2, <1>3 DEF CallInv

LEMMA SkipFunctionInv == CallInv /\ SkipFunction => CallInv'
<1>. SUFFICES ASSUME CallInv, SkipFunction PROVE CallInv'
    OBVIOUS
<1>1. LoopInv'
    BY ContractType DEF CallInv, LoopInv, Done, SkipFunction
<1>2. PartsInv'
    BY DEF PartsInv, SkipFunction
<1>3. ASSUME NEW f \in DOMAIN Functions, (Asked = {f})'
      PROVE  /\ index' <= f => contractData' = <<>>
             /\ index' > f => out' = Assembled(f)'
    <2>1. Asked = {f} /\ f \in 1..Len(Functions) /\ index \in 1..Len(Functions)
        BY <1>3, ContractType DEF CallInv, LoopInv, SkipFunction, Asked
    <2>2. index \notin Asked
        BY DEF SkipFunction, Asked
    <2>3. index # f /\ index' = index + 1 /\ pc = "function"
        BY <2>1, <2>2 DEF SkipFunction
    <2>4. Assembled(f)' = Assembled(f)
        BY DEF Assembled, Among, Encoded, SkipFunction
    <2>5. /\ index <= f => contractData = <<>>
          /\ index > f => out = Assembled(f)
        BY <2>1, <2>3 DEF CallInv, BufferInv
    <2>. QED  BY <2>1, <2>3, <2>4, <2>5 DEF SkipFunction
<1>4. BufferInv'
    BY <1>3 DEF BufferInv, SkipFunction
<1>. QED  BY <1>1, <1>2, <1>4 DEF CallInv

LEMMA EnterFunctionInv == CallInv /\ EnterFunction => CallInv'
<1>. SUFFICES ASSUME CallInv, EnterFunction PROVE CallInv'
    OBVIOUS
<1>1. index \in Asked /\ index \in 1..Len(Functions)
    BY ContractType DEF CallInv, LoopInv, EnterFunction, Asked
<1>2. LoopInv'
    BY <1>1 DEF CallInv, LoopInv, Done, EnterFunction, Asked
<1>3. PartsInv'
    <2>1. parts' = <<>> /\ Len(<<>>) = 0 /\ 1..0 = {}
        BY DEF EnterFunction
    <2>2. [k \in 1..0 |-> Encoded(index)[k]]' = <<>>
        OBVIOUS
    <2>3. Len(inputs)' \in Nat
        BY <1>1, ContractType DEF inputs, EnterFunction
    <2>. QED  BY <2>1, <2>2, <2>3 DEF PartsInv
<1>4. BufferInv'
    <2>1. ASSUME NEW f \in DOMAIN Functions, (Asked = {f})'
          PROVE  contractData' = <<Selector(f)>>
        <3>1. index = f
            BY <1>1, <2>1 DEF Asked, EnterFunction
        <3>2. contractData = <<>>
            BY <2>1, <3>1, <1>1 DEF CallInv, BufferInv, Asked, EnterFunction
        <3>. QED  BY <3>1, <3>2 DEF EnterFunction
    <2>. QED  BY <2>1 DEF BufferInv, EnterFunction, Done
<1>. QED  BY <1>2, <1>3, <1>4 DEF CallInv

LEMMA EncodeParameterInv == CallInv /\ EncodeParameter => CallInv'
<1>. SUFFICES ASSUME CallInv, EncodeParameter PROVE CallInv'
    OBVIOUS
<1>. DEFINE n == Len(parts)
            E(k) == Encoded(index)[k]
<1>1. /\ index \in 1..Len(Functions) /\ n \in Nat /\ n + 1 \in 1..Len(inputs)
      /\ parts = [k \in 1..n |-> E(k)]
    BY ContractType DEF CallInv, LoopInv, PartsInv, EncodeParameter, InputLeft, Asked, inputs
<1>2. LoopInv'
    BY DEF CallInv, LoopInv, Done, EncodeParameter, InputLeft, Asked
<1>3. PartsInv'
    <2>1. parts' = Append(parts, E(n + 1))
        BY <1>1 DEF EncodeParameter, input, inputs, Encoded
    <2>2. parts' = [k \in 1..(n + 1) |-> E(k)] /\ Len(parts') = n + 1
        <3>. DEFINE C == {E(k) : k \in 1..(n + 1)}
        <3>. HIDE DEF E, n
        <3>1. parts \in [1..n -> C] /\ E(n + 1) \in C
            BY <1>1
        <3>2. parts \in Seq(C) /\ Len(parts) = n
            BY <1>1, <3>1
        <3>. DEFINE new == [k \in 1..(n + 1) |-> E(k)]
        <3>3. new \in [1..(n + 1) -> C]
            OBVIOUS
        <3>4. new \in Seq(C) /\ Len(new) = n + 1
            <4>. HIDE DEF new, C
            <4>. QED  BY <1>1, <3>3
        <3>. HIDE DEF C
        <3>5. parts' \in Seq(C) /\ Len(parts') = n + 1
            BY <1>1, <2>1, <3>1, <3>2
        <3>6. \A k \in 1..(n + 1) : parts'[k] = E(k)
            BY <1>1, <2>1, <3>1, <3>2
        <3>7. parts' = new
            <4>1. \A k \in 1..(n + 1) : new[k] = E(k)
                OBVIOUS
            <4>. HIDE DEF new
            <4>. QED  BY <3>4, <3>5, <3>6, <4>1, SeqEqual
        <3>. QED  BY <3>5, <3>7
    <2>3. UNCHANGED <<index, params>>
        BY DEF EncodeParameter
    <2>4. Encoded(index)' = Encoded(index) /\ inputs' = inputs
        BY <2>3 DEF Encoded, inputs
    <2>5. n + 1 \in 0..Len(inputs)
        <3>. HIDE DEF n
        <3>. QED  BY <1>1, ContractType DEF inputs
    <2>. HIDE DEF n
    <2>. QED  BY <2>2, <2>4, <2>5 DEF PartsInv
<1>4. BufferInv'
    BY DEF CallInv, BufferInv, EncodeParameter, InputLeft, Done, Asked
<1>. QED  BY <1>2, <1>3, <1>4 DEF CallInv

LEMMA MissingParameterInv == CallInv /\ MissingParameter => CallInv'
<1>. SUFFICES ASSUME CallInv, MissingParameter PROVE CallInv'
    OBVIOUS
<1>1. LoopInv'
    BY DEF CallInv, LoopInv, Done, MissingParameter
<1>2. PartsInv'
    BY DEF PartsInv, MissingParameter
<1>3. BufferInv'
    BY DEF BufferInv, MissingParameter, Done
<1>. QED  BY <1>1, <1>2, <1>3 DEF CallInv

LEMMA AssembleInv == CallInv /\ Assemble => CallInv'
<1>. SUFFICES ASSUME CallInv, Assemble PROVE CallInv'
    OBVIOUS
<1>1. index \in Asked /\ index \in 1..Len(Functions) /\ index' = index + 1
    BY ContractType DEF CallInv, LoopInv, Assemble, Asked
<1>2. LoopInv'
    BY <1>1, ContractType DEF CallInv, LoopInv, Done, Assemble
<1>3. PartsInv'
    BY DEF PartsInv, Assemble
<1>4. \A dynamic \in BOOLEAN : PartsThatAre(dynamic) = Among(index, dynamic)
    <2>. DEFINE n == Len(inputs)
    <2>1. n \in Nat /\ parts = [k \in 1..n |-> Encoded(index)[k]]
        BY <1>1, ContractType DEF CallInv, PartsInv, Assemble, inputs
    <2>2. DOMAIN parts = 1..n /\ \A k \in 1..n : parts[k] = Encoded(index)[k]
        <3>. HIDE DEF n
        <3>. QED  BY <2>1
    <2>3. inputs = Functions[index].inputs
        BY DEF inputs
    <2>. QED  BY <2>2, <2>3, Zenon DEF PartsThatAre, Among
<1>5. BufferInv'
    <2>1. ASSUME NEW f \in DOMAIN Functions, (Asked = {f})' PROVE f = index /\ out' = Assembled(f)'
        <3>1. Asked = {f} /\ f = index
            BY <1>1, <2>1 DEF Asked, Assemble
        <3>2. contractData = <<Selector(index)>>
            BY <3>1 DEF CallInv, BufferInv, Assemble
        <3>3. out' = Assembled(index)
            BY <1>4, <3>2 DEF Assemble, Assembled
        <3>4. Assembled(f)' = Assembled(f)
            BY DEF Assembled, Among, Encoded, Assemble
        <3>. QED  BY <3>1, <3>3, <3>4
    <2>2. pc' = "function" /\ ~(index' <= index)
        BY <1>1 DEF Assemble
    <2>. QED  BY <2>1, <2>2, Zenon DEF BufferInv
<1>. QED  BY <1>2, <1>3, <1>5 DEF CallInv

LEMMA ReturnInv == CallInv /\ Return => CallInv'
<1>. SUFFICES ASSUME CallInv, Return PROVE CallInv'
    OBVIOUS
<1>1. LoopInv'
    BY ContractType DEF CallInv, LoopInv, Done, Return
<1>2. PartsInv'
    BY DEF PartsInv, Return
<1>3. BufferInv'
    <2>1. Asked' = Asked /\ index' = index /\ out' = out /\ pc' = "idle" /\ pc = "function"
        BY DEF Return, Asked
    <2>2. \A f \in DOMAIN Functions : Assembled(f)' = Assembled(f)
        BY DEF Assembled, Among, Encoded, Return
    <2>. QED  BY <2>1, <2>2 DEF CallInv, BufferInv, Return
<1>. QED  BY <1>1, <1>2, <1>3 DEF CallInv

(* What the loop writes of a function is in the buffer after it, and only    *)
(* after it, whatever function and values are asked for.                     *)
THEOREM CallInvariant == Spec => []CallInv
<1>1. CallInv /\ [Next]_vars => CallInv'
    <2>. SUFFICES ASSUME CallInv, [Next]_vars PROVE CallInv'
        OBVIOUS
    <2>1. CASE \E n \in Names, d \in Dictionaries : Call(n, d)
        BY <2>1, CallInvKept
    <2>2. CASE SkipFunction
        BY <2>2, SkipFunctionInv
    <2>3. CASE EnterFunction
        BY <2>3, EnterFunctionInv
    <2>4. CASE EncodeParameter
        BY <2>4, EncodeParameterInv
    <2>5. CASE MissingParameter
        BY <2>5, MissingParameterInv
    <2>6. CASE Assemble
        BY <2>6, AssembleInv
    <2>7. CASE Return
        BY <2>7, ReturnInv
    <2>8. CASE UNCHANGED vars
        <3>. USE <2>8 DEF vars
        <3>1. LoopInv'
            BY DEF CallInv, LoopInv, Done, Asked
        <3>2. PartsInv'
            <4>1. inputs' = inputs /\ Encoded(index)' = Encoded(index)
                BY DEF inputs, Encoded
            <4>. QED  BY <4>1 DEF CallInv, PartsInv
        <3>3. BufferInv'
            <4>1. \A f \in DOMAIN Functions : Assembled(f)' = Assembled(f)
                BY DEF Assembled, Among, Encoded
            <4>2. Asked' = Asked /\ (Done <=> Done')
                BY DEF Asked, Done
            <4>. QED  BY <4>1, <4>2 DEF CallInv, BufferInv
        <3>. QED  BY <3>1, <3>2, <3>3 DEF CallInv
    <2>. QED  BY <2>1, <2>2, <2>3, <2>4, <2>5, <2>6, <2>7, <2>8 DEF Next
<1>. QED  BY <1>1, CallInitInv, PTL DEF Spec

(* What the loop writes of a function with supported values is what the ABI  *)
(* asks for without the heads of its dynamic inputs.                         *)
LEMMA AssembledIsAbi ==
    ASSUME NEW f \in 1..Len(Functions), params \in Dictionaries, SupportedInputs(f)
    PROVE  Assembled(f) = CallOf(f, FALSE)
<1>. DEFINE ins == Functions[f].inputs
            n == Len(ins)
            val(k) == params[ins[k].name]
            S == UNION {Contents(val(k)) : k \in 1..n}
            W == WordsOf(S)
            P == [k \in 1..n |-> AbiWords(val(k))]
            D == [k \in 1..n |-> IsDynamic(ins[k])]
            heads == [k \in 1..n |-> IF IsDynamic(ins[k]) THEN <<>> ELSE AbiWords(val(k))]
            tails == [k \in 1..n |-> IF IsDynamic(ins[k]) THEN AbiWords(val(k)) ELSE <<>>]
<1>1. n \in Nat /\ DOMAIN ins = 1..n
    BY ContractType
<1>2. ASSUME NEW k \in 1..n
      PROVE  /\ ParameterWords(val(k), ins[k].type) = AbiWords(val(k))
             /\ AbiWords(val(k)) \in Seq(W)
    <2>1. ins[k].name \in DOMAIN params /\ val(k).type = ins[k].type /\ Supported(val(k))
        BY <1>1 DEF SupportedInputs
    <2>2. IsValue(val(k))
        BY <2>1, CallAssumption
    <2>3. WordsOf(Contents(val(k))) \subseteq W
        BY DEF WordsOf
    <2>. HIDE DEF W, val
    <2>4. AbiWords(val(k)) \in Seq(WordsOf(Contents(val(k))))
        BY <2>1, <2>2, SupportedWords
    <2>5. AbiWords(val(k)) \in Seq(W)
        BY <2>3, <2>4, SeqMonotonic
    <2>. QED  BY <2>1, <2>2, <2>5, SupportedWords
<1>3. \A k \in 1..n : Encoded(f)[k] = AbiWords(val(k))
    <2>1. Encoded(f) = [k \in 1..n |-> ParameterWords(val(k), ins[k].type)]
        BY Zenon DEF Encoded
    <2>. HIDE DEF val, n, ins
    <2>. QED  BY <1>2, <2>1
<1>4. \A k \in 1..n : IsDynamic(ins[k]) \in BOOLEAN
    BY DEF IsDynamic
<1>5. Among(f, FALSE) = FlattenSeq(heads) /\ Among(f, TRUE) = FlattenSeq(tails)
    <2>. DEFINE A(dynamic) == [k \in 1..n |-> IF IsDynamic(ins[k]) = dynamic THEN Encoded(f)[k] ELSE <<>>]
    <2>1. Among(f, FALSE) = FlattenSeq(A(FALSE)) /\ Among(f, TRUE) = FlattenSeq(A(TRUE))
        BY Zenon DEF Among
    <2>. HIDE DEF val, n, ins, Encoded
    <2>2. A(FALSE) = heads
        BY <1>3, <1>4, Zenon
    <2>3. A(TRUE) = tails
        BY <1>3, <1>4, Zenon
    <2>. QED  BY <2>1, <2>2, <2>3, Zenon
<1>6. Tuple(P, D, FALSE) = FlattenSeq(heads) \o FlattenSeq(tails)
    <2>. HIDE DEF val, n, ins
    <2>1. HeadsOf(P, D, FALSE) = heads /\ TailsOf(P, D) = tails
        BY Zenon DEF HeadsOf, TailsOf
    <2>. HIDE DEF heads, tails, P, D
    <2>. QED  BY <2>1, TupleDef, Zenon
<1>7. CallOf(f, FALSE) = <<Selector(f)>> \o Tuple(P, D, FALSE)
    BY <1>1, Zenon DEF CallOf
<1>8. heads \in Seq(Seq(W)) /\ tails \in Seq(Seq(W))
    <2>. HIDE DEF W, val, ins, n
    <2>1. \A k \in 1..n : <<>> \in Seq(W)
        OBVIOUS
    <2>2. heads \in [1..n -> Seq(W)] /\ tails \in [1..n -> Seq(W)]
        BY <1>2, <2>1, Zenon
    <2>. HIDE DEF heads, tails
    <2>. QED  BY <1>1, <2>2
<1>9. <<Selector(f)>> \in Seq(W)
    <2>1. Selector(f) \in W
        BY DEF Selector, WordsOf
    <2>. HIDE DEF W
    <2>. QED  BY <2>1
<1>10. <<Selector(f)>> \o (FlattenSeq(heads) \o FlattenSeq(tails))
          = (<<Selector(f)>> \o FlattenSeq(heads)) \o FlattenSeq(tails)
    <2>. HIDE DEF W, heads, tails
    <2>1. FlattenSeq(heads) \in Seq(W) /\ FlattenSeq(tails) \in Seq(W)
        BY <1>8, FlattenType
    <2>. QED  BY <1>9, <2>1, ConcatAssociative
<1>. HIDE DEF heads, tails, P, D
<1>. QED  BY <1>5, <1>6, <1>7, <1>10, Zenon DEF Assembled

OnlyHeadsAreLost ==
    Done => \A f \in Asked :
        Asked = {f} /\ SupportedInputs(f) => out = CallOf(f, FALSE)

(* After a SUCCESS the call data of the one function asked for is the ABI's  *)
(* in everything but the heads of its dynamic inputs: those are missing, and *)
(* nothing else is wrong, for every contract and values the library supports.*)
THEOREM OnlyHeadsLost == Spec => []OnlyHeadsAreLost
<1>1. CallInv => OnlyHeadsAreLost
    <2>. SUFFICES ASSUME CallInv, Done, NEW f \in Asked, Asked = {f}, SupportedInputs(f)
                  PROVE  out = CallOf(f, FALSE)
        BY DEF OnlyHeadsAreLost
    <2>1. f \in DOMAIN Functions /\ f \in 1..Len(Functions) /\ params \in Dictionaries
        BY ContractType DEF Asked, CallInv, LoopInv
    <2>2. index > f
        BY <2>1, ContractType DEF CallInv, LoopInv
    <2>3. out = Assembled(f)
        BY <2>1, <2>2 DEF CallInv, BufferInv
    <2>. QED  BY <2>1, <2>3, AssembledIsAbi
<1>. QED  BY <1>1, CallInvariant, PTL

(* A function without dynamic inputs has no heads to lose.                   *)
LEMMA StaticCall ==
    ASSUME NEW f \in 1..Len(Functions), Static(f), params \in Dictionaries, SupportedInputs(f)
    PROVE  CallOf(f, FALSE) = AbiCall(f)
<1>. DEFINE ins == Functions[f].inputs
            P == [k \in DOMAIN ins |-> AbiWords(params[ins[k].name])]
            D == [k \in DOMAIN ins |-> IsDynamic(ins[k])]
<1>1. \A k \in DOMAIN ins : ~D[k]
    BY DEF Static
<1>2. HeadsOf(P, D, FALSE) = HeadsOf(P, D, TRUE)
    BY <1>1, Zenon DEF HeadsOf
<1>3. Tuple(P, D, FALSE) = Tuple(P, D, TRUE)
    <2>. HIDE DEF P, D
    <2>. QED  BY <1>2, TupleDef, Zenon
<1>. QED  BY <1>3, Zenon DEF AbiCall, CallOf

(* The call data of a function whose inputs are all static is the ABI's word *)
(* for word, whatever was called before.                                     *)
THEOREM StaticCallsAreAbi == Spec => []StaticCallIsAbi
<1>1. CallInv /\ OnlyHeadsAreLost => StaticCallIsAbi
    <2>. SUFFICES ASSUME CallInv, OnlyHeadsAreLost, Done, NEW f \in Asked, Asked = {f},
                         Static(f), SupportedInputs(f)
                  PROVE  out = AbiCall(f)
        BY DEF StaticCallIsAbi
    <2>1. f \in 1..Len(Functions) /\ params \in Dictionaries
        BY ContractType DEF Asked, CallInv, LoopInv
    <2>2. out = CallOf(f, FALSE)
        BY DEF OnlyHeadsAreLost
    <2>. QED  BY <2>1, <2>2, StaticCall
<1>. QED  BY <1>1, CallInvariant, OnlyHeadsLost, PTL
=============================================================================
