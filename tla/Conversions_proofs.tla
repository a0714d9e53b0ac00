------------------------- MODULE Conversions_proofs -------------------------
(***************************************************************************)
(* Proofs about Conversions, for every size, text, key and hash: that what *)
(* is typed is what is signed and sent, that an address that is shown is   *)
(* read as the bytes it was made of, and that one in which one character   *)
(* is wrong, or two, is not read as another account's.                     *)
(***************************************************************************)
EXTENDS Conversions, RecursionLemmas, FiniteSetTheorems, TLAPS

-----------------------------------------------------------------------------
(* Sequences. *)

LEMMA FunctionIsSeq ==
    ASSUME NEW S, NEW n \in Nat, NEW w \in [1..n -> S]
    PROVE  w \in Seq(S) /\ Len(w) = n
OBVIOUS

LEMMA ConcatType ==
    ASSUME NEW S, NEW v \in Seq(S), NEW w \in Seq(S)
    PROVE  v \o w \in Seq(S) /\ Len(v \o w) = Len(v) + Len(w)
OBVIOUS

LEMMA ConcatFront ==
    ASSUME NEW S, NEW v \in Seq(S), NEW w \in Seq(S), NEW i \in 1..Len(v)
    PROVE  (v \o w)[i] = v[i]
OBVIOUS

LEMMA ConcatBack ==
    ASSUME NEW S, NEW v \in Seq(S), NEW w \in Seq(S), NEW i \in 1..Len(w)
    PROVE  (v \o w)[Len(v) + i] = w[i]
OBVIOUS

LEMMA WiderSeq ==
    ASSUME NEW S, NEW T, S \subseteq T, NEW w \in Seq(S)
    PROVE  w \in Seq(T)
<1>1. w \in [1..Len(w) -> T] /\ Len(w) \in Nat
    OBVIOUS
<1>. QED  BY <1>1

LEMMA SameSeq ==
    ASSUME NEW S, NEW v \in Seq(S), NEW w \in Seq(S), Len(v) = Len(w),
           \A i \in 1..Len(v) : v[i] = w[i]
    PROVE  v = w
OBVIOUS

-----------------------------------------------------------------------------
(* Characters. *)

LEMMA CharacterSets ==
    /\ Range(Digits) = {"0", "1", "2", "3", "4", "5", "6", "7", "8", "9"}
    /\ Range(Lower) = {"a", "b", "c", "d", "e", "f", "g", "h", "i", "j", "k", "l", "m",
                       "n", "o", "p", "q", "r", "s", "t", "u", "v", "w", "x", "y", "z"}
    /\ Range(Upper) = {"A", "B", "C", "D", "E", "F", "G", "H", "I", "J", "K", "L", "M",
                       "N", "O", "P", "Q", "R", "S", "T", "U", "V", "W", "X", "Y", "Z"}
<1>1. Range(Digits) = {"0", "1", "2", "3", "4", "5", "6", "7", "8", "9"}
    BY DEF Digits, Range
<1>2. Range(Lower) = {"a", "b", "c", "d", "e", "f", "g", "h", "i", "j", "k", "l", "m",
                      "n", "o", "p", "q", "r", "s", "t", "u", "v", "w", "x", "y", "z"}
    BY DEF Lower, Range
<1>3. Range(Upper) = {"A", "B", "C", "D", "E", "F", "G", "H", "I", "J", "K", "L", "M",
                      "N", "O", "P", "Q", "R", "S", "T", "U", "V", "W", "X", "Y", "Z"}
    BY DEF Upper, Range
<1>. QED  BY <1>1, <1>2, <1>3

LEMMA CharactersDisjoint ==
    /\ Range(Lower) \cap Range(Upper) = {}
    /\ Range(Lower) \cap Range(Digits) = {}
    /\ Range(Digits) \cap Range(Upper) = {}
BY CharacterSets

LEMMA AllCharacters ==
    Range(Digits \o Lower \o Upper) = Range(Digits) \cup Range(Lower) \cup Range(Upper)
BY DEF Lower, Upper, Digits, Range

\* A character of a sequence without doubles stands where its place is.
LEMMA Places ==
    /\ \A i \in 1..10 : Place(Digits[i], Digits) = i
    /\ \A i \in 1..26 : Place(Lower[i], Lower) = i /\ Place(Upper[i], Upper) = i
<1>1. \A i, j \in 1..10 : Digits[i] = Digits[j] => i = j
    BY DEF Digits
<1>2. \A i, j \in 1..26 : Lower[i] = Lower[j] => i = j
    BY DEF Lower
<1>3. \A i, j \in 1..26 : Upper[i] = Upper[j] => i = j
    BY DEF Upper
<1>4. DOMAIN Digits = 1..10 /\ DOMAIN Lower = 1..26 /\ DOMAIN Upper = 1..26
    BY DEF Digits, Lower, Upper
<1>. QED  BY <1>1, <1>2, <1>3, <1>4 DEF Place

LEMMA PlaceInside ==
    ASSUME NEW s, NEW c \in Range(s)
    PROVE  Place(c, s) \in DOMAIN s /\ s[Place(c, s)] = c
BY DEF Place, Range

LEMMA ValueType ==
    /\ DOMAIN Value = Range(Digits) \cup Range(Lower) \cup Range(Upper)
    /\ \A c \in Range(Digits) : Value[c] = Place(c, Digits) - 1 /\ Value[c] \in 0..9
    /\ \A c \in Range(Lower) : Value[c] = Place(c, Lower) + 9 /\ Value[c] \in 10..35
    /\ \A c \in Range(Upper) : Value[c] = Place(c, Upper) + 9 /\ Value[c] \in 10..35
    /\ \A c \in DOMAIN Value : Value[c] \in 0..35
<1>1. DOMAIN Value = Range(Digits) \cup Range(Lower) \cup Range(Upper)
    BY AllCharacters DEF Value
<1>2. \A c \in DOMAIN Value :
          Value[c] = CASE c \in Range(Digits) -> Place(c, Digits) - 1
                       [] c \in Range(Lower)  -> Place(c, Lower) + 9
                       [] c \in Range(Upper)  -> Place(c, Upper) + 9
    BY DEF Value
<1>3. \A c \in Range(Digits) : Place(c, Digits) \in 1..10
    BY PlaceInside DEF Digits
<1>4. \A c \in Range(Lower) : Place(c, Lower) \in 1..26
    BY PlaceInside DEF Lower
<1>5. \A c \in Range(Upper) : Place(c, Upper) \in 1..26
    BY PlaceInside DEF Upper
<1>6. \A c \in Range(Digits) : Value[c] = Place(c, Digits) - 1
    BY <1>1, <1>2, CharactersDisjoint
<1>7. \A c \in Range(Lower) : Value[c] = Place(c, Lower) + 9
    BY <1>1, <1>2, CharactersDisjoint
<1>8. \A c \in Range(Upper) : Value[c] = Place(c, Upper) + 9
    BY <1>1, <1>2, CharactersDisjoint
<1>. QED  BY <1>1, <1>3, <1>4, <1>5, <1>6, <1>7, <1>8

LEMMA LowerCases ==
    /\ \A i \in 1..26 : LowerCase(Upper[i]) = Lower[i] /\ LowerCase(Lower[i]) = Lower[i]
    /\ \A c : c \notin Range(Upper) => LowerCase(c) = c
    /\ \A c \in Range(Upper) : LowerCase(c) \in Range(Lower)
    /\ \A c \in Characters : LowerCase(c) \in Characters
<1>1. \A i \in 1..26 : Upper[i] \in Range(Upper) /\ Lower[i] \in Range(Lower)
    BY DEF Upper, Lower, Range
<1>2. \A i \in 1..26 : LowerCase(Upper[i]) = Lower[i]
    BY <1>1, Places DEF LowerCase, IsUpper
<1>3. \A i \in 1..26 : LowerCase(Lower[i]) = Lower[i]
    BY <1>1, CharactersDisjoint DEF LowerCase, IsUpper
<1>4. \A c : c \notin Range(Upper) => LowerCase(c) = c
    BY DEF LowerCase, IsUpper
<1>5. \A c \in Range(Upper) : \E i \in 1..26 : c = Upper[i]
    BY DEF Range, Upper
<1>6. \A c \in Range(Upper) : LowerCase(c) \in Range(Lower)
    BY <1>1, <1>2, <1>5
<1>. QED  BY <1>2, <1>3, <1>4, <1>6, ValueType DEF Characters

-----------------------------------------------------------------------------
(* Hexadecimal digits. *)

LEMMA Hexmap ==
    /\ DOMAIN hexmap = 1..16
    /\ Range(hexmap) = {"0", "1", "2", "3", "4", "5", "6", "7", "8", "9",
                        "a", "b", "c", "d", "e", "f"}
    /\ Range(hexmap) \subseteq DOMAIN Value
    /\ \A i \in 1..16 : hexmap[i] \in Range(hexmap)
<1>2. Range(hexmap) = {"0", "1", "2", "3", "4", "5", "6", "7", "8", "9",
                       "a", "b", "c", "d", "e", "f"}
    BY DEF hexmap, Range
<1>3. \A i \in 1..16 : hexmap[i] \in Range(hexmap)
    BY DEF hexmap, Range
<1>. QED  BY <1>2, <1>3, CharacterSets, ValueType DEF hexmap

\* A digit has its place in hexmap for its value.
LEMMA HexmapValue ==
    \A i \in 1..16 : /\ Place(hexmap[i], hexmap) = i /\ LowerCase(hexmap[i]) = hexmap[i]
                     /\ Value[hexmap[i]] = i - 1
<1>1. \A i, j \in 1..16 : hexmap[i] = hexmap[j] => i = j
    BY DEF hexmap
<1>2. \A i \in 1..16 : Place(hexmap[i], hexmap) = i
    <2>. DOMAIN hexmap = 1..16
        BY Hexmap
    <2>. QED  BY <1>1 DEF Place
<1>3. \A i \in 1..16 : hexmap[i] \notin Range(Upper)
    BY Hexmap, CharacterSets
<1>4. \A i \in 1..10 : hexmap[i] = Digits[i] /\ Digits[i] \in Range(Digits)
    BY DEF hexmap, Digits, Range
<1>5. \A i \in 11..16 : hexmap[i] = Lower[i - 10] /\ Lower[i - 10] \in Range(Lower)
    BY DEF hexmap, Lower, Range
<1>6. \A i \in 1..10 : Value[hexmap[i]] = i - 1
    BY <1>4, ValueType, Places
<1>7. \A i \in 11..16 : Value[hexmap[i]] = i - 1
    BY <1>5, ValueType, Places
<1>. QED  BY <1>2, <1>3, <1>6, <1>7, LowerCases

LEMMA HexDigit ==
    ASSUME NEW c, LowerCase(c) \in Range(hexmap)
    PROVE  /\ c \in DOMAIN Value /\ Value[c] \in 0..15
           /\ Place(LowerCase(c), hexmap) = Value[c] + 1
<1>1. PICK i \in 1..16 : LowerCase(c) = hexmap[i]
    BY Hexmap DEF Range
<1>2. Place(LowerCase(c), hexmap) = i /\ Value[hexmap[i]] = i - 1
    BY <1>1, HexmapValue
<1>3. CASE c \in Range(Upper)
    <2>1. PICK j \in 1..26 : c = Upper[j]
        BY <1>3 DEF Range, Upper
    <2>2. hexmap[i] = Lower[j] /\ Lower[j] \in Range(Lower)
        BY <1>1, <2>1, LowerCases DEF Range, Lower
    <2>3. Value[c] = j + 9 /\ Value[Lower[j]] = j + 9
        BY <1>3, <2>1, <2>2, ValueType, Places
    <2>. QED  BY <1>2, <1>3, <2>2, <2>3, ValueType
<1>4. CASE c \notin Range(Upper)
    <2>1. c = hexmap[i]
        BY <1>1, <1>4, LowerCases
    <2>. QED  BY <1>2, <2>1, Hexmap
<1>. QED  BY <1>3, <1>4

LEMMA ByteType ==
    /\ \A h, l \in 0..35 : Byte(h, l) \in Bytes
    /\ \A h, l \in 0..15 : Byte(h, l) = 16 * h + l
<1>1. ASSUME NEW h \in 0..35, NEW l \in 0..35 PROVE Byte(h, l) \in Bytes
    <2>. DEFINE over == l \div 16
                both == IF over = 0 \/ (h \div over) % 2 = 1 THEN h ELSE h + over
    <2>1. over \in 0..2 /\ both \in Nat
        OBVIOUS
    <2>2. Byte(h, l) = (16 * both + (l % 16)) % 256
        BY DEF Byte
    <2>. HIDE DEF over, both
    <2>. QED  BY <2>1, <2>2 DEF Bytes
<1>2. ASSUME NEW h \in 0..15, NEW l \in 0..15 PROVE Byte(h, l) = 16 * h + l
    <2>1. l \div 16 = 0 /\ l % 16 = l
        OBVIOUS
    <2>. QED  BY <2>1 DEF Byte
<1>. QED  BY <1>1, <1>2

LEMMA Least ==
    ASSUME NEW T \in SUBSET Nat, T # {}
    PROVE  \E i \in T : \A j \in T : i <= j
<1>. SUFFICES ASSUME \A i \in T : \E j \in T : ~(i <= j) PROVE FALSE
    OBVIOUS
<1>. DEFINE S == {n \in Nat : n \notin T}
<1>1. ASSUME NEW n \in Nat, \A k \in 0..n - 1 : k \in S PROVE n \in S
    <2>. SUFFICES ASSUME n \in T PROVE FALSE
        OBVIOUS
    <2>1. PICK j \in T : ~(n <= j)
        OBVIOUS
    <2>2. j \in 0..n - 1
        BY <2>1
    <2>. QED  BY <1>1, <2>2
<1>2. Nat \subseteq S
    <2>. HIDE DEF S
    <2>. QED  BY <1>1, StrongInduction
<1>. QED  BY <1>2

LEMMA AcceptedFront ==
    ASSUME NEW it \in Seq(Characters)
    PROVE  /\ Accepted(it) \in 0..Len(it)
           /\ \A i \in 1..Accepted(it) : it[i] \in DOMAIN Value
           /\ (\A i \in 1..Len(it) : it[i] \in DOMAIN Value) => Accepted(it) = Len(it)
<1>. DEFINE refused == {i \in DOMAIN it : it[i] \notin DOMAIN Value}
            first == CHOOSE i \in refused : \A j \in refused : i <= j
<1>0. DOMAIN it = 1..Len(it) /\ Len(it) \in Nat
    OBVIOUS
<1>1. Accepted(it) = IF refused = {} THEN Len(it) ELSE first - 1
    BY DEF Accepted
<1>2. CASE refused = {}
    <2>1. \A i \in 1..Len(it) : it[i] \in DOMAIN Value
        BY <1>0, <1>2
    <2>. HIDE DEF refused, first
    <2>. QED  BY <1>0, <1>1, <1>2, <2>1
<1>3. CASE refused # {}
    <2>1. refused \in SUBSET Nat
        BY <1>0
    <2>2. \E i \in refused : \A j \in refused : i <= j
        <3>. HIDE DEF refused
        <3>. QED  BY <1>3, <2>1, Least
    <2>3. first \in refused /\ \A j \in refused : first <= j
        <3>. HIDE DEF refused
        <3>. QED  BY <2>2
    <2>. HIDE DEF first
    <2>4. first \in 1..Len(it) /\ it[first] \notin DOMAIN Value
        BY <1>0, <2>3
    <2>5. \A i \in 1..first - 1 : it[i] \in DOMAIN Value
        BY <1>0, <2>3, <2>4
    <2>. HIDE DEF refused
    <2>. QED  BY <1>0, <1>1, <1>3, <2>4, <2>5
<1>. QED  BY <1>2, <1>3

LEMMA BytesOfType ==
    ASSUME NEW it \in Seq(Characters), NEW n \in 0..Len(it),
           \A i \in 1..n : it[i] \in DOMAIN Value
    PROVE  BytesOf(it, n) \in Seq(Bytes) /\ Len(BytesOf(it, n)) = (n + 1) \div 2
<1>. DEFINE b == [i \in 1..(n + 1) \div 2 |->
                     IF 2 * i > n THEN Value[it[n]]
                     ELSE Byte(Value[it[2 * i - 1]], Value[it[2 * i]])]
<1>0. n \in Nat /\ (n + 1) \div 2 \in Nat
    OBVIOUS
<1>1. ASSUME NEW i \in 1..(n + 1) \div 2 PROVE b[i] \in Bytes
    <2>1. CASE 2 * i > n
        <3>1. n \in 1..n /\ Value[it[n]] \in 0..35
            BY <2>1, ValueType
        <3>. QED  BY <2>1, <3>1 DEF Bytes
    <2>2. CASE ~(2 * i > n)
        <3>1. 2 * i - 1 \in 1..n /\ 2 * i \in 1..n
            BY <2>2
        <3>2. Value[it[2 * i - 1]] \in 0..35 /\ Value[it[2 * i]] \in 0..35
            BY <3>1, ValueType
        <3>3. b[i] = Byte(Value[it[2 * i - 1]], Value[it[2 * i]])
            BY <2>2
        <3>. HIDE DEF b
        <3>. QED  BY <3>2, <3>3, ByteType
    <2>. QED  BY <2>1, <2>2
<1>2. b = BytesOf(it, n)
    BY DEF BytesOf
<1>3. DOMAIN b = 1..(n + 1) \div 2
    OBVIOUS
<1>4. b \in [1..(n + 1) \div 2 -> Bytes]
    BY <1>1
<1>. HIDE DEF b
<1>. QED  BY <1>0, <1>2, <1>4

LEMMA UnprefixedType ==
    ASSUME NEW str \in Seq(Characters)
    PROVE  Unprefixed(str) \in Seq(Characters) /\ Bare(str) = Unprefixed(str)
BY DEF Unprefixed, Bare, HasPrefix

\* What str2hex writes: bytes, no more than the text has digits for, and none
\* when the text is too long for the size.
LEMMA Str2HexType ==
    ASSUME NEW str \in Seq(Characters), NEW size \in Nat
    PROVE  /\ Str2Hex(str, size).hex \in Seq(Bytes)
           /\ 2 * Len(Str2Hex(str, size).hex) <= Len(Bare(str)) + 1
           /\ Len(Bare(str)) > 2 * size + 1 => Len(Str2Hex(str, size).hex) = 0
<1>. DEFINE it == Unprefixed(str)
            n == Accepted(it)
            hex == Str2Hex(str, size).hex
<1>1. it \in Seq(Characters) /\ Bare(str) = it /\ Len(it) \in Nat
    BY UnprefixedType
<1>2. n \in 0..Len(it) /\ \A i \in 1..n : it[i] \in DOMAIN Value
    BY <1>1, AcceptedFront
<1>3. hex = IF size < Len(it) \div 2 THEN <<>>
            ELSE IF n = Len(it) THEN BytesOf(it, n) ELSE BytesOf(it, n - (n % 2))
    BY DEF Str2Hex
<1>. HIDE DEF it, n, hex
<1>4. n \in Nat /\ n - (n % 2) \in 0..n /\ n - (n % 2) \in 0..Len(it)
    BY <1>1, <1>2
<1>5. CASE size < Len(it) \div 2
    BY <1>1, <1>3, <1>5 DEF hex
<1>6. CASE ~(size < Len(it) \div 2) /\ n = Len(it)
    <2>1. hex \in Seq(Bytes) /\ Len(hex) = (n + 1) \div 2
        BY <1>1, <1>2, <1>3, <1>6, BytesOfType
    <2>2. 2 * Len(hex) <= Len(it) + 1 /\ ~(Len(it) > 2 * size + 1)
        BY <1>1, <1>6, <2>1
    <2>. QED  BY <1>1, <2>1, <2>2 DEF hex
<1>7. CASE ~(size < Len(it) \div 2) /\ n # Len(it)
    <2>. DEFINE k == n - (n % 2)
    <2>1. k \in 0..Len(it) /\ \A i \in 1..k : it[i] \in DOMAIN Value
        BY <1>2, <1>4
    <2>2. hex = BytesOf(it, k)
        BY <1>3, <1>7
    <2>. HIDE DEF k
    <2>3. hex \in Seq(Bytes) /\ Len(hex) = (k + 1) \div 2
        BY <1>1, <2>1, <2>2, BytesOfType
    <2>4. 2 * Len(hex) <= Len(it) + 1 /\ ~(Len(it) > 2 * size + 1)
        BY <1>1, <1>7, <2>1, <2>3
    <2>. QED  BY <1>1, <2>3, <2>4 DEF hex
<1>. QED  BY <1>5, <1>6, <1>7

\* A text of whole bytes that fits is read as they are written down.
LEMMA Str2HexReads ==
    ASSUME NEW str \in Seq(Characters), NEW size \in Nat, IsHex(Bare(str)),
           Len(Bare(str)) % 2 = 0, Len(Bare(str)) <= 2 * size
    PROVE  Str2Hex(str, size).hex = AsBytes(Bare(str))
<1>. DEFINE it == Bare(str)
            n == Len(it)
<1>1. it \in Seq(Characters) /\ Unprefixed(str) = it /\ n \in Nat /\ DOMAIN it = 1..n
    BY UnprefixedType
<1>2. ASSUME NEW i \in 1..n PROVE LowerCase(it[i]) \in Range(hexmap) /\ Small(it)[i] = LowerCase(it[i])
    <2>1. i \in DOMAIN it
        BY <1>1
    <2>2. Small(it)[i] = LowerCase(it[i]) /\ DOMAIN Small(it) = DOMAIN it
        BY <2>1 DEF Small
    <2>3. LowerCase(it[i]) \in Range(Small(it))
        BY <2>1, <2>2 DEF Range
    <2>. QED  BY <2>2, <2>3 DEF IsHex
<1>3. \A i \in 1..n : /\ it[i] \in DOMAIN Value /\ Value[it[i]] \in 0..15
                      /\ Place(Small(it)[i], hexmap) = Value[it[i]] + 1
    BY <1>2, HexDigit
<1>4. Accepted(it) = n
    BY <1>1, <1>3, AcceptedFront
<1>5. Str2Hex(str, size).hex = BytesOf(it, n)
    BY <1>1, <1>4 DEF Str2Hex
<1>6. (n + 1) \div 2 = n \div 2
    BY <1>1
<1>. DEFINE B(i) == IF 2 * i > n THEN Value[it[n]]
                    ELSE Byte(Value[it[2 * i - 1]], Value[it[2 * i]])
            A(i) == 16 * (Place(Small(it)[2 * i - 1], hexmap) - 1)
                        + Place(Small(it)[2 * i], hexmap) - 1
<1>7. BytesOf(it, n) = [i \in 1..n \div 2 |-> B(i)] /\ AsBytes(it) = [i \in 1..n \div 2 |-> A(i)]
    BY <1>6 DEF BytesOf, AsBytes
<1>8. ASSUME NEW i \in 1..n \div 2 PROVE B(i) = A(i)
    <2>1. 2 * i - 1 \in 1..n /\ 2 * i \in 1..n /\ ~(2 * i > n)
        BY <1>1
    <2>. DEFINE h == Value[it[2 * i - 1]]
                l == Value[it[2 * i]]
    <2>2. h \in 0..15 /\ l \in 0..15 /\ Place(Small(it)[2 * i - 1], hexmap) = h + 1
          /\ Place(Small(it)[2 * i], hexmap) = l + 1
        BY <1>3, <2>1
    <2>3. B(i) = Byte(h, l)
        BY <2>1
    <2>4. Byte(h, l) = 16 * h + l
        BY <2>2, ByteType
    <2>. HIDE DEF h, l, B
    <2>5. A(i) = 16 * h + l
        BY <2>2
    <2>. HIDE DEF A
    <2>. QED  BY <2>3, <2>4, <2>5
<1>. HIDE DEF A, B
<1>. QED  BY <1>5, <1>7, <1>8

\* Bytes as hex2str writes them: two small digits each, that say them.
LEMMA Hex2StrWrites ==
    ASSUME NEW data \in Seq(Bytes), NEW size \in Nat, 2 * Len(data) <= size
    PROVE  /\ Hex2Str(data, size) \in Seq(Range(hexmap))
           /\ Len(Hex2Str(data, size)) = 2 * Len(data)
           /\ AsBytes(Hex2Str(data, size)) = data
<1>. DEFINE n == Len(data)
            digit(i) == IF i % 2 = 1 THEN data[(i + 1) \div 2] \div 16
                        ELSE data[(i + 1) \div 2] % 16
            text == [i \in 1..2 * n |-> hexmap[digit(i) + 1]]
<1>1. n \in Nat /\ DOMAIN data = 1..n /\ \A i \in 1..n : data[i] \in 0..255
    <2>1. n \in Nat /\ DOMAIN data = 1..n /\ \A i \in 1..n : data[i] \in Bytes
        OBVIOUS
    <2>. QED  BY <2>1 DEF Bytes
<1>2. Hex2Str(data, size) = text
    BY <1>1 DEF Hex2Str
<1>3. ASSUME NEW i \in 1..2 * n PROVE digit(i) \in 0..15
    <2>1. (i + 1) \div 2 \in 1..n
        BY <1>1
    <2>. DEFINE d == data[(i + 1) \div 2]
    <2>2. d \in 0..255
        BY <1>1, <2>1
    <2>3. digit(i) = IF i % 2 = 1 THEN d \div 16 ELSE d % 16
        OBVIOUS
    <2>. HIDE DEF d, digit
    <2>4. d \div 16 \in 0..15 /\ d % 16 \in 0..15
        BY <2>2
    <2>. QED  BY <2>3, <2>4
<1>4. \A i \in 1..n : /\ 2 * i - 1 \in 1..2 * n /\ 2 * i \in 1..2 * n
                      /\ digit(2 * i - 1) = data[i] \div 16 /\ digit(2 * i) = data[i] % 16
    BY <1>1
<1>. HIDE DEF n, digit
<1>4a. ASSUME NEW i \in 1..2 * n PROVE digit(i) + 1 \in 1..16
    <2>1. \A x \in 0..15 : x + 1 \in 1..16
        OBVIOUS
    <2>. QED  BY <1>3, <2>1, Zenon
<1>5. \A i \in 1..2 * n : text[i] \in Range(hexmap)
    <2>. SUFFICES ASSUME NEW i \in 1..2 * n PROVE text[i] \in Range(hexmap)
        OBVIOUS
    <2>1. digit(i) + 1 \in 1..16
        BY <1>4a, Zenon
    <2>2. hexmap[digit(i) + 1] \in Range(hexmap)
        BY <2>1, Hexmap
    <2>. QED  BY <2>2
<1>6. text \in [1..2 * n -> Range(hexmap)] /\ 2 * n \in Nat
    BY <1>1, <1>5
<1>7. text \in Seq(Range(hexmap)) /\ Len(text) = 2 * n
    <2>. HIDE DEF text
    <2>. QED  BY <1>6
<1>8. ASSUME NEW i \in 1..2 * n PROVE Place(Small(text)[i], hexmap) = digit(i) + 1
    <2>1. digit(i) + 1 \in 1..16
        BY <1>4a, Zenon
    <2>2. Small(text)[i] = LowerCase(hexmap[digit(i) + 1])
        BY DEF Small
    <2>. QED  BY <2>1, <2>2, HexmapValue
<1>. DEFINE A(i) == 16 * (Place(Small(text)[2 * i - 1], hexmap) - 1)
                        + Place(Small(text)[2 * i], hexmap) - 1
<1>9. AsBytes(text) = [i \in 1..n |-> A(i)]
    <2>1. Len(text) \div 2 = n
        BY <1>1, <1>7
    <2>. HIDE DEF text
    <2>. QED  BY <2>1 DEF AsBytes
<1>10. ASSUME NEW i \in 1..n PROVE A(i) = data[i]
    <2>. DEFINE h == data[i] \div 16
                l == data[i] % 16
    <2>1. Place(Small(text)[2 * i - 1], hexmap) = h + 1 /\ Place(Small(text)[2 * i], hexmap) = l + 1
        BY <1>4, <1>8
    <2>2. data[i] = 16 * h + l /\ h \in Int /\ l \in Int
        <3>1. \A d \in 0..255 : d = 16 * (d \div 16) + (d % 16) /\ d \div 16 \in Int /\ d % 16 \in Int
            OBVIOUS
        <3>. QED  BY <1>1, <3>1
    <2>. HIDE DEF h, l, text
    <2>3. A(i) = 16 * h + l
        BY <2>1, <2>2
    <2>. QED  BY <2>2, <2>3
<1>11. AsBytes(text) = data
    <2>1. data = [i \in 1..n |-> data[i]]
        BY <1>1
    <2>. HIDE DEF A, text
    <2>. QED  BY <1>9, <1>10, <2>1
<1>. HIDE DEF text
<1>. QED  BY <1>2, <1>7, <1>11 DEF n

\* A text without capitals is what is left of it in capitals, in small letters.
LEMMA SmallCapitals ==
    ASSUME NEW text \in Seq(Range(Digits) \cup Range(Lower))
    PROVE  /\ Small(text) = text /\ Small(Capitals(text)) = text
           /\ \A i \in 1..Len(text) : LowerCase(Capitals(text)[i]) = text[i]
           /\ Capitals(text) \in Seq(Range(Digits) \cup Range(Upper))
           /\ Len(Capitals(text)) = Len(text)
<1>. DEFINE n == Len(text)
            capital(c) == IF IsLower(c) THEN Upper[Place(c, Lower)] ELSE c
<1>1. n \in Nat /\ DOMAIN text = 1..n /\ text = [i \in 1..n |-> text[i]]
      /\ \A i \in 1..n : text[i] \in Range(Digits) \cup Range(Lower)
    OBVIOUS
<1>2. ASSUME NEW c \in Range(Digits) \cup Range(Lower)
      PROVE  /\ LowerCase(c) = c /\ LowerCase(capital(c)) = c
             /\ capital(c) \in Range(Digits) \cup Range(Upper)
    <2>1. LowerCase(c) = c
        BY LowerCases, CharactersDisjoint
    <2>2. CASE IsLower(c)
        <3>1. Place(c, Lower) \in 1..26 /\ Lower[Place(c, Lower)] = c
            <4>1. Place(c, Lower) \in DOMAIN Lower /\ Lower[Place(c, Lower)] = c
                BY <2>2, PlaceInside DEF IsLower
            <4>2. DOMAIN Lower = 1..26
                BY DEF Lower
            <4>. QED  BY <4>1, <4>2, Zenon
        <3>2. Upper[Place(c, Lower)] \in Range(Upper)
            <4>1. DOMAIN Upper = 1..26
                BY DEF Upper
            <4>. QED  BY <3>1, <4>1, Zenon DEF Range
        <3>. QED  BY <2>1, <2>2, <3>1, <3>2, LowerCases
    <2>3. CASE ~IsLower(c)
        BY <2>1, <2>3 DEF IsLower
    <2>. QED  BY <2>2, <2>3, <2>1
<1>3. Capitals(text) = [i \in 1..n |-> capital(text[i])]
    BY <1>1 DEF Capitals
<1>. HIDE DEF capital, n
<1>4. Small(text) = [i \in 1..n |-> LowerCase(text[i])]
    BY <1>1 DEF Small
<1>5. Small(Capitals(text)) = [i \in 1..n |-> LowerCase(capital(text[i]))]
    BY <1>3 DEF Small
<1>6. Small(text) = text /\ Small(Capitals(text)) = text
    BY <1>1, <1>2, <1>4, <1>5
<1>7. Capitals(text) \in [1..n -> Range(Digits) \cup Range(Upper)]
    BY <1>1, <1>2, <1>3
<1>. QED  BY <1>1, <1>2, <1>3, <1>6, <1>7 DEF n
-----------------------------------------------------------------------------
(* The exclusive or, of groups and of coefficients. *)

LEMMA Xor5Type ==
    ASSUME NEW x \in Groups, NEW y \in Groups
    PROVE  Xor5(x, y) \in Groups
BY DEF Groups, Xor5

LEMMA Xor5Self ==
    ASSUME NEW x \in Groups
    PROVE  Xor5(x, x) = 0 /\ Xor5(x, 0) = x /\ Xor5(0, x) = x
BY DEF Groups, Xor5

LEMMA Xor5Commutes ==
    ASSUME NEW x \in Groups, NEW y \in Groups
    PROVE  Xor5(x, y) = Xor5(y, x)
BY DEF Groups, Xor5

\* What the division by each power of two leaves of a group that bits make.
LEMMA FromBits ==
    ASSUME NEW a \in 0..1, NEW b \in 0..1, NEW c \in 0..1, NEW d \in 0..1, NEW e \in 0..1,
           NEW g, g = 16 * e + 8 * d + 4 * c + 2 * b + a
    PROVE  /\ g \in Groups
           /\ g \div 16 = e /\ g \div 8 = 2 * e + d /\ g \div 4 = 2 * (2 * e + d) + c
           /\ g \div 2 = 2 * (4 * e + 2 * d + c) + b
           /\ g = 2 * (8 * e + 4 * d + 2 * c + b) + a
BY DEF Groups

LEMMA Xor5Parts ==
    ASSUME NEW x \in Groups, NEW y \in Groups
    PROVE  /\ Xor5(x, y) \div 16 = (x \div 16 + y \div 16) % 2
           /\ \E e \in Nat : Xor5(x, y) \div 8 = 2 * e + ((x \div 8 + y \div 8) % 2)
           /\ \E e \in Nat : Xor5(x, y) \div 4 = 2 * e + ((x \div 4 + y \div 4) % 2)
           /\ \E e \in Nat : Xor5(x, y) \div 2 = 2 * e + ((x \div 2 + y \div 2) % 2)
           /\ \E e \in Nat : Xor5(x, y) = 2 * e + ((x + y) % 2)
<1>. DEFINE e == (x \div 16 + y \div 16) % 2
            d == (x \div 8 + y \div 8) % 2
            c == (x \div 4 + y \div 4) % 2
            b == (x \div 2 + y \div 2) % 2
            a == (x + y) % 2
<1>1. a \in 0..1 /\ b \in 0..1 /\ c \in 0..1 /\ d \in 0..1 /\ e \in 0..1
    BY DEF Groups
<1>2. Xor5(x, y) = 16 * e + 8 * d + 4 * c + 2 * b + a
    BY DEF Xor5
<1>. HIDE DEF a, b, c, d, e
<1>. DEFINE g == Xor5(x, y)
<1>3. /\ g \div 16 = e /\ g \div 8 = 2 * e + d /\ g \div 4 = 2 * (2 * e + d) + c
      /\ g \div 2 = 2 * (4 * e + 2 * d + c) + b
      /\ g = 2 * (8 * e + 4 * d + 2 * c + b) + a
    BY <1>1, <1>2, FromBits
<1>4. e \in Nat /\ 2 * e + d \in Nat /\ 4 * e + 2 * d + c \in Nat /\ 8 * e + 4 * d + 2 * c + b \in Nat
    BY <1>1
<1>. USE <1>3, <1>4
<1>5. g \div 16 = (x \div 16 + y \div 16) % 2
    BY DEF e
<1>6. \E n \in Nat : g \div 8 = 2 * n + ((x \div 8 + y \div 8) % 2)
    BY DEF d
<1>7. \E n \in Nat : g \div 4 = 2 * n + ((x \div 4 + y \div 4) % 2)
    BY DEF c
<1>8. \E n \in Nat : g \div 2 = 2 * n + ((x \div 2 + y \div 2) % 2)
    BY DEF b
<1>9. \E n \in Nat : g = 2 * n + ((x + y) % 2)
    BY DEF a
<1>. QED  BY <1>5, <1>6, <1>7, <1>8, <1>9, Zenon DEF g

LEMMA EvenPart ==
    \A p, q, r, e \in Nat : /\ ((2 * e + ((p + q) % 2)) + r) % 2 = (p + q + r) % 2
                            /\ (p + (2 * e + ((q + r) % 2))) % 2 = (p + q + r) % 2
                            /\ (((p + q) % 2) + r) % 2 = (p + q + r) % 2
                            /\ (p + ((q + r) % 2)) % 2 = (p + q + r) % 2
OBVIOUS

LEMMA Xor5Associates ==
    ASSUME NEW x \in Groups, NEW y \in Groups, NEW z \in Groups
    PROVE  Xor5(Xor5(x, y), z) = Xor5(x, Xor5(y, z))
<1>. DEFINE s == Xor5(x, y)
            t == Xor5(y, z)
<1>1. \A w \in Groups : w \in Nat /\ w \div 2 \in Nat /\ w \div 4 \in Nat
                        /\ w \div 8 \in Nat /\ w \div 16 \in Nat
    BY DEF Groups
<1>2. (s \div 16 + z \div 16) % 2 = (x \div 16 + y \div 16 + z \div 16) % 2
    BY <1>1, Xor5Parts, EvenPart
<1>3. (s \div 8 + z \div 8) % 2 = (x \div 8 + y \div 8 + z \div 8) % 2
    <2>1. PICK n \in Nat : s \div 8 = 2 * n + ((x \div 8 + y \div 8) % 2)
        BY Xor5Parts
    <2>. QED  BY <1>1, <2>1, EvenPart
<1>4. (s \div 4 + z \div 4) % 2 = (x \div 4 + y \div 4 + z \div 4) % 2
    <2>1. PICK n \in Nat : s \div 4 = 2 * n + ((x \div 4 + y \div 4) % 2)
        BY Xor5Parts
    <2>. QED  BY <1>1, <2>1, EvenPart
<1>5. (s \div 2 + z \div 2) % 2 = (x \div 2 + y \div 2 + z \div 2) % 2
    <2>1. PICK n \in Nat : s \div 2 = 2 * n + ((x \div 2 + y \div 2) % 2)
        BY Xor5Parts
    <2>. QED  BY <1>1, <2>1, EvenPart
<1>6. (s + z) % 2 = (x + y + z) % 2
    <2>1. PICK n \in Nat : s = 2 * n + ((x + y) % 2)
        BY Xor5Parts
    <2>. QED  BY <1>1, <2>1, EvenPart
<1>7. (x \div 16 + t \div 16) % 2 = (x \div 16 + y \div 16 + z \div 16) % 2
    BY <1>1, Xor5Parts, EvenPart
<1>8. (x \div 8 + t \div 8) % 2 = (x \div 8 + y \div 8 + z \div 8) % 2
    <2>1. PICK n \in Nat : t \div 8 = 2 * n + ((y \div 8 + z \div 8) % 2)
        BY Xor5Parts
    <2>. QED  BY <1>1, <2>1, EvenPart
<1>9. (x \div 4 + t \div 4) % 2 = (x \div 4 + y \div 4 + z \div 4) % 2
    <2>1. PICK n \in Nat : t \div 4 = 2 * n + ((y \div 4 + z \div 4) % 2)
        BY Xor5Parts
    <2>. QED  BY <1>1, <2>1, EvenPart
<1>10. (x \div 2 + t \div 2) % 2 = (x \div 2 + y \div 2 + z \div 2) % 2
    <2>1. PICK n \in Nat : t \div 2 = 2 * n + ((y \div 2 + z \div 2) % 2)
        BY Xor5Parts
    <2>. QED  BY <1>1, <2>1, EvenPart
<1>11. (x + t) % 2 = (x + y + z) % 2
    <2>1. PICK n \in Nat : t = 2 * n + ((y + z) % 2)
        BY Xor5Parts
    <2>. QED  BY <1>1, <2>1, EvenPart
<1>. HIDE DEF s, t
<1>12. Xor5(s, z) = Xor5(x, t)
    BY <1>2, <1>3, <1>4, <1>5, <1>6, <1>7, <1>8, <1>9, <1>10, <1>11, Zenon DEF Xor5
<1>. QED  BY <1>12 DEF s, t
Coefficients == [1..6 -> Groups]

LEMMA Xor6Type ==
    ASSUME NEW a \in Coefficients, NEW b \in Coefficients
    PROVE  Xor6(a, b) \in Coefficients
BY Xor5Type DEF Xor6, Coefficients

LEMMA ZeroType ==
    Zero \in Coefficients /\ \A i \in 1..6 : Zero[i] = 0
BY DEF Zero, Coefficients, Groups

LEMMA Xor6Self ==
    ASSUME NEW a \in Coefficients
    PROVE  Xor6(a, a) = Zero /\ Xor6(a, Zero) = a /\ Xor6(Zero, a) = a
<1>1. \A i \in 1..6 : a[i] \in Groups
    BY DEF Coefficients
<1>2. a = [i \in 1..6 |-> a[i]] /\ Zero = [i \in 1..6 |-> Zero[i]]
    BY ZeroType DEF Coefficients
<1>3. \A i \in 1..6 : /\ Xor5(a[i], a[i]) = Zero[i]
                      /\ Xor5(a[i], Zero[i]) = a[i] /\ Xor5(Zero[i], a[i]) = a[i]
    BY <1>1, ZeroType, Xor5Self
<1>. QED  BY <1>2, <1>3 DEF Xor6

LEMMA Xor6Commutes ==
    ASSUME NEW a \in Coefficients, NEW b \in Coefficients
    PROVE  Xor6(a, b) = Xor6(b, a)
BY Xor5Commutes DEF Xor6, Coefficients

LEMMA Xor6Associates ==
    ASSUME NEW a \in Coefficients, NEW b \in Coefficients, NEW c \in Coefficients
    PROVE  Xor6(Xor6(a, b), c) = Xor6(a, Xor6(b, c))
<1>1. \A i \in 1..6 : a[i] \in Groups /\ b[i] \in Groups /\ c[i] \in Groups
    BY DEF Coefficients
<1>2. \A i \in 1..6 : Xor5(Xor5(a[i], b[i]), c[i]) = Xor5(a[i], Xor5(b[i], c[i]))
    BY <1>1, Xor5Associates
<1>. QED  BY <1>2 DEF Xor6

-----------------------------------------------------------------------------
(* The checksum.  Shifting in other groups than zeros adds them, as long as  *)
(* none of them is shifted out again.                                        *)

LEMMA CarryType ==
    Carry \in [Groups -> Coefficients]
<1>1. \A n \in 1..5 : Generator[n] \in Coefficients
    <2>1. <<29, 22, 20, 21, 29, 18>> \in Coefficients /\ <<19,  5,  1,  3, 19, 13>> \in Coefficients
          /\ <<15, 10,  2,  6, 15, 26>> \in Coefficients /\ <<30, 20,  4, 12, 30, 29>> \in Coefficients
          /\ <<21,  1,  8, 24, 21, 19>> \in Coefficients
        BY DEF Coefficients, Groups
    <2>2. \A n \in 1..5 : n = 1 \/ n = 2 \/ n = 3 \/ n = 4 \/ n = 5
        OBVIOUS
    <2>. QED  BY <2>1, <2>2 DEF Generator
<1>2. \A n \in 1..5 : \A k : Times(k, n) \in Coefficients
    BY <1>1, ZeroType DEF Times
<1>. QED  BY <1>2, Xor6Type DEF Carry

LEMMA ShiftedType ==
    ASSUME NEW c \in Coefficients, NEW x \in Groups
    PROVE  Shifted(c, x) \in Coefficients
BY DEF Shifted, Coefficients

LEMMA MultipliedType ==
    ASSUME NEW c \in Coefficients, NEW x \in Groups
    PROVE  Multiplied(c, x) \in Coefficients
<1>1. c[1] \in Groups
    BY DEF Coefficients
<1>. QED  BY <1>1, CarryType, ShiftedType, Xor6Type DEF Multiplied

\* PolyMod goes through the groups from the front.
LEMMA PolyModDef ==
    ASSUME NEW v \in Seq(Groups)
    PROVE  \E c \in [0..Len(v) -> Coefficients] :
               /\ c[0] = <<0, 0, 0, 0, 0, 1>>
               /\ \A i \in 1..Len(v) : c[i] = Multiplied(c[i - 1], v[i])
               /\ PolyMod(v) = c[Len(v)]
<1>. DEFINE m == Len(v)
            one == <<0, 0, 0, 0, 0, 1>>
            step == [p \in (1..m) \X Coefficients |-> Multiplied(p[2], v[p[1]])]
            Is(f) == f = [i \in 0..m |-> IF i = 0 THEN one ELSE Multiplied(f[i - 1], v[i])]
            c == CHOOSE f : Is(f)
<1>1. m \in Nat /\ \A i \in 1..m : v[i] \in Groups
    OBVIOUS
<1>2. one \in Coefficients
    BY DEF Coefficients, Groups
<1>3. PolyMod(v) = c[m]
    BY Zenon DEF PolyMod
<1>4. Along(Coefficients, m, one, step)
    <2>1. step \in [(1..m) \X Coefficients -> Coefficients]
        BY <1>1, MultipliedType
    <2>. HIDE DEF step, one, m
    <2>. QED  BY <1>1, <1>2, <2>1 DEF Along
<1>5. \A i \in 1..m : \A a \in Coefficients : step[<<i, a>>] = Multiplied(a, v[i])
    OBVIOUS
<1>. HIDE DEF step, one, m
<1>6. PICK f \in [0..m -> Coefficients] :
          f[0] = one /\ \A i \in 1..m : f[i] = step[<<i, f[i - 1]>>]
    BY <1>4, ListRecursion
<1>7. \A i \in 1..m : f[i] = Multiplied(f[i - 1], v[i])
    <2>. SUFFICES ASSUME NEW i \in 1..m PROVE f[i] = Multiplied(f[i - 1], v[i])
        OBVIOUS
    <2>1. f[i - 1] \in Coefficients
        BY <1>1
    <2>. QED  BY <1>5, <1>6, <2>1
<1>8. Is(f)
    <2>1. \A i \in 0..m : f[i] = IF i = 0 THEN one ELSE Multiplied(f[i - 1], v[i])
        BY <1>1, <1>6, <1>7
    <2>. QED  BY <2>1
<1>9. Is(c)
    <2>. HIDE DEF Is
    <2>. QED  BY <1>8
<1>10. \A i \in 0..m : c[i] = IF i = 0 THEN one ELSE Multiplied(c[i - 1], v[i])
    <2>. HIDE DEF c
    <2>. QED  BY <1>9
<1>11. DOMAIN c = 0..m
    <2>. HIDE DEF c
    <2>. QED  BY <1>9
<1>. HIDE DEF c, Is
<1>12. c[0] = one /\ \A i \in 1..m : c[i] = Multiplied(c[i - 1], v[i])
    BY <1>1, <1>10
<1>13. \A i \in 0..m : c[i] \in Coefficients
    <2>. DEFINE S == {i \in 0..m : c[i] \in Coefficients}
    <2>1. 0 \in S
        BY <1>1, <1>2, <1>12
    <2>2. ASSUME NEW i \in 1..m, i - 1 \in S PROVE i \in S
        <3>1. c[i - 1] \in Coefficients /\ v[i] \in Groups /\ c[i] = Multiplied(c[i - 1], v[i])
            BY <1>1, <1>12, <2>2
        <3>. QED  BY <3>1, MultipliedType
    <2>3. 0..m \subseteq S
        <3>. HIDE DEF S
        <3>. QED  BY <1>1, <2>1, <2>2, InductionUpTo
    <2>. QED  BY <2>3
<1>14. c = [i \in 0..m |-> c[i]]
    <2>. DEFINE d == [i \in 0..m |-> IF i = 0 THEN one ELSE Multiplied(c[i - 1], v[i])]
    <2>1. c = d
        BY <1>9 DEF Is
    <2>. QED  BY <2>1
<1>15. c \in [0..m -> Coefficients]
    BY <1>13, <1>14
<1>. QED  BY <1>3, <1>12, <1>15 DEF m, one

LEMMA PolyModAppend ==
    ASSUME NEW v \in Seq(Groups), NEW x \in Groups
    PROVE  /\ PolyMod(v) \in Coefficients
           /\ PolyMod(Append(v, x)) = Multiplied(PolyMod(v), x)
<1>. DEFINE m == Len(v)
            w == Append(v, x)
<1>1. /\ m \in Nat /\ w \in Seq(Groups) /\ Len(w) = m + 1
      /\ w[m + 1] = x /\ \A i \in 1..m : w[i] = v[i]
    OBVIOUS
<1>2. PICK c \in [0..m -> Coefficients] :
          /\ c[0] = <<0, 0, 0, 0, 0, 1>>
          /\ \A i \in 1..m : c[i] = Multiplied(c[i - 1], v[i])
          /\ PolyMod(v) = c[m]
    BY PolyModDef
<1>. HIDE DEF w
<1>3. PICK d \in [0..m + 1 -> Coefficients] :
          /\ d[0] = <<0, 0, 0, 0, 0, 1>>
          /\ \A i \in 1..m + 1 : d[i] = Multiplied(d[i - 1], w[i])
          /\ PolyMod(w) = d[m + 1]
    <2>. DEFINE k == m + 1
    <2>1. \E d \in [0..k -> Coefficients] :
              /\ d[0] = <<0, 0, 0, 0, 0, 1>>
              /\ \A i \in 1..k : d[i] = Multiplied(d[i - 1], w[i])
              /\ PolyMod(w) = d[k]
        <3>1. k = Len(w)
            BY <1>1
        <3>. HIDE DEF k
        <3>. QED  BY <1>1, <3>1, PolyModDef
    <2>. QED  BY <2>1
<1>. HIDE DEF m
<1>4. 0..m \subseteq {i \in 0..m : c[i] = d[i]}
    <2>. DEFINE S == {i \in 0..m : c[i] = d[i]}
    <2>1. 0 \in S
        <3>1. 0 \in 0..m
            BY <1>1
        <3>2. c[0] = d[0]
            BY <1>2, <1>3, Zenon
        <3>. QED  BY <3>1, <3>2
    <2>2. ASSUME NEW i \in 1..m, i - 1 \in S PROVE i \in S
        <3>1. i \in 1..m + 1 /\ i \in 0..m
            BY <1>1
        <3>2. c[i] = Multiplied(c[i - 1], v[i]) /\ d[i] = Multiplied(d[i - 1], w[i])
            BY <1>2, <1>3, <3>1
        <3>. QED  BY <1>1, <2>2, <3>1, <3>2
    <2>. HIDE DEF S
    <2>3. 0..m \subseteq S
        BY <1>1, <2>1, <2>2, InductionUpTo
    <2>. QED  BY <2>3 DEF S
<1>5. m \in 0..m /\ m + 1 \in 1..m + 1 /\ (m + 1) - 1 = m
    BY <1>1
<1>6. c[m] = d[m] /\ d[m + 1] = Multiplied(d[m], x)
    BY <1>1, <1>3, <1>4, <1>5
<1>. QED  BY <1>2, <1>3, <1>5, <1>6 DEF w

\* Six groups more.
SixMore(c, w) ==
    Multiplied(Multiplied(Multiplied(Multiplied(Multiplied(Multiplied(
        c, w[1]), w[2]), w[3]), w[4]), w[5]), w[6])

LEMMA SixMoreType ==
    ASSUME NEW c \in Coefficients, NEW w \in Coefficients
    PROVE  SixMore(c, w) \in Coefficients
<1>. DEFINE c2 == Multiplied(Multiplied(c, w[1]), w[2])
            c4 == Multiplied(Multiplied(c2, w[3]), w[4])
            c6 == Multiplied(Multiplied(c4, w[5]), w[6])
<1>0. \A i \in 1..6 : w[i] \in Groups
    BY DEF Coefficients
<1>1. c2 \in Coefficients
    BY <1>0, MultipliedType
<1>. HIDE DEF c2
<1>2. c4 \in Coefficients
    BY <1>0, <1>1, MultipliedType
<1>. HIDE DEF c4
<1>3. c6 \in Coefficients
    BY <1>0, <1>2, MultipliedType
<1>4. SixMore(c, w) = c6
    BY Zenon DEF SixMore, c2, c4
<1>. QED  BY <1>3, <1>4

LEMMA SixIsSeq ==
    ASSUME NEW w \in Coefficients
    PROVE  w \in Seq(Groups) /\ Len(w) = 6
<1>. DEFINE n == 6
<1>1. n \in Nat /\ w \in [1..n -> Groups]
    BY DEF Coefficients
<1>. HIDE DEF n
<1>2. w \in Seq(Groups) /\ Len(w) = n
    BY <1>1, FunctionIsSeq
<1>. QED  BY <1>2 DEF n

LEMMA PolyModSixMore ==
    ASSUME NEW v \in Seq(Groups), NEW w \in Coefficients
    PROVE  /\ v \o w \in Seq(Groups)
           /\ PolyMod(v \o w) = SixMore(PolyMod(v), w)
<1>. DEFINE x == v \o w
<1>0. /\ w \in Seq(Groups) /\ Len(w) = 6 /\ x \in Seq(Groups) /\ Len(x) = Len(v) + 6
      /\ \A i \in 1..Len(v) : x[i] = v[i]
      /\ \A i \in 1..6 : x[Len(v) + i] = w[i]
    <2>2. w \in Seq(Groups) /\ Len(w) = 6
        BY SixIsSeq
    <2>3. w \in Seq(Groups)
        BY <2>2
    <2>4. x \in Seq(Groups) /\ Len(x) = Len(v) + Len(w)
        BY <2>3, ConcatType
    <2>5. \A i \in 1..Len(v) : x[i] = v[i]
        BY <2>3, ConcatFront
    <2>6. \A i \in 1..Len(w) : x[Len(v) + i] = w[i]
        BY <2>3, ConcatBack
    <2>. QED  BY <2>2, <2>4, <2>5, <2>6
<1>. HIDE DEF x
<1>. DEFINE v1 == Append(v, w[1])
            v2 == Append(v1, w[2])
            v3 == Append(v2, w[3])
            v4 == Append(v3, w[4])
            v5 == Append(v4, w[5])
            v6 == Append(v5, w[6])
            n == Len(v)
<1>1. /\ w[1] \in Groups /\ w[2] \in Groups /\ w[3] \in Groups
      /\ w[4] \in Groups /\ w[5] \in Groups /\ w[6] \in Groups
      /\ n \in Nat /\ w \in Seq(Groups) /\ Len(w) = 6
    BY <1>0 DEF Coefficients
<1>2. v1 \in Seq(Groups) /\ Len(v1) = n + 1 /\ v1[n + 1] = w[1]
      /\ \A i \in 1..n : v1[i] = v[i]
    BY <1>1
<1>3. v2 \in Seq(Groups) /\ Len(v2) = n + 2 /\ v2[n + 2] = w[2]
      /\ \A i \in 1..n + 1 : v2[i] = v1[i]
    <2>. HIDE DEF v1, n
    <2>. QED  BY <1>1, <1>2
<1>4. v3 \in Seq(Groups) /\ Len(v3) = n + 3 /\ v3[n + 3] = w[3]
      /\ \A i \in 1..n + 2 : v3[i] = v2[i]
    <2>. HIDE DEF v2, n
    <2>. QED  BY <1>1, <1>3
<1>5. v4 \in Seq(Groups) /\ Len(v4) = n + 4 /\ v4[n + 4] = w[4]
      /\ \A i \in 1..n + 3 : v4[i] = v3[i]
    <2>. HIDE DEF v3, n
    <2>. QED  BY <1>1, <1>4
<1>6. v5 \in Seq(Groups) /\ Len(v5) = n + 5 /\ v5[n + 5] = w[5]
      /\ \A i \in 1..n + 4 : v5[i] = v4[i]
    <2>. HIDE DEF v4, n
    <2>. QED  BY <1>1, <1>5
<1>7. v6 \in Seq(Groups) /\ Len(v6) = n + 6 /\ v6[n + 6] = w[6]
      /\ \A i \in 1..n + 5 : v6[i] = v5[i]
    <2>. HIDE DEF v5, n
    <2>. QED  BY <1>1, <1>6
<1>8. v \o w = v6
    <2>. HIDE DEF v1, v2, v3, v4, v5, v6
    <2>3. x \in Seq(Groups) /\ Len(x) = n + 6
          /\ (\A i \in 1..n : x[i] = v[i]) /\ \A i \in 1..6 : x[n + i] = w[i]
        BY <1>0
    <2>. HIDE DEF n
    <2>4. \A i \in 1..n : v6[i] = v[i]
        BY <1>1, <1>2, <1>3, <1>4, <1>5, <1>6, <1>7
    <2>5. /\ v6[n + 1] = w[1] /\ v6[n + 2] = w[2] /\ v6[n + 3] = w[3]
          /\ v6[n + 4] = w[4] /\ v6[n + 5] = w[5] /\ v6[n + 6] = w[6]
        BY <1>1, <1>2, <1>3, <1>4, <1>5, <1>6, <1>7
    <2>6. /\ x[n + 1] = w[1] /\ x[n + 2] = w[2] /\ x[n + 3] = w[3]
          /\ x[n + 4] = w[4] /\ x[n + 5] = w[5] /\ x[n + 6] = w[6]
        BY <2>3
    <2>7. \A i \in 1..n + 6 : i \in 1..n \/ i = n + 1 \/ i = n + 2 \/ i = n + 3
                              \/ i = n + 4 \/ i = n + 5 \/ i = n + 6
        BY <1>1
    <2>8. \A i \in 1..n + 6 : x[i] = v6[i]
        BY <2>3, <2>4, <2>5, <2>6, <2>7
    <2>9. x = v6
        BY <1>7, <2>3, <2>8, SameSeq
    <2>. QED  BY <2>9 DEF x
<1>9. PolyMod(v6) = SixMore(PolyMod(v), w)
    <2>1. PolyMod(v1) = Multiplied(PolyMod(v), w[1])
        BY <1>1, PolyModAppend
    <2>. HIDE DEF v1
    <2>2. PolyMod(v2) = Multiplied(PolyMod(v1), w[2])
        BY <1>1, <1>2, PolyModAppend
    <2>. HIDE DEF v2
    <2>3. PolyMod(v3) = Multiplied(PolyMod(v2), w[3])
        BY <1>1, <1>3, PolyModAppend
    <2>. HIDE DEF v3
    <2>4. PolyMod(v4) = Multiplied(PolyMod(v3), w[4])
        BY <1>1, <1>4, PolyModAppend
    <2>. HIDE DEF v4
    <2>5. PolyMod(v5) = Multiplied(PolyMod(v4), w[5])
        BY <1>1, <1>5, PolyModAppend
    <2>. HIDE DEF v5
    <2>6. PolyMod(v6) = Multiplied(PolyMod(v5), w[6])
        BY <1>1, <1>6, PolyModAppend
    <2>. QED  BY <2>1, <2>2, <2>3, <2>4, <2>5, <2>6, Zenon DEF SixMore
<1>. HIDE DEF v6
<1>. QED  BY <1>7, <1>8, <1>9

LEMMA OneMore ==
    ASSUME NEW s \in Coefficients, NEW t \in Coefficients, NEW d \in Coefficients,
           t = Xor6(s, d), d[1] = 0, NEW x \in Groups
    PROVE  Multiplied(t, x) = Xor6(Multiplied(s, 0), Shifted(d, x))
<1>. DEFINE u == Shifted(s, 0)
            e == Shifted(d, x)
            k == Carry[s[1]]
<1>0. 0 \in Groups /\ \A i \in 1..6 : s[i] \in Groups /\ t[i] \in Groups /\ d[i] \in Groups
    BY DEF Groups, Coefficients
<1>1. \A i \in 1..6 : t[i] = Xor5(s[i], d[i])
    BY DEF Xor6
<1>2. t[1] = s[1]
    BY <1>0, <1>1, Xor5Self
<1>3. u \in Coefficients /\ e \in Coefficients /\ k \in Coefficients
    <2>1. k \in Coefficients
        BY <1>0, CarryType
    <2>2. u \in Coefficients
        BY <1>0, ShiftedType
    <2>3. e \in Coefficients
        BY ShiftedType
    <2>. QED  BY <2>1, <2>2, <2>3
<1>4. Shifted(t, x) = Xor6(u, e)
    <2>1. /\ u[1] = s[2] /\ u[2] = s[3] /\ u[3] = s[4] /\ u[4] = s[5] /\ u[5] = s[6] /\ u[6] = 0
          /\ e[1] = d[2] /\ e[2] = d[3] /\ e[3] = d[4] /\ e[4] = d[5] /\ e[5] = d[6] /\ e[6] = x
        BY DEF Shifted
    <2>2. Xor5(0, x) = x
        BY Xor5Self
    <2>. DEFINE f == Shifted(t, x)
    <2>3. /\ f[1] = t[2] /\ f[2] = t[3] /\ f[3] = t[4] /\ f[4] = t[5] /\ f[5] = t[6] /\ f[6] = x
          /\ f \in Coefficients
        BY ShiftedType DEF Shifted
    <2>. HIDE DEF u, e, f
    <2>4. \A i \in 1..6 : i = 1 \/ i = 2 \/ i = 3 \/ i = 4 \/ i = 5 \/ i = 6
        OBVIOUS
    <2>5. \A i \in 1..6 : f[i] = Xor5(u[i], e[i])
        <3>1. /\ f[1] = Xor5(u[1], e[1]) /\ f[2] = Xor5(u[2], e[2]) /\ f[3] = Xor5(u[3], e[3])
              /\ f[4] = Xor5(u[4], e[4]) /\ f[5] = Xor5(u[5], e[5]) /\ f[6] = Xor5(u[6], e[6])
            BY <1>1, <2>1, <2>2, <2>3
        <3>. QED  BY <2>4, <3>1
    <2>6. f = [i \in 1..6 |-> f[i]]
        BY <2>3 DEF Coefficients
    <2>. QED  BY <2>5, <2>6 DEF f, Xor6
<1>5. Multiplied(t, x) = Xor6(Xor6(u, e), k) /\ Multiplied(s, 0) = Xor6(u, k)
    BY <1>2, <1>4 DEF Multiplied
<1>. HIDE DEF u, e, k
<1>6. Xor6(Xor6(u, e), k) = Xor6(u, Xor6(e, k)) /\ Xor6(e, k) = Xor6(k, e)
      /\ Xor6(Xor6(u, k), e) = Xor6(u, Xor6(k, e))
    BY <1>3, Xor6Associates, Xor6Commutes
<1>. QED  BY <1>5, <1>6 DEF e

LEMMA SixMoreAdds ==
    ASSUME NEW c \in Coefficients, NEW w \in Coefficients
    PROVE  SixMore(c, w) = Xor6(SixMore(c, Zero), w)
<1>. DEFINE s1 == Multiplied(c, 0)
            s2 == Multiplied(s1, 0)
            s3 == Multiplied(s2, 0)
            s4 == Multiplied(s3, 0)
            s5 == Multiplied(s4, 0)
            s6 == Multiplied(s5, 0)
            t1 == Multiplied(c, w[1])
            t2 == Multiplied(t1, w[2])
            t3 == Multiplied(t2, w[3])
            t4 == Multiplied(t3, w[4])
            t5 == Multiplied(t4, w[5])
            t6 == Multiplied(t5, w[6])
            d1 == <<0, 0, 0, 0, 0, w[1]>>
            d2 == <<0, 0, 0, 0, w[1], w[2]>>
            d3 == <<0, 0, 0, w[1], w[2], w[3]>>
            d4 == <<0, 0, w[1], w[2], w[3], w[4]>>
            d5 == <<0, w[1], w[2], w[3], w[4], w[5]>>
            d6 == <<w[1], w[2], w[3], w[4], w[5], w[6]>>
<1>0. /\ w[1] \in Groups /\ w[2] \in Groups /\ w[3] \in Groups
      /\ w[4] \in Groups /\ w[5] \in Groups /\ w[6] \in Groups /\ 0 \in Groups
    BY DEF Coefficients, Groups
<1>1. /\ d1 \in Coefficients /\ d2 \in Coefficients /\ d3 \in Coefficients
      /\ d4 \in Coefficients /\ d5 \in Coefficients
    BY <1>0 DEF Coefficients
<1>2. /\ d1[1] = 0 /\ d2[1] = 0 /\ d3[1] = 0 /\ d4[1] = 0 /\ d5[1] = 0
    OBVIOUS
<1>3. /\ d1 = Shifted(Zero, w[1]) /\ d2 = Shifted(d1, w[2]) /\ d3 = Shifted(d2, w[3])
      /\ d4 = Shifted(d3, w[4]) /\ d5 = Shifted(d4, w[5]) /\ d6 = Shifted(d5, w[6])
    BY DEF Shifted, Zero
<1>4. d6 = w
    <2>1. w \in [1..6 -> Groups]
        BY DEF Coefficients
    <2>. QED  BY <2>1
<1>5. SixMore(c, w) = t6
    BY Zenon DEF SixMore
<1>6. SixMore(c, Zero) = s6
    BY ZeroType DEF SixMore
<1>. HIDE DEF d1, d2, d3, d4, d5, d6
<1>7. s1 \in Coefficients /\ t1 \in Coefficients /\ t1 = Xor6(s1, d1)
    <2>1. c = Xor6(c, Zero) /\ Zero \in Coefficients /\ Zero[1] = 0
        BY Xor6Self, ZeroType
    <2>2. s1 \in Coefficients /\ t1 \in Coefficients
        BY <1>0, MultipliedType
    <2>3. t1 = Xor6(s1, Shifted(Zero, w[1]))
        BY <1>0, <2>1, OneMore
    <2>. QED  BY <1>3, <2>2, <2>3
<1>. HIDE DEF s1, t1
<1>8. s2 \in Coefficients /\ t2 \in Coefficients /\ t2 = Xor6(s2, d2)
    <2>1. s2 \in Coefficients /\ t2 \in Coefficients
        BY <1>0, <1>7, MultipliedType
    <2>2. t2 = Xor6(s2, Shifted(d1, w[2]))
        BY <1>0, <1>1, <1>2, <1>7, OneMore
    <2>. QED  BY <1>3, <2>1, <2>2
<1>. HIDE DEF s2, t2
<1>9. s3 \in Coefficients /\ t3 \in Coefficients /\ t3 = Xor6(s3, d3)
    <2>1. s3 \in Coefficients /\ t3 \in Coefficients
        BY <1>0, <1>8, MultipliedType
    <2>2. t3 = Xor6(s3, Shifted(d2, w[3]))
        BY <1>0, <1>1, <1>2, <1>8, OneMore
    <2>. QED  BY <1>3, <2>1, <2>2
<1>. HIDE DEF s3, t3
<1>10. s4 \in Coefficients /\ t4 \in Coefficients /\ t4 = Xor6(s4, d4)
    <2>1. s4 \in Coefficients /\ t4 \in Coefficients
        BY <1>0, <1>9, MultipliedType
    <2>2. t4 = Xor6(s4, Shifted(d3, w[4]))
        BY <1>0, <1>1, <1>2, <1>9, OneMore
    <2>. QED  BY <1>3, <2>1, <2>2
<1>. HIDE DEF s4, t4
<1>11. s5 \in Coefficients /\ t5 \in Coefficients /\ t5 = Xor6(s5, d5)
    <2>1. s5 \in Coefficients /\ t5 \in Coefficients
        BY <1>0, <1>10, MultipliedType
    <2>2. t5 = Xor6(s5, Shifted(d4, w[5]))
        BY <1>0, <1>1, <1>2, <1>10, OneMore
    <2>. QED  BY <1>3, <2>1, <2>2
<1>. HIDE DEF s5, t5
<1>12. t6 = Xor6(s6, d6)
    BY <1>0, <1>1, <1>2, <1>3, <1>11, OneMore
<1>. HIDE DEF s6, t6
<1>. QED  BY <1>4, <1>5, <1>6, <1>12

LEMMA ConcatAssociates ==
    ASSUME NEW S, NEW u \in Seq(S), NEW v \in Seq(S), NEW w \in Seq(S)
    PROVE  (u \o v) \o w = u \o (v \o w)
OBVIOUS

LEMMA GroupsAssociate ==
    \A u, v, w \in Seq(Groups) : (u \o v) \o w = u \o (v \o w)
BY ConcatAssociates

LEMMA EncodingConstants ==
    /\ DOMAIN EncodingConstant = {"BECH32", "BECH32M"}
    /\ EncodingConstant["BECH32"] \in Coefficients
    /\ EncodingConstant["BECH32"] # EncodingConstant["BECH32M"]
<1>1. EncodingConstant["BECH32"] = <<0, 0, 0, 0, 0, 1>>
      /\ EncodingConstant["BECH32M"] = <<21, 28, 16, 12, 5, 3>>
    BY DEF EncodingConstant
<1>2. <<0, 0, 0, 0, 0, 1>>[1] # <<21, 28, 16, 12, 5, 3>>[1]
    OBVIOUS
<1>3. EncodingConstant["BECH32"] # EncodingConstant["BECH32M"]
    BY <1>1, <1>2
<1>4. EncodingConstant["BECH32"] \in Coefficients
    BY <1>1 DEF Coefficients, Groups
<1>5. DOMAIN EncodingConstant = {"BECH32", "BECH32M"}
    BY DEF EncodingConstant
<1>. QED  BY <1>3, <1>4, <1>5

\* The checksum of groups makes them, with it behind them, groups whose
\* remainder is the constant.
LEMMA ChecksumVerifies ==
    ASSUME NEW hrp, ExpandHRP(hrp) \in Seq(Groups), NEW values \in Seq(Groups)
    PROVE  /\ CreateChecksum("BECH32", hrp, values) \in Coefficients
           /\ VerifyChecksum(hrp, values \o CreateChecksum("BECH32", hrp, values)) = "BECH32"
<1>. DEFINE e == ExpandHRP(hrp)
            v == e \o values
            k == EncodingConstant["BECH32"]
            p == PolyMod(v)
            z == SixMore(p, Zero)
            chk == CreateChecksum("BECH32", hrp, values)
<1>1. e \in Seq(Groups) /\ v \in Seq(Groups)
    BY ConcatType
<1>2. k \in Coefficients /\ Zero \in Coefficients /\ 0 \in Groups
    BY EncodingConstants, ZeroType DEF Groups
<1>3. p \in Coefficients
    BY <1>1, <1>2, PolyModAppend
<1>4. PolyMod(v \o Zero) = z
    <2>. HIDE DEF v
    <2>. QED  BY <1>1, <1>2, PolyModSixMore
<1>5. z \in Coefficients
    <2>. HIDE DEF p
    <2>. QED  BY <1>2, <1>3, SixMoreType
<1>6. chk = Xor6(z, k)
    BY <1>4 DEF CreateChecksum
<1>. HIDE DEF v, k, p, z
<1>7. chk \in Coefficients
    BY <1>2, <1>5, <1>6, Xor6Type
<1>. HIDE DEF chk
<1>8. PolyMod(v \o chk) = k
    <2>1. PolyMod(v \o chk) = SixMore(p, chk)
        BY <1>1, <1>7, PolyModSixMore DEF p
    <2>2. SixMore(p, chk) = Xor6(z, chk)
        BY <1>3, <1>7, SixMoreAdds DEF z
    <2>3. Xor6(z, Xor6(z, k)) = Xor6(Xor6(z, z), k)
        BY <1>2, <1>5, Xor6Associates
    <2>4. Xor6(Xor6(z, z), k) = k
        BY <1>2, <1>5, Xor6Self
    <2>. QED  BY <1>6, <2>1, <2>2, <2>3, <2>4
<1>9. e \o (values \o chk) = v \o chk
    <2>1. chk \in Seq(Groups)
        BY <1>7, SixIsSeq
    <2>2. e \in Seq(Groups) /\ values \in Seq(Groups) /\ v = e \o values
        BY <1>1 DEF v
    <2>. HIDE DEF e
    <2>. QED  BY <2>1, <2>2, GroupsAssociate, Zenon
<1>10. VerifyChecksum(hrp, values \o chk) = "BECH32"
    <2>1. PolyMod(ExpandHRP(hrp) \o (values \o chk)) = k
        BY <1>8, <1>9 DEF e
    <2>2. \A c \in DOMAIN EncodingConstant : EncodingConstant[c] = k <=> c = "BECH32"
        BY EncodingConstants DEF k
    <2>3. "BECH32" \in DOMAIN EncodingConstant
        BY EncodingConstants
    <2>. QED  BY <2>1, <2>2, <2>3 DEF VerifyChecksum
<1>. QED  BY <1>7, <1>10 DEF chk
-----------------------------------------------------------------------------
(* Addresses as texts. *)

Io == <<"i", "o">>

LEMMA IoExpanded ==
    ExpandHRP(Io) \in Seq(Groups)
<1>1. Lower[9] = "i" /\ Lower[15] = "o"
    BY DEF Lower
<1>2. Place("i", Lower) = 9 /\ Place("o", Lower) = 15
    BY <1>1, Places
<1>3. Code("i") = 105 /\ Code("o") = 111
    BY <1>2, CharacterSets DEF Code, IsUpper
<1>. DEFINE high == [i \in 1..Len(Io) |-> Code(Io[i]) \div 32]
            low == [i \in 1..Len(Io) |-> Code(Io[i]) % 32]
<1>4. Len(Io) = 2 /\ \A i \in 1..2 : Code(Io[i]) \in {105, 111}
    BY <1>3 DEF Io
<1>5. high \in [1..2 -> Groups] /\ low \in [1..2 -> Groups] /\ 2 \in Nat
    <2>1. 105 \div 32 \in Groups /\ 111 \div 32 \in Groups
          /\ 105 % 32 \in Groups /\ 111 % 32 \in Groups
        BY DEF Groups
    <2>. QED  BY <1>4, <2>1
<1>. HIDE DEF high, low
<1>6. high \in Seq(Groups) /\ low \in Seq(Groups)
    BY <1>5, FunctionIsSeq
<1>7. <<0>> \in Seq(Groups)
    BY DEF Groups
<1>. DEFINE front == high \o <<0>>
<1>8. front \in Seq(Groups)
    BY <1>6, <1>7, ConcatType
<1>9. ExpandHRP(Io) = front \o low
    BY DEF ExpandHRP, high, low
<1>. HIDE DEF front
<1>. QED  BY <1>6, <1>8, <1>9, ConcatType

LEMMA Charset ==
    /\ DOMAIN CHARSET = 1..32
    /\ \A i \in 1..32 : Place(CHARSET[i], CHARSET) = i /\ CHARSET[i] \in Range(CHARSET)
    /\ Range(CHARSET) \subseteq Range(Digits) \cup Range(Lower)
    /\ "1" \notin Range(CHARSET)
<1>1. \A i, j \in 1..32 : CHARSET[i] = CHARSET[j] => i = j
    BY DEF CHARSET
<1>2. DOMAIN CHARSET = 1..32
    BY DEF CHARSET
<1>3. \A i \in 1..32 : Place(CHARSET[i], CHARSET) = i
    BY <1>1, <1>2 DEF Place
<1>4. \A i \in 1..32 : CHARSET[i] \in Range(CHARSET)
    BY <1>2 DEF Range
<1>5. Range(CHARSET) = {"q", "p", "z", "r", "y", "9", "x", "8", "g", "f", "2", "t", "v", "d", "w",
                        "0", "s", "3", "j", "n", "5", "4", "k", "h", "c", "e", "6", "m", "u", "a",
                        "7", "l"}
    BY DEF CHARSET, Range
<1>6. Range(CHARSET) \subseteq Range(Digits) \cup Range(Lower)
    BY <1>5, CharacterSets
<1>7. "1" \notin Range(CHARSET)
    BY <1>5
<1>. QED  BY <1>2, <1>3, <1>4, <1>6, <1>7

Plain == Range(Digits) \cup Range(Lower)

\* An address is the prefix, a "1", and a character for each group.
LEMMA EncodeWrites ==
    ASSUME NEW values \in Seq(Groups)
    PROVE  LET combined == values \o CreateChecksum("BECH32", Io, values)
               text == Encode("BECH32", Io, values)
           IN /\ combined \in Seq(Groups) /\ Len(combined) = Len(values) + 6
              /\ text \in Seq(Plain) /\ Len(text) = Len(values) + 9
              /\ text[1] = "i" /\ text[2] = "o" /\ text[3] = "1"
              /\ \A i \in 1..Len(values) + 6 : text[3 + i] = CHARSET[combined[i] + 1]
<1>. DEFINE chk == CreateChecksum("BECH32", Io, values)
            combined == values \o chk
            text == Encode("BECH32", Io, values)
            n == Len(values) + 6
            tail == [i \in DOMAIN combined |-> CHARSET[combined[i] + 1]]
            front == Io \o <<"1">>
<1>1. chk \in Coefficients
    BY IoExpanded, ChecksumVerifies
<1>. HIDE DEF chk
<1>2. chk \in Seq(Groups) /\ Len(chk) = 6
    BY <1>1, SixIsSeq
<1>3. combined \in Seq(Groups) /\ Len(combined) = Len(values) + Len(chk)
    <2>1. chk \in Seq(Groups)
        BY <1>2
    <2>. QED  BY <2>1, ConcatType
<1>. HIDE DEF combined
<1>4. n \in Nat /\ Len(combined) = n /\ DOMAIN combined = 1..n
    BY <1>2, <1>3
<1>. HIDE DEF n
<1>5. \A i \in 1..n : combined[i] + 1 \in 1..32
    <2>1. \A i \in 1..n : combined[i] \in Groups
        BY <1>3, <1>4
    <2>2. \A g \in Groups : g + 1 \in 1..32
        BY DEF Groups
    <2>. QED  BY <2>1, <2>2
<1>6. tail \in [1..n -> Plain]
    <2>1. \A i \in 1..n : CHARSET[combined[i] + 1] \in Plain
        BY <1>5, Charset DEF Plain
    <2>. QED  BY <1>4, <2>1
<1>7. \A i \in 1..n : tail[i] = CHARSET[combined[i] + 1]
    BY <1>4
<1>. HIDE DEF tail
<1>8. tail \in Seq(Plain) /\ Len(tail) = n
    BY <1>4, <1>6, FunctionIsSeq
<1>9. /\ front \in Seq(Plain) /\ Len(front) = 3
      /\ front[1] = "i" /\ front[2] = "o" /\ front[3] = "1"
    <2>1. "i" \in Plain /\ "o" \in Plain /\ "1" \in Plain
        BY CharacterSets DEF Plain
    <2>. QED  BY <2>1 DEF Io
<1>. HIDE DEF front
<1>10. text = front \o tail
    BY DEF Encode, front, tail, combined, chk
<1>11. front \in Seq(Plain) /\ tail \in Seq(Plain)
    BY <1>8, <1>9
<1>12. text \in Seq(Plain) /\ Len(text) = Len(front) + Len(tail)
    BY <1>10, <1>11, ConcatType
<1>13. \A i \in 1..Len(front) : text[i] = front[i]
    BY <1>10, <1>11, ConcatFront
<1>14. \A i \in 1..Len(tail) : text[Len(front) + i] = tail[i]
    BY <1>10, <1>11, ConcatBack
<1>. HIDE DEF text
<1>15. /\ Len(combined) = Len(values) + 6 /\ Len(text) = Len(values) + 9
       /\ text[1] = "i" /\ text[2] = "o" /\ text[3] = "1"
       /\ \A i \in 1..n : text[3 + i] = CHARSET[combined[i] + 1]
    <2>1. Len(text) = Len(values) + 9
        BY <1>4, <1>8, <1>9, <1>12 DEF n
    <2>2. text[1] = "i" /\ text[2] = "o" /\ text[3] = "1"
        BY <1>9, <1>13
    <2>3. \A i \in 1..n : text[3 + i] = CHARSET[combined[i] + 1]
        BY <1>7, <1>8, <1>9, <1>14
    <2>. QED  BY <1>4, <2>1, <2>2, <2>3 DEF n
<1>. QED  BY <1>3, <1>12, <1>15, Zenon DEF n, text, combined, chk

\* An address that is not too long, in small letters or in capitals, is read as
\* the groups it was made of.
LEMMA DecodeReads ==
    ASSUME NEW values \in Seq(Groups), NEW str,
           LET text == Encode("BECH32", Io, values)
           IN str = text \/ str = Capitals(text),
           Len(str) <= 90
    PROVE  Decode(str) = [encoding |-> "BECH32", hrp |-> Io, data |-> values]
<1>. DEFINE chk == CreateChecksum("BECH32", Io, values)
            combined == values \o chk
            text == Encode("BECH32", Io, values)
            m == Len(values)
            n == m + 6
<1>1. /\ combined \in Seq(Groups) /\ Len(combined) = n
      /\ text \in Seq(Plain) /\ Len(text) = m + 9
      /\ text[1] = "i" /\ text[2] = "o" /\ text[3] = "1"
      /\ \A i \in 1..n : text[3 + i] = CHARSET[combined[i] + 1]
    BY EncodeWrites, Zenon
<1>2. m \in Nat /\ n \in Nat /\ m = n - 6
    OBVIOUS
<1>3. VerifyChecksum(Io, combined) = "BECH32"
    BY IoExpanded, ChecksumVerifies
<1>4. SubSeq(combined, 1, n - 6) = values
    <2>1. chk \in [1..6 -> Groups] /\ 6 \in Nat
        BY IoExpanded, ChecksumVerifies DEF Coefficients
    <2>. HIDE DEF chk
    <2>2. chk \in Seq(Groups)
        BY <2>1, FunctionIsSeq
    <2>3. \A i \in 1..m : combined[i] = values[i]
        BY <2>2, ConcatFront
    <2>. HIDE DEF combined
    <2>. DEFINE front == SubSeq(combined, 1, n - 6)
    <2>4. front \in Seq(Groups) /\ Len(front) = m /\ \A i \in 1..m : front[i] = combined[i]
        BY <1>1, <1>2
    <2>. HIDE DEF front
    <2>5. front = values
        BY <2>3, <2>4, SameSeq
    <2>. QED  BY <2>5 DEF front
<1>. HIDE DEF combined, n
<1>5. /\ str \in Seq(Plain) \cup Seq(Range(Digits) \cup Range(Upper)) /\ Len(str) = m + 9
      /\ \A i \in 1..m + 9 : LowerCase(str[i]) = text[i]
    <2>. HIDE DEF text
    <2>0. str = text \/ str = Capitals(text)
        BY DEF text
    <2>1. text \in Seq(Range(Digits) \cup Range(Lower))
        BY <1>1 DEF Plain
    <2>2. CASE str = text
        <3>1. \A i \in 1..m + 9 : text[i] \notin Range(Upper)
            BY <1>1, <2>1, CharactersDisjoint
        <3>. QED  BY <1>1, <2>2, <3>1, LowerCases
    <2>3. CASE str = Capitals(text)
        BY <1>1, <2>1, <2>3, SmallCapitals
    <2>. QED  BY <2>0, <2>2, <2>3
<1>. HIDE DEF text
<1>6. /\ DOMAIN str = 1..m + 9 /\ Len(str) = m + 9
      /\ \/ \A i \in 1..m + 9 : str[i] \in Range(Digits) \cup Range(Lower)
         \/ \A i \in 1..m + 9 : str[i] \in Range(Digits) \cup Range(Upper)
    <2>1. CASE str \in Seq(Plain)
        BY <1>5, <2>1 DEF Plain
    <2>2. CASE str \in Seq(Range(Digits) \cup Range(Upper))
        BY <1>5, <2>2
    <2>. QED  BY <1>5, <2>1, <2>2
<1>7. " " \notin Range(str)
    BY <1>6, CharacterSets DEF Range
<1>8. ~\E i, j \in DOMAIN str : IsLower(str[i]) /\ IsUpper(str[j])
    BY <1>6, CharactersDisjoint DEF IsLower, IsUpper
<1>9. \A i \in 1..m + 9 : str[i] = "1" <=> i = 3
    <2>1. \A i \in 1..m + 9 : str[i] = "1" <=> text[i] = "1"
        <3>1. \A c : LowerCase(c) = "1" <=> c = "1"
            <4>1. "1" \in Range(Digits)
                BY CharacterSets
            <4>. QED  BY <4>1, LowerCases, CharactersDisjoint
        <3>. QED  BY <1>5, <3>1
    <2>2. ASSUME NEW i \in 4..m + 9 PROVE text[i] # "1"
        <3>. DEFINE j == i - 3
        <3>1. j \in 1..n /\ i = 3 + j
            BY <1>2 DEF n
        <3>. HIDE DEF j
        <3>2. combined[j] \in Groups
            BY <1>1, <3>1
        <3>. \A g \in Groups : g + 1 \in 1..32
            BY DEF Groups
        <3>3. combined[j] + 1 \in 1..32
            BY <3>2
        <3>4. text[i] \in Range(CHARSET)
            BY <1>1, <3>1, <3>3, Charset
        <3>. QED  BY <3>4, Charset
    <2>3. \A i \in 1..m + 9 : i = 1 \/ i = 2 \/ i = 3 \/ i \in 4..m + 9
        BY <1>2
    <2>. QED  BY <1>1, <1>2, <2>1, <2>2, <2>3
<1>. DEFINE ones == {i \in DOMAIN str : str[i] = "1"}
            pos == CHOOSE i \in ones : \A j \in ones : j <= i
            rest == [i \in 1..Len(str) - pos |-> LowerCase(str[pos + i])]
<1>10. ones = {3} /\ pos = 3
    <2>1. ones = {3}
        BY <1>2, <1>6, <1>9
    <2>. HIDE DEF ones
    <2>. QED  BY <2>1
<1>11. rest = [i \in 1..n |-> CHARSET[combined[i] + 1]]
    <2>1. Len(str) - pos = n
        BY <1>2, <1>6, <1>10 DEF n
    <2>2. ASSUME NEW i \in 1..n PROVE LowerCase(str[pos + i]) = CHARSET[combined[i] + 1]
        <3>1. 3 + i \in 1..m + 9
            BY <1>2 DEF n
        <3>. HIDE DEF pos
        <3>. QED  BY <1>1, <1>5, <1>10, <3>1
    <2>. HIDE DEF pos
    <2>. QED  BY <2>1, <2>2
<1>. HIDE DEF ones, pos, rest
<1>12. \A i \in 1..n : combined[i] \in Groups /\ combined[i] + 1 \in 1..32
    <2>1. \A i \in 1..n : combined[i] \in Groups
        BY <1>1
    <2>2. \A g \in Groups : g + 1 \in 1..32
        BY DEF Groups
    <2>. QED  BY <2>1, <2>2
<1>13. Range(rest) \subseteq Range(CHARSET)
    BY <1>11, <1>12, Charset DEF Range
<1>14. [i \in DOMAIN rest |-> Place(rest[i], CHARSET) - 1] = combined
    <2>1. \A i \in 1..n : Place(rest[i], CHARSET) = combined[i] + 1
        BY <1>11, <1>12, Charset
    <2>2. \A i \in 1..n : combined[i] \in Int
        <3>. \A g \in Groups : g \in Int
            BY DEF Groups
        <3>. QED  BY <1>12
    <2>3. DOMAIN rest = 1..n /\ combined = [i \in 1..n |-> combined[i]]
        BY <1>1, <1>11
    <2>. QED  BY <2>1, <2>2, <2>3
<1>15. [i \in 1..pos - 1 |-> LowerCase(str[i])] = Io
    <2>1. LowerCase(str[1]) = "i" /\ LowerCase(str[2]) = "o"
        BY <1>1, <1>2, <1>5
    <2>2. \A i \in 1..2 : LowerCase(str[i]) = Io[i]
        BY <2>1 DEF Io
    <2>3. Io = [i \in 1..2 |-> Io[i]]
        BY DEF Io
    <2>. QED  BY <1>10, <2>2, <2>3
<1>16. pos + 6 <= Len(str) /\ pos # 1 /\ ones # {}
    BY <1>2, <1>6, <1>10
<1>17. Decode(str) = Verified([i \in 1..pos - 1 |-> LowerCase(str[i])],
                              [i \in DOMAIN rest |-> Place(rest[i], CHARSET) - 1])
    <2>1. Decode(str) =
              IF \/ " " \in Range(str)
                 \/ \E i, j \in DOMAIN str : IsLower(str[i]) /\ IsUpper(str[j])
                 \/ Len(str) > 90 \/ ones = {} \/ pos = 1 \/ pos + 6 > Len(str)
                 \/ ~(Range(rest) \subseteq Range(CHARSET))
              THEN Invalid
              ELSE Verified([i \in 1..pos - 1 |-> LowerCase(str[i])],
                            [i \in DOMAIN rest |-> Place(rest[i], CHARSET) - 1])
        BY Zenon DEF Decode, ones, pos, rest
    <2>2. ~(Len(str) > 90) /\ ~(pos + 6 > Len(str))
        BY <1>2, <1>6, <1>10, <1>16
    <2>. QED  BY <1>7, <1>8, <1>13, <1>16, <2>1, <2>2, Zenon
<1>18. Decode(str) = Verified(Io, combined)
    BY <1>14, <1>15, <1>17
<1>. QED  BY <1>1, <1>3, <1>4, <1>18 DEF Verified
-----------------------------------------------------------------------------
(* Bytes as groups of bits. *)

LEMMA BitsOfBytes ==
    ASSUME NEW bytes \in Seq(Bytes)
    PROVE  /\ BitsOf(bytes) \in [1..8 * Len(bytes) -> 0..1]
           /\ \A i \in 1..8 * Len(bytes) : ByteBit(bytes, i) = BitsOf(bytes)[i]
<1>. DEFINE n == Len(bytes)
            bit(i) == (bytes[((i - 1) \div 8) + 1] \div PowersOfTwo[((i - 1) % 8) + 1]) % 2
<1>1. n \in Nat /\ \A i \in 1..n : bytes[i] \in Bytes
    OBVIOUS
<1>2. \A k \in 1..8 : PowersOfTwo[k] \in 1..128
    <2>1. \A k \in 1..8 : k = 1 \/ k = 2 \/ k = 3 \/ k = 4 \/ k = 5 \/ k = 6 \/ k = 7 \/ k = 8
        OBVIOUS
    <2>2. /\ PowersOfTwo[1] = 128 /\ PowersOfTwo[2] = 64 /\ PowersOfTwo[3] = 32
          /\ PowersOfTwo[4] = 16 /\ PowersOfTwo[5] = 8 /\ PowersOfTwo[6] = 4
          /\ PowersOfTwo[7] = 2 /\ PowersOfTwo[8] = 1
        BY DEF PowersOfTwo
    <2>. SUFFICES ASSUME NEW k \in 1..8 PROVE PowersOfTwo[k] \in 1..128
        OBVIOUS
    <2>3. /\ PowersOfTwo[1] \in 1..128 /\ PowersOfTwo[2] \in 1..128
          /\ PowersOfTwo[3] \in 1..128 /\ PowersOfTwo[4] \in 1..128
          /\ PowersOfTwo[5] \in 1..128 /\ PowersOfTwo[6] \in 1..128
          /\ PowersOfTwo[7] \in 1..128 /\ PowersOfTwo[8] \in 1..128
        BY <2>2
    <2>4. \/ k = 1 \/ k = 2 \/ k = 3 \/ k = 4 \/ k = 5 \/ k = 6 \/ k = 7 \/ k = 8
        BY <2>1
    <2>. QED  BY <2>3, <2>4
<1>3. \A b \in Bytes : \A p \in 1..128 : (b \div p) % 2 \in 0..1
    BY DEF Bytes
<1>4. BitsOf(bytes) = [i \in 1..8 * n |-> bit(i)]
    BY DEF BitsOf
<1>. HIDE DEF n
<1>5. \A i \in 1..8 * n : /\ ((i - 1) \div 8) + 1 \in 1..n /\ ((i - 1) % 8) + 1 \in 1..8
                          /\ (i + 7) \div 8 = ((i - 1) \div 8) + 1
    BY <1>1
<1>6. ASSUME NEW i \in 1..8 * n PROVE bit(i) \in 0..1 /\ ByteBit(bytes, i) = bit(i)
    <2>1. bytes[((i - 1) \div 8) + 1] \in Bytes /\ PowersOfTwo[((i - 1) % 8) + 1] \in 1..128
        BY <1>1, <1>2, <1>5
    <2>2. ByteBit(bytes, i) = bit(i)
        BY <1>5 DEF ByteBit
    <2>. QED  BY <1>3, <2>1, <2>2
<1>. HIDE DEF bit
<1>. QED  BY <1>4, <1>6 DEF n

LEMMA GroupOfBits ==
    ASSUME NEW L \in Nat, NEW bits \in [1..L -> 0..1], NEW k \in 1..L \div 5
    PROVE  LET g == Group(bits, 5 * k, <<4, 3, 2, 1, 0>>)
           IN /\ g \in Groups
              /\ \A j \in 1..5 : (g \div PowersOfTwo[j + 3]) % 2 = bits[5 * k - 5 + j]
<1>. DEFINE g == Group(bits, 5 * k, <<4, 3, 2, 1, 0>>)
            e == bits[5 * k - 4]
            d == bits[5 * k - 3]
            c == bits[5 * k - 2]
            b == bits[5 * k - 1]
            a == bits[5 * k]
<1>1. a \in 0..1 /\ b \in 0..1 /\ c \in 0..1 /\ d \in 0..1 /\ e \in 0..1
    <2>1. /\ 5 * k - 4 \in 1..L /\ 5 * k - 3 \in 1..L /\ 5 * k - 2 \in 1..L
          /\ 5 * k - 1 \in 1..L /\ 5 * k \in 1..L
        OBVIOUS
    <2>. QED  BY <2>1
<1>2. g = 16 * e + 8 * d + 4 * c + 2 * b + a
    <2>1. 5 * k - 0 = 5 * k
        OBVIOUS
    <2>. QED  BY <2>1 DEF Group
<1>. HIDE DEF g, a, b, c, d, e
<1>3. /\ g \in Groups
      /\ g \div 16 = e /\ g \div 8 = 2 * e + d /\ g \div 4 = 2 * (2 * e + d) + c
      /\ g \div 2 = 2 * (4 * e + 2 * d + c) + b
      /\ g = 2 * (8 * e + 4 * d + 2 * c + b) + a
    BY <1>1, <1>2 DEF Groups
<1>4. /\ (g \div 16) % 2 = e /\ (g \div 8) % 2 = d /\ (g \div 4) % 2 = c
      /\ (g \div 2) % 2 = b /\ (g \div 1) % 2 = a
    BY <1>1, <1>3 DEF Groups
<1>5. /\ PowersOfTwo[4] = 16 /\ PowersOfTwo[5] = 8 /\ PowersOfTwo[6] = 4
      /\ PowersOfTwo[7] = 2 /\ PowersOfTwo[8] = 1
    BY DEF PowersOfTwo
<1>6. ASSUME NEW j \in 1..5 PROVE (g \div PowersOfTwo[j + 3]) % 2 = bits[5 * k - 5 + j]
    <2>1. CASE j = 1
        <3>1. 5 * k - 5 + j = 5 * k - 4 /\ j + 3 = 4
            BY <2>1
        <3>. QED  BY <1>4, <1>5, <3>1 DEF e
    <2>2. CASE j = 2
        <3>1. 5 * k - 5 + j = 5 * k - 3 /\ j + 3 = 5
            BY <2>2
        <3>. QED  BY <1>4, <1>5, <3>1 DEF d
    <2>3. CASE j = 3
        <3>1. 5 * k - 5 + j = 5 * k - 2 /\ j + 3 = 6
            BY <2>3
        <3>. QED  BY <1>4, <1>5, <3>1 DEF c
    <2>4. CASE j = 4
        <3>1. 5 * k - 5 + j = 5 * k - 1 /\ j + 3 = 7
            BY <2>4
        <3>. QED  BY <1>4, <1>5, <3>1 DEF b
    <2>5. CASE j = 5
        <3>1. 5 * k - 5 + j = 5 * k /\ j + 3 = 8
            BY <2>5
        <3>. QED  BY <1>4, <1>5, <3>1 DEF a
    <2>. QED  BY <2>1, <2>2, <2>3, <2>4, <2>5
<1>. QED  BY <1>3, <1>6 DEF g

\* The groups have every bit of the bytes in front of those that fill none.
LEMMA ConvertKeepsBits ==
    ASSUME NEW bytes \in Seq(Bytes)
    PROVE  LET groups == bech32_convertBytesTo5Bit(bytes)
               bits == 8 * Len(bytes)
           IN /\ groups \in Seq(Groups) /\ Len(groups) = (bits + 4) \div 5
              /\ \A i \in 1..bits - (bits % 5) : GroupBit(groups, i) = ByteBit(bytes, i)
<1>. DEFINE L == 8 * Len(bytes)
            bits == BitsOf(bytes)
            whole == [k \in 1..L \div 5 |-> Group(bits, 5 * k, <<4, 3, 2, 1, 0>>)]
            last == IF L % 5 = 0 THEN <<>> ELSE <<0>>
            groups == bech32_convertBytesTo5Bit(bytes)
<1>1. L \in Nat /\ L \div 5 \in Nat
    OBVIOUS
<1>2. bits \in [1..L -> 0..1] /\ \A i \in 1..L : ByteBit(bytes, i) = bits[i]
    BY BitsOfBytes
<1>. HIDE DEF L, bits
<1>3. Len(bits) = L
    <2>1. bits \in Seq(0..1) /\ Len(bits) = L
        BY <1>1, <1>2, FunctionIsSeq
    <2>. QED  BY <2>1
<1>4. groups = whole \o last
    BY <1>3 DEF bech32_convertBytesTo5Bit, InGroups, bits
<1>5. \A k \in 1..L \div 5 : whole[k] \in Groups
                             /\ \A j \in 1..5 : (whole[k] \div PowersOfTwo[j + 3]) % 2 = bits[5 * k - 5 + j]
    BY <1>1, <1>2, GroupOfBits
<1>6. whole \in [1..L \div 5 -> Groups]
    BY <1>5
<1>7. last \in Seq(Groups) /\ Len(last) = IF L % 5 = 0 THEN 0 ELSE 1
    <2>1. <<0>> \in Seq(Groups) /\ Len(<<0>>) = 1 /\ <<>> \in Seq(Groups) /\ Len(<<>>) = 0
        BY DEF Groups
    <2>. QED  BY <2>1
<1>. HIDE DEF whole, last, groups
<1>8. whole \in Seq(Groups) /\ Len(whole) = L \div 5
    BY <1>1, <1>6, FunctionIsSeq
<1>9. groups \in Seq(Groups) /\ Len(groups) = Len(whole) + Len(last)
    BY <1>4, <1>7, <1>8, ConcatType
<1>10. \A k \in 1..Len(whole) : groups[k] = whole[k]
    BY <1>4, <1>7, <1>8, ConcatFront
<1>11. Len(groups) = (L + 4) \div 5
    BY <1>1, <1>7, <1>8, <1>9
<1>12. ASSUME NEW i \in 1..L - (L % 5) PROVE GroupBit(groups, i) = ByteBit(bytes, i)
    <2>. DEFINE k == (i + 4) \div 5
                j == ((i - 1) % 5) + 1
    <2>1. /\ k \in 1..L \div 5 /\ j \in 1..5 /\ 5 * k - 5 + j = i /\ i \in 1..L
          /\ ((i - 1) % 5) + 4 = j + 3
        BY <1>1
    <2>2. GroupBit(groups, i) = (groups[k] \div PowersOfTwo[j + 3]) % 2
        BY <2>1 DEF GroupBit
    <2>. HIDE DEF k, j
    <2>. QED  BY <1>2, <1>5, <1>8, <1>10, <2>1, <2>2
<1>. QED  BY <1>9, <1>11, <1>12 DEF L, groups

LEMMA Greatest ==
    ASSUME NEW m \in Nat, NEW T \in SUBSET (1..m), T # {}
    PROVE  \E i \in T : \A j \in T : j <= i
<1>. DEFINE U == {n \in 0..m : m - n \in T}
<1>1. U \in SUBSET Nat /\ U # {}
    <2>1. PICK i \in T : TRUE
        OBVIOUS
    <2>2. m - i \in 0..m /\ m - (m - i) = i
        OBVIOUS
    <2>. QED  BY <2>1, <2>2
<1>2. PICK n \in U : \A k \in U : n <= k
    <2>. HIDE DEF U
    <2>. QED  BY <1>1, Least
<1>3. ASSUME NEW j \in T PROVE j <= m - n
    <2>1. m - j \in 0..m /\ m - (m - j) = j
        OBVIOUS
    <2>2. m - j \in U
        BY <2>1
    <2>. QED  BY <1>2, <2>2
<1>. QED  BY <1>2, <1>3

\* What is read of an address has its length.
LEMMA DecodeLength ==
    ASSUME NEW str \in Seq(Characters), Decode(str) # Invalid
    PROVE  Len(str) = Len(Decode(str).hrp) + 1 + Len(Decode(str).data) + 6
<1>. DEFINE m == Len(str)
            ones == {i \in DOMAIN str : str[i] = "1"}
            pos == CHOOSE i \in ones : \A j \in ones : j <= i
            rest == [i \in 1..Len(str) - pos |-> LowerCase(str[pos + i])]
            hrp == [i \in 1..pos - 1 |-> LowerCase(str[i])]
            values == [i \in DOMAIN rest |-> Place(rest[i], CHARSET) - 1]
<1>1. Decode(str) =
          IF \/ " " \in Range(str)
             \/ \E i, j \in DOMAIN str : IsLower(str[i]) /\ IsUpper(str[j])
             \/ Len(str) > 90 \/ ones = {} \/ pos = 1 \/ pos + 6 > Len(str)
             \/ ~(Range(rest) \subseteq Range(CHARSET))
          THEN Invalid
          ELSE Verified(hrp, values)
    BY Zenon DEF Decode
<1>2. ones # {} /\ ~(pos + 6 > m) /\ Decode(str) = Verified(hrp, values)
    <2>. HIDE DEF ones, pos, rest, hrp, values
    <2>. QED  BY <1>1, Zenon
<1>3. m \in Nat /\ ones \in SUBSET (1..m)
    OBVIOUS
<1>4. pos \in 1..m
    <2>1. \E i \in ones : \A j \in ones : j <= i
        <3>. HIDE DEF ones, m
        <3>. QED  BY <1>2, <1>3, Greatest
    <2>2. pos \in ones
        <3>. HIDE DEF ones
        <3>. QED  BY <2>1
    <2>. HIDE DEF ones, pos
    <2>. QED  BY <1>3, <2>2
<1>5. DOMAIN rest = 1..m - pos
    OBVIOUS
<1>. HIDE DEF ones, pos
<1>6. Len(hrp) = pos - 1
    <2>. DEFINE k == pos - 1
                S == {LowerCase(str[i]) : i \in 1..k}
    <2>1. k \in Nat /\ hrp \in [1..k -> S]
        BY <1>3, <1>4
    <2>. HIDE DEF hrp, S
    <2>2. Len(hrp) = k
        <3>. HIDE DEF k
        <3>. QED  BY <2>1, FunctionIsSeq
    <2>. QED  BY <2>2
<1>7. \E S : values \in Seq(S) /\ Len(values) = m - pos
    <2>. DEFINE k == m - pos
                S == {Place(rest[i], CHARSET) - 1 : i \in 1..k}
    <2>. HIDE DEF rest
    <2>1. k \in Nat /\ values \in [1..k -> S]
        BY <1>3, <1>4, <1>5
    <2>. HIDE DEF values, S
    <2>2. values \in Seq(S) /\ Len(values) = k
        <3>. HIDE DEF k
        <3>. QED  BY <2>1, FunctionIsSeq
    <2>. QED  BY <2>2
<1>. HIDE DEF rest, hrp, values
<1>8. Decode(str).hrp = hrp /\ Decode(str).data = SubSeq(values, 1, Len(values) - 6)
    BY <1>2 DEF Verified
<1>9. Len(SubSeq(values, 1, Len(values) - 6)) = m - pos - 6
    <2>1. PICK S : values \in Seq(S) /\ Len(values) = m - pos
        BY <1>7
    <2>2. m - pos - 6 \in Nat
        BY <1>2, <1>3, <1>4
    <2>. QED  BY <1>3, <1>4, <2>1, <2>2
<1>10. Len(Decode(str).hrp) = pos - 1 /\ Len(Decode(str).data) = m - pos - 6
    BY <1>6, <1>8, <1>9, Zenon
<1>11. m = (pos - 1) + 1 + (m - pos - 6) + 6
    BY <1>3, <1>4
<1>. QED  BY <1>10, <1>11, Zenon
-----------------------------------------------------------------------------
(* Numbers as digits, and as bytes. *)

LEMMA NumberDef ==
    ASSUME NEW base \in Nat, NEW digits \in Seq(Nat)
    PROVE  \E n \in [0..Len(digits) -> Nat] :
               /\ n[0] = 0
               /\ \A i \in 1..Len(digits) : n[i] = base * n[i - 1] + digits[i]
               /\ Number(base, digits) = n[Len(digits)]
<1>. DEFINE m == Len(digits)
            step == [p \in (1..m) \X Nat |-> base * p[2] + digits[p[1]]]
            Is(f) == f = [i \in 0..m |-> IF i = 0 THEN 0 ELSE base * f[i - 1] + digits[i]]
            c == CHOOSE f : Is(f)
<1>1. m \in Nat /\ \A i \in 1..m : digits[i] \in Nat
    OBVIOUS
<1>2. \A x, y \in Nat : base * x + y \in Nat
    OBVIOUS
<1>3. Number(base, digits) = c[m]
    BY Zenon DEF Number
<1>4. Along(Nat, m, 0, step)
    <2>. HIDE DEF m
    <2>1. ASSUME NEW p \in (1..m) \X Nat PROVE base * p[2] + digits[p[1]] \in Nat
        <3>1. p[2] \in Nat /\ digits[p[1]] \in Nat
            BY <1>1
        <3>. QED  BY <1>2, <3>1
    <2>2. step \in [(1..m) \X Nat -> Nat]
        BY <2>1
    <2>. HIDE DEF step
    <2>. QED  BY <1>1, <2>2 DEF Along
<1>5. \A i \in 1..m : \A a \in Nat : step[<<i, a>>] = base * a + digits[i]
    OBVIOUS
<1>. HIDE DEF step, m
<1>6. PICK f \in [0..m -> Nat] :
          f[0] = 0 /\ \A i \in 1..m : f[i] = step[<<i, f[i - 1]>>]
    BY <1>4, ListRecursion
<1>7. ASSUME NEW i \in 1..m PROVE f[i] = base * f[i - 1] + digits[i]
    <2>1. f[i - 1] \in Nat
        BY <1>1
    <2>. QED  BY <1>5, <1>6, <2>1
<1>8. Is(f)
    <2>1. \A i \in 0..m : f[i] = IF i = 0 THEN 0 ELSE base * f[i - 1] + digits[i]
        BY <1>1, <1>6, <1>7
    <2>. QED  BY <2>1
<1>9. Is(c)
    <2>. HIDE DEF Is
    <2>. QED  BY <1>8
<1>10. /\ DOMAIN c = 0..m
       /\ \A i \in 0..m : c[i] = IF i = 0 THEN 0 ELSE base * c[i - 1] + digits[i]
    <2>. HIDE DEF c
    <2>. QED  BY <1>9
<1>. HIDE DEF c
<1>11. c[0] = 0 /\ \A i \in 1..m : c[i] = base * c[i - 1] + digits[i]
    <2>. \A i \in 1..m : i \in 0..m /\ i # 0
        OBVIOUS
    <2>. 0 \in 0..m
        BY <1>1
    <2>. QED  BY <1>10, Zenon
<1>12. \A i \in 0..m : c[i] \in Nat
    <2>. DEFINE S == {i \in 0..m : c[i] \in Nat}
    <2>1. 0 \in S
        BY <1>1, <1>11
    <2>2. ASSUME NEW i \in 1..m, i - 1 \in S PROVE i \in S
        <3>1. c[i - 1] \in Nat /\ digits[i] \in Nat /\ c[i] = base * c[i - 1] + digits[i]
            BY <1>1, <1>11, <2>2
        <3>2. c[i] \in Nat
            BY <1>2, <3>1, Zenon
        <3>. QED  BY <1>1, <3>2
    <2>3. 0..m \subseteq S
        <3>. HIDE DEF S
        <3>. QED  BY <1>1, <2>1, <2>2, InductionUpTo
    <2>. QED  BY <2>3
<1>13. c = [i \in 0..m |-> c[i]]
    <2>1. c = [i \in 0..m |-> IF i = 0 THEN 0 ELSE base * c[i - 1] + digits[i]]
        BY <1>9, Zenon DEF Is
    <2>. QED  BY <2>1
<1>14. c \in [0..m -> Nat]
    BY <1>12, <1>13
<1>. QED  BY <1>3, <1>11, <1>14 DEF m

LEMMA Pow256Def ==
    /\ Pow256[0] = 1
    /\ \A n \in Nat : Pow256[n] \in Nat \ {0} /\ Pow256[n + 1] = 256 * Pow256[n]
<1>. DEFINE A == Nat \ {0}
            base == [n \in Nat |-> 1]
            pre == [n \in Nat |-> IF n = 0 THEN 0 ELSE n - 1]
            step == [p \in Nat \X A |-> 256 * p[2]]
            Is(f) == f = [n \in Nat |-> IF n = 0 THEN 1 ELSE 256 * f[n - 1]]
<1>1. Recursive(A, {0}, base, pre, step)
    <2>1. base \in [Nat -> A] /\ {0} \in SUBSET Nat
        OBVIOUS
    <2>2. pre \in [Nat -> Nat] /\ \A n \in Nat \ {0} : pre[n] < n
        OBVIOUS
    <2>3. step \in [Nat \X A -> A]
        OBVIOUS
    <2>. HIDE DEF A, base, pre, step
    <2>. QED  BY <2>1, <2>2, <2>3 DEF Recursive
<1>2. PICK f \in [Nat -> A] : \A n \in Nat :
          f[n] = IF n \in {0} THEN base[n] ELSE step[<<n, f[pre[n]]>>]
    <2>. HIDE DEF A, base, pre, step
    <2>. QED  BY <1>1, Recursion
<1>3. ASSUME NEW n \in Nat PROVE f[n] = IF n = 0 THEN 1 ELSE 256 * f[n - 1]
    <2>1. CASE n = 0
        BY <1>2, <2>1
    <2>2. CASE n # 0
        <3>1. n - 1 \in Nat /\ pre[n] = n - 1 /\ f[n - 1] \in A
            BY <2>2
        <3>2. f[n] = step[<<n, f[n - 1]>>]
            <4>. HIDE DEF base, pre, step
            <4>. QED  BY <1>2, <2>2, <3>1
        <3>. QED  BY <2>2, <3>1, <3>2
    <2>. QED  BY <2>1, <2>2
<1>4. Is(f)
    <2>. HIDE DEF A
    <2>. QED  BY <1>3
<1>5. Is(Pow256)
    <2>1. Pow256 = CHOOSE g : Is(g)
        BY Zenon DEF Pow256
    <2>. HIDE DEF Is
    <2>. QED  BY <1>4, <2>1
<1>6. \A n \in Nat : Pow256[n] = IF n = 0 THEN 1 ELSE 256 * Pow256[n - 1]
    BY <1>5, Zenon
<1>7. Pow256[0] = 1
    BY <1>6
<1>8. \A n \in Nat : Pow256[n + 1] = 256 * Pow256[n]
    <2>1. \A n \in Nat : n + 1 \in Nat /\ n + 1 # 0 /\ (n + 1) - 1 = n
        OBVIOUS
    <2>. QED  BY <1>6, <2>1
<1>9. \A n \in Nat : Pow256[n] \in A
    <2>. DEFINE S == {n \in Nat : Pow256[n] \in A}
    <2>1. 0 \in S
        BY <1>7
    <2>2. ASSUME NEW n \in Nat, n \in S PROVE n + 1 \in S
        BY <1>8, <2>2
    <2>3. Nat \subseteq S
        <3>. HIDE DEF S
        <3>. QED  BY <2>1, <2>2, Induction
    <2>. QED  BY <2>3
<1>. QED  BY <1>7, <1>8, <1>9

LEMMA Quotient ==
    ASSUME NEW d \in Nat \ {0}, NEW s \in Nat, NEW e \in Nat, e < d
    PROVE  (d * s + e) \div d = s
<1>. DEFINE v == d * s + e
            q == v \div d
<1>1. v \in Nat /\ q \in Nat /\ v = d * q + (v % d) /\ v % d \in 0..d - 1
    OBVIOUS
<1>. DEFINE r == v % d
<1>2. r \in Nat /\ r < d /\ d * s + e = d * q + r
    BY <1>1
<1>. HIDE DEF v, q, r
<1>3. ASSUME q < s PROVE FALSE
    <2>1. q + 1 <= s /\ d * (q + 1) <= d * s
        BY <1>1, <1>3
    <2>. QED  BY <1>1, <1>2, <2>1
<1>4. ASSUME s < q PROVE FALSE
    <2>1. s + 1 <= q /\ d * (s + 1) <= d * q
        BY <1>1, <1>4
    <2>. QED  BY <1>1, <1>2, <2>1
<1>5. q = s
    BY <1>1, <1>3, <1>4
<1>. QED  BY <1>5 DEF q, v

LEMMA QuotientGrows ==
    ASSUME NEW a \in Nat, NEW b \in Nat, a <= b, NEW p \in Nat \ {0}
    PROVE  a \div p <= b \div p
<1>. DEFINE x == a \div p
            y == b \div p
            u == a % p
            v == b % p
<1>1. x \in Nat /\ u \in Nat /\ a = p * x + u
    OBVIOUS
<1>2. y \in Nat /\ v \in Nat /\ v < p /\ b = p * y + v
    OBVIOUS
<1>. HIDE DEF x, y, u, v
<1>3. ASSUME y < x PROVE FALSE
    <2>1. y + 1 <= x /\ p * (y + 1) <= p * x /\ p * (y + 1) = p * y + p
        BY <1>1, <1>2, <1>3
    <2>2. p * x \in Nat /\ p * y \in Nat
        BY <1>1, <1>2
    <2>. QED  BY <1>1, <1>2, <2>1, <2>2
<1>4. x <= y
    BY <1>1, <1>2, <1>3
<1>. QED  BY <1>4 DEF x, y

\* The digits of a number to any base, one after another.
LEMMA NextDigit ==
    ASSUME NEW b \in Nat \ {0}, NEW v \in Nat, NEW p \in Nat \ {0}
    PROVE  v \div p = b * (v \div (b * p)) + ((v \div p) % b)
<1>. DEFINE q == v \div p
            r == v % p
            s == q \div b
            t == q % b
            e == p * t + r
            d == b * p
<1>1. q \in Nat /\ v = p * q + r /\ r \in Nat /\ r < p
    OBVIOUS
<1>. HIDE DEF q, r
<1>2. s \in Nat /\ t \in 0..b - 1 /\ q = b * s + t
    BY <1>1
<1>. HIDE DEF s, t
<1>3. e \in Nat /\ e < d /\ d \in Nat \ {0}
    <2>1. t \in Nat /\ t + 1 <= b
        BY <1>2
    <2>2. p * t \in Nat /\ p * (t + 1) <= p * b /\ p * (t + 1) = p * t + p /\ p * b = b * p
        BY <2>1
    <2>3. b * p \in Nat /\ b * p # 0
        OBVIOUS
    <2>. QED  BY <1>1, <2>2, <2>3
<1>4. v = d * s + e
    <2>1. p * (b * s + t) = p * (b * s) + p * t
        BY <1>2
    <2>2. p * (b * s) = (b * p) * s
        BY <1>2
    <2>3. p * (b * s) \in Nat /\ p * t \in Nat
        BY <1>2
    <2>. QED  BY <1>1, <1>2, <2>1, <2>2, <2>3
<1>. HIDE DEF e
<1>5. v \div d = s
    <2>. HIDE DEF d
    <2>. QED  BY <1>2, <1>3, <1>4, Quotient
<1>. QED  BY <1>2, <1>5 DEF q, s, t, d

LEMMA UintMaxType ==
    UintMax \in Nat /\ UintMax + 1 = Pow256[UintLen]
BY SizesAssumption, Pow256Def DEF UintMax

LEMMA StrtoullType ==
    ASSUME NEW n \in Int
    PROVE  /\ strtoull(n) \in Seq(Bytes) /\ Len(strtoull(n)) = UintLen
           /\ n \in 0..UintMax =>
                 \A i \in 1..UintLen : strtoull(n)[i] = (n \div Pow256[i - 1]) % 256
<1>. DEFINE value == IF n > UintMax \/ -n > UintMax THEN UintMax ELSE n % (UintMax + 1)
            bytes == [i \in 1..UintLen |-> (value \div Pow256[i - 1]) % 256]
<1>0. UintLen \in Nat /\ UintMax \in Nat /\ UintMax + 1 \in Nat \ {0}
    BY UintMaxType, SizesAssumption
<1>1. value \in Nat
    <2>1. \A d \in Nat \ {0} : n % d \in Nat
        OBVIOUS
    <2>. QED  BY <1>0, <2>1
<1>2. n \in 0..UintMax => value = n
    BY <1>0
<1>3. strtoull(n) = bytes
    BY Zenon DEF strtoull
<1>. HIDE DEF value
<1>4. ASSUME NEW i \in 1..UintLen PROVE bytes[i] \in Bytes
    <2>1. Pow256[i - 1] \in Nat \ {0}
        BY <1>0, Pow256Def
    <2>2. \A p \in Nat \ {0} : value \div p \in Nat
        BY <1>1
    <2>3. \A q \in Nat : q % 256 \in 0..255
        OBVIOUS
    <2>4. (value \div Pow256[i - 1]) % 256 \in 0..255
        BY <2>1, <2>2, <2>3
    <2>. QED  BY <2>4 DEF Bytes
<1>5. bytes \in [1..UintLen -> Bytes]
    BY <1>4
<1>6. bytes \in Seq(Bytes) /\ Len(bytes) = UintLen
    <2>. HIDE DEF bytes
    <2>. QED  BY <1>0, <1>5, FunctionIsSeq
<1>7. n \in 0..UintMax => \A i \in 1..UintLen : bytes[i] = (n \div Pow256[i - 1]) % 256
    BY <1>2
<1>. HIDE DEF bytes
<1>. QED  BY <1>3, <1>6, <1>7

LEMMA ReverseType ==
    ASSUME NEW S, NEW s \in Seq(S)
    PROVE  /\ Reverse(s) \in Seq(S) /\ Len(Reverse(s)) = Len(s)
           /\ \A i \in 1..Len(s) : Reverse(s)[i] = s[Len(s) - i + 1]
           /\ Reverse(Reverse(s)) = s
<1>. DEFINE n == Len(s)
            r == Reverse(s)
<1>1. n \in Nat /\ \A i \in 1..n : s[i] \in S /\ (n - i) + 1 \in 1..n /\ (n - ((n - i) + 1)) + 1 = i
    OBVIOUS
<1>2. r = [i \in 1..n |-> s[(n - i) + 1]]
    BY DEF Reverse
<1>3. r \in [1..n -> S]
    BY <1>1, <1>2
<1>. HIDE DEF n
<1>4. r \in Seq(S) /\ Len(r) = n
    <2>. HIDE DEF r
    <2>. QED  BY <1>1, <1>3, FunctionIsSeq
<1>5. Reverse(r) = [i \in 1..n |-> r[(n - i) + 1]]
    <2>. HIDE DEF r
    <2>. QED  BY <1>4 DEF Reverse
<1>6. \A i \in 1..n : r[(n - i) + 1] = s[i]
    BY <1>1, <1>2
<1>7. s = [i \in 1..n |-> s[i]]
    BY DEF n
<1>. HIDE DEF r
<1>8. Reverse(r) = s
    BY <1>5, <1>6, <1>7
<1>. QED  BY <1>1, <1>2, <1>4, <1>8 DEF n, r

LEMMA ZeroInside ==
    0 \in Bytes
BY DEF Bytes

LEMMA UnsetType ==
    ASSUME NEW S, NEW size \in Nat, NEW g \in S
    PROVE  /\ Unset(size, g) \in [1..size -> S] /\ Unset(size, g) \in Seq(S)
           /\ Len(Unset(size, g)) = size /\ \A i \in 1..size : Unset(size, g)[i] = g
<1>1. Unset(size, g) \in [1..size -> S] /\ \A i \in 1..size : Unset(size, g)[i] = g
    BY DEF Unset
<1>2. Unset(size, g) \in Seq(S) /\ Len(Unset(size, g)) = size
    BY <1>1, FunctionIsSeq
<1>. QED  BY <1>1, <1>2

\* A word of call data: zeros, and the bytes of the number, the highest first.
LEMMA WordType ==
    ASSUME NEW pVal \in Seq(Bytes), Len(pVal) <= WordLen
    PROVE  LET word == generateBytesForUint(pVal)
               k == WordLen - Len(pVal)
           IN /\ word \in Seq(Bytes) /\ Len(word) = WordLen /\ k \in 0..WordLen
              /\ \A i \in 1..k : word[i] = 0
              /\ \A i \in 1..Len(pVal) : word[k + i] = Reverse(pVal)[i]
<1>. DEFINE word == generateBytesForUint(pVal)
            k == WordLen - Len(pVal)
            zeros == Unset(k, 0)
            back == Reverse(pVal)
<1>1. k \in Nat /\ WordLen \in Nat /\ Len(pVal) \in Nat /\ k + Len(pVal) = WordLen
    BY SizesAssumption
<1>2. zeros \in Seq(Bytes) /\ Len(zeros) = k /\ \A i \in 1..k : zeros[i] = 0
    <2>. HIDE DEF k
    <2>. QED  BY <1>1, UnsetType, ZeroInside
<1>3. back \in Seq(Bytes) /\ Len(back) = Len(pVal)
    BY ReverseType
<1>4. word = zeros \o back
    BY Zenon DEF generateBytesForUint
<1>. HIDE DEF k, zeros, back, word
<1>5. zeros \in Seq(Bytes) /\ back \in Seq(Bytes)
    BY <1>2, <1>3
<1>6. word \in Seq(Bytes) /\ Len(word) = Len(zeros) + Len(back)
    BY <1>4, <1>5, ConcatType
<1>7. \A i \in 1..Len(zeros) : word[i] = zeros[i]
    BY <1>4, <1>5, ConcatFront
<1>8. \A i \in 1..Len(back) : word[Len(zeros) + i] = back[i]
    BY <1>4, <1>5, ConcatBack
<1>9. Len(word) = WordLen /\ k \in 0..WordLen
    BY <1>1, <1>2, <1>3, <1>6
<1>10. \A i \in 1..k : word[i] = 0
    BY <1>2, <1>7
<1>11. \A i \in 1..Len(pVal) : word[k + i] = back[i]
    BY <1>2, <1>3, <1>8
<1>. QED  BY <1>6, <1>9, <1>10, <1>11 DEF k, word, back

LEMMA WordSaysNumber ==
    ASSUME NEW n \in 0..UintMax
    PROVE  Number(256, generateBytesForUint(strtoull(n))) = n
<1>. DEFINE p == strtoull(n)
            word == generateBytesForUint(p)
            k == WordLen - Len(p)
<1>1. n \in Nat /\ UintLen \in Nat /\ WordLen \in Nat /\ UintLen <= WordLen /\ n < Pow256[UintLen]
    BY UintMaxType, SizesAssumption, Pow256Def
<1>2. /\ p \in Seq(Bytes) /\ Len(p) = UintLen
      /\ \A i \in 1..UintLen : p[i] = (n \div Pow256[i - 1]) % 256
    BY <1>1, StrtoullType
<1>. HIDE DEF p
<1>3. /\ word \in Seq(Bytes) /\ Len(word) = WordLen
      /\ \A i \in 1..k : word[i] = 0
      /\ \A i \in 1..Len(p) : word[k + i] = Reverse(p)[i]
    <2>1. p \in Seq(Bytes) /\ Len(p) <= WordLen
        BY <1>1, <1>2
    <2>. QED  BY <2>1, WordType, Zenon
<1>4. k = WordLen - UintLen /\ k \in Nat
    BY <1>1, <1>2
<1>. HIDE DEF word, k
<1>5. word \in Seq(Nat)
    <2>. Bytes \subseteq Nat
        BY DEF Bytes
    <2>. QED  BY <1>3, WiderSeq
<1>6. PICK f \in [0..WordLen -> Nat] :
          /\ f[0] = 0
          /\ \A i \in 1..WordLen : f[i] = 256 * f[i - 1] + word[i]
          /\ Number(256, word) = f[WordLen]
    <2>1. 256 \in Nat
        OBVIOUS
    <2>2. \E f \in [0..Len(word) -> Nat] :
              /\ f[0] = 0
              /\ \A i \in 1..Len(word) : f[i] = 256 * f[i - 1] + word[i]
              /\ Number(256, word) = f[Len(word)]
        BY <1>5, <2>1, NumberDef
    <2>. QED  BY <1>3, <2>2, Zenon
<1>7. \A i \in 0..k : f[i] = 0
    <2>. DEFINE S == {i \in 0..k : f[i] = 0}
    <2>1. 0 \in S
        BY <1>4, <1>6
    <2>2. ASSUME NEW i \in 1..k, i - 1 \in S PROVE i \in S
        BY <1>1, <1>3, <1>4, <1>6, <2>2
    <2>3. 0..k \subseteq S
        <3>. HIDE DEF S
        <3>. QED  BY <1>4, <2>1, <2>2, InductionUpTo
    <2>. QED  BY <2>3
<1>8. \A j \in 0..UintLen : f[k + j] = n \div Pow256[UintLen - j]
    <2>. DEFINE S == {j \in 0..UintLen : f[k + j] = n \div Pow256[UintLen - j]}
    <2>1. 0 \in S
        <3>1. \A q \in Nat \ {0} : n < q => n \div q = 0
            BY <1>1
        <3>2. Pow256[UintLen] \in Nat \ {0}
            BY <1>1, Pow256Def
        <3>3. n \div Pow256[UintLen - 0] = 0
            BY <1>1, <3>1, <3>2
        <3>4. f[k + 0] = 0
            BY <1>4, <1>7
        <3>. QED  BY <1>1, <3>3, <3>4
    <2>2. ASSUME NEW j \in 1..UintLen, j - 1 \in S PROVE j \in S
        <3>. DEFINE q == Pow256[UintLen - j]
                    i == UintLen - j + 1
        <3>1. /\ UintLen - j \in Nat /\ i \in 1..UintLen /\ i - 1 = UintLen - j
              /\ UintLen - (j - 1) = (UintLen - j) + 1 /\ k + j \in 1..WordLen
              /\ (k + j) - 1 = k + (j - 1)
            BY <1>1, <1>4
        <3>2. q \in Nat \ {0} /\ Pow256[UintLen - (j - 1)] = 256 * q
            BY <3>1, Pow256Def
        <3>3. f[(k + j) - 1] = n \div (256 * q)
            BY <2>2, <3>1, <3>2
        <3>4. word[k + j] = (n \div q) % 256
            <4>1. word[k + j] = Reverse(p)[j]
                BY <1>2, <1>3
            <4>2. Reverse(p)[j] = p[i]
                BY <1>2, ReverseType
            <4>. QED  BY <1>2, <3>1, <4>1, <4>2
        <3>5. f[k + j] = 256 * f[(k + j) - 1] + word[k + j]
            BY <1>6, <3>1
        <3>6. n \div q = 256 * (n \div (256 * q)) + ((n \div q) % 256)
            <4>. DEFINE b == 256
            <4>1. b \in Nat \ {0} /\ n \in Nat /\ q \in Nat \ {0}
                BY <1>1, <3>2
            <4>. HIDE DEF b, q
            <4>2. n \div q = b * (n \div (b * q)) + ((n \div q) % b)
                BY <4>1, NextDigit, Zenon
            <4>. QED  BY <4>2 DEF b
        <3>7. f[k + j] = n \div q
            <4>. HIDE DEF q
            <4>. QED  BY <3>3, <3>4, <3>5, <3>6
        <3>. QED  BY <3>7
    <2>3. 0..UintLen \subseteq S
        <3>. HIDE DEF S
        <3>. QED  BY <1>1, <2>1, <2>2, InductionUpTo
    <2>. QED  BY <2>3
<1>9. f[WordLen] = n \div Pow256[0]
    <2>1. UintLen \in 0..UintLen /\ k + UintLen = WordLen /\ UintLen - UintLen = 0
        BY <1>1, <1>4
    <2>. QED  BY <1>8, <2>1
<1>10. n \div 1 = n
    BY <1>1
<1>. QED  BY <1>6, <1>9, <1>10, Pow256Def DEF word, p
-----------------------------------------------------------------------------
(* The length of a message in decimal. *)

LEMMA PowersOfTen ==
    /\ Powers[1] = 1000000000 /\ Powers[2] = 100000000 /\ Powers[3] = 10000000
    /\ Powers[4] = 1000000 /\ Powers[5] = 100000 /\ Powers[6] = 10000
    /\ Powers[7] = 1000 /\ Powers[8] = 100 /\ Powers[9] = 10
BY SMT DEF Powers

\* What the place of each digit is worth.
Worth == [i \in 1..10 |-> IF i = 10 THEN 1 ELSE Powers[i]]

LEMMA Worths ==
    /\ Worth[1] = 1000000000 /\ Worth[2] = 100000000 /\ Worth[3] = 10000000
    /\ Worth[4] = 1000000 /\ Worth[5] = 100000 /\ Worth[6] = 10000
    /\ Worth[7] = 1000 /\ Worth[8] = 100 /\ Worth[9] = 10 /\ Worth[10] = 1
BY PowersOfTen, SMT DEF Worth

LEMMA TenPlaces ==
    \A i \in 1..10 : \/ i = 1 \/ i = 2 \/ i = 3 \/ i = 4 \/ i = 5
                     \/ i = 6 \/ i = 7 \/ i = 8 \/ i = 9 \/ i = 10
OBVIOUS

\* One place is worth ten of the next.
LEMMA TenTimes ==
    \A i \in 2..10 : Worth[i] \in Nat \ {0} /\ Worth[i - 1] = 10 * Worth[i]
<1>1. ASSUME NEW i \in 2..10 PROVE Worth[i] \in Nat \ {0} /\ Worth[i - 1] = 10 * Worth[i]
    <2>1. i = 2 \/ i = 3 \/ i = 4 \/ i = 5 \/ i = 6 \/ i = 7 \/ i = 8 \/ i = 9 \/ i = 10
        OBVIOUS
    <2>. QED  BY <2>1, Worths, SMT
<1>. QED  BY <1>1

LEMMA WorthStep ==
    ASSUME NEW length \in Nat, NEW i \in 2..10
    PROVE  /\ length \div Worth[i] = 10 * (length \div Worth[i - 1]) + ((length \div Worth[i]) % 10)
           /\ Worth[i] \in Nat \ {0} /\ Worth[i - 1] = 10 * Worth[i]
<1>1. Worth[i] \in Nat \ {0} /\ Worth[i - 1] = 10 * Worth[i]
    BY TenTimes
<1>2. 10 \in Nat \ {0}
    OBVIOUS
<1>. DEFINE p == Worth[i]
<1>. HIDE DEF p
<1>3. p \in Nat \ {0} /\ Worth[i - 1] = 10 * p
    BY <1>1 DEF p
<1>4. length \div p = 10 * (length \div (10 * p)) + ((length \div p) % 10)
    BY <1>2, <1>3, NextDigit
<1>. QED  BY <1>1, <1>3, <1>4 DEF p

\* The first power that a length reaches, all behind it being smaller.
LEMMA FirstDigit ==
    ASSUME NEW length \in Nat
    PROVE  LET enough == {i \in 1..9 : length >= Powers[i]}
               first == CHOOSE i \in 1..10 : i - 1 \notin enough /\ i..9 \subseteq enough
           IN /\ first \in 1..10
              /\ first < 10 => length >= Worth[first]
              /\ first > 1 => length < Worth[first - 1]
<1>. DEFINE enough == {i \in 1..9 : length >= Powers[i]}
            Is(i) == i - 1 \notin enough /\ i..9 \subseteq enough
            first == CHOOSE i \in 1..10 : Is(i)
<1>1. \A i, j \in 1..9 : i <= j => Powers[j] <= Powers[i]
    <2>1. ASSUME NEW i \in 1..8 PROVE Powers[i + 1] <= Powers[i]
        <3>1. i = 1 \/ i = 2 \/ i = 3 \/ i = 4 \/ i = 5 \/ i = 6 \/ i = 7 \/ i = 8
            OBVIOUS
        <3>. QED  BY <3>1, PowersOfTen, SMT
    <2>2. \A i \in 1..9 : Powers[i] \in Nat
        <3>1. \A i \in 1..9 : Powers[i] \in {1000000000, 100000000, 10000000, 1000000, 100000,
                                              10000, 1000, 100, 10}
            BY TenPlaces, PowersOfTen, SMT
        <3>. QED  BY <3>1
    <2>. QED  BY <2>1, <2>2
<1>2. \E i \in 1..10 : Is(i)
    <2>1. CASE enough = {}
        <3>1. Is(10)
            <4>. HIDE DEF enough
            <4>. QED  BY <2>1
        <3>. QED  BY <3>1
    <2>2. CASE enough # {}
        <3>1. enough \in SUBSET Nat
            OBVIOUS
        <3>2. PICK i \in enough : \A j \in enough : i <= j
            <4>. HIDE DEF enough
            <4>. QED  BY <2>2, <3>1, Least
        <3>3. i \in 1..9 /\ length >= Powers[i]
            OBVIOUS
        <3>4. i - 1 \notin enough
            <4>. HIDE DEF enough
            <4>. QED  BY <3>2, <3>3
        <3>5. \A j \in i..9 : length >= Powers[j] /\ j \in 1..9
            <4>1. \A j \in 1..9 : Powers[j] \in Nat
                <5>1. \A j \in 1..9 : Powers[j] \in {1000000000, 100000000, 10000000, 1000000,
                                                      100000, 10000, 1000, 100, 10}
                    BY TenPlaces, PowersOfTen, SMT
                <5>. QED  BY <5>1
            <4>. QED  BY <1>1, <3>3, <4>1
        <3>6. Is(i)
            BY <3>4, <3>5
        <3>. HIDE DEF Is
        <3>. QED  BY <3>3, <3>6
    <2>. QED  BY <2>1, <2>2
<1>3. first \in 1..10 /\ Is(first)
    <2>. HIDE DEF Is
    <2>. QED  BY <1>2
<1>. HIDE DEF first
<1>4. ASSUME first < 10 PROVE length >= Worth[first]
    <2>1. first \in first..9 /\ first \in 1..9 /\ first # 10
        BY <1>3, <1>4
    <2>2. first \in enough
        BY <1>3, <2>1
    <2>. QED  BY <1>3, <2>1, <2>2, SMT DEF Worth
<1>5. ASSUME first > 1 PROVE length < Worth[first - 1]
    <2>1. first - 1 \in 1..9 /\ first - 1 # 10 /\ first - 1 \in 1..10
        BY <1>3, <1>5
    <2>2. ~(length >= Powers[first - 1])
        BY <1>3, <2>1
    <2>3. Powers[first - 1] \in Nat
        <3>1. Powers[first - 1] \in {1000000000, 100000000, 10000000, 1000000,
                                     100000, 10000, 1000, 100, 10}
            BY <2>1, TenPlaces, PowersOfTen, SMT
        <3>. QED  BY <3>1
    <2>. QED  BY <2>1, <2>2, <2>3, SMT DEF Worth
<1>. QED  BY <1>3, <1>4, <1>5 DEF first\* The powers of ten that a length reaches.
Reached(length) == {i \in 1..9 : length >= Powers[i]}

LEMMA WorthTypes ==
    /\ \A i \in 1..10 : Worth[i] \in Nat \ {0}
    /\ \A i \in 1..9 : Worth[i] = Powers[i]
    /\ Worth[10] = 1
<1>1. \A i \in 1..9 : i \in 1..10 /\ i # 10
    OBVIOUS
<1>2. \A i \in 1..9 : Worth[i] = Powers[i]
    BY <1>1, Zenon DEF Worth
<1>3. \A i \in 2..10 : Worth[i] \in Nat \ {0}
    <2>1. 0 \in Nat
        OBVIOUS
    <2>. QED  BY <2>1, WorthStep
<1>4. Worth[1] \in Nat \ {0}
    BY Worths, SMT
<1>5. \A i \in 1..10 : i = 1 \/ i \in 2..10
    OBVIOUS
<1>. QED  BY <1>2, <1>3, <1>4, <1>5, Worths

LEMMA DigitsDef ==
    ASSUME NEW length \in Nat
    PROVE  LET digits == LengthDigits(length, Reached(length))
           IN \E first \in 1..10 :
                  /\ first < 10 => length >= Worth[first]
                  /\ first > 1 => length < Worth[first - 1]
                  /\ digits \in Seq(0..9) /\ Len(digits) = 11 - first
                  /\ \A i \in 1..11 - first :
                        digits[i] = (length \div Worth[first + i - 1]) % 10
<1>. DEFINE first == CHOOSE i \in 1..10 :
                        i - 1 \notin Reached(length) /\ i..9 \subseteq Reached(length)
            v == [i \in 1..10 - first |-> (length \div Powers[first + i - 1]) % 10]
            w == <<length % 10>>
            digits == LengthDigits(length, Reached(length))
<1>1. /\ first \in 1..10
      /\ first < 10 => length >= Worth[first]
      /\ first > 1 => length < Worth[first - 1]
    BY FirstDigit, Zenon DEF Reached
<1>2. digits = v \o w
    BY Zenon DEF LengthDigits
<1>. HIDE DEF first, digits
<1>3. \A i \in 1..10 - first : first + i - 1 \in 1..9 /\ first + i - 1 \in 1..10
    BY <1>1
<1>4. \A p \in Nat \ {0} : (length \div p) % 10 \in 0..9
    OBVIOUS
<1>5. \A i \in 1..10 - first : v[i] = (length \div Worth[first + i - 1]) % 10
    BY <1>3, WorthTypes
<1>6. v \in Seq(0..9) /\ Len(v) = 10 - first
    <2>1. \A i \in 1..10 - first : v[i] \in 0..9
        <3>. HIDE DEF v
        <3>. SUFFICES ASSUME NEW i \in 1..10 - first PROVE v[i] \in 0..9
            OBVIOUS
        <3>1. Worth[first + i - 1] \in Nat \ {0}
            BY <1>3, WorthTypes, Zenon
        <3>. QED  BY <1>4, <1>5, <3>1, Zenon
    <2>2. v = [i \in 1..10 - first |-> v[i]]
        OBVIOUS
    <2>3. 10 - first \in Nat
        BY <1>1
    <2>. HIDE DEF v
    <2>4. v \in [1..10 - first -> 0..9]
        BY <2>1, <2>2
    <2>. QED  BY <2>3, <2>4, FunctionIsSeq
<1>7. w \in Seq(0..9) /\ Len(w) = 1 /\ w[1] = (length \div Worth[10]) % 10
    <2>1. length \div 1 = length /\ length % 10 \in 0..9
        OBVIOUS
    <2>. QED  BY <2>1, WorthTypes
<1>. HIDE DEF v, w
<1>8. digits \in Seq(0..9) /\ Len(digits) = 11 - first
    <2>1. (v \o w) \in Seq(0..9) /\ Len(v \o w) = Len(v) + Len(w)
        BY <1>6, <1>7, ConcatType
    <2>. QED  BY <1>1, <1>2, <1>6, <1>7, <2>1
<1>9. ASSUME NEW i \in 1..11 - first PROVE digits[i] = (length \div Worth[first + i - 1]) % 10
    <2>1. CASE i = 11 - first
        <3>1. first + i - 1 = 10 /\ i = Len(v) + 1 /\ 1 \in 1..Len(w)
            BY <1>1, <1>6, <1>7, <2>1
        <3>2. (v \o w)[Len(v) + 1] = w[1]
            <4>. v \in Seq(0..9) /\ w \in Seq(0..9) /\ 1 \in 1..Len(w)
                BY <1>6, <1>7, <3>1
            <4>. QED  BY ConcatBack
        <3>. QED  BY <1>2, <1>7, <3>1, <3>2
    <2>2. CASE i # 11 - first
        <3>1. i \in 1..10 - first /\ i \in 1..Len(v)
            BY <1>1, <1>6, <2>2
        <3>2. (v \o w)[i] = v[i]
            BY <1>6, <1>7, <3>1, ConcatFront
        <3>. QED  BY <1>2, <1>5, <3>1, <3>2
    <2>. QED  BY <2>1, <2>2
<1>. QED  BY <1>1, <1>8, <1>9 DEF digits

\* The digits of a length say it, without a zero in front.
LEMMA DigitsSayLength ==
    ASSUME NEW length \in Nat, length \div Powers[1] < 10
    PROVE  LET digits == LengthDigits(length, Reached(length))
           IN Number(10, digits) = length /\ (Len(digits) > 1 => Head(digits) # 0)
<1>. DEFINE digits == LengthDigits(length, Reached(length))
<1>1. PICK first \in 1..10 :
          /\ first < 10 => length >= Worth[first]
          /\ first > 1 => length < Worth[first - 1]
          /\ digits \in Seq(0..9) /\ Len(digits) = 11 - first
          /\ \A i \in 1..11 - first : digits[i] = (length \div Worth[first + i - 1]) % 10
    BY DigitsDef
<1>. HIDE DEF digits
<1>2. length \div Worth[first] \in 0..9
    <2>1. Worth[first] \in Nat \ {0}
        BY WorthTypes
    <2>2. CASE first = 1
        <3>1. Worth[first] = Powers[1]
            BY <2>2, WorthTypes
        <3>. QED  BY <2>1, <3>1
    <2>3. CASE first # 1
        <3>1. first \in 2..10 /\ first > 1
            BY <2>3
        <3>2. length < 10 * Worth[first]
            BY <1>1, <3>1, WorthStep
        <3>3. \A p \in Nat \ {0} : length < 10 * p => length \div p \in 0..9
            OBVIOUS
        <3>. QED  BY <2>1, <3>2, <3>3
    <2>. QED  BY <2>2, <2>3
<1>3. digits[1] = length \div Worth[first]
    <2>1. 1 \in 1..11 - first /\ first + 1 - 1 = first
        BY <1>1
    <2>2. \A n \in 0..9 : n % 10 = n
        OBVIOUS
    <2>. QED  BY <1>1, <1>2, <2>1, <2>2
<1>4. digits \in Seq(Nat)
    <2>. 0..9 \subseteq Nat
        OBVIOUS
    <2>. QED  BY <1>1, WiderSeq
<1>5. PICK n \in [0..Len(digits) -> Nat] :
          /\ n[0] = 0
          /\ \A i \in 1..Len(digits) : n[i] = 10 * n[i - 1] + digits[i]
          /\ Number(10, digits) = n[Len(digits)]
    <2>1. 10 \in Nat
        OBVIOUS
    <2>. QED  BY <1>4, <2>1, NumberDef
<1>6. \A i \in 0..Len(digits) : i = 0 \/ n[i] = length \div Worth[first + i - 1]
    <2>. DEFINE S == {i \in 0..Len(digits) : i = 0 \/ n[i] = length \div Worth[first + i - 1]}
    <2>1. 0 \in S /\ Len(digits) \in Nat
        BY <1>1
    <2>2. ASSUME NEW i \in 1..Len(digits), i - 1 \in S PROVE i \in S
        <3>1. i \in 1..11 - first /\ i \in 0..Len(digits)
            BY <1>1
        <3>2. n[i] = 10 * n[i - 1] + digits[i] /\ n[i - 1] \in Nat
            <4>1. i - 1 \in 0..Len(digits)
                BY <1>1
            <4>. QED  BY <1>5, <4>1
        <3>3. CASE i = 1
            <4>1. first + i - 1 = first /\ i - 1 = 0
                BY <3>3
            <4>. QED  BY <1>2, <1>3, <1>5, <3>1, <3>2, <3>3, <4>1
        <3>4. CASE i # 1
            <4>. DEFINE j == first + i - 1
            <4>1. j \in 2..10 /\ first + (i - 1) - 1 = j - 1 /\ i - 1 # 0
                BY <3>1, <3>4
            <4>2. digits[i] = (length \div Worth[j]) % 10
                BY <1>1, <3>1
            <4>. HIDE DEF j
            <4>3. n[i - 1] = length \div Worth[j - 1]
                BY <2>2, <4>1
            <4>4. length \div Worth[j] = 10 * (length \div Worth[j - 1]) + ((length \div Worth[j]) % 10)
                BY <4>1, WorthStep
            <4>5. n[i] = length \div Worth[j]
                BY <3>2, <4>2, <4>3, <4>4, Zenon
            <4>. QED  BY <3>1, <4>5 DEF j
        <3>. QED  BY <3>3, <3>4
    <2>3. 0..Len(digits) \subseteq S
        <3>. HIDE DEF S
        <3>. QED  BY <2>1, <2>2, InductionUpTo
    <2>. QED  BY <2>3
<1>7. Number(10, digits) = length
    <2>1. Len(digits) \in 0..Len(digits) /\ Len(digits) # 0 /\ first + Len(digits) - 1 = 10
        BY <1>1
    <2>2. n[Len(digits)] = length \div Worth[10]
        BY <1>6, <2>1
    <2>3. length \div 1 = length
        OBVIOUS
    <2>. QED  BY <1>5, <2>2, <2>3, WorthTypes
<1>8. ASSUME Len(digits) > 1 PROVE Head(digits) # 0
    <2>1. first < 10 /\ digits # <<>>
        BY <1>1, <1>8
    <2>2. length >= Worth[first] /\ Worth[first] \in Nat \ {0}
        BY <1>1, <2>1, WorthTypes
    <2>3. \A p \in Nat \ {0} : length >= p => length \div p # 0
        OBVIOUS
    <2>4. Head(digits) = digits[1]
        BY <1>1, <2>1
    <2>. QED  BY <1>3, <2>2, <2>3, <2>4
<1>. QED  BY <1>7, <1>8 DEF digits
-----------------------------------------------------------------------------
(* The "0x" of an address that is typed. *)

Gone(text) == {i \in DOMAIN text :
                  \/ i < Len(text) /\ text[i] = "0" /\ text[i + 1] = "x"
                  \/ i > 1 /\ text[i - 1] = "0" /\ text[i] = "x"}

LEMMA ReplacedDef ==
    ASSUME NEW A, NEW text \in Seq(A)
    PROVE  \E left : /\ left[0] = <<>>
                     /\ \A n \in 1..Len(text) :
                           left[n] = IF n \in Gone(text) THEN left[n - 1]
                                     ELSE Append(left[n - 1], text[n])
                     /\ Replaced(text) = left[Len(text)]
<1>. DEFINE m == Len(text)
            gone == Gone(text)
            B == Seq(A)
            step == [p \in (1..m) \X B |-> IF p[1] \in gone THEN p[2] ELSE Append(p[2], text[p[1]])]
            Is(f) == f = [n \in 0..m |->
                             IF n = 0 THEN <<>>
                             ELSE IF n \in gone THEN f[n - 1] ELSE Append(f[n - 1], text[n])]
            c == CHOOSE f : Is(f)
<1>1. m \in Nat /\ \A i \in 1..m : text[i] \in A
    OBVIOUS
<1>2. <<>> \in B /\ \A x \in B : \A y \in A : Append(x, y) \in B
    OBVIOUS
<1>3. Replaced(text) = c[m]
    BY Zenon DEF Replaced, Gone
<1>. HIDE DEF m, gone, B
<1>4. Along(B, m, <<>>, step)
    <2>1. ASSUME NEW p \in (1..m) \X B
          PROVE  (IF p[1] \in gone THEN p[2] ELSE Append(p[2], text[p[1]])) \in B
        <3>1. p[2] \in B /\ text[p[1]] \in A
            BY <1>1
        <3>2. Append(p[2], text[p[1]]) \in B
            BY <1>2, <3>1, Zenon
        <3>. QED  BY <3>1, <3>2, Zenon
    <2>2. step \in [(1..m) \X B -> B]
        BY <2>1
    <2>. HIDE DEF step
    <2>. QED  BY <1>1, <1>2, <2>2 DEF Along
<1>5. \A i \in 1..m : \A a \in B :
          step[<<i, a>>] = IF i \in gone THEN a ELSE Append(a, text[i])
    OBVIOUS
<1>. HIDE DEF step
<1>6. PICK f \in [0..m -> B] :
          f[0] = <<>> /\ \A i \in 1..m : f[i] = step[<<i, f[i - 1]>>]
    BY <1>4, ListRecursion
<1>7. ASSUME NEW i \in 1..m
      PROVE  f[i] = IF i \in gone THEN f[i - 1] ELSE Append(f[i - 1], text[i])
    <2>1. f[i - 1] \in B
        BY <1>1
    <2>. QED  BY <1>5, <1>6, <2>1
<1>8. Is(f)
    <2>1. \A n \in 0..m : f[n] = IF n = 0 THEN <<>>
                                 ELSE IF n \in gone THEN f[n - 1] ELSE Append(f[n - 1], text[n])
        <3>1. \A n \in 0..m : n = 0 \/ (n \in 1..m /\ n # 0)
            BY <1>1
        <3>. QED  BY <1>6, <1>7, <3>1, Zenon
    <2>. QED  BY <2>1
<1>9. Is(c)
    <2>. HIDE DEF Is
    <2>. QED  BY <1>8
<1>10. \A n \in 0..m : c[n] = IF n = 0 THEN <<>>
                              ELSE IF n \in gone THEN c[n - 1] ELSE Append(c[n - 1], text[n])
    <2>. HIDE DEF c
    <2>. QED  BY <1>9
<1>. HIDE DEF c, Is
<1>11. c[0] = <<>> /\ \A n \in 1..m : c[n] = IF n \in gone THEN c[n - 1] ELSE Append(c[n - 1], text[n])
    BY <1>1, <1>10
<1>. QED  BY <1>3, <1>11 DEF m, gone

\* No "0x" in it, or one in front of it.
LEMMA ReplacedHex ==
    ASSUME NEW hex \in Seq(Range(hexmap))
    PROVE  Replaced(hex) = hex /\ Replaced(<<"0", "x">> \o hex) = hex
<1>. DEFINE A == Range(hexmap) \cup {"0", "x"}
            Whole(text, k) == /\ text \in Seq(A) /\ k \in Nat /\ k + Len(hex) = Len(text)
                              /\ \A i \in 1..Len(hex) : text[k + i] = hex[i]
                              /\ Gone(text) = 1..k
<1>1. Len(hex) \in Nat /\ DOMAIN hex = 1..Len(hex) /\ \A i \in 1..Len(hex) : hex[i] \in Range(hexmap)
    OBVIOUS
<1>2. "x" \notin Range(hexmap)
    BY Hexmap
<1>3. Range(hexmap) \subseteq A /\ hex \in Seq(A) /\ <<"0", "x">> \in Seq(A) /\ Len(<<"0", "x">>) = 2
    <2>1. Range(hexmap) \subseteq A
        OBVIOUS
    <2>2. hex \in Seq(A)
        <3>. HIDE DEF A
        <3>. QED  BY <2>1, WiderSeq
    <2>3. "0" \in A /\ "x" \in A
        OBVIOUS
    <2>. HIDE DEF A
    <2>. QED  BY <2>1, <2>2, <2>3
<1>. HIDE DEF A
<1>4. ASSUME NEW text, NEW k, Whole(text, k) PROVE Replaced(text) = hex
    <2>1. PICK left : /\ left[0] = <<>>
                      /\ \A n \in 1..Len(text) :
                            left[n] = IF n \in Gone(text) THEN left[n - 1]
                                      ELSE Append(left[n - 1], text[n])
                      /\ Replaced(text) = left[Len(text)]
        BY <1>4, ReplacedDef
    <2>2. 0..k \subseteq {n \in 0..k : left[n] = <<>>}
        <3>. DEFINE S == {n \in 0..k : left[n] = <<>>}
        <3>1. 0 \in S
            BY <1>4, <2>1
        <3>2. ASSUME NEW n \in 1..k, n - 1 \in S PROVE n \in S
            <4>1. n \in 1..Len(text) /\ n \in Gone(text)
                BY <1>1, <1>4
            <4>. QED  BY <2>1, <3>2, <4>1
        <3>3. 0..k \subseteq S
            <4>. HIDE DEF S
            <4>. QED  BY <1>4, <3>1, <3>2, InductionUpTo
        <3>. QED  BY <3>3
    <2>3. 0..Len(hex) \subseteq {n \in 0..Len(hex) : left[k + n] = SubSeq(hex, 1, n)}
        <3>. DEFINE S == {n \in 0..Len(hex) : left[k + n] = SubSeq(hex, 1, n)}
        <3>1. 0 \in S
            <4>1. left[k + 0] = <<>> /\ SubSeq(hex, 1, 0) = <<>>
                BY <1>4, <2>2
            <4>2. 0 \in 0..Len(hex)
                BY <1>1
            <4>. QED  BY <4>1, <4>2, Zenon
        <3>2. ASSUME NEW n \in 1..Len(hex), n - 1 \in S PROVE n \in S
            <4>1. k + n \in 1..Len(text) /\ k + n \notin Gone(text) /\ text[k + n] = hex[n]
                  /\ (k + n) - 1 = k + (n - 1)
                BY <1>1, <1>4
            <4>2. left[k + n] = Append(SubSeq(hex, 1, n - 1), hex[n])
                BY <2>1, <3>2, <4>1
            <4>3. Append(SubSeq(hex, 1, n - 1), hex[n]) = SubSeq(hex, 1, n)
                BY <1>1
            <4>. QED  BY <1>1, <4>2, <4>3
        <3>3. 0..Len(hex) \subseteq S
            <4>. HIDE DEF S
            <4>. QED  BY <1>1, <3>1, <3>2, InductionUpTo
        <3>. QED  BY <3>3
    <2>4. left[k + Len(hex)] = SubSeq(hex, 1, Len(hex))
        BY <1>1, <2>3
    <2>5. SubSeq(hex, 1, Len(hex)) = hex
        OBVIOUS
    <2>. QED  BY <1>4, <2>1, <2>4, <2>5
<1>5. Whole(hex, 0)
    <2>1. Gone(hex) = 1..0
        <3>1. \A i \in 1..Len(hex) : hex[i] # "x"
            BY <1>1, <1>2
        <3>2. \A i \in DOMAIN hex : i < Len(hex) => i + 1 \in 1..Len(hex)
            BY <1>1
        <3>. QED  BY <1>1, <3>1, <3>2 DEF Gone
    <2>. QED  BY <1>1, <1>3, <2>1
<1>6. Whole(<<"0", "x">> \o hex, 2)
    <2>. DEFINE p == <<"0", "x">>
                text == p \o hex
    <2>1. p \in Seq(A) /\ Len(p) = 2 /\ p[1] = "0" /\ p[2] = "x"
        BY <1>3
    <2>. HIDE DEF p
    <2>2. text \in Seq(A) /\ Len(text) = 2 + Len(hex)
        BY <1>3, <2>1, ConcatType
    <2>3. \A i \in 1..Len(hex) : text[2 + i] = hex[i]
        <3>. p \in Seq(A) /\ hex \in Seq(A)
            BY <1>3, <2>1
        <3>1. \A i \in 1..Len(hex) : text[Len(p) + i] = hex[i]
            BY ConcatBack
        <3>. HIDE DEF text
        <3>. QED  BY <2>1, <3>1
    <2>4. text[1] = "0" /\ text[2] = "x"
        <3>. p \in Seq(A) /\ hex \in Seq(A)
            BY <1>3, <2>1
        <3>1. \A i \in 1..Len(p) : text[i] = p[i]
            BY ConcatFront
        <3>. HIDE DEF text
        <3>. QED  BY <2>1, <3>1
    <2>. HIDE DEF text
    <2>5. ASSUME NEW i \in 3..Len(text) PROVE text[i] # "x"
        <3>1. i - 2 \in 1..Len(hex) /\ i = 2 + (i - 2)
            BY <1>1, <2>2
        <3>. QED  BY <1>1, <1>2, <2>3, <3>1
    <2>6. Gone(text) = 1..2
        <3>1. DOMAIN text = 1..Len(text) /\ Len(text) \in Nat /\ Len(text) >= 2
            BY <1>1, <2>2
        <3>2. 1 \in Gone(text) /\ 2 \in Gone(text)
            BY <2>4, <3>1 DEF Gone
        <3>3. ASSUME NEW i \in Gone(text) PROVE i \in 1..2
            <4>1. i \in 1..Len(text)
                BY <3>1 DEF Gone
            <4>2. CASE i >= 3
                <5>1. i \in 3..Len(text) /\ (i < Len(text) => i + 1 \in 3..Len(text))
                    BY <3>1, <4>1, <4>2
                <5>. QED  BY <2>5, <5>1 DEF Gone
            <4>. QED  BY <4>1, <4>2
        <3>4. \A i \in 1..2 : i = 1 \/ i = 2
            OBVIOUS
        <3>. QED  BY <3>2, <3>3, <3>4
    <2>. QED  BY <2>2, <2>3, <2>6 DEF text, p
<1>. HIDE DEF Whole
<1>. QED  BY <1>4, <1>5, <1>6
-----------------------------------------------------------------------------
(* Arrays, and the texts and the call data that are made of them. *)

LEMMA OverType ==
    ASSUME NEW n \in Nat, NEW array \in [1..n -> Bytes], NEW bytes \in Seq(Bytes)
    PROVE  /\ Over(array, bytes) \in [1..n -> Bytes]
           /\ \A i \in 1..n : Over(array, bytes)[i] = IF i <= Len(bytes) THEN bytes[i] ELSE array[i]
           /\ Len(bytes) = n => Over(array, bytes) = bytes
<1>. DEFINE over == [i \in 1..n |-> IF i <= Len(bytes) THEN bytes[i] ELSE array[i]]
<1>1. Len(bytes) \in Nat /\ \A i \in 1..Len(bytes) : bytes[i] \in Bytes
    OBVIOUS
<1>2. Over(array, bytes) = over
    BY DEF Over
<1>3. \A i \in 1..n : (IF i <= Len(bytes) THEN bytes[i] ELSE array[i]) \in Bytes
    BY <1>1
<1>4. over \in [1..n -> Bytes]
    BY <1>3
<1>5. ASSUME Len(bytes) = n PROVE over = bytes
    <2>1. bytes = [i \in 1..n |-> bytes[i]]
        BY <1>5
    <2>2. \A i \in 1..n : i <= n
        OBVIOUS
    <2>. QED  BY <1>5, <2>1, <2>2
<1>. QED  BY <1>2, <1>4, <1>5

LEMMA CharactersOf ==
    /\ Plain \subseteq Characters /\ Range(Digits) \cup Range(Upper) \subseteq Characters
    /\ Range(hexmap) \subseteq Plain /\ Range(hexmap) \subseteq Characters
    /\ "0" \in Characters /\ "x" \in Characters
BY CharacterSets, AllCharacters, ValueType, Hexmap DEF Characters, Plain

LEMMA TextType ==
    ASSUME NEW S, S \subseteq Characters, NEW text \in Seq(S)
    PROVE  text \in Seq(Characters) /\ IsText(text)
<1>1. \A i \in DOMAIN text : text[i] \in S
    OBVIOUS
<1>2. IsText(text)
    BY <1>1 DEF IsText
<1>. QED  BY <1>2, WiderSeq

\* A text of hexadecimal digits has no "0x" in front.
LEMMA HexIsBare ==
    ASSUME NEW text \in Seq(Characters), IsHex(text)
    PROVE  Bare(text) = text
<1>1. ASSUME NEW i \in 1..Len(text) PROVE text[i] # "x"
    <2>1. Small(text)[i] = LowerCase(text[i]) /\ i \in DOMAIN Small(text)
        BY DEF Small
    <2>2. LowerCase(text[i]) \in Range(hexmap)
        BY <2>1 DEF IsHex, Range
    <2>3. LowerCase("x") = "x"
        BY LowerCases, CharacterSets
    <2>4. "x" \notin Range(hexmap)
        BY Hexmap
    <2>. QED  BY <2>2, <2>3, <2>4
<1>2. ~HasPrefix(text)
    <2>1. Len(text) \in Nat
        OBVIOUS
    <2>2. Len(text) >= 2 => 2 \in 1..Len(text)
        BY <2>1
    <2>. QED  BY <1>1, <2>2 DEF HasPrefix
<1>. QED  BY <1>2 DEF Bare

LEMMA SmallHex ==
    ASSUME NEW hex \in Seq(Range(hexmap))
    PROVE  /\ Small(hex) = hex /\ IsHex(hex)
           /\ Small(<<"0", "x">> \o hex) = <<"0", "x">> \o hex
           /\ Small(Capitals(<<"0", "x">> \o hex)) = <<"0", "x">> \o hex
<1>. DEFINE p == <<"0", "x">>
            text == p \o hex
<1>1. hex \in Seq(Plain)
    BY CharactersOf, WiderSeq
<1>2. p \in Seq(Plain)
    <2>. "0" \in Plain /\ "x" \in Plain
        BY CharacterSets DEF Plain
    <2>. QED  OBVIOUS
<1>. HIDE DEF p
<1>3. text \in Seq(Plain)
    BY <1>1, <1>2, ConcatType
<1>. HIDE DEF text
<1>4. Small(hex) = hex
    BY <1>1, SmallCapitals DEF Plain
<1>5. Small(text) = text /\ Small(Capitals(text)) = text
    BY <1>3, SmallCapitals DEF Plain
<1>6. IsHex(hex)
    <2>1. Range(hex) \subseteq Range(hexmap)
        BY DEF Range
    <2>. QED  BY <1>4, <2>1 DEF IsHex
<1>. QED  BY <1>4, <1>5, <1>6 DEF text, p

LEMMA AddressType ==
    ASSUME NEW bytes \in Seq(Bytes)
    PROVE  bech32_encode(bytes) \in Seq(Plain)
<1>1. bech32_convertBytesTo5Bit(bytes) \in Seq(Groups)
    BY ConvertKeepsBits
<1>2. bech32_encode(bytes) = Encode("BECH32", Io, bech32_convertBytesTo5Bit(bytes))
    BY DEF bech32_encode, Io
<1>. HIDE DEF bech32_encode
<1>. QED  BY <1>1, <1>2, EncodeWrites

LEMMA AsTextType ==
    ASSUME NEW data \in Seq(Bytes)
    PROVE  /\ AsText(data) \in Seq(Range(hexmap)) /\ Len(AsText(data)) = 2 * Len(data)
           /\ AsBytes(AsText(data)) = data /\ IsText(AsText(data))
<1>1. 2 * Len(data) + 1 \in Nat /\ 2 * Len(data) <= 2 * Len(data) + 1
    OBVIOUS
<1>2. /\ AsText(data) \in Seq(Range(hexmap)) /\ Len(AsText(data)) = 2 * Len(data)
      /\ AsBytes(AsText(data)) = data
    BY <1>1, Hex2StrWrites DEF AsText
<1>. QED  BY <1>2, CharactersOf, TextType

LEMMA Part ==
    ASSUME NEW S, NEW d \in Seq(S), NEW w \in Seq(S), NEW k \in Nat, k + Len(w) <= Len(d),
           \A i \in 1..Len(w) : d[k + i] = w[i]
    PROVE  SubSeq(d, k + 1, k + Len(w)) = w
<1>. DEFINE s == SubSeq(d, k + 1, k + Len(w))
<1>1. Len(w) \in Nat /\ Len(d) \in Nat /\ \A i \in 1..Len(w) : k + i \in 1..Len(d)
    OBVIOUS
<1>2. s \in Seq(S) /\ Len(s) = Len(w)
    <2>1. s \in Seq(S)
        BY <1>1
    <2>2. (k + Len(w)) - (k + 1) + 1 = Len(w)
        BY <1>1
    <2>3. Len(s) = Len(w)
        BY <1>1, <2>2
    <2>. QED  BY <2>1, <2>3
<1>3. ASSUME NEW i \in 1..Len(w) PROVE s[i] = w[i]
    <2>1. s[i] = d[k + i]
        BY <1>1
    <2>. QED  BY <2>1
<1>. HIDE DEF s
<1>4. s = w
    BY <1>2, <1>3, SameSeq
<1>. QED  BY <1>4 DEF s

\* An address is padded to a word as it is.
LEMMA AddressWord ==
    ASSUME NEW to \in Seq(Bytes), Len(to) = AddressLen
    PROVE  LET word == generateBytesForAddress(to)
           IN /\ word = Unset(WordLen - AddressLen, 0) \o to
              /\ word \in Seq(Bytes) /\ Len(word) = WordLen
<1>1. AddressLen <= WordLen /\ AddressLen \in Nat /\ WordLen \in Nat
    BY SizesAssumption
<1>2. Reverse(to) \in Seq(Bytes) /\ Len(Reverse(to)) = AddressLen /\ Reverse(Reverse(to)) = to
    BY ReverseType
<1>. DEFINE back == Reverse(to)
<1>. HIDE DEF back
<1>3. back \in Seq(Bytes) /\ Len(back) = AddressLen /\ Reverse(back) = to
    BY <1>2 DEF back
<1>4. generateBytesForAddress(to) = generateBytesForUint(back)
    BY DEF generateBytesForAddress, back
<1>5. generateBytesForUint(back) = Unset(WordLen - AddressLen, 0) \o to
    BY <1>3 DEF generateBytesForUint
<1>6. generateBytesForUint(back) \in Seq(Bytes) /\ Len(generateBytesForUint(back)) = WordLen
    BY <1>1, <1>3, WordType
<1>. QED  BY <1>4, <1>5, <1>6

LEMMA TransferData ==
    ASSUME NEW to \in Seq(Bytes), Len(to) = AddressLen,
           NEW value \in Seq(Bytes), Len(value) = UintLen
    PROVE  LET data == generateCallDataForTransfer(to, value)
           IN /\ data \in Seq(Bytes) /\ Len(data) = 4 + 2 * WordLen
              /\ SubSeq(data, 1, 4) = <<169, 5, 156, 187>>
              /\ SubSeq(data, 5, 4 + WordLen) = Unset(WordLen - AddressLen, 0) \o to
              /\ SubSeq(data, 5 + WordLen, 4 + 2 * WordLen) = generateBytesForUint(value)
<1>. DEFINE name == <<169, 5, 156, 187>>
            word1 == generateBytesForAddress(to)
            word2 == generateBytesForUint(value)
            front == name \o word1
            data == generateCallDataForTransfer(to, value)
<1>1. WordLen \in Nat /\ UintLen <= WordLen
    BY SizesAssumption
<1>2. name \in Seq(Bytes) /\ Len(name) = 4
    <2>. 169 \in Bytes /\ 5 \in Bytes /\ 156 \in Bytes /\ 187 \in Bytes
        BY DEF Bytes
    <2>. QED  OBVIOUS
<1>3. /\ word1 = Unset(WordLen - AddressLen, 0) \o to
      /\ word1 \in Seq(Bytes) /\ Len(word1) = WordLen
    BY AddressWord
<1>4. word2 \in Seq(Bytes) /\ Len(word2) = WordLen
    BY <1>1, WordType
<1>5. data = front \o word2
    BY DEF generateCallDataForTransfer
<1>. HIDE DEF name, word1, word2, data
<1>6. front \in Seq(Bytes) /\ Len(front) = 4 + WordLen
    <2>. name \in Seq(Bytes) /\ word1 \in Seq(Bytes)
        BY <1>2, <1>3
    <2>. HIDE DEF front
    <2>1. name \o word1 \in Seq(Bytes) /\ Len(name \o word1) = Len(name) + Len(word1)
        BY ConcatType
    <2>. QED  BY <1>2, <1>3, <2>1 DEF front
<1>7. \A i \in 1..4 : front[i] = name[i]
    <2>. name \in Seq(Bytes) /\ word1 \in Seq(Bytes)
        BY <1>2, <1>3
    <2>1. \A i \in 1..Len(name) : front[i] = name[i]
        BY ConcatFront
    <2>. HIDE DEF front
    <2>. QED  BY <1>2, <2>1
<1>8. \A i \in 1..WordLen : front[4 + i] = word1[i]
    <2>. name \in Seq(Bytes) /\ word1 \in Seq(Bytes)
        BY <1>2, <1>3
    <2>1. \A i \in 1..Len(word1) : front[Len(name) + i] = word1[i]
        BY ConcatBack
    <2>. HIDE DEF front
    <2>. QED  BY <1>2, <1>3, <2>1
<1>. HIDE DEF front
<1>9. data \in Seq(Bytes) /\ Len(data) = 4 + 2 * WordLen
    <2>. front \in Seq(Bytes) /\ word2 \in Seq(Bytes)
        BY <1>4, <1>6
    <2>1. front \o word2 \in Seq(Bytes) /\ Len(front \o word2) = Len(front) + Len(word2)
        BY ConcatType
    <2>. QED  BY <1>1, <1>4, <1>5, <1>6, <2>1
<1>10. \A i \in 1..4 + WordLen : data[i] = front[i]
    <2>. front \in Seq(Bytes) /\ word2 \in Seq(Bytes)
        BY <1>4, <1>6
    <2>1. \A i \in 1..Len(front) : (front \o word2)[i] = front[i]
        BY ConcatFront
    <2>. QED  BY <1>5, <1>6, <2>1
<1>11. \A i \in 1..WordLen : data[(4 + WordLen) + i] = word2[i]
    <2>. front \in Seq(Bytes) /\ word2 \in Seq(Bytes)
        BY <1>4, <1>6
    <2>1. \A i \in 1..Len(word2) : (front \o word2)[Len(front) + i] = word2[i]
        BY ConcatBack
    <2>. QED  BY <1>4, <1>5, <1>6, <2>1
<1>12. SubSeq(data, 0 + 1, 0 + Len(name)) = name
    <2>1. 0 \in Nat /\ 0 + Len(name) <= Len(data)
        BY <1>1, <1>2, <1>9
    <2>2. \A i \in 1..Len(name) : data[0 + i] = name[i]
        BY <1>1, <1>2, <1>7, <1>10
    <2>. QED  BY <1>2, <1>9, <2>1, <2>2, Part
<1>13. SubSeq(data, 4 + 1, 4 + Len(word1)) = word1
    <2>1. 4 \in Nat /\ 4 + Len(word1) <= Len(data)
        BY <1>1, <1>3, <1>9
    <2>2. \A i \in 1..Len(word1) : data[4 + i] = word1[i]
        BY <1>1, <1>3, <1>8, <1>10
    <2>. QED  BY <1>3, <1>9, <2>1, <2>2, Part
<1>14. SubSeq(data, (4 + WordLen) + 1, (4 + WordLen) + Len(word2)) = word2
    <2>1. 4 + WordLen \in Nat /\ (4 + WordLen) + Len(word2) <= Len(data)
        BY <1>1, <1>4, <1>9
    <2>2. \A i \in 1..Len(word2) : data[(4 + WordLen) + i] = word2[i]
        BY <1>4, <1>11
    <2>. QED  BY <1>4, <1>9, <2>1, <2>2, Part
<1>15. /\ 0 + 1 = 1 /\ 0 + Len(name) = 4 /\ 4 + 1 = 5 /\ 4 + Len(word1) = 4 + WordLen
       /\ (4 + WordLen) + 1 = 5 + WordLen /\ (4 + WordLen) + Len(word2) = 4 + 2 * WordLen
    <2>1. Len(name) = 4 /\ Len(word1) = WordLen /\ Len(word2) = WordLen
        BY <1>2, <1>3, <1>4
    <2>. QED  BY <1>1, <2>1
<1>16. SubSeq(data, 1, 4) = name /\ SubSeq(data, 5, 4 + WordLen) = word1
       /\ SubSeq(data, 5 + WordLen, 4 + 2 * WordLen) = word2
    BY <1>12, <1>13, <1>14, <1>15, Zenon
<1>. QED  BY <1>3, <1>9, <1>16, Zenon DEF name, word1, word2, data

LEMMA QueryData ==
    /\ generateCallDataForTotalSupply \in Seq(Bytes) /\ Len(generateCallDataForTotalSupply) = 4
    /\ \A to \in Seq(Bytes) : Len(to) = AddressLen =>
          /\ generateCallDataForBalanceOf(to) \in Seq(Bytes)
          /\ Len(generateCallDataForBalanceOf(to)) = 4 + WordLen
<1>1. generateCallDataForTotalSupply \in Seq(Bytes) /\ Len(generateCallDataForTotalSupply) = 4
    <2>. 24 \in Bytes /\ 22 \in Bytes /\ 13 \in Bytes /\ 221 \in Bytes
        BY DEF Bytes
    <2>. QED  BY DEF generateCallDataForTotalSupply
<1>2. ASSUME NEW to \in Seq(Bytes), Len(to) = AddressLen
      PROVE  /\ generateCallDataForBalanceOf(to) \in Seq(Bytes)
             /\ Len(generateCallDataForBalanceOf(to)) = 4 + WordLen
    <2>. DEFINE name == <<112, 160, 130, 49>>
                word == generateBytesForAddress(to)
    <2>1. name \in Seq(Bytes) /\ Len(name) = 4
        <3>. 112 \in Bytes /\ 160 \in Bytes /\ 130 \in Bytes /\ 49 \in Bytes
            BY DEF Bytes
        <3>. QED  OBVIOUS
    <2>2. word \in Seq(Bytes) /\ Len(word) = WordLen
        BY <1>2, AddressWord
    <2>3. generateCallDataForBalanceOf(to) = name \o word
        BY DEF generateCallDataForBalanceOf
    <2>. HIDE DEF name, word
    <2>4. name \in Seq(Bytes) /\ word \in Seq(Bytes)
        BY <2>1, <2>2
    <2>5. name \o word \in Seq(Bytes) /\ Len(name \o word) = Len(name) + Len(word)
        BY <2>4, ConcatType
    <2>. QED  BY <2>1, <2>2, <2>3, <2>5
<1>. QED  BY <1>1, <1>2
-----------------------------------------------------------------------------
(* Two wrong characters.  The checksum of what is typed and that of what was *)
(* written differ by a remainder that begins with the first wrong group, is  *)
(* multiplied on with zeros, has the second added to it and is multiplied on *)
(* again.  The field has 32 elements; what is left when a remainder is       *)
(* multiplied by one of them does not change.                                *)

\* A sum of sums may be added in any order.
LEMMA Rearranged ==
    ASSUME NEW a \in Coefficients, NEW b \in Coefficients,
           NEW c \in Coefficients, NEW d \in Coefficients
    PROVE  Xor6(Xor6(a, b), Xor6(c, d)) = Xor6(Xor6(a, c), Xor6(b, d))
<1>1. /\ Xor6(a, b) \in Coefficients
      /\ Xor6(c, d) \in Coefficients
      /\ Xor6(b, d) \in Coefficients
    BY Xor6Type
<1>2. Xor6(Xor6(a, b), Xor6(c, d)) = Xor6(a, Xor6(b, Xor6(c, d)))
    BY <1>1, Xor6Associates
<1>3. Xor6(b, Xor6(c, d)) = Xor6(Xor6(b, c), d)
    BY Xor6Associates
<1>4. Xor6(Xor6(b, c), d) = Xor6(Xor6(c, b), d)
    BY Xor6Commutes
<1>5. Xor6(Xor6(c, b), d) = Xor6(c, Xor6(b, d))
    BY Xor6Associates
<1>6. Xor6(a, Xor6(c, Xor6(b, d))) = Xor6(Xor6(a, c), Xor6(b, d))
    BY <1>1, Xor6Associates
<1>. QED  BY <1>2, <1>3, <1>4, <1>5, <1>6, Zenon

LEMMA GeneratorType ==
    \A n \in 1..5 : Generator[n] \in Coefficients
<1>1. <<29, 22, 20, 21, 29, 18>> \in Coefficients /\ <<19,  5,  1,  3, 19, 13>> \in Coefficients
      /\ <<15, 10,  2,  6, 15, 26>> \in Coefficients /\ <<30, 20,  4, 12, 30, 29>> \in Coefficients
      /\ <<21,  1,  8, 24, 21, 19>> \in Coefficients
    BY DEF Coefficients, Groups
<1>2. \A n \in 1..5 : n = 1 \/ n = 2 \/ n = 3 \/ n = 4 \/ n = 5
    OBVIOUS
<1>. QED  BY <1>1, <1>2 DEF Generator

LEMMA TimesType ==
    \A n \in 1..5 : \A k : Times(k, n) \in Coefficients
BY GeneratorType, ZeroType DEF Times

LEMMA TimesAdds ==
    ASSUME NEW n \in 1..5, NEW p \in Nat, NEW q \in Nat, NEW r \in Nat, r % 2 = (p + q) % 2
    PROVE  Times(r, n) = Xor6(Times(p, n), Times(q, n))
<1>. DEFINE g == Generator[n]
<1>1. g \in Coefficients
    BY GeneratorType
<1>2. Xor6(g, g) = Zero /\ Xor6(g, Zero) = g /\ Xor6(Zero, g) = g /\ Xor6(Zero, Zero) = Zero
    BY <1>1, Xor6Self, ZeroType
<1>3. \/ p % 2 = 1 /\ q % 2 = 1 /\ r % 2 # 1
      \/ p % 2 = 1 /\ q % 2 # 1 /\ r % 2 = 1
      \/ p % 2 # 1 /\ q % 2 = 1 /\ r % 2 = 1
      \/ p % 2 # 1 /\ q % 2 # 1 /\ r % 2 # 1
    OBVIOUS
<1>. QED  BY <1>2, <1>3, Zenon DEF Times

\* What is added for the sum of two groups is the sum of what is for each.
LEMMA CarryAdds ==
    ASSUME NEW x \in Groups, NEW y \in Groups
    PROVE  Carry[Xor5(x, y)] = Xor6(Carry[x], Carry[y])
<1>. DEFINE z == Xor5(x, y)
            x1 == Times(x, 1)
            x2 == Times(x \div 2, 2)
            x3 == Times(x \div 4, 3)
            x4 == Times(x \div 8, 4)
            x5 == Times(x \div 16, 5)
            y1 == Times(y, 1)
            y2 == Times(y \div 2, 2)
            y3 == Times(y \div 4, 3)
            y4 == Times(y \div 8, 4)
            y5 == Times(y \div 16, 5)
<1>1. \A w \in Groups : w \in Nat /\ w \div 2 \in Nat /\ w \div 4 \in Nat
                        /\ w \div 8 \in Nat /\ w \div 16 \in Nat
    BY DEF Groups
<1>2. z \in Groups
    BY Xor5Type
<1>. HIDE DEF z
<1>3. /\ z % 2 = (x + y) % 2
      /\ (z \div 2) % 2 = (x \div 2 + y \div 2) % 2
      /\ (z \div 4) % 2 = (x \div 4 + y \div 4) % 2
      /\ (z \div 8) % 2 = (x \div 8 + y \div 8) % 2
      /\ (z \div 16) % 2 = (x \div 16 + y \div 16) % 2
    <2>0. \A e, p, q \in Nat : (2 * e + ((p + q) % 2)) % 2 = (p + q) % 2
                               /\ ((p + q) % 2) % 2 = (p + q) % 2
        OBVIOUS
    <2>1. PICK e \in Nat : z = 2 * e + ((x + y) % 2)
        BY Xor5Parts DEF z
    <2>2. PICK f \in Nat : z \div 2 = 2 * f + ((x \div 2 + y \div 2) % 2)
        BY Xor5Parts DEF z
    <2>3. PICK g \in Nat : z \div 4 = 2 * g + ((x \div 4 + y \div 4) % 2)
        BY Xor5Parts DEF z
    <2>4. PICK h \in Nat : z \div 8 = 2 * h + ((x \div 8 + y \div 8) % 2)
        BY Xor5Parts DEF z
    <2>5. z \div 16 = (x \div 16 + y \div 16) % 2
        BY Xor5Parts DEF z
    <2>6. z % 2 = (x + y) % 2
        BY <1>1, <2>0, <2>1
    <2>7. (z \div 2) % 2 = (x \div 2 + y \div 2) % 2
        BY <1>1, <2>0, <2>2
    <2>8. (z \div 4) % 2 = (x \div 4 + y \div 4) % 2
        BY <1>1, <2>0, <2>3
    <2>9. (z \div 8) % 2 = (x \div 8 + y \div 8) % 2
        BY <1>1, <2>0, <2>4
    <2>10. (z \div 16) % 2 = (x \div 16 + y \div 16) % 2
        BY <1>1, <2>0, <2>5
    <2>. QED  BY <2>6, <2>7, <2>8, <2>9, <2>10
<1>4. /\ Times(z, 1) = Xor6(x1, y1)
      /\ Times(z \div 2, 2) = Xor6(x2, y2)
      /\ Times(z \div 4, 3) = Xor6(x3, y3)
      /\ Times(z \div 8, 4) = Xor6(x4, y4)
      /\ Times(z \div 16, 5) = Xor6(x5, y5)
    <2>1. Times(z, 1) = Xor6(x1, y1)
        <3>1. x \in Nat /\ y \in Nat /\ z \in Nat
            BY <1>1, <1>2
        <3>2. z % 2 = (x + y) % 2
            BY <1>3
        <3>. QED  BY <3>1, <3>2, TimesAdds
    <2>2. Times(z \div 2, 2) = Xor6(x2, y2)
        <3>1. x \div 2 \in Nat /\ y \div 2 \in Nat /\ z \div 2 \in Nat
            BY <1>1, <1>2
        <3>2. (z \div 2) % 2 = (x \div 2 + y \div 2) % 2
            BY <1>3
        <3>3. Times(z \div 2, 2) = Xor6(Times(x \div 2, 2), Times(y \div 2, 2))
            BY <3>1, <3>2, TimesAdds
        <3>. QED  BY <3>3, Zenon
    <2>3. Times(z \div 4, 3) = Xor6(x3, y3)
        <3>1. x \div 4 \in Nat /\ y \div 4 \in Nat /\ z \div 4 \in Nat
            BY <1>1, <1>2
        <3>2. (z \div 4) % 2 = (x \div 4 + y \div 4) % 2
            BY <1>3
        <3>3. Times(z \div 4, 3) = Xor6(Times(x \div 4, 3), Times(y \div 4, 3))
            BY <3>1, <3>2, TimesAdds
        <3>. QED  BY <3>3, Zenon
    <2>4. Times(z \div 8, 4) = Xor6(x4, y4)
        <3>1. x \div 8 \in Nat /\ y \div 8 \in Nat /\ z \div 8 \in Nat
            BY <1>1, <1>2
        <3>2. (z \div 8) % 2 = (x \div 8 + y \div 8) % 2
            BY <1>3
        <3>3. Times(z \div 8, 4) = Xor6(Times(x \div 8, 4), Times(y \div 8, 4))
            BY <3>1, <3>2, TimesAdds
        <3>. QED  BY <3>3, Zenon
    <2>5. Times(z \div 16, 5) = Xor6(x5, y5)
        <3>1. x \div 16 \in Nat /\ y \div 16 \in Nat /\ z \div 16 \in Nat
            BY <1>1, <1>2
        <3>2. (z \div 16) % 2 = (x \div 16 + y \div 16) % 2
            BY <1>3
        <3>3. Times(z \div 16, 5) = Xor6(Times(x \div 16, 5), Times(y \div 16, 5))
            BY <3>1, <3>2, TimesAdds
        <3>. QED  BY <3>3, Zenon
    <2>. QED  BY <2>1, <2>2, <2>3, <2>4, <2>5
<1>5. /\ x1 \in Coefficients /\ x2 \in Coefficients /\ x3 \in Coefficients
      /\ x4 \in Coefficients /\ x5 \in Coefficients
      /\ y1 \in Coefficients /\ y2 \in Coefficients /\ y3 \in Coefficients
      /\ y4 \in Coefficients /\ y5 \in Coefficients
    BY TimesType
<1>6. /\ Carry[x] = Xor6(x1, Xor6(x2, Xor6(x3, Xor6(x4, x5))))
      /\ Carry[y] = Xor6(y1, Xor6(y2, Xor6(y3, Xor6(y4, y5))))
      /\ Carry[z] = Xor6(Xor6(x1, y1), Xor6(Xor6(x2, y2), Xor6(Xor6(x3, y3),
                         Xor6(Xor6(x4, y4), Xor6(x5, y5)))))
    <2>1. \A w \in Groups : Carry[w] =
              Xor6(Times(w, 1), Xor6(Times(w \div 2, 2), Xor6(Times(w \div 4, 3),
                   Xor6(Times(w \div 8, 4), Times(w \div 16, 5)))))
        BY Zenon DEF Carry
    <2>2. Carry[z] = Xor6(Times(z, 1), Xor6(Times(z \div 2, 2), Xor6(Times(z \div 4, 3),
                   Xor6(Times(z \div 8, 4), Times(z \div 16, 5)))))
        BY <1>2, <2>1, Zenon
    <2>. QED  BY <1>4, <2>1, <2>2, Zenon
<1>. HIDE DEF x1, x2, x3, x4, x5, y1, y2, y3, y4, y5
<1>. DEFINE x45 == Xor6(x4, x5)
            y45 == Xor6(y4, y5)
            x345 == Xor6(x3, x45)
            y345 == Xor6(y3, y45)
            x25 == Xor6(x2, x345)
            y25 == Xor6(y2, y345)
<1>7. Xor6(Xor6(x4, y4), Xor6(x5, y5)) = Xor6(x45, y45)
      /\ x45 \in Coefficients /\ y45 \in Coefficients
    <2>1. x45 \in Coefficients /\ y45 \in Coefficients
        BY <1>5, Xor6Type
    <2>2. Xor6(Xor6(x4, y4), Xor6(x5, y5)) = Xor6(x45, y45)
        BY <1>5, Rearranged
    <2>. QED  BY <2>1, <2>2
<1>. HIDE DEF x45, y45
<1>8. Xor6(Xor6(x3, y3), Xor6(x45, y45)) = Xor6(x345, y345)
      /\ x345 \in Coefficients /\ y345 \in Coefficients
    <2>1. x345 \in Coefficients /\ y345 \in Coefficients
        BY <1>5, <1>7, Xor6Type
    <2>2. Xor6(Xor6(x3, y3), Xor6(x45, y45)) = Xor6(x345, y345)
        BY <1>5, <1>7, Rearranged
    <2>. QED  BY <2>1, <2>2
<1>. HIDE DEF x345, y345
<1>9. Xor6(Xor6(x2, y2), Xor6(x345, y345)) = Xor6(x25, y25)
      /\ x25 \in Coefficients /\ y25 \in Coefficients
    <2>1. x25 \in Coefficients /\ y25 \in Coefficients
        BY <1>5, <1>8, Xor6Type
    <2>2. Xor6(Xor6(x2, y2), Xor6(x345, y345)) = Xor6(x25, y25)
        BY <1>5, <1>8, Rearranged
    <2>. QED  BY <2>1, <2>2
<1>. HIDE DEF x25, y25
<1>10. Xor6(Xor6(x1, y1), Xor6(x25, y25)) = Xor6(Xor6(x1, x25), Xor6(y1, y25))
    BY <1>5, <1>9, Rearranged
<1>. QED  BY <1>6, <1>7, <1>8, <1>9, <1>10, Zenon DEF x45, y45, x345, y345, x25, y25, z

\* So for a step of the checksum: the remainders of two texts differ by that
\* of their difference.
LEMMA MultipliedAdds ==
    ASSUME NEW s \in Coefficients, NEW t \in Coefficients, NEW x \in Groups, NEW y \in Groups
    PROVE  Multiplied(Xor6(s, t), Xor5(x, y)) = Xor6(Multiplied(s, x), Multiplied(t, y))
<1>. DEFINE u == Xor6(s, t)
<1>1. s[1] \in Groups /\ t[1] \in Groups /\ u[1] = Xor5(s[1], t[1]) /\ u \in Coefficients
    BY Xor6Type DEF Coefficients, Xor6
<1>2. Shifted(u, Xor5(x, y)) = Xor6(Shifted(s, x), Shifted(t, y))
    <2>1. \A i \in 1..6 : u[i] = Xor5(s[i], t[i])
        BY DEF Xor6
    <2>. HIDE DEF u
    <2>. DEFINE e == Shifted(s, x)
                f == Shifted(t, y)
                g == Shifted(u, Xor5(x, y))
    <2>2. /\ g[1] = Xor5(e[1], f[1]) /\ g[2] = Xor5(e[2], f[2]) /\ g[3] = Xor5(e[3], f[3])
          /\ g[4] = Xor5(e[4], f[4]) /\ g[5] = Xor5(e[5], f[5]) /\ g[6] = Xor5(e[6], f[6])
        BY <2>1 DEF Shifted
    <2>3. g \in Coefficients
        BY <1>1, Xor5Type, ShiftedType
    <2>. HIDE DEF e, f, g
    <2>4. \A i \in 1..6 : i = 1 \/ i = 2 \/ i = 3 \/ i = 4 \/ i = 5 \/ i = 6
        OBVIOUS
    <2>5. \A i \in 1..6 : g[i] = Xor5(e[i], f[i])
        BY <2>2, <2>4, Zenon
    <2>6. g = [i \in 1..6 |-> g[i]]
        BY <2>3 DEF Coefficients
    <2>. QED  BY <2>5, <2>6 DEF Xor6, e, f, g
<1>3. Carry[u[1]] = Xor6(Carry[s[1]], Carry[t[1]])
    BY <1>1, CarryAdds
<1>4. /\ Shifted(s, x) \in Coefficients /\ Shifted(t, y) \in Coefficients
      /\ Carry[s[1]] \in Coefficients /\ Carry[t[1]] \in Coefficients
    BY <1>1, ShiftedType, CarryType
<1>5. Xor6(Xor6(Shifted(s, x), Shifted(t, y)), Xor6(Carry[s[1]], Carry[t[1]]))
          = Xor6(Xor6(Shifted(s, x), Carry[s[1]]), Xor6(Shifted(t, y), Carry[t[1]]))
    BY <1>4, Rearranged
<1>. QED  BY <1>2, <1>3, <1>5, Zenon DEF Multiplied, u

\* Twice a group, as an element of the field.
Twice(x) == IF x < 16 THEN 2 * x ELSE Xor5(2 * x - 32, 9)
TwiceAll(c) == [i \in 1..6 |-> Twice(c[i])]

LEMMA TwiceType ==
    /\ Twice(0) = 0
    /\ \A x \in Groups : Twice(x) \in Groups /\ (x # 0 => Twice(x) # 0)
    /\ \A c \in Coefficients : TwiceAll(c) \in Coefficients
<1>1. Twice(0) = 0
    BY DEF Twice
<1>2. \A x \in Groups : Twice(x) \in Groups /\ (x # 0 => Twice(x) # 0)
    BY DEF Twice, Groups, Xor5
<1>. QED  BY <1>1, <1>2 DEF TwiceAll, Coefficients

\* Twice a sum is the sum of both taken twice.
LEMMA TwiceAdds ==
    ASSUME NEW x \in Groups, NEW y \in Groups
    PROVE  Twice(Xor5(x, y)) = Xor5(Twice(x), Twice(y))
<1>1. \A p, q \in Groups : p < 16 /\ q < 16 => Twice(Xor5(p, q)) = Xor5(Twice(p), Twice(q))
    BY DEF Twice, Xor5, Groups
<1>2. \A q \in Groups : Twice(Xor5(16, q)) = Xor5(9, Twice(q))
    BY DEF Twice, Xor5, Groups
<1>3. \A p \in Groups : p >= 16 => p - 16 \in Groups /\ p - 16 < 16 /\ p = Xor5(16, p - 16)
    BY DEF Xor5, Groups
<1>4. 16 \in Groups /\ 9 \in Groups
    BY DEF Groups
<1>5. ASSUME NEW p \in Groups, NEW q \in Groups, p >= 16,
             Twice(Xor5(p - 16, q)) = Xor5(Twice(p - 16), Twice(q))
      PROVE  Twice(Xor5(p, q)) = Xor5(Twice(p), Twice(q))
    <2>. DEFINE r == p - 16
    <2>1. r \in Groups /\ p = Xor5(16, r) /\ Xor5(r, q) \in Groups
          /\ Twice(r) \in Groups /\ Twice(q) \in Groups
        BY <1>3, <1>5, Xor5Type, TwiceType
    <2>. HIDE DEF r
    <2>2. Xor5(p, q) = Xor5(16, Xor5(r, q))
        BY <1>4, <2>1, Xor5Associates
    <2>3. Twice(Xor5(p, q)) = Xor5(9, Xor5(Twice(r), Twice(q)))
        BY <1>2, <1>5, <2>1, <2>2 DEF r
    <2>4. Xor5(9, Xor5(Twice(r), Twice(q))) = Xor5(Xor5(9, Twice(r)), Twice(q))
        BY <1>4, <2>1, Xor5Associates
    <2>. QED  BY <1>2, <2>1, <2>3, <2>4
<1>6. ASSUME NEW p \in Groups, NEW q \in Groups, q < 16
      PROVE  Twice(Xor5(p, q)) = Xor5(Twice(p), Twice(q))
    <2>1. CASE p < 16
        BY <1>1, <1>6, <2>1
    <2>2. CASE p >= 16
        BY <1>1, <1>3, <1>5, <1>6, <2>2
    <2>3. p < 16 \/ p >= 16
        BY DEF Groups
    <2>. QED  BY <2>1, <2>2, <2>3
<1>7. CASE x < 16
    <2>1. Xor5(x, y) = Xor5(y, x) /\ Xor5(Twice(x), Twice(y)) = Xor5(Twice(y), Twice(x))
        BY Xor5Commutes, TwiceType
    <2>. QED  BY <1>6, <1>7, <2>1
<1>8. CASE x >= 16
    <2>1. x - 16 \in Groups /\ x - 16 < 16
        BY <1>3, <1>8
    <2>2. Xor5(x - 16, y) = Xor5(y, x - 16)
          /\ Xor5(Twice(x - 16), Twice(y)) = Xor5(Twice(y), Twice(x - 16))
        BY <2>1, Xor5Commutes, TwiceType
    <2>3. Twice(Xor5(x - 16, y)) = Xor5(Twice(x - 16), Twice(y))
        BY <1>6, <2>1, <2>2
    <2>. QED  BY <1>5, <1>8, <2>3
<1>9. x < 16 \/ x >= 16
    BY DEF Groups
<1>. QED  BY <1>7, <1>8, <1>9

\* Carry, value by value.
LEMMA CarrySum ==
    \A x, y \in Groups : \A k1, k2, k3, k4, k5, k6, l1, l2, l3, l4, l5, l6 :
        Carry[x] = <<k1, k2, k3, k4, k5, k6>> /\ Carry[y] = <<l1, l2, l3, l4, l5, l6>>
            => Carry[Xor5(x, y)] = <<Xor5(k1, l1), Xor5(k2, l2), Xor5(k3, l3),
                                     Xor5(k4, l4), Xor5(k5, l5), Xor5(k6, l6)>>
<1>1. \A a, b : Xor6(a, b) = <<Xor5(a[1], b[1]), Xor5(a[2], b[2]), Xor5(a[3], b[3]),
                               Xor5(a[4], b[4]), Xor5(a[5], b[5]), Xor5(a[6], b[6])>>
    BY DEF Xor6
<1>2. \A x, y \in Groups : Carry[Xor5(x, y)] =
          <<Xor5(Carry[x][1], Carry[y][1]), Xor5(Carry[x][2], Carry[y][2]),
            Xor5(Carry[x][3], Carry[y][3]), Xor5(Carry[x][4], Carry[y][4]),
            Xor5(Carry[x][5], Carry[y][5]), Xor5(Carry[x][6], Carry[y][6])>>
    BY <1>1, CarryAdds, Zenon
<1>. QED  BY <1>2

\* What Multiplied adds for each group but the sums of others,
LEMMA CarryOfBits ==
    /\ Carry[0] = <<0, 0, 0, 0, 0, 0>>
    /\ Carry[1] = <<29, 22, 20, 21, 29, 18>>
    /\ Carry[2] = <<19, 5, 1, 3, 19, 13>>
    /\ Carry[4] = <<15, 10, 2, 6, 15, 26>>
    /\ Carry[8] = <<30, 20, 4, 12, 30, 29>>
    /\ Carry[16] = <<21, 1, 8, 24, 21, 19>>
<1>1. Carry[0] = <<0, 0, 0, 0, 0, 0>>
    <2>1. Carry[0] = Xor6(Zero, Xor6(Zero, Xor6(Zero, Xor6(Zero, Zero))))
        BY DEF Carry, Times, Groups
    <2>. QED  BY <2>1, ZeroType, GeneratorType, Xor6Self DEF Zero, Generator
<1>2. Carry[1] = <<29, 22, 20, 21, 29, 18>>
    <2>1. Carry[1] = Xor6(Generator[1], Xor6(Zero, Xor6(Zero, Xor6(Zero, Zero))))
        BY DEF Carry, Times, Groups
    <2>. QED  BY <2>1, ZeroType, GeneratorType, Xor6Self DEF Zero, Generator
<1>3. Carry[2] = <<19, 5, 1, 3, 19, 13>>
    <2>1. Carry[2] = Xor6(Zero, Xor6(Generator[2], Xor6(Zero, Xor6(Zero, Zero))))
        BY DEF Carry, Times, Groups
    <2>. QED  BY <2>1, ZeroType, GeneratorType, Xor6Self DEF Zero, Generator
<1>4. Carry[4] = <<15, 10, 2, 6, 15, 26>>
    <2>1. Carry[4] = Xor6(Zero, Xor6(Zero, Xor6(Generator[3], Xor6(Zero, Zero))))
        BY DEF Carry, Times, Groups
    <2>. QED  BY <2>1, ZeroType, GeneratorType, Xor6Self DEF Zero, Generator
<1>5. Carry[8] = <<30, 20, 4, 12, 30, 29>>
    <2>1. Carry[8] = Xor6(Zero, Xor6(Zero, Xor6(Zero, Xor6(Generator[4], Zero))))
        BY DEF Carry, Times, Groups
    <2>. QED  BY <2>1, ZeroType, GeneratorType, Xor6Self DEF Zero, Generator
<1>6. Carry[16] = <<21, 1, 8, 24, 21, 19>>
    <2>1. Carry[16] = Xor6(Zero, Xor6(Zero, Xor6(Zero, Xor6(Zero, Generator[5]))))
        BY DEF Carry, Times, Groups
    <2>. QED  BY <2>1, ZeroType, GeneratorType, Xor6Self DEF Zero, Generator
<1>. QED  BY <1>1, <1>2, <1>3, <1>4, <1>5, <1>6

\* and for those of two bits, of three and of more.
LEMMA CarryOfTwo ==
    /\ Carry[3] = <<14, 19, 21, 22, 14, 31>>
    /\ Carry[5] = <<18, 28, 22, 19, 18, 8>>
    /\ Carry[6] = <<28, 15, 3, 5, 28, 23>>
    /\ Carry[9] = <<3, 2, 16, 25, 3, 15>>
    /\ Carry[10] = <<13, 17, 5, 15, 13, 16>>
    /\ Carry[12] = <<17, 30, 6, 10, 17, 7>>
    /\ Carry[17] = <<8, 23, 28, 13, 8, 1>>
    /\ Carry[18] = <<6, 4, 9, 27, 6, 30>>
    /\ Carry[20] = <<26, 11, 10, 30, 26, 9>>
    /\ Carry[24] = <<11, 21, 12, 20, 11, 14>>
<1>1. /\ Xor5(2, 1) = 3
      /\ Xor5(4, 1) = 5
      /\ Xor5(4, 2) = 6
      /\ Xor5(8, 1) = 9
      /\ Xor5(8, 2) = 10
      /\ Xor5(8, 4) = 12
      /\ Xor5(16, 1) = 17
      /\ Xor5(16, 2) = 18
      /\ Xor5(16, 4) = 20
      /\ Xor5(16, 8) = 24
    BY DEF Xor5
<1>2. /\ 1 \in Groups /\ 2 \in Groups /\ 4 \in Groups /\ 8 \in Groups /\ 16 \in Groups
    BY DEF Groups
<1>3. /\ Carry[3] = <<14, 19, 21, 22, 14, 31>>
      /\ Carry[5] = <<18, 28, 22, 19, 18, 8>>
      /\ Carry[6] = <<28, 15, 3, 5, 28, 23>>
      /\ Carry[9] = <<3, 2, 16, 25, 3, 15>>
    <2>1. /\ Carry[1] = <<29, 22, 20, 21, 29, 18>>
          /\ Carry[2] = <<19, 5, 1, 3, 19, 13>>
          /\ Carry[4] = <<15, 10, 2, 6, 15, 26>>
          /\ Carry[8] = <<30, 20, 4, 12, 30, 29>>
        BY CarryOfBits
    <2>. QED  BY <1>1, <1>2, <2>1, CarrySum DEF Xor5
<1>4. /\ Carry[10] = <<13, 17, 5, 15, 13, 16>>
      /\ Carry[12] = <<17, 30, 6, 10, 17, 7>>
      /\ Carry[17] = <<8, 23, 28, 13, 8, 1>>
      /\ Carry[18] = <<6, 4, 9, 27, 6, 30>>
    <2>1. /\ Carry[1] = <<29, 22, 20, 21, 29, 18>>
          /\ Carry[2] = <<19, 5, 1, 3, 19, 13>>
          /\ Carry[4] = <<15, 10, 2, 6, 15, 26>>
          /\ Carry[8] = <<30, 20, 4, 12, 30, 29>>
          /\ Carry[16] = <<21, 1, 8, 24, 21, 19>>
        BY CarryOfBits
    <2>. QED  BY <1>1, <1>2, <2>1, CarrySum DEF Xor5
<1>5. /\ Carry[20] = <<26, 11, 10, 30, 26, 9>>
      /\ Carry[24] = <<11, 21, 12, 20, 11, 14>>
    <2>1. /\ Carry[4] = <<15, 10, 2, 6, 15, 26>>
          /\ Carry[8] = <<30, 20, 4, 12, 30, 29>>
          /\ Carry[16] = <<21, 1, 8, 24, 21, 19>>
        BY CarryOfBits
    <2>. QED  BY <1>1, <1>2, <2>1, CarrySum DEF Xor5
<1>. QED  BY <1>3, <1>4, <1>5

LEMMA CarryOfThree ==
    /\ Carry[7] = <<1, 25, 23, 16, 1, 5>>
    /\ Carry[11] = <<16, 7, 17, 26, 16, 2>>
    /\ Carry[13] = <<12, 8, 18, 31, 12, 21>>
    /\ Carry[14] = <<2, 27, 7, 9, 2, 10>>
    /\ Carry[19] = <<27, 18, 29, 14, 27, 12>>
    /\ Carry[21] = <<7, 29, 30, 11, 7, 27>>
    /\ Carry[22] = <<9, 14, 11, 29, 9, 4>>
    /\ Carry[25] = <<22, 3, 24, 1, 22, 28>>
    /\ Carry[26] = <<24, 16, 13, 23, 24, 3>>
    /\ Carry[28] = <<4, 31, 14, 18, 4, 20>>
<1>1. /\ Xor5(4, 3) = 7
      /\ Xor5(8, 3) = 11
      /\ Xor5(8, 5) = 13
      /\ Xor5(8, 6) = 14
      /\ Xor5(16, 3) = 19
      /\ Xor5(16, 5) = 21
      /\ Xor5(16, 6) = 22
      /\ Xor5(16, 9) = 25
      /\ Xor5(16, 10) = 26
      /\ Xor5(16, 12) = 28
    BY DEF Xor5
<1>2. {3, 4, 5, 6, 8, 9, 10, 12, 16} \subseteq Groups
    BY DEF Groups
<1>3. /\ Carry[7] = <<1, 25, 23, 16, 1, 5>>
      /\ Carry[11] = <<16, 7, 17, 26, 16, 2>>
      /\ Carry[13] = <<12, 8, 18, 31, 12, 21>>
      /\ Carry[14] = <<2, 27, 7, 9, 2, 10>>
    <2>1. /\ Carry[3] = <<14, 19, 21, 22, 14, 31>>
          /\ Carry[4] = <<15, 10, 2, 6, 15, 26>>
          /\ Carry[5] = <<18, 28, 22, 19, 18, 8>>
          /\ Carry[6] = <<28, 15, 3, 5, 28, 23>>
          /\ Carry[8] = <<30, 20, 4, 12, 30, 29>>
        BY CarryOfBits, CarryOfTwo
    <2>. QED  BY <1>1, <1>2, <2>1, CarrySum DEF Xor5
<1>4. /\ Carry[19] = <<27, 18, 29, 14, 27, 12>>
      /\ Carry[21] = <<7, 29, 30, 11, 7, 27>>
      /\ Carry[22] = <<9, 14, 11, 29, 9, 4>>
      /\ Carry[25] = <<22, 3, 24, 1, 22, 28>>
    <2>1. /\ Carry[3] = <<14, 19, 21, 22, 14, 31>>
          /\ Carry[5] = <<18, 28, 22, 19, 18, 8>>
          /\ Carry[6] = <<28, 15, 3, 5, 28, 23>>
          /\ Carry[9] = <<3, 2, 16, 25, 3, 15>>
          /\ Carry[16] = <<21, 1, 8, 24, 21, 19>>
        BY CarryOfBits, CarryOfTwo
    <2>. QED  BY <1>1, <1>2, <2>1, CarrySum DEF Xor5
<1>5. /\ Carry[26] = <<24, 16, 13, 23, 24, 3>>
      /\ Carry[28] = <<4, 31, 14, 18, 4, 20>>
    <2>1. /\ Carry[10] = <<13, 17, 5, 15, 13, 16>>
          /\ Carry[12] = <<17, 30, 6, 10, 17, 7>>
          /\ Carry[16] = <<21, 1, 8, 24, 21, 19>>
        BY CarryOfBits, CarryOfTwo
    <2>. QED  BY <1>1, <1>2, <2>1, CarrySum DEF Xor5
<1>. QED  BY <1>3, <1>4, <1>5

LEMMA CarryOfMore ==
    /\ Carry[15] = <<31, 13, 19, 28, 31, 24>>
    /\ Carry[23] = <<20, 24, 31, 8, 20, 22>>
    /\ Carry[27] = <<5, 6, 25, 2, 5, 17>>
    /\ Carry[29] = <<25, 9, 26, 7, 25, 6>>
    /\ Carry[30] = <<23, 26, 15, 17, 23, 25>>
    /\ Carry[31] = <<10, 12, 27, 4, 10, 11>>
<1>1. /\ Xor5(8, 7) = 15
      /\ Xor5(16, 7) = 23
      /\ Xor5(16, 11) = 27
      /\ Xor5(16, 13) = 29
      /\ Xor5(16, 14) = 30
      /\ Xor5(16, 15) = 31
    BY DEF Xor5
<1>2. {7, 8, 11, 13, 14, 15, 16} \subseteq Groups
    BY DEF Groups
<1>3. /\ Carry[15] = <<31, 13, 19, 28, 31, 24>>
      /\ Carry[23] = <<20, 24, 31, 8, 20, 22>>
      /\ Carry[27] = <<5, 6, 25, 2, 5, 17>>
      /\ Carry[29] = <<25, 9, 26, 7, 25, 6>>
    <2>1. /\ Carry[7] = <<1, 25, 23, 16, 1, 5>>
          /\ Carry[8] = <<30, 20, 4, 12, 30, 29>>
          /\ Carry[11] = <<16, 7, 17, 26, 16, 2>>
          /\ Carry[13] = <<12, 8, 18, 31, 12, 21>>
          /\ Carry[16] = <<21, 1, 8, 24, 21, 19>>
        BY CarryOfBits, CarryOfThree
    <2>. QED  BY <1>1, <1>2, <2>1, CarrySum DEF Xor5
<1>4. /\ Carry[30] = <<23, 26, 15, 17, 23, 25>>
      /\ Carry[31] = <<10, 12, 27, 4, 10, 11>>
    <2>1. /\ Carry[14] = <<2, 27, 7, 9, 2, 10>>
          /\ Carry[15] = <<31, 13, 19, 28, 31, 24>>
          /\ Carry[16] = <<21, 1, 8, 24, 21, 19>>
        BY CarryOfBits, CarryOfThree, <1>3
    <2>. QED  BY <1>1, <1>2, <2>1, CarrySum DEF Xor5
<1>. QED  BY <1>3, <1>4

\* What comes of a difference of one in the last group, step by step,
Steps ==
    <<<< 0,  0,  0,  0,  0,  1>>, << 0,  0,  0,  0,  1,  0>>, << 0,  0,  0,  1,  0,  0>>,
      << 0,  0,  1,  0,  0,  0>>, << 0,  1,  0,  0,  0,  0>>, << 1,  0,  0,  0,  0,  0>>,
      <<29, 22, 20, 21, 29, 18>>, <<15, 29, 15, 26, 11,  6>>, << 2,  2,  9, 23, 25, 24>>,
      <<17, 12, 22, 26, 11, 13>>, << 4,  1,  6,  6,  5,  1>>, <<14, 12,  4,  3, 14, 26>>,
      <<14, 31,  4,  7, 24, 10>>, <<29, 31,  0, 17,  8, 10>>, << 6,  9, 11, 15, 19,  6>>,
      <<21,  4, 12, 22, 26, 23>>, << 3, 17,  8, 17, 16, 27>>, <<31, 27,  4,  6, 21, 31>>,
      <<17,  8, 29, 17, 21, 11>>, << 0, 10, 13, 24,  3,  1>>, <<10, 13, 24,  3,  1,  0>>,
      << 0,  9,  6, 14, 13, 16>>, << 9,  6, 14, 13, 16,  0>>, << 5, 12, 29,  9,  3, 15>>,
      <<30,  1, 31, 16, 29,  8>>, <<22,  5, 31, 12, 31, 25>>, <<12, 17,  7,  2, 16,  4>>,
      << 0, 25,  4, 26, 21,  7>>, <<25,  4, 26, 21,  7,  0>>, <<18, 25, 13,  6, 22, 28>>,
      <<31,  9, 15, 13, 26, 30>>, << 3,  3, 22, 30, 20, 11>>, <<13,  5, 11,  2,  5, 31>>,
      << 9,  3, 16, 26, 19, 21>>, << 0, 18, 10, 10, 22, 15>>, <<18, 10, 10, 22, 15,  0>>,
      <<12, 14, 31, 20,  6, 30>>, <<31,  1, 18, 12, 15,  7>>, <<11, 30, 23, 11, 13, 11>>,
      <<14, 16, 26, 23, 27,  2>>, <<18,  1, 16, 18,  0, 10>>, << 7, 20, 27, 27, 12, 30>>,
      <<21,  2, 12, 28, 31,  5>>, << 5, 17,  2, 20,  2, 27>>, << 3, 30,  2, 17,  9,  8>>,
      <<16, 17,  4, 31,  6, 31>>, << 4,  5, 23, 30, 10, 19>>, <<10, 29, 28, 12, 28, 26>>,
      <<16, 13,  9, 19, 23, 16>>, <<24,  8, 27, 15,  5, 19>>, << 3, 14,  3, 17, 24, 14>>,
      << 0, 16,  4, 14,  0, 31>>, <<16,  4, 14,  0, 31,  0>>, <<17, 15,  8,  7, 21, 19>>,
      << 7, 31, 27, 24, 27,  1>>, <<30,  2, 15, 11,  0,  5>>, <<21, 21,  4, 17, 18, 25>>,
      <<18, 25, 15, 25, 30, 27>>, <<31, 11, 16,  5, 29, 30>>, << 1, 28, 30, 25, 20, 11>>,
      << 1,  8, 13,  1, 22, 18>>, <<21, 27, 21,  3, 15, 18>>, <<28,  8, 29,  4, 21, 27>>,
      <<12,  2, 10,  7, 31, 20>>, <<19, 20,  1, 21,  5,  7>>, <<15, 19,  8, 11, 28, 12>>,
      <<12,  5, 24,  0, 19, 24>>, <<20,  6,  6, 25,  9,  7>>, <<28, 13, 19, 23, 29,  9>>,
      << 9, 12, 25, 15, 13, 20>>, <<15, 27, 31, 20, 23, 15>>, << 4, 18,  7, 11, 16, 24>>,
      <<29, 13,  9, 22, 23, 26>>, <<20,  0, 12, 16,  3,  6>>, <<26,  7, 26, 29, 28,  9>>,
      <<31, 10, 16, 11, 17,  3>>, << 0, 28, 16, 21,  9, 11>>, <<28, 16, 21,  9, 11,  0>>,
      <<20, 10,  7, 25,  4, 20>>, <<16, 12, 19, 26, 14,  9>>, <<25, 18, 18, 22, 28, 19>>,
      << 4, 17, 14, 29,  5, 28>>, <<30,  4, 31,  3, 19, 26>>, <<19,  5, 12,  2, 13, 25>>,
      <<30, 30, 31,  3,  2, 12>>, << 9,  5, 12, 19, 27, 25>>, << 6, 14,  3,  2, 26, 15>>>>

\* and what goes to the difference of the two encodings' constants, the last
\* step first.
Back ==
    <<<<21, 28, 16, 12,  5,  2>>, <<11,  5, 27,  1, 22, 21>>, <<13,  7, 13,  9, 30, 26>>,
      << 4,  2, 13, 15, 15, 17>>, <<27,  1,  4, 20, 13, 10>>, <<14, 25, 26,  3, 29, 15>>,
      << 9, 13, 27, 10, 26, 30>>, <<18, 15,  9, 18, 17, 28>>, <<25,  4, 12, 17, 19,  7>>,
      <<12,  8, 26, 10, 27,  2>>, <<11, 28, 15, 11, 16, 11>>, <<31,  1, 16, 20, 15, 26>>,
      << 4, 16, 11, 18, 18,  0>>, << 0,  4, 16, 11, 18, 18>>, << 1, 29, 18,  4, 30, 15>>,
      << 9,  2, 31,  2, 29, 29>>, << 8, 23, 22, 27, 14,  3>>, <<26, 16,  7, 27, 12, 22>>,
      <<23, 14,  8, 24, 19, 24>>, <<15,  8,  3, 27,  4, 12>>, <<19, 20, 26, 30, 21, 31>>,
      << 3, 29,  7, 15,  8, 27>>, <<21,  4,  0, 25,  4, 15>>, << 9, 22,  6, 16,  0,  7>>,
      <<12, 24,  8,  0, 26, 17>>, <<27,  9, 30, 17,  2, 31>>, << 3, 21, 26, 11,  7, 12>>,
      <<19, 24,  7,  7,  5, 28>>, <<25,  5, 27, 31,  6, 19>>, <<16, 12,  4, 19,  7, 19>>,
      <<16,  5, 13, 12, 11, 18>>, << 1, 13, 19, 25, 25, 22>>, <<23, 21, 21, 12, 17, 13>>,
      << 2,  4, 16, 20, 15,  2>>, <<11, 18,  3,  1, 14, 31>>, << 3,  5,  1, 22, 23,  0>>,
      << 0,  3,  5,  1, 22, 23>>, << 6, 28, 12,  6,  4, 10>>, <<14,  4,  7, 11, 15,  6>>,
      <<29, 23, 13, 29, 12, 22>>, <<23,  9, 15, 18, 21, 24>>, <<15,  8,  4, 28, 14, 10>>,
      <<14, 13, 19,  3, 21, 12>>, <<19, 21, 31, 14, 13, 14>>, <<24, 24,  0, 19, 26,  6>>,
      <<29,  1, 17, 26, 20,  3>>, <<26,  5, 17, 28, 13, 12>>, <<19,  1, 23, 12, 18, 22>>,
      <<23,  7, 25,  8,  4,  6>>, <<29, 14, 14,  3, 15, 29>>, << 8,  3, 26, 10, 15, 17>>,
      <<27, 13,  5,  3,  8, 10>>, <<14, 25, 22,  2, 10, 10>>, <<14, 12,  2, 17, 11,  8>>,
      << 5, 28, 16, 20,  2, 25>>, <<30, 18,  6, 31,  5, 21>>, <<13, 18, 26, 20,  0,  9>>,
      <<20, 23, 25, 16, 10, 26>>, << 4, 27, 29, 27, 22,  5>>, << 7,  5,  2, 10, 11, 23>>,
      << 6, 27, 10,  1, 15, 23>>, << 6, 26, 20,  9,  4, 19>>, <<16, 19, 27, 28, 17, 17>>,
      <<27, 21, 21,  2, 30, 20>>, <<28, 31, 10, 27, 16, 26>>, << 4, 19, 21,  8, 29, 31>>,
      << 3, 10,  0,  0, 30, 19>>, <<16, 22, 11,  8, 24, 11>>, <<31, 26, 26, 16, 12, 18>>,
      << 1,  2, 12, 14,  5, 17>>, <<27,  4,  4, 21, 12,  0>>, << 0, 27,  4,  4, 21, 12>>,
      <<19, 27,  9, 25, 10, 14>>, <<24, 24, 14,  5, 13,  1>>, <<17, 16, 15, 18,  8,  5>>,
      << 7, 16,  9, 24,  2,  9>>, <<20, 29, 27,  3,  6, 24>>, <<15, 11, 16,  8, 31, 25>>,
      <<30, 24, 17, 31, 25,  8>>, << 5, 12,  4,  7, 12, 11>>, <<31, 15,  0, 31,  3,  6>>,
      <<29,  6,  6, 26, 24, 26>>, << 4, 18, 12,  4, 28, 23>>, << 6, 24, 29, 15,  1,  0>>,
      << 0,  6, 24, 29, 15,  1>>, <<17,  8, 17,  4, 16,  7>>, <<12,  0, 22, 23, 14,  1>>>>

LEMMA MultipliedIs ==
    \A c1, c2, c3, c4, c5, c6, k1, k2, k3, k4, k5, k6 :
        Carry[c1] = <<k1, k2, k3, k4, k5, k6>>
            => Multiplied(<<c1, c2, c3, c4, c5, c6>>, 0)
                   = <<Xor5(c2, k1), Xor5(c3, k2), Xor5(c4, k3),
                       Xor5(c5, k4), Xor5(c6, k5), Xor5(0, k6)>>
BY DEF Multiplied, Shifted, Xor6

\* The tables say what the checksum does, row by row.
LEMMA StepsGo ==
    \A k \in 1..86 : Multiplied(Steps[k], 0) = Steps[k + 1]
<1>. DEFINE Goes(k) == Multiplied(Steps[k], 0) = Steps[k + 1]
<1>1. Goes(1) /\ Goes(2) /\ Goes(3) /\ Goes(4) /\ Goes(5)
    BY MultipliedIs, CarryOfBits DEF Steps, Xor5
<1>2. Goes(6) /\ Goes(7) /\ Goes(8) /\ Goes(9) /\ Goes(10)
    BY MultipliedIs, CarryOfBits, CarryOfTwo, CarryOfMore DEF Steps, Xor5
<1>3. Goes(11) /\ Goes(12) /\ Goes(13) /\ Goes(14) /\ Goes(15)
    BY MultipliedIs, CarryOfBits, CarryOfTwo, CarryOfThree, CarryOfMore DEF Steps, Xor5
<1>4. Goes(16) /\ Goes(17) /\ Goes(18) /\ Goes(19) /\ Goes(20)
    BY MultipliedIs, CarryOfBits, CarryOfTwo, CarryOfThree, CarryOfMore DEF Steps, Xor5
<1>5. Goes(21) /\ Goes(22) /\ Goes(23) /\ Goes(24) /\ Goes(25)
    BY MultipliedIs, CarryOfBits, CarryOfTwo, CarryOfMore DEF Steps, Xor5
<1>6. Goes(26) /\ Goes(27) /\ Goes(28) /\ Goes(29) /\ Goes(30)
    BY MultipliedIs, CarryOfBits, CarryOfTwo, CarryOfThree DEF Steps, Xor5
<1>7. Goes(31) /\ Goes(32) /\ Goes(33) /\ Goes(34) /\ Goes(35)
    BY MultipliedIs, CarryOfBits, CarryOfTwo, CarryOfThree, CarryOfMore DEF Steps, Xor5
<1>8. Goes(36) /\ Goes(37) /\ Goes(38) /\ Goes(39) /\ Goes(40)
    BY MultipliedIs, CarryOfTwo, CarryOfThree, CarryOfMore DEF Steps, Xor5
<1>9. Goes(41) /\ Goes(42) /\ Goes(43) /\ Goes(44) /\ Goes(45)
    BY MultipliedIs, CarryOfTwo, CarryOfThree DEF Steps, Xor5
<1>10. Goes(46) /\ Goes(47) /\ Goes(48) /\ Goes(49) /\ Goes(50)
    BY MultipliedIs, CarryOfBits, CarryOfTwo DEF Steps, Xor5
<1>11. Goes(51) /\ Goes(52) /\ Goes(53) /\ Goes(54) /\ Goes(55)
    BY MultipliedIs, CarryOfBits, CarryOfTwo, CarryOfThree DEF Steps, Xor5
<1>12. Goes(56) /\ Goes(57) /\ Goes(58) /\ Goes(59) /\ Goes(60)
    BY MultipliedIs, CarryOfBits, CarryOfTwo, CarryOfThree, CarryOfMore DEF Steps, Xor5
<1>13. Goes(61) /\ Goes(62) /\ Goes(63) /\ Goes(64) /\ Goes(65)
    BY MultipliedIs, CarryOfBits, CarryOfTwo, CarryOfThree DEF Steps, Xor5
<1>14. Goes(66) /\ Goes(67) /\ Goes(68) /\ Goes(69) /\ Goes(70)
    BY MultipliedIs, CarryOfTwo, CarryOfThree, CarryOfMore DEF Steps, Xor5
<1>15. Goes(71) /\ Goes(72) /\ Goes(73) /\ Goes(74) /\ Goes(75)
    BY MultipliedIs, CarryOfBits, CarryOfTwo, CarryOfThree, CarryOfMore DEF Steps, Xor5
<1>16. Goes(76) /\ Goes(77) /\ Goes(78) /\ Goes(79) /\ Goes(80)
    BY MultipliedIs, CarryOfBits, CarryOfTwo, CarryOfThree, CarryOfMore DEF Steps, Xor5
<1>17. Goes(81) /\ Goes(82) /\ Goes(83) /\ Goes(84) /\ Goes(85)
    BY MultipliedIs, CarryOfBits, CarryOfThree, CarryOfMore DEF Steps, Xor5
<1>18. Goes(86)
    BY MultipliedIs, CarryOfTwo DEF Steps, Xor5
<1>. HIDE DEF Goes
<1>. QED
    <2>1. \A k \in 1..86 : Goes(k)
        BY <1>1, <1>2, <1>3, <1>4, <1>5, <1>6, <1>7, <1>8, <1>9, <1>10, <1>11,
            <1>12, <1>13, <1>14, <1>15, <1>16, <1>17, <1>18
    <2>. QED  BY <2>1 DEF Goes

LEMMA BackGoes ==
    \A k \in 1..86 : Multiplied(Back[k + 1], 0) = Back[k]
<1>. DEFINE Goes(k) == Multiplied(Back[k + 1], 0) = Back[k]
<1>1. Goes(1) /\ Goes(2) /\ Goes(3) /\ Goes(4) /\ Goes(5)
    BY MultipliedIs, CarryOfBits, CarryOfThree, CarryOfMore DEF Back, Xor5
<1>2. Goes(6) /\ Goes(7) /\ Goes(8) /\ Goes(9) /\ Goes(10)
    BY MultipliedIs, CarryOfTwo, CarryOfThree DEF Back, Xor5
<1>3. Goes(11) /\ Goes(12) /\ Goes(13) /\ Goes(14) /\ Goes(15)
    BY MultipliedIs, CarryOfBits, CarryOfTwo, CarryOfMore DEF Back, Xor5
<1>4. Goes(16) /\ Goes(17) /\ Goes(18) /\ Goes(19) /\ Goes(20)
    BY MultipliedIs, CarryOfBits, CarryOfThree, CarryOfMore DEF Back, Xor5
<1>5. Goes(21) /\ Goes(22) /\ Goes(23) /\ Goes(24) /\ Goes(25)
    BY MultipliedIs, CarryOfTwo, CarryOfThree, CarryOfMore DEF Back, Xor5
<1>6. Goes(26) /\ Goes(27) /\ Goes(28) /\ Goes(29) /\ Goes(30)
    BY MultipliedIs, CarryOfBits, CarryOfTwo, CarryOfThree DEF Back, Xor5
<1>7. Goes(31) /\ Goes(32) /\ Goes(33) /\ Goes(34) /\ Goes(35)
    BY MultipliedIs, CarryOfBits, CarryOfTwo, CarryOfThree, CarryOfMore DEF Back, Xor5
<1>8. Goes(36) /\ Goes(37) /\ Goes(38) /\ Goes(39) /\ Goes(40)
    BY MultipliedIs, CarryOfBits, CarryOfTwo, CarryOfThree, CarryOfMore DEF Back, Xor5
<1>9. Goes(41) /\ Goes(42) /\ Goes(43) /\ Goes(44) /\ Goes(45)
    BY MultipliedIs, CarryOfTwo, CarryOfThree, CarryOfMore DEF Back, Xor5
<1>10. Goes(46) /\ Goes(47) /\ Goes(48) /\ Goes(49) /\ Goes(50)
    BY MultipliedIs, CarryOfBits, CarryOfThree, CarryOfMore DEF Back, Xor5
<1>11. Goes(51) /\ Goes(52) /\ Goes(53) /\ Goes(54) /\ Goes(55)
    BY MultipliedIs, CarryOfTwo, CarryOfThree, CarryOfMore DEF Back, Xor5
<1>12. Goes(56) /\ Goes(57) /\ Goes(58) /\ Goes(59) /\ Goes(60)
    BY MultipliedIs, CarryOfBits, CarryOfTwo, CarryOfThree DEF Back, Xor5
<1>13. Goes(61) /\ Goes(62) /\ Goes(63) /\ Goes(64) /\ Goes(65)
    BY MultipliedIs, CarryOfBits, CarryOfTwo, CarryOfThree, CarryOfMore DEF Back, Xor5
<1>14. Goes(66) /\ Goes(67) /\ Goes(68) /\ Goes(69) /\ Goes(70)
    BY MultipliedIs, CarryOfBits, CarryOfTwo, CarryOfMore DEF Back, Xor5
<1>15. Goes(71) /\ Goes(72) /\ Goes(73) /\ Goes(74) /\ Goes(75)
    BY MultipliedIs, CarryOfBits, CarryOfTwo, CarryOfThree DEF Back, Xor5
<1>16. Goes(76) /\ Goes(77) /\ Goes(78) /\ Goes(79) /\ Goes(80)
    BY MultipliedIs, CarryOfTwo, CarryOfMore DEF Back, Xor5
<1>17. Goes(81) /\ Goes(82) /\ Goes(83) /\ Goes(84) /\ Goes(85)
    BY MultipliedIs, CarryOfBits, CarryOfTwo, CarryOfMore DEF Back, Xor5
<1>18. Goes(86)
    BY MultipliedIs, CarryOfTwo DEF Back, Xor5
<1>. HIDE DEF Goes
<1>. QED
    <2>1. \A k \in 1..86 : Goes(k)
        BY <1>1, <1>2, <1>3, <1>4, <1>5, <1>6, <1>7, <1>8, <1>9, <1>10, <1>11,
            <1>12, <1>13, <1>14, <1>15, <1>16, <1>17, <1>18
    <2>. QED  BY <2>1 DEF Goes

LEMMA CoefficientsAre ==
    \A c1, c2, c3, c4, c5, c6 :
        c1 \in 0..31 /\ c2 \in 0..31 /\ c3 \in 0..31 /\ c4 \in 0..31 /\ c5 \in 0..31
            /\ c6 \in 0..31 => <<c1, c2, c3, c4, c5, c6>> \in Coefficients
BY DEF Coefficients, Groups

LEMMA BackType ==
    \A k \in 1..87 : Back[k] \in Coefficients
<1>. DEFINE Fits(k) == Back[k] \in Coefficients
<1>1. Fits(1) /\ Fits(2) /\ Fits(3) /\ Fits(4) /\ Fits(5)
    BY CoefficientsAre DEF Back
<1>2. Fits(6) /\ Fits(7) /\ Fits(8) /\ Fits(9) /\ Fits(10)
    BY CoefficientsAre DEF Back
<1>3. Fits(11) /\ Fits(12) /\ Fits(13) /\ Fits(14) /\ Fits(15)
    BY CoefficientsAre DEF Back
<1>4. Fits(16) /\ Fits(17) /\ Fits(18) /\ Fits(19) /\ Fits(20)
    BY CoefficientsAre DEF Back
<1>5. Fits(21) /\ Fits(22) /\ Fits(23) /\ Fits(24) /\ Fits(25)
    BY CoefficientsAre DEF Back
<1>6. Fits(26) /\ Fits(27) /\ Fits(28) /\ Fits(29) /\ Fits(30)
    BY CoefficientsAre DEF Back
<1>7. Fits(31) /\ Fits(32) /\ Fits(33) /\ Fits(34) /\ Fits(35)
    BY CoefficientsAre DEF Back
<1>8. Fits(36) /\ Fits(37) /\ Fits(38) /\ Fits(39) /\ Fits(40)
    BY CoefficientsAre DEF Back
<1>9. Fits(41) /\ Fits(42) /\ Fits(43) /\ Fits(44) /\ Fits(45)
    BY CoefficientsAre DEF Back
<1>10. Fits(46) /\ Fits(47) /\ Fits(48) /\ Fits(49) /\ Fits(50)
    BY CoefficientsAre DEF Back
<1>11. Fits(51) /\ Fits(52) /\ Fits(53) /\ Fits(54) /\ Fits(55)
    BY CoefficientsAre DEF Back
<1>12. Fits(56) /\ Fits(57) /\ Fits(58) /\ Fits(59) /\ Fits(60)
    BY CoefficientsAre DEF Back
<1>13. Fits(61) /\ Fits(62) /\ Fits(63) /\ Fits(64) /\ Fits(65)
    BY CoefficientsAre DEF Back
<1>14. Fits(66) /\ Fits(67) /\ Fits(68) /\ Fits(69) /\ Fits(70)
    BY CoefficientsAre DEF Back
<1>15. Fits(71) /\ Fits(72) /\ Fits(73) /\ Fits(74) /\ Fits(75)
    BY CoefficientsAre DEF Back
<1>16. Fits(76) /\ Fits(77) /\ Fits(78) /\ Fits(79) /\ Fits(80)
    BY CoefficientsAre DEF Back
<1>17. Fits(81) /\ Fits(82) /\ Fits(83) /\ Fits(84) /\ Fits(85)
    BY CoefficientsAre DEF Back
<1>18. Fits(86) /\ Fits(87)
    BY CoefficientsAre DEF Back
<1>. HIDE DEF Fits
<1>. QED
    <2>1. \A k \in 1..87 : Fits(k)
        BY <1>1, <1>2, <1>3, <1>4, <1>5, <1>6, <1>7, <1>8, <1>9, <1>10, <1>11,
            <1>12, <1>13, <1>14, <1>15, <1>16, <1>17, <1>18
    <2>. QED  BY <2>1 DEF Fits

\* The place of a group among the powers of two of the field.
Log == <<0, 1, 14, 2, 28, 15, 22, 3, 5, 29, 26, 16, 7, 23, 11, 4, 25, 6, 10, 30, 13,
         27, 21, 17, 18, 8, 19, 24, 9, 12, 20>>
Ratio(x, y) == IF x = 0 /\ y = 0 THEN 33 ELSE IF x = 0 THEN 31 ELSE IF y = 0 THEN 32
               ELSE (Log[x] + 31 - Log[y]) % 31

\* What a remainder keeps when it is multiplied by an element of the field.
Mark(c) == 1156 * Ratio(c[1], c[2]) + 34 * Ratio(c[2], c[3]) + Ratio(c[4], c[5])

\* The marks of Steps, from the second on.
StepMarks ==
    {393, 625, 795, 921, 1396, 1410, 1736, 2375, 2386, 2683, 2706, 2874, 3311, 4085,
     4313, 6032, 7886, 8519, 8590, 9264, 9328, 9678, 11097, 11632, 11901, 12006,
     12347, 13313, 13462, 13752, 13875, 14132, 14272, 14420, 15461, 15984, 16465,
     16708, 16951, 17353, 17444, 18220, 19368, 20144, 20616, 22184, 22208, 22357,
     22369, 22884, 23687, 23878, 23889, 23975, 24110, 24230, 25061, 25146, 25562,
     25746, 25801, 26160, 26283, 26294, 26918, 26965, 27617, 27861, 29107, 29667,
     31744, 32456, 33290, 34979, 35936, 36110, 36406, 36524, 36566, 36587, 36957,
     38067, 38147, 39235, 39301, 39302}

LEMMA LogIs ==
    /\ Log[1] = 0 /\ Log[2] = 1 /\ Log[3] = 14 /\ Log[4] = 2 /\ Log[5] = 28
    /\ Log[6] = 15 /\ Log[7] = 22 /\ Log[8] = 3 /\ Log[9] = 5 /\ Log[10] = 29
    /\ Log[11] = 26 /\ Log[12] = 16 /\ Log[13] = 7 /\ Log[14] = 23 /\ Log[15] = 11
    /\ Log[16] = 4 /\ Log[17] = 25 /\ Log[18] = 6 /\ Log[19] = 10 /\ Log[20] = 30
    /\ Log[21] = 13 /\ Log[22] = 27 /\ Log[23] = 21 /\ Log[24] = 17 /\ Log[25] = 18
    /\ Log[26] = 8 /\ Log[27] = 19 /\ Log[28] = 24 /\ Log[29] = 9 /\ Log[30] = 12
    /\ Log[31] = 20
BY DEF Log

LEMMA MarkIs ==
    \A c1, c2, c3, c4, c5, c6 :
        Mark(<<c1, c2, c3, c4, c5, c6>>)
            = 1156 * Ratio(c1, c2) + 34 * Ratio(c2, c3) + Ratio(c4, c5)
BY DEF Mark

\* The marks of the two tables, row by row: no remainder that goes to the
\* difference of the constants has one of those after a wrong group.
LEMMA StepsMarked ==
    \A k \in 2..87 : Mark(Steps[k]) \in StepMarks
<1>. DEFINE Marked(k) == Mark(Steps[k]) \in StepMarks
<1>1. Marked(2) /\ Marked(3) /\ Marked(4) /\ Marked(5) /\ Marked(6)
    <2>1. /\ Mark(Steps[2]) = 39301 /\ Mark(Steps[3]) = 39302 /\ Mark(Steps[4]) = 39235
          /\ Mark(Steps[5]) = 36957 /\ Mark(Steps[6]) = 38147
        BY LogIs, MarkIs DEF Steps, Ratio
    <2>. QED  BY <2>1 DEF StepMarks
<1>2. Marked(7) /\ Marked(8) /\ Marked(9) /\ Marked(10) /\ Marked(11)
    <2>1. /\ Mark(Steps[7]) = 15984 /\ Mark(Steps[8]) = 3311 /\ Mark(Steps[9]) = 921
          /\ Mark(Steps[10]) = 11097 /\ Mark(Steps[11]) = 2874
        BY LogIs, MarkIs DEF Steps, Ratio
    <2>. QED  BY <2>1 DEF StepMarks
<1>3. Marked(12) /\ Marked(13) /\ Marked(14) /\ Marked(15) /\ Marked(16)
    <2>1. /\ Mark(Steps[12]) = 8590 /\ Mark(Steps[13]) = 4085 /\ Mark(Steps[14]) = 24230
          /\ Mark(Steps[15]) = 11901 /\ Mark(Steps[16]) = 13313
        BY LogIs, MarkIs DEF Steps, Ratio
    <2>. QED  BY <2>1 DEF StepMarks
<1>4. Marked(17) /\ Marked(18) /\ Marked(19) /\ Marked(20) /\ Marked(21)
    <2>1. /\ Mark(Steps[17]) = 23889 /\ Mark(Steps[18]) = 1736 /\ Mark(Steps[19]) = 26294
          /\ Mark(Steps[20]) = 36587 /\ Mark(Steps[21]) = 26160
        BY LogIs, MarkIs DEF Steps, Ratio
    <2>. QED  BY <2>1 DEF StepMarks
<1>5. Marked(22) /\ Marked(23) /\ Marked(24) /\ Marked(25) /\ Marked(26)
    <2>1. /\ Mark(Steps[22]) = 36566 /\ Mark(Steps[23]) = 25061 /\ Mark(Steps[24]) = 14132
          /\ Mark(Steps[25]) = 14272 /\ Mark(Steps[26]) = 34979
        BY LogIs, MarkIs DEF Steps, Ratio
    <2>. QED  BY <2>1 DEF StepMarks
<1>6. Marked(27) /\ Marked(28) /\ Marked(29) /\ Marked(30) /\ Marked(31)
    <2>1. /\ Mark(Steps[27]) = 25562 /\ Mark(Steps[28]) = 36406 /\ Mark(Steps[29]) = 19368
          /\ Mark(Steps[30]) = 22357 /\ Mark(Steps[31]) = 18220
        BY LogIs, MarkIs DEF Steps, Ratio
    <2>. QED  BY <2>1 DEF StepMarks
<1>7. Marked(32) /\ Marked(33) /\ Marked(34) /\ Marked(35) /\ Marked(36)
    <2>1. /\ Mark(Steps[32]) = 625 /\ Mark(Steps[33]) = 11632 /\ Mark(Steps[34]) = 25801
          /\ Mark(Steps[35]) = 36110 /\ Mark(Steps[36]) = 9264
        BY LogIs, MarkIs DEF Steps, Ratio
    <2>. QED  BY <2>1 DEF StepMarks
<1>8. Marked(37) /\ Marked(38) /\ Marked(39) /\ Marked(40) /\ Marked(41)
    <2>1. /\ Mark(Steps[37]) = 27861 /\ Mark(Steps[38]) = 23975 /\ Mark(Steps[39]) = 16951
          /\ Mark(Steps[40]) = 22884 /\ Mark(Steps[41]) = 7886
        BY LogIs, MarkIs DEF Steps, Ratio
    <2>. QED  BY <2>1 DEF StepMarks
<1>9. Marked(42) /\ Marked(43) /\ Marked(44) /\ Marked(45) /\ Marked(46)
    <2>1. /\ Mark(Steps[42]) = 26965 /\ Mark(Steps[43]) = 14420 /\ Mark(Steps[44]) = 4313
          /\ Mark(Steps[45]) = 2706 /\ Mark(Steps[46]) = 12347
        BY LogIs, MarkIs DEF Steps, Ratio
    <2>. QED  BY <2>1 DEF StepMarks
<1>10. Marked(47) /\ Marked(48) /\ Marked(49) /\ Marked(50) /\ Marked(51)
    <2>1. /\ Mark(Steps[47]) = 6032 /\ Mark(Steps[48]) = 23687 /\ Mark(Steps[49]) = 32456
          /\ Mark(Steps[50]) = 16708 /\ Mark(Steps[51]) = 25746
        BY LogIs, MarkIs DEF Steps, Ratio
    <2>. QED  BY <2>1 DEF StepMarks
<1>11. Marked(52) /\ Marked(53) /\ Marked(54) /\ Marked(55) /\ Marked(56)
    <2>1. /\ Mark(Steps[52]) = 35936 /\ Mark(Steps[53]) = 2683 /\ Mark(Steps[54]) = 16465
          /\ Mark(Steps[55]) = 2375 /\ Mark(Steps[56]) = 13462
        BY LogIs, MarkIs DEF Steps, Ratio
    <2>. QED  BY <2>1 DEF StepMarks
<1>12. Marked(57) /\ Marked(58) /\ Marked(59) /\ Marked(60) /\ Marked(61)
    <2>1. /\ Mark(Steps[57]) = 393 /\ Mark(Steps[58]) = 22208 /\ Mark(Steps[59]) = 29667
          /\ Mark(Steps[60]) = 8519 /\ Mark(Steps[61]) = 33290
        BY LogIs, MarkIs DEF Steps, Ratio
    <2>. QED  BY <2>1 DEF StepMarks
<1>13. Marked(62) /\ Marked(63) /\ Marked(64) /\ Marked(65) /\ Marked(66)
    <2>1. /\ Mark(Steps[62]) = 29107 /\ Mark(Steps[63]) = 25146 /\ Mark(Steps[64]) = 17444
          /\ Mark(Steps[65]) = 13752 /\ Mark(Steps[66]) = 1396
        BY LogIs, MarkIs DEF Steps, Ratio
    <2>. QED  BY <2>1 DEF StepMarks
<1>14. Marked(67) /\ Marked(68) /\ Marked(69) /\ Marked(70) /\ Marked(71)
    <2>1. /\ Mark(Steps[67]) = 22369 /\ Mark(Steps[68]) = 17353 /\ Mark(Steps[69]) = 20616
          /\ Mark(Steps[70]) = 24110 /\ Mark(Steps[71]) = 27617
        BY LogIs, MarkIs DEF Steps, Ratio
    <2>. QED  BY <2>1 DEF StepMarks
<1>15. Marked(72) /\ Marked(73) /\ Marked(74) /\ Marked(75) /\ Marked(76)
    <2>1. /\ Mark(Steps[72]) = 31744 /\ Mark(Steps[73]) = 2386 /\ Mark(Steps[74]) = 38067
          /\ Mark(Steps[75]) = 20144 /\ Mark(Steps[76]) = 26283
        BY LogIs, MarkIs DEF Steps, Ratio
    <2>. QED  BY <2>1 DEF StepMarks
<1>16. Marked(77) /\ Marked(78) /\ Marked(79) /\ Marked(80) /\ Marked(81)
    <2>1. /\ Mark(Steps[77]) = 36524 /\ Mark(Steps[78]) = 23878 /\ Mark(Steps[79]) = 1410
          /\ Mark(Steps[80]) = 22184 /\ Mark(Steps[81]) = 13875
        BY LogIs, MarkIs DEF Steps, Ratio
    <2>. QED  BY <2>1 DEF StepMarks
<1>17. Marked(82) /\ Marked(83) /\ Marked(84) /\ Marked(85) /\ Marked(86)
    <2>1. /\ Mark(Steps[82]) = 9328 /\ Mark(Steps[83]) = 12006 /\ Mark(Steps[84]) = 15461
          /\ Mark(Steps[85]) = 795 /\ Mark(Steps[86]) = 9678
        BY LogIs, MarkIs DEF Steps, Ratio
    <2>. QED  BY <2>1 DEF StepMarks
<1>18. Marked(87)
    <2>1. /\ Mark(Steps[87]) = 26918
        BY LogIs, MarkIs DEF Steps, Ratio
    <2>. QED  BY <2>1 DEF StepMarks
<1>. HIDE DEF Marked
<1>. QED
    <2>1. \A k \in 2..87 : Marked(k)
        BY <1>1, <1>2, <1>3, <1>4, <1>5, <1>6, <1>7, <1>8, <1>9, <1>10, <1>11,
            <1>12, <1>13, <1>14, <1>15, <1>16, <1>17, <1>18
    <2>. QED  BY <2>1 DEF Marked

LEMMA BackUnmarked ==
    \A k \in 1..87 : Mark(Back[k]) \notin StepMarks
<1>. DEFINE Unmarked(k) == Mark(Back[k]) \notin StepMarks
<1>1. Unmarked(1) /\ Unmarked(2) /\ Unmarked(3) /\ Unmarked(4) /\ Unmarked(5)
    <2>1. /\ Mark(Back[1]) = 23819 /\ Mark(Back[2]) = 33834 /\ Mark(Back[3]) = 19030
          /\ Mark(Back[4]) = 2006 /\ Mark(Back[5]) = 22973
        BY LogIs, MarkIs DEF Back, Ratio
    <2>. QED  BY <2>1 DEF StepMarks
<1>2. Unmarked(6) /\ Unmarked(7) /\ Unmarked(8) /\ Unmarked(9) /\ Unmarked(10)
    <2>1. /\ Mark(Back[6]) = 6125 /\ Mark(Back[7]) = 34191 /\ Mark(Back[8]) = 30272
          /\ Mark(Back[9]) = 19089 /\ Mark(Back[10]) = 15922
        BY LogIs, MarkIs DEF Back, Ratio
    <2>. QED  BY <2>1 DEF StepMarks
<1>3. Unmarked(11) /\ Unmarked(12) /\ Unmarked(13) /\ Unmarked(14) /\ Unmarked(15)
    <2>1. /\ Mark(Back[11]) = 2776 /\ Mark(Back[12]) = 24057 /\ Mark(Back[13]) = 33830
          /\ Mark(Back[14]) = 36842 /\ Mark(Back[15]) = 25555
        BY LogIs, MarkIs DEF Back, Ratio
    <2>. QED  BY <2>1 DEF StepMarks
<1>4. Unmarked(16) /\ Unmarked(17) /\ Unmarked(18) /\ Unmarked(19) /\ Unmarked(20)
    <2>1. /\ Mark(Back[16]) = 5055 /\ Mark(Back[17]) = 15905 /\ Mark(Back[18]) = 5069
          /\ Mark(Back[19]) = 34211 /\ Mark(Back[20]) = 9945
        BY LogIs, MarkIs DEF Back, Ratio
    <2>. QED  BY <2>1 DEF StepMarks
<1>5. Unmarked(21) /\ Unmarked(22) /\ Unmarked(23) /\ Unmarked(24) /\ Unmarked(25)
    <2>1. /\ Mark(Back[21]) = 13494 /\ Mark(Back[22]) = 6400 /\ Mark(Back[23]) = 13820
          /\ Mark(Back[24]) = 10844 /\ Mark(Back[25]) = 35187
        BY LogIs, MarkIs DEF Back, Ratio
    <2>. QED  BY <2>1 DEF StepMarks
<1>6. Unmarked(26) /\ Unmarked(27) /\ Unmarked(28) /\ Unmarked(29) /\ Unmarked(30)
    <2>1. /\ Mark(Back[26]) = 17024 /\ Mark(Back[27]) = 1330 /\ Mark(Back[28]) = 28653
          /\ Mark(Back[29]) = 24587 /\ Mark(Back[30]) = 22459
        BY LogIs, MarkIs DEF Back, Ratio
    <2>. QED  BY <2>1 DEF StepMarks
<1>7. Unmarked(31) /\ Unmarked(32) /\ Unmarked(33) /\ Unmarked(34) /\ Unmarked(35)
    <2>1. /\ Mark(Back[31]) = 8827 /\ Mark(Back[32]) = 28696 /\ Mark(Back[33]) = 9270
          /\ Mark(Back[34]) = 35685 /\ Mark(Back[35]) = 23910
        BY LogIs, MarkIs DEF Back, Ratio
    <2>. QED  BY <2>1 DEF StepMarks
<1>8. Unmarked(36) /\ Unmarked(37) /\ Unmarked(38) /\ Unmarked(39) /\ Unmarked(40)
    <2>1. /\ Mark(Back[36]) = 20610 /\ Mark(Back[37]) = 36418 /\ Mark(Back[38]) = 25717
          /\ Mark(Back[39]) = 24665 /\ Mark(Back[40]) = 22464
        BY LogIs, MarkIs DEF Back, Ratio
    <2>. QED  BY <2>1 DEF StepMarks
<1>9. Unmarked(41) /\ Unmarked(42) /\ Unmarked(43) /\ Unmarked(44) /\ Unmarked(45)
    <2>1. /\ Mark(Back[41]) = 19370 /\ Mark(Back[42]) = 9283 /\ Mark(Back[43]) = 19449
          /\ Mark(Back[44]) = 33200 /\ Mark(Back[45]) = 1090
        BY LogIs, MarkIs DEF Back, Ratio
    <2>. QED  BY <2>1 DEF StepMarks
<1>10. Unmarked(46) /\ Unmarked(47) /\ Unmarked(48) /\ Unmarked(49) /\ Unmarked(50)
    <2>1. /\ Mark(Back[46]) = 10617 /\ Mark(Back[47]) = 12835 /\ Mark(Back[48]) = 11910
          /\ Mark(Back[49]) = 34817 /\ Mark(Back[50]) = 19655
        BY LogIs, MarkIs DEF Back, Ratio
    <2>. QED  BY <2>1 DEF StepMarks
<1>11. Unmarked(51) /\ Unmarked(52) /\ Unmarked(53) /\ Unmarked(54) /\ Unmarked(55)
    <2>1. /\ Mark(Back[51]) = 23342 /\ Mark(Back[52]) = 14223 /\ Mark(Back[53]) = 6531
          /\ Mark(Back[54]) = 8632 /\ Mark(Back[55]) = 5333
        BY LogIs, MarkIs DEF Back, Ratio
    <2>. QED  BY <2>1 DEF StepMarks
<1>12. Unmarked(56) /\ Unmarked(57) /\ Unmarked(58) /\ Unmarked(59) /\ Unmarked(60)
    <2>1. /\ Mark(Back[56]) = 7707 /\ Mark(Back[57]) = 2174 /\ Mark(Back[58]) = 10512
          /\ Mark(Back[59]) = 16547 /\ Mark(Back[60]) = 29821
        BY LogIs, MarkIs DEF Back, Ratio
    <2>. QED  BY <2>1 DEF StepMarks
<1>13. Unmarked(61) /\ Unmarked(62) /\ Unmarked(63) /\ Unmarked(64) /\ Unmarked(65)
    <2>1. /\ Mark(Back[61]) = 31946 /\ Mark(Back[62]) = 8401 /\ Mark(Back[63]) = 29678
          /\ Mark(Back[64]) = 6956 /\ Mark(Back[65]) = 5387
        BY LogIs, MarkIs DEF Back, Ratio
    <2>. QED  BY <2>1 DEF StepMarks
<1>14. Unmarked(66) /\ Unmarked(67) /\ Unmarked(68) /\ Unmarked(69) /\ Unmarked(70)
    <2>1. /\ Mark(Back[66]) = 27565 /\ Mark(Back[67]) = 19615 /\ Mark(Back[68]) = 9299
          /\ Mark(Back[69]) = 13891 /\ Mark(Back[70]) = 35250
        BY LogIs, MarkIs DEF Back, Ratio
    <2>. QED  BY <2>1 DEF StepMarks
<1>15. Unmarked(71) /\ Unmarked(72) /\ Unmarked(73) /\ Unmarked(74) /\ Unmarked(75)
    <2>1. /\ Mark(Back[71]) = 19680 /\ Mark(Back[72]) = 36434 /\ Mark(Back[73]) = 25928
          /\ Mark(Back[74]) = 871 /\ Mark(Back[75]) = 25095
        BY LogIs, MarkIs DEF Back, Ratio
    <2>. QED  BY <2>1 DEF StepMarks
<1>16. Unmarked(76) /\ Unmarked(77) /\ Unmarked(78) /\ Unmarked(79) /\ Unmarked(80)
    <2>1. /\ Mark(Back[76]) = 21844 /\ Mark(Back[77]) = 25020 /\ Mark(Back[78]) = 19258
          /\ Mark(Back[79]) = 30840 /\ Mark(Back[80]) = 14354
        BY LogIs, MarkIs DEF Back, Ratio
    <2>. QED  BY <2>1 DEF StepMarks
<1>17. Unmarked(81) /\ Unmarked(82) /\ Unmarked(83) /\ Unmarked(84) /\ Unmarked(85)
    <2>1. /\ Mark(Back[81]) = 11498 /\ Mark(Back[82]) = 28922 /\ Mark(Back[83]) = 31935
          /\ Mark(Back[84]) = 33807 /\ Mark(Back[85]) = 36851
        BY LogIs, MarkIs DEF Back, Ratio
    <2>. QED  BY <2>1 DEF StepMarks
<1>18. Unmarked(86) /\ Unmarked(87)
    <2>1. /\ Mark(Back[86]) = 25767 /\ Mark(Back[87]) = 38075
        BY LogIs, MarkIs DEF Back, Ratio
    <2>. QED  BY <2>1 DEF StepMarks
<1>. HIDE DEF Unmarked
<1>. QED
    <2>1. \A k \in 1..87 : Unmarked(k)
        BY <1>1, <1>2, <1>3, <1>4, <1>5, <1>6, <1>7, <1>8, <1>9, <1>10, <1>11,
            <1>12, <1>13, <1>14, <1>15, <1>16, <1>17, <1>18
    <2>. QED  BY <2>1 DEF Unmarked

LEMMA TwiceIs ==
    /\ Twice(0) = 0 /\ Twice(1) = 2 /\ Twice(2) = 4 /\ Twice(3) = 6
    /\ Twice(4) = 8 /\ Twice(5) = 10 /\ Twice(6) = 12 /\ Twice(7) = 14
    /\ Twice(8) = 16 /\ Twice(9) = 18 /\ Twice(10) = 20 /\ Twice(11) = 22
    /\ Twice(12) = 24 /\ Twice(13) = 26 /\ Twice(14) = 28 /\ Twice(15) = 30
    /\ Twice(16) = 9 /\ Twice(17) = 11 /\ Twice(18) = 13 /\ Twice(19) = 15
    /\ Twice(20) = 1 /\ Twice(21) = 3 /\ Twice(22) = 5 /\ Twice(23) = 7
    /\ Twice(24) = 25 /\ Twice(25) = 27 /\ Twice(26) = 29 /\ Twice(27) = 31
    /\ Twice(28) = 17 /\ Twice(29) = 19 /\ Twice(30) = 21 /\ Twice(31) = 23
BY DEF Twice, Xor5

LEMMA TwiceCarryIs ==
    \A x, k1, k2, k3, k4, k5, k6 :
        Carry[x] = <<k1, k2, k3, k4, k5, k6>>
            => TwiceAll(Carry[x])
                   = <<Twice(k1), Twice(k2), Twice(k3), Twice(k4), Twice(k5), Twice(k6)>>
BY DEF TwiceAll

\* What is added for twice a group is twice what is added for it, and what is
\* added for a group other than 0 ends in another.
LEMMA CarryTwice ==
    \A k \in Groups : Carry[Twice(k)] = TwiceAll(Carry[k]) /\ (k # 0 => Carry[k][6] # 0)
<1>. DEFINE Doubles(k) == Carry[Twice(k)] = TwiceAll(Carry[k]) /\ (k # 0 => Carry[k][6] # 0)
<1>1. Doubles(0) /\ Doubles(1) /\ Doubles(2) /\ Doubles(3)
    <2>1. /\ Carry[0] = <<0, 0, 0, 0, 0, 0>>
          /\ Carry[1] = <<29, 22, 20, 21, 29, 18>>
          /\ Carry[2] = <<19, 5, 1, 3, 19, 13>>
          /\ Carry[3] = <<14, 19, 21, 22, 14, 31>>
          /\ Carry[4] = <<15, 10, 2, 6, 15, 26>>
          /\ Carry[6] = <<28, 15, 3, 5, 28, 23>>
        BY CarryOfBits, CarryOfTwo
    <2>. QED  BY SMTT(30), <2>1, TwiceIs, TwiceCarryIs
<1>2. Doubles(4) /\ Doubles(5) /\ Doubles(6) /\ Doubles(7)
    <2>1. /\ Carry[4] = <<15, 10, 2, 6, 15, 26>>
          /\ Carry[5] = <<18, 28, 22, 19, 18, 8>>
          /\ Carry[6] = <<28, 15, 3, 5, 28, 23>>
          /\ Carry[7] = <<1, 25, 23, 16, 1, 5>>
          /\ Carry[8] = <<30, 20, 4, 12, 30, 29>>
          /\ Carry[10] = <<13, 17, 5, 15, 13, 16>>
          /\ Carry[12] = <<17, 30, 6, 10, 17, 7>>
          /\ Carry[14] = <<2, 27, 7, 9, 2, 10>>
        BY CarryOfBits, CarryOfTwo, CarryOfThree
    <2>. QED  BY SMTT(30), <2>1, TwiceIs, TwiceCarryIs
<1>3. Doubles(8) /\ Doubles(9) /\ Doubles(10) /\ Doubles(11)
    <2>1. /\ Carry[8] = <<30, 20, 4, 12, 30, 29>>
          /\ Carry[9] = <<3, 2, 16, 25, 3, 15>>
          /\ Carry[10] = <<13, 17, 5, 15, 13, 16>>
          /\ Carry[11] = <<16, 7, 17, 26, 16, 2>>
          /\ Carry[16] = <<21, 1, 8, 24, 21, 19>>
          /\ Carry[18] = <<6, 4, 9, 27, 6, 30>>
          /\ Carry[20] = <<26, 11, 10, 30, 26, 9>>
          /\ Carry[22] = <<9, 14, 11, 29, 9, 4>>
        BY CarryOfBits, CarryOfTwo, CarryOfThree
    <2>. QED  BY SMTT(30), <2>1, TwiceIs, TwiceCarryIs
<1>4. Doubles(12) /\ Doubles(13) /\ Doubles(14) /\ Doubles(15)
    <2>1. /\ Carry[12] = <<17, 30, 6, 10, 17, 7>>
          /\ Carry[13] = <<12, 8, 18, 31, 12, 21>>
          /\ Carry[14] = <<2, 27, 7, 9, 2, 10>>
          /\ Carry[15] = <<31, 13, 19, 28, 31, 24>>
          /\ Carry[24] = <<11, 21, 12, 20, 11, 14>>
          /\ Carry[26] = <<24, 16, 13, 23, 24, 3>>
          /\ Carry[28] = <<4, 31, 14, 18, 4, 20>>
          /\ Carry[30] = <<23, 26, 15, 17, 23, 25>>
        BY CarryOfTwo, CarryOfThree, CarryOfMore
    <2>. QED  BY SMTT(30), <2>1, TwiceIs, TwiceCarryIs
<1>5. Doubles(16) /\ Doubles(17) /\ Doubles(18) /\ Doubles(19)
    <2>1. /\ Carry[9] = <<3, 2, 16, 25, 3, 15>>
          /\ Carry[11] = <<16, 7, 17, 26, 16, 2>>
          /\ Carry[13] = <<12, 8, 18, 31, 12, 21>>
          /\ Carry[15] = <<31, 13, 19, 28, 31, 24>>
          /\ Carry[16] = <<21, 1, 8, 24, 21, 19>>
          /\ Carry[17] = <<8, 23, 28, 13, 8, 1>>
          /\ Carry[18] = <<6, 4, 9, 27, 6, 30>>
          /\ Carry[19] = <<27, 18, 29, 14, 27, 12>>
        BY CarryOfBits, CarryOfTwo, CarryOfThree, CarryOfMore
    <2>. QED  BY SMTT(30), <2>1, TwiceIs, TwiceCarryIs
<1>6. Doubles(20) /\ Doubles(21) /\ Doubles(22) /\ Doubles(23)
    <2>1. /\ Carry[1] = <<29, 22, 20, 21, 29, 18>>
          /\ Carry[3] = <<14, 19, 21, 22, 14, 31>>
          /\ Carry[5] = <<18, 28, 22, 19, 18, 8>>
          /\ Carry[7] = <<1, 25, 23, 16, 1, 5>>
          /\ Carry[20] = <<26, 11, 10, 30, 26, 9>>
          /\ Carry[21] = <<7, 29, 30, 11, 7, 27>>
          /\ Carry[22] = <<9, 14, 11, 29, 9, 4>>
          /\ Carry[23] = <<20, 24, 31, 8, 20, 22>>
        BY CarryOfBits, CarryOfTwo, CarryOfThree, CarryOfMore
    <2>. QED  BY SMTT(30), <2>1, TwiceIs, TwiceCarryIs
<1>7. Doubles(24) /\ Doubles(25) /\ Doubles(26) /\ Doubles(27)
    <2>1. /\ Carry[24] = <<11, 21, 12, 20, 11, 14>>
          /\ Carry[25] = <<22, 3, 24, 1, 22, 28>>
          /\ Carry[26] = <<24, 16, 13, 23, 24, 3>>
          /\ Carry[27] = <<5, 6, 25, 2, 5, 17>>
          /\ Carry[29] = <<25, 9, 26, 7, 25, 6>>
          /\ Carry[31] = <<10, 12, 27, 4, 10, 11>>
        BY CarryOfTwo, CarryOfThree, CarryOfMore
    <2>. QED  BY SMTT(30), <2>1, TwiceIs, TwiceCarryIs
<1>8. Doubles(28) /\ Doubles(29) /\ Doubles(30) /\ Doubles(31)
    <2>1. /\ Carry[17] = <<8, 23, 28, 13, 8, 1>>
          /\ Carry[19] = <<27, 18, 29, 14, 27, 12>>
          /\ Carry[21] = <<7, 29, 30, 11, 7, 27>>
          /\ Carry[23] = <<20, 24, 31, 8, 20, 22>>
          /\ Carry[28] = <<4, 31, 14, 18, 4, 20>>
          /\ Carry[29] = <<25, 9, 26, 7, 25, 6>>
          /\ Carry[30] = <<23, 26, 15, 17, 23, 25>>
          /\ Carry[31] = <<10, 12, 27, 4, 10, 11>>
        BY CarryOfTwo, CarryOfThree, CarryOfMore
    <2>. QED  BY SMTT(30), <2>1, TwiceIs, TwiceCarryIs
<1>. HIDE DEF Doubles
<1>. QED
    <2>1. \A k \in Groups : Doubles(k)
        BY <1>1, <1>2, <1>3, <1>4, <1>5, <1>6, <1>7, <1>8 DEF Groups
    <2>. QED  BY <2>1 DEF Doubles

\* So a step takes twice a remainder to twice what it takes the remainder to,
LEMMA MultipliedTwice ==
    ASSUME NEW c \in Coefficients
    PROVE  Multiplied(TwiceAll(c), 0) = TwiceAll(Multiplied(c, 0))
<1>. DEFINE k == Carry[c[1]]
            u == Shifted(c, 0)
<1>1. /\ 0 \in Groups /\ c[1] \in Groups /\ k \in Coefficients
      /\ u \in Coefficients /\ TwiceAll(c)[1] = Twice(c[1])
    <2>1. 0 \in Groups /\ c[1] \in Groups
        BY DEF Coefficients, Groups
    <2>. QED  BY <2>1, CarryType, ShiftedType DEF TwiceAll
<1>2. Carry[TwiceAll(c)[1]] = TwiceAll(k)
    BY <1>1, CarryTwice
<1>3. Shifted(TwiceAll(c), 0) = TwiceAll(u)
    BY TwiceType DEF Shifted, TwiceAll
<1>. HIDE DEF k, u
<1>4. \A i \in 1..6 : Xor5(Twice(u[i]), Twice(k[i])) = Twice(Xor5(u[i], k[i]))
    <2>1. \A i \in 1..6 : u[i] \in Groups /\ k[i] \in Groups
        BY <1>1 DEF Coefficients
    <2>. QED  BY <2>1, TwiceAdds
<1>5. Xor6(TwiceAll(u), TwiceAll(k)) = TwiceAll(Xor6(u, k))
    BY <1>4 DEF Xor6, TwiceAll
<1>. QED  BY <1>2, <1>3, <1>5, Zenon DEF Multiplied, u, k

\* and the ratios of the groups in it, and its mark, stay what they are.
LEMMA RatioTwice ==
    ASSUME NEW x \in Groups, NEW y \in Groups
    PROVE  Ratio(Twice(x), Twice(y)) = Ratio(x, y)
<1>1. \A z \in 1..31 : /\ Log[Twice(z)] = (Log[z] + 1) % 31
                       /\ Log[z] \in 0..30 /\ Twice(z) \in 1..31
    <2>. DEFINE Goes(z) == /\ Log[Twice(z)] = (Log[z] + 1) % 31
                           /\ Log[z] \in 0..30 /\ Twice(z) \in 1..31
    <2>1. /\ Goes(1) /\ Goes(2) /\ Goes(3) /\ Goes(4)
          /\ Goes(5) /\ Goes(6) /\ Goes(7) /\ Goes(8)
        BY LogIs, TwiceIs
    <2>2. /\ Goes(9) /\ Goes(10) /\ Goes(11) /\ Goes(12)
          /\ Goes(13) /\ Goes(14) /\ Goes(15) /\ Goes(16)
        BY LogIs, TwiceIs
    <2>3. /\ Goes(17) /\ Goes(18) /\ Goes(19) /\ Goes(20)
          /\ Goes(21) /\ Goes(22) /\ Goes(23) /\ Goes(24)
        BY LogIs, TwiceIs
    <2>4. /\ Goes(25) /\ Goes(26) /\ Goes(27) /\ Goes(28)
          /\ Goes(29) /\ Goes(30) /\ Goes(31)
        BY LogIs, TwiceIs
    <2>. HIDE DEF Goes
    <2>5. \A z \in 1..31 : Goes(z)
        BY <2>1, <2>2, <2>3, <2>4
    <2>. QED  BY <2>5 DEF Goes
<1>2. Twice(0) = 0 /\ \A z \in Groups : z = 0 \/ z \in 1..31
    BY TwiceIs DEF Groups
<1>3. \A z \in Groups : z # 0 => Twice(z) # 0
    BY TwiceType
<1>4. CASE x = 0 \/ y = 0
    BY <1>2, <1>3, <1>4, Zenon DEF Ratio
<1>5. CASE x # 0 /\ y # 0
    <2>1. \A p, q \in 0..30 : (((p + 1) % 31) + 31 - ((q + 1) % 31)) % 31 = (p + 31 - q) % 31
        OBVIOUS
    <2>2. Ratio(x, y) = (Log[x] + 31 - Log[y]) % 31
        BY <1>5, Zenon DEF Ratio
    <2>3. Ratio(Twice(x), Twice(y)) = (Log[Twice(x)] + 31 - Log[Twice(y)]) % 31
        BY <1>3, <1>5, Zenon DEF Ratio
    <2>4. Log[x] \in 0..30 /\ Log[y] \in 0..30
          /\ Log[Twice(x)] = (Log[x] + 1) % 31 /\ Log[Twice(y)] = (Log[y] + 1) % 31
        BY <1>1, <1>2, <1>5
    <2>. QED  BY <2>1, <2>2, <2>3, <2>4
<1>. QED  BY <1>4, <1>5

LEMMA MarkTwice ==
    ASSUME NEW c \in Coefficients
    PROVE  Mark(TwiceAll(c)) = Mark(c)
<1>1. \A i \in 1..6 : TwiceAll(c)[i] = Twice(c[i]) /\ c[i] \in Groups
    BY DEF TwiceAll, Coefficients
<1>2. /\ Ratio(Twice(c[1]), Twice(c[2])) = Ratio(c[1], c[2])
      /\ Ratio(Twice(c[2]), Twice(c[3])) = Ratio(c[2], c[3])
      /\ Ratio(Twice(c[4]), Twice(c[5])) = Ratio(c[4], c[5])
    BY <1>1, RatioTwice
<1>. QED  BY <1>1, <1>2 DEF Mark

LEMMA SameIfZero ==
    ASSUME NEW c \in Coefficients, NEW d \in Coefficients, Xor6(c, d) = Zero
    PROVE  c = d
<1>1. Xor6(Xor6(c, d), d) = Xor6(c, Xor6(d, d))
    BY Xor6Associates
<1>. QED  BY <1>1, Xor6Self

\* A step forgets nothing.
LEMMA MultipliedInjective ==
    ASSUME NEW c \in Coefficients, NEW d \in Coefficients,
           Multiplied(c, 0) = Multiplied(d, 0)
    PROVE  c = d
<1>. DEFINE z == Xor6(c, d)
<1>1. z \in Coefficients /\ 0 \in Groups /\ Xor5(0, 0) = 0
    BY Xor6Type DEF Groups, Xor5
<1>2. Multiplied(z, 0) = Zero
    <2>1. Multiplied(z, 0) = Xor6(Multiplied(c, 0), Multiplied(d, 0))
        BY <1>1, MultipliedAdds
    <2>2. Multiplied(d, 0) \in Coefficients
        BY <1>1, MultipliedType
    <2>. QED  BY <2>1, <2>2, Xor6Self
<1>. HIDE DEF z
<1>3. z[1] \in Groups /\ \A i \in 1..6 : z[i] \in Groups /\ Carry[z[1]][i] \in Groups
    BY <1>1, CarryType DEF Coefficients
<1>4. \A i \in 1..6 : Xor5(Shifted(z, 0)[i], Carry[z[1]][i]) = 0
    <2>1. \A i \in 1..6 : Xor6(Shifted(z, 0), Carry[z[1]])[i] = Zero[i]
        BY <1>2 DEF Multiplied
    <2>. QED  BY <2>1, ZeroType DEF Xor6
<1>5. z[1] = 0
    <2>1. Xor5(0, Carry[z[1]][6]) = 0
        BY <1>4 DEF Shifted
    <2>2. Carry[z[1]][6] = 0
        BY <1>3, <2>1, Xor5Self
    <2>. QED  BY <1>3, <2>2, CarryTwice
<1>6. \A i \in 1..6 : Shifted(z, 0)[i] = 0
    <2>1. \A i \in 1..6 : Carry[z[1]][i] = 0
        BY <1>5, CarryOfBits
    <2>2. \A i \in 1..6 : Shifted(z, 0)[i] \in Groups
        BY <1>1, ShiftedType DEF Coefficients
    <2>. QED  BY <1>4, <2>1, <2>2, Xor5Self
<1>7. z = Zero
    <2>1. z[2] = 0 /\ z[3] = 0 /\ z[4] = 0 /\ z[5] = 0 /\ z[6] = 0
        BY <1>6 DEF Shifted
    <2>2. \A i \in 1..6 : z[i] = Zero[i]
        <3>1. \A i \in 1..6 : i = 1 \/ i = 2 \/ i = 3 \/ i = 4 \/ i = 5 \/ i = 6
            OBVIOUS
        <3>2. \A i \in 1..6 : z[i] = 0
            BY <1>5, <2>1, <3>1, Zenon
        <3>. QED  BY <3>2, ZeroType
    <2>. QED  BY <1>1, <2>2, ZeroType DEF Coefficients
<1>. QED  BY <1>7, SameIfZero DEF z

\* The remainder goes on with zeros.
IsRun(f, n) == /\ f \in [0..n -> Coefficients]
               /\ \A i \in 1..n : f[i] = Multiplied(f[i - 1], 0)
Alone(a) == <<0, 0, 0, 0, 0, a>>

LEMMA AloneType ==
    \A a \in Groups : Alone(a) \in Coefficients
BY DEF Alone, Coefficients, Groups

\* Up to 86 steps after a difference of one in the last group it is marked,
LEMMA StepsAreMarked ==
    ASSUME NEW n \in 1..86, NEW f, IsRun(f, n), f[0] = Alone(1)
    PROVE  Mark(f[n]) \in StepMarks
<1>. DEFINE S == {i \in 0..n : f[i] = Steps[i + 1]}
<1>1. 0 \in S
    <2>1. Steps[0 + 1] = Alone(1)
        BY DEF Alone, Steps
    <2>. QED  BY <2>1
<1>2. ASSUME NEW i \in 1..n, i - 1 \in S PROVE i \in S
    <2>1. i \in 1..86 /\ i \in 0..n /\ (i - 1) + 1 = i
        OBVIOUS
    <2>2. f[i] = Multiplied(Steps[i], 0)
        BY <1>2, <2>1 DEF IsRun
    <2>3. f[i] = Steps[i + 1]
        BY <2>1, <2>2, StepsGo
    <2>. QED  BY <2>1, <2>3
<1>3. 0..n \subseteq S
    <2>. HIDE DEF S
    <2>. QED  BY <1>1, <1>2, InductionUpTo
<1>4. f[n] = Steps[n + 1] /\ n + 1 \in 2..87
    BY <1>3
<1>. QED  BY <1>4, StepsMarked

\* and so it is after any other, which is one multiplied by a power of two.
AllMarked(a) ==
    \A n \in 1..86 : \A f : IsRun(f, n) /\ f[0] = Alone(a) => Mark(f[n]) \in StepMarks

LEMMA MarkedTwice ==
    ASSUME NEW a \in Groups, AllMarked(Twice(a))
    PROVE  AllMarked(a)
<1>. SUFFICES ASSUME NEW n \in 1..86, NEW f, IsRun(f, n), f[0] = Alone(a)
              PROVE  Mark(f[n]) \in StepMarks
    BY Zenon DEF AllMarked
<1>. DEFINE g == [i \in 0..n |-> TwiceAll(f[i])]
<1>1. \A i \in 0..n : f[i] \in Coefficients /\ g[i] = TwiceAll(f[i])
    BY DEF IsRun
<1>2. g \in [0..n -> Coefficients]
    BY <1>1, TwiceType
<1>3. g[0] = Alone(Twice(a))
    <2>1. g[0] = TwiceAll(Alone(a))
        BY <1>1
    <2>2. TwiceAll(Alone(a)) = Alone(Twice(a))
        BY TwiceType DEF TwiceAll, Alone
    <2>. QED  BY <2>1, <2>2
<1>. HIDE DEF g
<1>4. ASSUME NEW i \in 1..n PROVE g[i] = Multiplied(g[i - 1], 0)
    <2>1. i \in 0..n /\ i - 1 \in 0..n
        OBVIOUS
    <2>2. f[i] = Multiplied(f[i - 1], 0) /\ f[i - 1] \in Coefficients
        BY <1>1, <2>1 DEF IsRun
    <2>3. g[i] = TwiceAll(f[i]) /\ g[i - 1] = TwiceAll(f[i - 1])
        BY <1>1, <2>1
    <2>. QED  BY <2>2, <2>3, MultipliedTwice
<1>5. Mark(g[n]) \in StepMarks
    <2>1. IsRun(g, n)
        BY <1>2, <1>4 DEF IsRun
    <2>. QED  BY <1>3, <2>1, Zenon DEF AllMarked
<1>6. g[n] = TwiceAll(f[n]) /\ f[n] \in Coefficients
    BY <1>1
<1>. QED  BY <1>5, <1>6, MarkTwice

LEMMA EveryRunMarked ==
    \A a \in 1..31 : AllMarked(a)
<1>1. AllMarked(1)
    BY StepsAreMarked DEF AllMarked
<1>2. \A a \in 1..31 : AllMarked(Twice(a)) => AllMarked(a)
    BY MarkedTwice DEF Groups
<1>3. AllMarked(20) /\ AllMarked(10) /\ AllMarked(5) /\ AllMarked(22) /\ AllMarked(11)
      /\ AllMarked(17) /\ AllMarked(28) /\ AllMarked(14) /\ AllMarked(7) /\ AllMarked(23)
    BY <1>1, <1>2, TwiceIs
<1>4. AllMarked(31) /\ AllMarked(27) /\ AllMarked(25) /\ AllMarked(24) /\ AllMarked(12)
      /\ AllMarked(6) /\ AllMarked(3) /\ AllMarked(21) /\ AllMarked(30) /\ AllMarked(15)
    BY <1>2, <1>3, TwiceIs
<1>5. AllMarked(19) /\ AllMarked(29) /\ AllMarked(26) /\ AllMarked(13) /\ AllMarked(18)
      /\ AllMarked(9) /\ AllMarked(16) /\ AllMarked(8) /\ AllMarked(4) /\ AllMarked(2)
    BY <1>2, <1>4, TwiceIs
<1>. QED  BY <1>1, <1>3, <1>4, <1>5

LEMMA ZeroMultiplied ==
    \A a \in Groups : Multiplied(Zero, a) = Alone(a) /\ Alone(0) = Zero
<1>1. \A a \in Groups : Multiplied(Zero, a) = Xor6(Alone(a), Zero)
    BY CarryOfBits DEF Multiplied, Shifted, Zero, Alone
<1>. QED  BY <1>1, AloneType, Xor6Self DEF Alone, Zero

\* What ends at the difference of the two constants, or at nothing, came from
\* the one remainder that goes there.
LEMMA BackFrom ==
    ASSUME NEW n \in 0..86, NEW f, IsRun(f, n)
    PROVE  /\ f[n] = Back[1] => f[0] = Back[n + 1]
           /\ f[n] = Zero => f[0] = Zero
<1>1. \A i \in 0..n : f[i] \in Coefficients
    BY DEF IsRun
<1>2. ASSUME NEW i \in 1..n PROVE /\ n - (i - 1) \in 1..n /\ n - i \in 0..n /\ i \in 1..86
                                  /\ f[n - (i - 1)] = Multiplied(f[n - i], 0)
    <2>1. n - (i - 1) \in 1..n /\ (n - (i - 1)) - 1 = n - i /\ n - i \in 0..n /\ i \in 1..86
        OBVIOUS
    <2>. QED  BY <2>1 DEF IsRun
<1>3. ASSUME f[n] = Back[1] PROVE f[0] = Back[n + 1]
    <2>. DEFINE S == {i \in 0..n : f[n - i] = Back[i + 1]}
    <2>1. 0 \in S
        BY <1>3
    <2>2. ASSUME NEW i \in 1..n, i - 1 \in S PROVE i \in S
        <3>1. Back[i + 1] \in Coefficients /\ Multiplied(Back[i + 1], 0) = Back[i]
            BY <1>2, BackType, BackGoes
        <3>2. f[n - (i - 1)] = Back[i] /\ f[n - i] \in Coefficients
            BY <1>1, <1>2, <2>2
        <3>3. f[n - i] = Back[i + 1]
            BY <1>2, <3>1, <3>2, MultipliedInjective
        <3>. QED  BY <3>3
    <2>3. 0..n \subseteq S
        <3>. HIDE DEF S
        <3>. QED  BY <2>1, <2>2, InductionUpTo
    <2>4. n \in S /\ n - n = 0
        BY <2>3
    <2>. QED  BY <2>4
<1>4. ASSUME f[n] = Zero PROVE f[0] = Zero
    <2>. DEFINE S == {i \in 0..n : f[n - i] = Zero}
    <2>1. 0 \in S
        BY <1>4
    <2>2. ASSUME NEW i \in 1..n, i - 1 \in S PROVE i \in S
        <3>1. Zero \in Coefficients /\ Multiplied(Zero, 0) = Zero
            BY ZeroMultiplied, ZeroType DEF Groups
        <3>2. f[n - (i - 1)] = Zero /\ f[n - i] \in Coefficients
            BY <1>1, <1>2, <2>2
        <3>3. f[n - i] = Zero
            BY <1>2, <3>1, <3>2, MultipliedInjective
        <3>. QED  BY <3>3
    <2>3. 0..n \subseteq S
        <3>. HIDE DEF S
        <3>. QED  BY <2>1, <2>2, InductionUpTo
    <2>4. n \in S /\ n - n = 0
        BY <2>3
    <2>. QED  BY <2>4
<1>. QED  BY <1>3, <1>4

\* The difference of the two encodings' constants.
Delta == <<21, 28, 16, 12, 5, 2>>

\* What the checksum makes, up to each group, of the difference of two texts.
Difference(L, d, e) ==
    /\ L \in Nat /\ d \in [0..L -> Coefficients] /\ e \in [1..L -> Groups]
    /\ d[0] = Zero
    /\ \A i \in 1..L : d[i] = Multiplied(d[i - 1], e[i])

\* It is the difference itself where they first differ,
LEMMA FirstDiffers ==
    ASSUME NEW L, NEW d, NEW e, Difference(L, d, e),
           NEW p \in 1..L, e[p] # 0, \A i \in 1..p - 1 : e[i] = 0
    PROVE  e[p] \in 1..31 /\ d[p] = Alone(e[p])
<1>. DEFINE a == e[p]
<1>. L \in Nat /\ d \in [0..L -> Coefficients] /\ e \in [1..L -> Groups] /\ d[0] = Zero
     /\ \A i \in 1..L : d[i] = Multiplied(d[i - 1], e[i])
    BY DEF Difference
<1>1. p - 1 \in 0..L /\ \A i \in 1..p - 1 : e[i] = 0 /\ i \in 1..L
    OBVIOUS
<1>2. d[p - 1] = Zero
    <2>. DEFINE S == {i \in 0..p - 1 : d[i] = Zero}
    <2>1. 0 \in S
        OBVIOUS
    <2>2. ASSUME NEW i \in 1..p - 1, i - 1 \in S PROVE i \in S
        <3>1. d[i] = Multiplied(Zero, 0)
            BY <1>1, <2>2
        <3>. QED  BY <3>1, ZeroMultiplied DEF Groups
    <2>3. 0..p - 1 \subseteq S
        <3>. DEFINE k == p - 1
        <3>1. k \in Nat
            OBVIOUS
        <3>. HIDE DEF S, k
        <3>2. 0..k \subseteq S
            BY <2>1, <2>2, <3>1, InductionUpTo DEF k
        <3>. QED  BY <3>2 DEF k
    <2>4. p - 1 \in 0..p - 1
        OBVIOUS
    <2>. QED  BY <2>3, <2>4
<1>3. a \in 1..31 /\ d[p] = Alone(a)
    <2>1. a \in Groups /\ d[p] = Multiplied(Zero, a)
        BY <1>2
    <2>2. a # 0
        OBVIOUS
    <2>. HIDE DEF a
    <2>3. a \in 1..31
        BY <2>1, <2>2 DEF Groups
    <2>. QED  BY <2>1, <2>3, ZeroMultiplied
<1>. QED  BY <1>3

\* and at their end, when they differ in at most one group more and it is at
\* most 86 groups away: neither none, nor that of the two constants.
LEMMA TwoDiffer ==
    ASSUME NEW L, NEW d, NEW e, Difference(L, d, e),
           NEW p \in 1..L, NEW q \in 1..L, p < q, L - p <= 86,
           e[p] # 0, \A i \in 1..L : i # p /\ i # q => e[i] = 0
    PROVE  d[L] # Zero /\ d[L] # Delta
<1>. DEFINE a == e[p]
            r == Multiplied(d[q - 1], 0)
            m == q - p
            n == L - q
<1>1. \A i \in 1..p - 1 : e[i] = 0
    BY DEF Difference
<1>2. a \in 1..31 /\ d[p] = Alone(a)
    BY <1>1, FirstDiffers
<1>. L \in Nat /\ d \in [0..L -> Coefficients] /\ e \in [1..L -> Groups] /\ d[0] = Zero
     /\ \A i \in 1..L : d[i] = Multiplied(d[i - 1], e[i])
    BY DEF Difference
<1>3. m \in 1..86 /\ n \in 0..86 /\ q - 1 \in 0..L
    OBVIOUS
<1>4. Mark(r) \in StepMarks
    <2>. DEFINE f == [i \in 0..m |-> IF i = m THEN r ELSE d[p + i]]
    <2>1. \A i \in 0..m - 1 : p + i \in 0..L
        OBVIOUS
    <2>2. r \in Coefficients
        BY <1>3, MultipliedType DEF Groups
    <2>. HIDE DEF r
    <2>3. f \in [0..m -> Coefficients]
        <3>1. \A i \in 0..m : i # m => d[p + i] \in Coefficients
            BY <2>1
        <3>. QED  BY <2>2, <3>1
    <2>4. ASSUME NEW i \in 1..m PROVE f[i] = Multiplied(f[i - 1], 0)
        <3>1. f[i - 1] = d[p + (i - 1)]
            OBVIOUS
        <3>2. CASE i = m
            BY <3>1, <3>2 DEF r
        <3>3. CASE i # m
            <4>1. p + i \in 1..L /\ p + i # p /\ p + i # q /\ (p + i) - 1 = p + (i - 1)
                BY <3>3
            <4>2. d[p + i] = Multiplied(d[p + (i - 1)], 0)
                BY <4>1
            <4>. QED  BY <3>1, <3>3, <4>2
        <3>. QED  BY <3>2, <3>3
    <2>5. f[0] = Alone(a)
        BY <1>2, <1>3
    <2>6. f[m] = r
        BY <1>3
    <2>. HIDE DEF f, a, m
    <2>7. IsRun(f, m)
        BY <2>3, <2>4 DEF IsRun
    <2>. QED  BY <1>2, <1>3, <2>5, <2>6, <2>7, EveryRunMarked DEF AllMarked
<1>5. Mark(d[q]) \in StepMarks
    <2>1. d[q] = Multiplied(d[q - 1], e[q])
        OBVIOUS
    <2>2. \A c, x : \A i \in 1..5 : Multiplied(c, x)[i] = Multiplied(c, 0)[i]
        <3>1. \A c, x : \A i \in 1..5 : Shifted(c, x)[i] = Shifted(c, 0)[i]
            BY DEF Shifted
        <3>2. \A u, k : \A i \in 1..5 : Xor6(u, k)[i] = Xor5(u[i], k[i])
            BY DEF Xor6
        <3>. QED  BY <3>1, <3>2 DEF Multiplied
    <2>3. \A i \in 1..5 : d[q][i] = r[i]
        BY <2>1, <2>2
    <2>. HIDE DEF r
    <2>. QED  BY <1>4, <2>3 DEF Mark
<1>6. \A z : z = d[L] /\ (z = Zero \/ z = Back[1]) => d[q] = Zero \/ d[q] = Back[n + 1]
    <2>. DEFINE f == [i \in 0..n |-> d[q + i]]
    <2>1. \A i \in 0..n : q + i \in 0..L
        OBVIOUS
    <2>2. f \in [0..n -> Coefficients]
        BY <2>1
    <2>3. ASSUME NEW i \in 1..n PROVE f[i] = Multiplied(f[i - 1], 0)
        <3>1. q + i \in 1..L /\ q + i # p /\ q + i # q /\ (q + i) - 1 = q + (i - 1)
            OBVIOUS
        <3>2. d[q + i] = Multiplied(d[q + (i - 1)], 0)
            BY <3>1
        <3>3. f[i] = d[q + i] /\ f[i - 1] = d[q + (i - 1)]
            OBVIOUS
        <3>. QED  BY <3>2, <3>3
    <2>4. f[0] = d[q] /\ f[n] = d[L]
        BY <1>3
    <2>. HIDE DEF f, n
    <2>5. IsRun(f, n)
        BY <2>2, <2>3 DEF IsRun
    <2>. QED  BY <1>3, <2>4, <2>5, BackFrom
<1>7. Mark(Zero) \notin StepMarks
    <2>1. Mark(Zero) = 39303
        BY DEF Mark, Ratio, Zero
    <2>. QED  BY <2>1 DEF StepMarks
<1>8. d[q] # Zero /\ d[q] # Back[n + 1]
    <2>1. n + 1 \in 1..87
        BY <1>3
    <2>. HIDE DEF n
    <2>. QED  BY <1>5, <1>7, <2>1, BackUnmarked
<1>9. Delta = Back[1]
    BY DEF Delta, Back
<1>. QED  BY <1>6, <1>8, <1>9

LEMMA Xor5SameIfZero ==
    ASSUME NEW x \in Groups, NEW y \in Groups
    PROVE  Xor5(x, y) = 0 <=> x = y
<1>1. Xor5(Xor5(x, y), y) = Xor5(x, Xor5(y, y))
    BY Xor5Associates
<1>. QED  BY <1>1, Xor5Self

LEMMA SameLength ==
    ASSUME NEW v \in Seq(Groups), NEW L, L = Len(v)
    PROVE  \A i \in 1..L : v[i] \in Groups
OBVIOUS

\* The checksums of two texts of a length differ by that of their differences,
\* with nothing to begin with.
LEMMA Differences ==
    ASSUME NEW v \in Seq(Groups), NEW w \in Seq(Groups), NEW L \in Nat, L = Len(v), L = Len(w)
    PROVE  \E d \in [0..L -> Coefficients] :
               /\ d[0] = Zero
               /\ \A i \in 1..L : d[i] = Multiplied(d[i - 1], Xor5(v[i], w[i]))
               /\ d[L] = Xor6(PolyMod(v), PolyMod(w))
<1>1. PICK b \in [0..L -> Coefficients] :
          /\ b[0] = <<0, 0, 0, 0, 0, 1>>
          /\ \A i \in 1..L : b[i] = Multiplied(b[i - 1], v[i])
          /\ PolyMod(v) = b[L]
    BY PolyModDef
<1>2. PICK c \in [0..L -> Coefficients] :
          /\ c[0] = <<0, 0, 0, 0, 0, 1>>
          /\ \A i \in 1..L : c[i] = Multiplied(c[i - 1], w[i])
          /\ PolyMod(w) = c[L]
    BY PolyModDef
<1>. DEFINE d == [i \in 0..L |-> Xor6(b[i], c[i])]
<1>3. d \in [0..L -> Coefficients]
    BY Xor6Type
<1>4. d[0] = Zero
    <2>1. 0 \in 0..L
        OBVIOUS
    <2>. QED  BY <1>1, <1>2, <2>1, Xor6Self
<1>5. ASSUME NEW i \in 1..L PROVE d[i] = Multiplied(d[i - 1], Xor5(v[i], w[i]))
    <2>1. i \in 0..L /\ i - 1 \in 0..L /\ v[i] \in Groups /\ w[i] \in Groups
        <3>1. v[i] \in Groups /\ w[i] \in Groups
            BY SameLength, Zenon
        <3>. QED  BY <3>1
    <2>2. b[i - 1] \in Coefficients /\ c[i - 1] \in Coefficients
        BY <2>1
    <2>3. d[i] = Xor6(Multiplied(b[i - 1], v[i]), Multiplied(c[i - 1], w[i]))
          /\ d[i - 1] = Xor6(b[i - 1], c[i - 1])
        BY <1>1, <1>2, <2>1
    <2>. QED  BY <2>1, <2>2, <2>3, MultipliedAdds
<1>6. d[L] = Xor6(PolyMod(v), PolyMod(w))
    BY <1>1, <1>2
<1>. QED  BY <1>3, <1>4, <1>5, <1>6

\* Two texts that differ in one group, or in two, of the last 87.
LEMMA TwoWrong ==
    ASSUME NEW v \in Seq(Groups), NEW w \in Seq(Groups), NEW L \in Nat, L = Len(v), L = Len(w),
           \E i \in 1..L : v[i] # w[i],
           \A i \in 1..L : v[i] # w[i] => L - i <= 86,
           \A i, j, k \in 1..L : v[i] # w[i] /\ v[j] # w[j] /\ v[k] # w[k]
                                     => i = j \/ j = k \/ i = k
    PROVE  Xor6(PolyMod(v), PolyMod(w)) \notin {Zero, Delta}
<1>1. PICK d \in [0..L -> Coefficients] :
          /\ d[0] = Zero
          /\ \A i \in 1..L : d[i] = Multiplied(d[i - 1], Xor5(v[i], w[i]))
          /\ d[L] = Xor6(PolyMod(v), PolyMod(w))
    BY Differences
<1>. DEFINE e == [i \in 1..L |-> Xor5(v[i], w[i])]
            U == {i \in 1..L : v[i] # w[i]}
<1>2. \A i \in 1..L : v[i] \in Groups /\ w[i] \in Groups
    BY SameLength, Zenon
<1>3. e \in [1..L -> Groups] /\ \A i \in 1..L : e[i] # 0 <=> v[i] # w[i]
    BY <1>2, Xor5Type, Xor5SameIfZero
<1>4. \A i \in 1..L : d[i] = Multiplied(d[i - 1], e[i])
    BY <1>1
<1>. HIDE DEF e
<1>5. Difference(L, d, e)
    BY <1>1, <1>3, <1>4, Zenon DEF Difference
<1>6. PICK p \in U : \A i \in U : p <= i
    <2>1. U \in SUBSET Nat /\ U # {}
        OBVIOUS
    <2>. HIDE DEF U
    <2>. QED  BY <2>1, Least
<1>7. p \in 1..L /\ e[p] # 0 /\ L - p <= 86 /\ \A i \in 1..p - 1 : e[i] = 0
    <2>1. p \in 1..L /\ v[p] # w[p]
        BY <1>6
    <2>2. ASSUME NEW i \in 1..p - 1 PROVE e[i] = 0
        <3>1. i \in 1..L /\ i \notin U
            BY <1>6
        <3>. QED  BY <1>3, <3>1
    <2>. QED  BY <1>3, <2>1, <2>2
<1>8. CASE p = L
    <2>1. e[p] \in 1..31 /\ d[p] = Alone(e[p])
        BY <1>5, <1>7, FirstDiffers
    <2>2. \A a \in 1..31 : Alone(a) # Zero /\ Alone(a) # Delta
        <3>1. \A a : Alone(a)[1] = 0 /\ Alone(a)[6] = a
            BY DEF Alone
        <3>2. Zero[6] = 0 /\ Delta[1] = 21
            BY DEF Zero, Delta
        <3>. QED  BY <3>1, <3>2
    <2>. QED  BY <1>1, <1>8, <2>1, <2>2
<1>9. CASE p # L
    <2>1. PICK q \in 1..L : p < q /\ \A i \in 1..L : i # p /\ i # q => e[i] = 0
        <3>1. CASE \E i \in U : i # p
            <4>1. PICK q \in U : q # p
                BY <3>1
            <4>2. q \in 1..L /\ p < q
                BY <1>6, <1>7, <4>1
            <4>3. \A i \in 1..L : i # p /\ i # q => i \notin U
                BY <1>6, <4>1
            <4>. QED  BY <1>3, <4>2, <4>3
        <3>2. CASE \A i \in U : i = p
            <4>1. p + 1 \in 1..L /\ p < p + 1
                BY <1>7, <1>9
            <4>2. \A i \in 1..L : i # p => e[i] = 0
                BY <1>3, <3>2
            <4>. QED  BY <4>1, <4>2
        <3>. QED  BY <3>1, <3>2
    <2>2. d[L] # Zero /\ d[L] # Delta
        BY <1>5, <1>7, <2>1, TwoDiffer
    <2>. QED  BY <1>1, <2>2
<1>. QED  BY <1>8, <1>9

\* What is true of a text that is accepted.
LEMMA DecodeParts ==
    ASSUME NEW str \in Seq(Characters), Decode(str) # Invalid
    PROVE  \E pos \in 1..Len(str) :
              LET w == [i \in 1..Len(str) - pos |-> Place(LowerCase(str[pos + i]), CHARSET) - 1]
              IN /\ str[pos] = "1" /\ Len(str) <= 90
                 /\ Decode(str).hrp = [i \in 1..pos - 1 |-> LowerCase(str[i])]
                 /\ \A i \in 1..Len(str) - pos : LowerCase(str[pos + i]) \in Range(CHARSET)
                 /\ VerifyChecksum(Decode(str).hrp, w) # "INVALID"
<1>. DEFINE m == Len(str)
            ones == {i \in DOMAIN str : str[i] = "1"}
            pos == CHOOSE i \in ones : \A j \in ones : j <= i
            rest == [i \in 1..Len(str) - pos |-> LowerCase(str[pos + i])]
            hrp == [i \in 1..pos - 1 |-> LowerCase(str[i])]
            w == [i \in DOMAIN rest |-> Place(rest[i], CHARSET) - 1]
<1>1. Decode(str) =
          IF \/ " " \in Range(str)
             \/ \E i, j \in DOMAIN str : IsLower(str[i]) /\ IsUpper(str[j])
             \/ Len(str) > 90 \/ ones = {} \/ pos = 1 \/ pos + 6 > Len(str)
             \/ ~(Range(rest) \subseteq Range(CHARSET))
          THEN Invalid
          ELSE Verified(hrp, w)
    BY Zenon DEF Decode
<1>2. /\ ones # {} /\ ~(Len(str) > 90) /\ Range(rest) \subseteq Range(CHARSET)
      /\ Decode(str) = Verified(hrp, w)
    <2>. HIDE DEF ones, pos, rest, hrp, w
    <2>. QED  BY <1>1, Zenon
<1>3. m \in Nat /\ ones \in SUBSET (1..m)
    OBVIOUS
<1>4. pos \in 1..m /\ str[pos] = "1"
    <2>1. \E i \in ones : \A j \in ones : j <= i
        <3>. HIDE DEF ones, m
        <3>. QED  BY <1>2, <1>3, Greatest
    <2>2. pos \in ones
        <3>. HIDE DEF ones
        <3>. QED  BY <2>1
    <2>. HIDE DEF pos
    <2>. QED  BY <1>3, <2>2
<1>. HIDE DEF ones, pos
<1>5. /\ \A i \in 1..m - pos : LowerCase(str[pos + i]) \in Range(CHARSET)
      /\ w = [i \in 1..m - pos |-> Place(LowerCase(str[pos + i]), CHARSET) - 1]
    <2>1. DOMAIN rest = 1..m - pos /\ \A i \in 1..m - pos : rest[i] = LowerCase(str[pos + i])
        OBVIOUS
    <2>. HIDE DEF rest
    <2>2. \A i \in DOMAIN rest : rest[i] \in Range(rest)
        BY DEF Range
    <2>3. \A i \in 1..m - pos : LowerCase(str[pos + i]) \in Range(CHARSET)
        BY <1>2, <2>1, <2>2
    <2>. QED  BY <2>1, <2>3
<1>. HIDE DEF rest, hrp, w
<1>6. VerifyChecksum(hrp, w) # "INVALID" /\ Decode(str).hrp = hrp
    BY <1>2 DEF Verified
<1>7. Len(str) <= 90
    BY <1>2, <1>3
<1>. QED  BY <1>4, <1>5, <1>6, <1>7 DEF hrp, m

\* A checksum that verifies is a constant.
LEMMA VerifiedConstant ==
    ASSUME NEW hrp, NEW values
    PROVE  LET check == PolyMod(ExpandHRP(hrp) \o values)
           IN /\ VerifyChecksum(hrp, values) = "BECH32" => check = EncodingConstant["BECH32"]
              /\ VerifyChecksum(hrp, values) # "INVALID"
                    => check \in {EncodingConstant["BECH32"], EncodingConstant["BECH32M"]}
<1>. DEFINE check == PolyMod(ExpandHRP(hrp) \o values)
            c == CHOOSE e \in DOMAIN EncodingConstant : EncodingConstant[e] = check
<1>1. VerifyChecksum(hrp, values) =
          IF \E e \in DOMAIN EncodingConstant : EncodingConstant[e] = check THEN c ELSE "INVALID"
    BY Zenon DEF VerifyChecksum
<1>. HIDE DEF check
<1>2. (\E e \in DOMAIN EncodingConstant : EncodingConstant[e] = check)
          => c \in DOMAIN EncodingConstant /\ EncodingConstant[c] = check
    OBVIOUS
<1>. HIDE DEF c
<1>3. VerifyChecksum(hrp, values) = "BECH32" => check = EncodingConstant["BECH32"]
    BY <1>1, <1>2
<1>4. VerifyChecksum(hrp, values) # "INVALID"
          => check \in {EncodingConstant["BECH32"], EncodingConstant["BECH32M"]}
    BY <1>1, <1>2, EncodingConstants
<1>. QED  BY <1>3, <1>4 DEF check

\* Two texts that are accepted, the first as BECH32, differ in their checksums
\* as the constants do.
LEMMA ConstantsDiffer ==
    \A x \in {EncodingConstant["BECH32"], EncodingConstant["BECH32M"]} :
        Xor6(EncodingConstant["BECH32"], x) \in {Zero, Delta}
<1>1. Xor6(<<0, 0, 0, 0, 0, 1>>, <<0, 0, 0, 0, 0, 1>>) = Zero
    BY EncodingConstants, Xor6Self DEF EncodingConstant
<1>2. Xor6(<<0, 0, 0, 0, 0, 1>>, <<21, 28, 16, 12, 5, 3>>) = Delta
    <2>1. \A a1, a2, a3, a4, a5, a6, b1, b2, b3, b4, b5, b6 :
              Xor6(<<a1, a2, a3, a4, a5, a6>>, <<b1, b2, b3, b4, b5, b6>>)
                  = <<Xor5(a1, b1), Xor5(a2, b2), Xor5(a3, b3),
                      Xor5(a4, b4), Xor5(a5, b5), Xor5(a6, b6)>>
        BY DEF Xor6
    <2>2. Xor5(0, 21) = 21 /\ Xor5(0, 28) = 28 /\ Xor5(0, 16) = 16
          /\ Xor5(0, 12) = 12 /\ Xor5(0, 5) = 5 /\ Xor5(1, 3) = 2
        BY DEF Xor5
    <2>. QED  BY <2>1, <2>2 DEF Delta
<1>. QED  BY <1>1, <1>2 DEF EncodingConstant

\* Of the groups that are read and those that were written, the ones differ
\* whose characters do.
LEMMA WrongGroups ==
    ASSUME NEW c \in Range(CHARSET), NEW g \in Groups
    PROVE  /\ Place(c, CHARSET) - 1 \in Groups
           /\ Place(c, CHARSET) - 1 # g <=> c # CHARSET[g + 1]
<1>1. PICK i \in 1..32 : c = CHARSET[i]
    BY Charset DEF Range
<1>2. Place(c, CHARSET) = i /\ g + 1 \in 1..32 /\ Place(CHARSET[g + 1], CHARSET) = g + 1
    <2>1. g + 1 \in 1..32
        BY DEF Groups
    <2>. QED  BY <1>1, <2>1, Charset
<1>3. i - 1 \in Groups /\ g \in Int
    BY DEF Groups
<1>4. i - 1 = g <=> c = CHARSET[g + 1]
    BY <1>1, <1>2, <1>3
<1>. QED  BY <1>2, <1>3, <1>4

LEMMA Behind ==
    ASSUME NEW e \in Seq(Groups), NEW v \in Seq(Groups)
    PROVE  \A i \in 1..Len(v) : (e \o v)[Len(e) + i] = v[i]
BY ConcatBack

\* Two texts of groups behind the same prefix, the first one with its checksum.
LEMMA WrongTextRefused ==
    ASSUME NEW v \in Seq(Groups), NEW w \in Seq(Groups), NEW n \in Nat, n <= 87,
           n = Len(v), n = Len(w),
           VerifyChecksum(Io, v) = "BECH32",
           \E i \in 1..n : v[i] # w[i],
           \A i, j, k \in 1..n : v[i] # w[i] /\ v[j] # w[j] /\ v[k] # w[k]
                                     => i = j \/ j = k \/ i = k
    PROVE  VerifyChecksum(Io, w) = "INVALID"
<1>. DEFINE e == ExpandHRP(Io)
            h == Len(e)
            x == e \o v
            y == e \o w
            L == h + n
<1>1. e \in Seq(Groups)
    BY IoExpanded
<1>. HIDE DEF e
<1>2. h \in Nat /\ L \in Nat
    BY <1>1
<1>3. x \in Seq(Groups) /\ y \in Seq(Groups) /\ Len(x) = L /\ Len(y) = L
    <2>1. x \in Seq(Groups) /\ Len(x) = Len(e) + Len(v)
        BY <1>1, ConcatType, Zenon
    <2>2. y \in Seq(Groups) /\ Len(y) = Len(e) + Len(w)
        BY <1>1, ConcatType, Zenon
    <2>. HIDE DEF x, y
    <2>. QED  BY <2>1, <2>2
<1>4. /\ \A i \in 1..h : x[i] = y[i]
      /\ \A i \in 1..n : x[h + i] = v[i] /\ y[h + i] = w[i]
    <2>1. \A i \in 1..h : x[i] = e[i] /\ y[i] = e[i]
        BY <1>1, ConcatFront
    <2>2. /\ \A i \in 1..Len(v) : (e \o v)[Len(e) + i] = v[i]
          /\ \A i \in 1..Len(w) : (e \o w)[Len(e) + i] = w[i]
        BY <1>1, Behind, Zenon
    <2>3. (\A i \in 1..Len(v) : x[h + i] = v[i]) /\ (\A i \in 1..Len(w) : y[h + i] = w[i])
        BY <2>2, Zenon DEF h, x, y
    <2>. HIDE DEF h, x, y
    <2>. QED  BY <2>1, <2>3
<1>5. n \in Int /\ n <= 87 /\ h \in Nat /\ L = h + n
    <2>1. L = h + n
        OBVIOUS
    <2>. HIDE DEF h, L
    <2>2. n \in Int /\ n <= 87
        OBVIOUS
    <2>. QED  BY <1>2, <2>1, <2>2
<1>. HIDE DEF h, x, y, L
<1>6. \A i \in 1..L : x[i] # y[i] => /\ i - h \in 1..n /\ L - i <= 86
                                     /\ v[i - h] # w[i - h]
    <2>. SUFFICES ASSUME NEW i \in 1..L, x[i] # y[i]
                  PROVE  i - h \in 1..n /\ L - i <= 86 /\ v[i - h] # w[i - h]
        OBVIOUS
    <2>1. i \notin 1..h
        BY <1>4
    <2>2. i - h \in 1..n /\ L - i <= 86 /\ h + (i - h) = i
        BY <1>5, <2>1
    <2>. QED  BY <1>4, <2>2
<1>7. \E i \in 1..L : x[i] # y[i]
    <2>1. PICK i \in 1..n : v[i] # w[i]
        OBVIOUS
    <2>2. h + i \in 1..L /\ x[h + i] # y[h + i]
        BY <1>4, <1>5, <2>1
    <2>. QED  BY <2>2
<1>8. \A i, j, k \in 1..L : x[i] # y[i] /\ x[j] # y[j] /\ x[k] # y[k]
                                => i = j \/ j = k \/ i = k
    <2>. SUFFICES ASSUME NEW i \in 1..L, NEW j \in 1..L, NEW k \in 1..L,
                         x[i] # y[i], x[j] # y[j], x[k] # y[k]
                  PROVE  i = j \/ j = k \/ i = k
        OBVIOUS
    <2>1. /\ i - h \in 1..n /\ v[i - h] # w[i - h]
          /\ j - h \in 1..n /\ v[j - h] # w[j - h]
          /\ k - h \in 1..n /\ v[k - h] # w[k - h]
        BY <1>6
    <2>2. i - h = j - h \/ j - h = k - h \/ i - h = k - h
        BY <2>1
    <2>. QED  BY <1>5, <2>2
<1>9. Xor6(PolyMod(x), PolyMod(y)) \notin {Zero, Delta}
    <2>1. \A i \in 1..L : x[i] # y[i] => L - i <= 86
        BY <1>6
    <2>. QED  BY <1>2, <1>3, <1>7, <1>8, <2>1, TwoWrong
<1>10. PolyMod(x) = EncodingConstant["BECH32"]
    BY VerifiedConstant DEF x, e
<1>11. VerifyChecksum(Io, w) # "INVALID"
          => PolyMod(y) \in {EncodingConstant["BECH32"], EncodingConstant["BECH32M"]}
    BY VerifiedConstant DEF y, e
<1>. QED  BY <1>9, <1>10, <1>11, ConstantsDiffer

LEMMA OneIsSmall ==
    LowerCase("1") = "1"
<1>1. "1" \in Range(Digits)
    BY CharacterSets
<1>2. "1" \notin Range(Upper)
    BY <1>1, CharactersDisjoint
<1>. QED  BY <1>2, LowerCases

\* An address in which one character is wrong, or two: it is refused, or the
\* wrong characters are in the prefix or end it, and the prefix is another one.
LEMMA TypoRefused ==
    ASSUME NEW values \in Seq(Groups), NEW str \in Seq(Characters),
           NEW text, text = Encode("BECH32", Io, values), Len(str) = Len(text),
           Decode(str) # Invalid,
           \E i \in DOMAIN str : LowerCase(str[i]) # text[i],
           \A i, j, k \in {l \in DOMAIN str : LowerCase(str[l]) # text[l]} :
               i = j \/ j = k \/ i = k
    PROVE  /\ Decode(str).hrp # Io
           /\ \E i \in DOMAIN str : LowerCase(str[i]) # text[i] /\ (i <= 2 \/ str[i] = "1")
<1>. DEFINE chk == CreateChecksum("BECH32", Io, values)
            v == values \o chk
            m == Len(str)
            n == m - 3
            T == {l \in DOMAIN str : LowerCase(str[l]) # text[l]}
<1>1. /\ v \in Seq(Groups) /\ Len(v) = Len(values) + 6
      /\ text \in Seq(Plain) /\ Len(text) = Len(values) + 9
      /\ text[1] = "i" /\ text[2] = "o" /\ text[3] = "1"
      /\ \A i \in 1..Len(values) + 6 : text[3 + i] = CHARSET[v[i] + 1]
    BY EncodeWrites, Zenon
<1>2. VerifyChecksum(Io, v) = "BECH32"
    BY IoExpanded, ChecksumVerifies
<1>. HIDE DEF v
<1>3. PICK pos \in 1..m :
          LET w == [i \in 1..m - pos |-> Place(LowerCase(str[pos + i]), CHARSET) - 1]
          IN /\ str[pos] = "1" /\ m <= 90
             /\ Decode(str).hrp = [i \in 1..pos - 1 |-> LowerCase(str[i])]
             /\ \A i \in 1..m - pos : LowerCase(str[pos + i]) \in Range(CHARSET)
             /\ VerifyChecksum(Decode(str).hrp, w) # "INVALID"
    BY DecodeParts
<1>4. /\ m \in Nat /\ m <= 90 /\ n \in Nat /\ n <= 87 /\ n = Len(v) /\ n = Len(values) + 6
      /\ DOMAIN str = 1..m /\ DOMAIN text = 1..m
    <2>1. Len(values) \in Nat
        OBVIOUS
    <2>2. m = Len(values) + 9 /\ DOMAIN str = 1..m
        BY <1>1
    <2>3. DOMAIN text = 1..m
        <3>. HIDE DEF m
        <3>. QED  BY <1>1, <2>2
    <2>4. m <= 90
        BY <1>3
    <2>5. n = m - 3 /\ Len(v) = Len(values) + 6
        BY <1>1
    <2>. HIDE DEF m, n, v
    <2>6. m \in Nat /\ n \in Nat /\ n <= 87 /\ n = Len(v) /\ n = Len(values) + 6
        <3>. DEFINE lv == Len(values)
        <3>1. lv \in Nat /\ m = lv + 9 /\ n = m - 3 /\ Len(v) = lv + 6 /\ m <= 90
            BY <2>1, <2>2, <2>4, <2>5
        <3>. HIDE DEF lv
        <3>2. m \in Nat /\ n \in Nat /\ n <= 87 /\ n = Len(v) /\ n = lv + 6
            BY <3>1
        <3>. QED  BY <3>2 DEF lv
    <2>. QED  BY <2>2, <2>3, <2>4, <2>6
<1>. HIDE DEF m, T
<1>5. Decode(str).hrp = Io => pos = 3
    <2>1. DOMAIN Io = 1..2
        BY DEF Io
    <2>2. DOMAIN [i \in 1..pos - 1 |-> LowerCase(str[i])] = 1..pos - 1
        OBVIOUS
    <2>3. 1..pos - 1 = 1..2 => pos = 3
        <3>. SUFFICES ASSUME 1..pos - 1 = 1..2 PROVE pos = 3
            OBVIOUS
        <3>1. 2 \in 1..pos - 1 /\ 3 \notin 1..pos - 1
            <4>1. 2 \in 1..2 /\ 3 \notin 1..2
                OBVIOUS
            <4>. QED  BY <4>1, Zenon
        <3>2. pos \in Int
            BY <1>4
        <3>. QED  BY <3>1, <3>2
    <2>. QED  BY <1>3, <2>1, <2>2, <2>3
<1>6. ASSUME Decode(str).hrp = Io PROVE FALSE
    <2>. DEFINE w == [i \in 1..n |-> Place(LowerCase(str[3 + i]), CHARSET) - 1]
    <2>1. pos = 3
        BY <1>5, <1>6
    <2>2. /\ str[3] = "1"
          /\ \A i \in 1..n : LowerCase(str[3 + i]) \in Range(CHARSET)
          /\ VerifyChecksum(Io, w) # "INVALID"
        BY <1>3, <1>6, <2>1
    <2>3. LowerCase(str[1]) = "i" /\ LowerCase(str[2]) = "o"
        <3>1. [i \in 1..2 |-> LowerCase(str[i])] = Io
            BY <1>3, <1>6, <2>1
        <3>2. \A i \in 1..2 : LowerCase(str[i]) = Io[i]
            BY <3>1
        <3>. QED  BY <3>2 DEF Io
    <2>4. LowerCase(str[3]) = "1"
        BY <2>2, OneIsSmall
    <2>5. \A i \in 1..n : /\ w[i] \in Groups
                          /\ v[i] # w[i] <=> LowerCase(str[3 + i]) # text[3 + i]
        <3>. SUFFICES ASSUME NEW i \in 1..n
                      PROVE  /\ w[i] \in Groups
                             /\ v[i] # w[i] <=> LowerCase(str[3 + i]) # text[3 + i]
            OBVIOUS
        <3>1. v[i] \in Groups
            BY <1>1, <1>4, SameLength
        <3>2. w[i] = Place(LowerCase(str[3 + i]), CHARSET) - 1
            OBVIOUS
        <3>3. text[3 + i] = CHARSET[v[i] + 1]
            BY <1>1, <1>4
        <3>4. LowerCase(str[3 + i]) \in Range(CHARSET)
            BY <2>2
        <3>5. /\ Place(LowerCase(str[3 + i]), CHARSET) - 1 \in Groups
              /\ Place(LowerCase(str[3 + i]), CHARSET) - 1 # v[i]
                    <=> LowerCase(str[3 + i]) # CHARSET[v[i] + 1]
            BY <3>1, <3>4, WrongGroups, Zenon
        <3>. HIDE DEF w, n
        <3>. QED  BY <3>2, <3>3, <3>5
    <2>6. w \in Seq(Groups) /\ n = Len(w)
        <3>1. n \in Nat /\ w \in [1..n -> Groups]
            BY <1>4, <2>5
        <3>. HIDE DEF w, n
        <3>. QED  BY <3>1, FunctionIsSeq
    <2>. HIDE DEF w
    <2>7. \A i \in DOMAIN str : LowerCase(str[i]) # text[i]
              => i - 3 \in 1..n /\ v[i - 3] # w[i - 3]
        <3>. SUFFICES ASSUME NEW i \in 1..m, LowerCase(str[i]) # text[i]
                      PROVE  i - 3 \in 1..n /\ v[i - 3] # w[i - 3]
            BY <1>4
        <3>1. i # 1 /\ i # 2 /\ i # 3
            BY <1>1, <2>3, <2>4
        <3>2. i - 3 \in 1..n /\ 3 + (i - 3) = i
            BY <1>4, <3>1
        <3>. QED  BY <2>5, <3>2
    <2>8. \E i \in 1..n : v[i] # w[i]
        BY <2>7
    <2>9. \A i, j, k \in 1..n : v[i] # w[i] /\ v[j] # w[j] /\ v[k] # w[k]
                                    => i = j \/ j = k \/ i = k
        <3>. SUFFICES ASSUME NEW i \in 1..n, NEW j \in 1..n, NEW k \in 1..n,
                             v[i] # w[i], v[j] # w[j], v[k] # w[k]
                      PROVE  i = j \/ j = k \/ i = k
            OBVIOUS
        <3>1. 3 + i \in DOMAIN str /\ 3 + j \in DOMAIN str /\ 3 + k \in DOMAIN str
            BY <1>4
        <3>2. 3 + i \in T /\ 3 + j \in T /\ 3 + k \in T
            BY <2>5, <3>1 DEF T
        <3>3. 3 + i = 3 + j \/ 3 + j = 3 + k \/ 3 + i = 3 + k
            BY <3>2 DEF T
        <3>. QED  BY <3>3
    <2>. QED  BY <1>1, <1>2, <1>4, <2>2, <2>6, <2>8, <2>9, WrongTextRefused
<1>7. ASSUME \A i \in DOMAIN str : LowerCase(str[i]) # text[i] => ~(i <= 2) /\ str[i] # "1"
      PROVE  Decode(str).hrp = Io
    <2>1. text[pos] = "1"
        <3>1. LowerCase("1") = "1"
            BY OneIsSmall
        <3>. QED  BY <1>3, <1>4, <1>7, <3>1
    <2>2. ASSUME pos > 3 PROVE FALSE
        <3>1. pos - 3 \in 1..n /\ 3 + (pos - 3) = pos
            BY <1>4, <2>2
        <3>2. text[pos] = CHARSET[v[pos - 3] + 1] /\ v[pos - 3] \in Groups
            BY <1>1, <1>4, <3>1
        <3>3. v[pos - 3] + 1 \in 1..32
            <4>. DEFINE g == v[pos - 3]
            <4>1. g \in 0..31
                BY <3>2 DEF Groups
            <4>. HIDE DEF g
            <4>2. g + 1 \in 1..32
                BY <4>1
            <4>. QED  BY <4>2 DEF g
        <3>4. text[pos] \in Range(CHARSET)
            BY <3>2, <3>3, Charset, Zenon
        <3>. QED  BY <2>1, <3>4, Charset
    <2>3. pos = 3
        BY <1>1, <1>4, <2>1, <2>2
    <2>4. LowerCase(str[1]) = "i" /\ LowerCase(str[2]) = "o"
        <3>1. 1 \in DOMAIN str /\ 2 \in DOMAIN str
            BY <1>4, <2>3
        <3>. QED  BY <1>1, <1>7, <3>1
    <2>5. \A i \in 1..2 : LowerCase(str[i]) = Io[i]
        BY <2>4 DEF Io
    <2>6. Io = [i \in 1..2 |-> Io[i]]
        BY DEF Io
    <2>. QED  BY <1>3, <2>3, <2>5, <2>6
<1>. QED  BY <1>6, <1>7
-----------------------------------------------------------------------------
(* The invariant.                                                          *)

\* While a command runs: what its addresses and their copy are made of.
NamesAgree ==
    /\ hash \in Seq(Bytes) /\ ethAddr \in Seq(Range(hexmap))
    /\ ethAddr # <<>> => hash = AsBytes(ethAddr)
    /\ pc = "menu" => ethAddr = <<>>
    /\ pc = "account" => /\ hash \in [1..AddressLen -> Bytes]
                         /\ ethAddr = Hex2Str(hash, 2 * AddressLen + 1)
    /\ pc \in {"account", "encoded", "copied", "read"} => iotexAddr = bech32_encode(hash)
    /\ pc \in {"copied", "read"} => copy \in Seq(Characters) /\ Len(copy) = Len(iotexAddr)
    /\ decoded = (IF pc = "read" THEN Decode(copy) ELSE Invalid)

\* A copy is wrong in two places at most.
FewTypos ==
    pc \in {"copied", "read"} =>
        \A i, j, k \in Typos : i = j \/ j = k \/ i = k

ConvInv ==
    /\ TypeOK /\ NamesAgree /\ FewTypos
    /\ TypedIsRead /\ TransferIsAsTyped /\ SignedIsTyped

LEMMA StackType ==
    /\ MemLen \in Nat /\ KeyLen <= MemLen /\ KeyLimit <= MemLen
    /\ \A stack \in Stacks : stack \in [1..MemLen -> Bytes]
BY SizesAssumption, BytesAssumption DEF Stacks, Memory, MemLen

LEMMA BytesType ==
    ASSUME NEW n \in Nat, NEW bytes \in [1..n -> Bytes]
    PROVE  bytes \in Seq(Bytes) /\ Len(bytes) = n
BY FunctionIsSeq

LEMMA ReadsWhole ==
    ASSUME NEW text \in Seq(Characters), NEW size \in Nat, IsHex(Bare(text)),
           Len(Bare(text)) % 2 = 0, Len(Bare(text)) <= 2 * size
    PROVE  /\ Str2Hex(text, size).hex = AsBytes(Bare(text))
           /\ AsBytes(Bare(text)) \in Seq(Bytes)
           /\ Len(AsBytes(Bare(text))) = Len(Bare(text)) \div 2
<1>1. Str2Hex(text, size).hex = AsBytes(Bare(text))
    BY Str2HexReads
<1>2. Str2Hex(text, size).hex \in Seq(Bytes)
    BY Str2HexType
<1>3. Len(AsBytes(Bare(text))) = Len(Bare(text)) \div 2
    <2>. DEFINE bare == Bare(text)
    <2>1. bare \in Seq(Characters)
        BY UnprefixedType
    <2>. HIDE DEF bare
    <2>2. Len(bare) \div 2 \in Nat
        BY <2>1
    <2>3. Len(AsBytes(bare)) = Len(bare) \div 2
        BY <2>2 DEF AsBytes
    <2>. QED  BY <2>3 DEF bare
<1>. QED  BY <1>1, <1>2, <1>3

\* The first bytes of an array that another one was written over.
LEMMA OverKey ==
    ASSUME NEW stack \in [1..MemLen -> Bytes], NEW key \in Seq(Bytes), Len(key) = KeyLen
    PROVE  /\ Over(stack, key) \in [1..MemLen -> Bytes]
           /\ [i \in 1..KeyLen |-> Over(stack, key)[i]] = key
<1>1. MemLen \in Nat /\ KeyLen \in Nat /\ \A i \in 1..KeyLen : i \in 1..MemLen /\ i <= KeyLen
    BY StackType, SizesAssumption
<1>2. /\ Over(stack, key) \in [1..MemLen -> Bytes]
      /\ \A i \in 1..MemLen : Over(stack, key)[i] = IF i <= Len(key) THEN key[i] ELSE stack[i]
    BY <1>1, OverType
<1>3. \A i \in 1..KeyLen : Over(stack, key)[i] = key[i]
    BY <1>1, <1>2
<1>4. key = [i \in 1..KeyLen |-> key[i]]
    OBVIOUS
<1>. QED  BY <1>2, <1>3, <1>4

LEMMA KeyIsRead ==
    ASSUME NEW text \in KeyTexts, NEW stack \in Stacks
    PROVE  LET bare == Bare(text)
               now == Over(stack, Str2Hex(text, KeyLimit).hex)
           IN /\ now \in [Memory -> Bytes]
              /\ IsHex(bare) /\ Len(bare) = 2 * KeyLen =>
                    [i \in 1..KeyLen |-> now[i]] = AsBytes(bare)
              /\ \A i \in Memory :
                    2 * i > Len(bare) + 1 \/ Len(bare) > 2 * KeyLimit + 1 => now[i] = stack[i]
<1>. DEFINE bare == Bare(text)
            hex == Str2Hex(text, KeyLimit).hex
            now == Over(stack, hex)
<1>1. text \in Seq(Characters) /\ stack \in [1..MemLen -> Bytes] /\ MemLen \in Nat
      /\ KeyLimit \in Nat /\ KeyLen \in Nat /\ KeyLen <= KeyLimit
    BY TextsAssumption, StackType, SizesAssumption
<1>2. /\ hex \in Seq(Bytes) /\ 2 * Len(hex) <= Len(bare) + 1
      /\ Len(bare) > 2 * KeyLimit + 1 => Len(hex) = 0
    BY <1>1, Str2HexType
<1>3. /\ now \in [1..MemLen -> Bytes]
      /\ \A i \in 1..MemLen : now[i] = IF i <= Len(hex) THEN hex[i] ELSE stack[i]
    <2>. HIDE DEF hex
    <2>. QED  BY <1>1, <1>2, OverType
<1>4. bare \in Seq(Characters) /\ Len(bare) \in Nat
    BY <1>1, UnprefixedType
<1>5. ASSUME NEW i \in Memory, 2 * i > Len(bare) + 1 \/ Len(bare) > 2 * KeyLimit + 1
      PROVE  now[i] = stack[i]
    <2>1. Len(hex) \in Nat /\ i \in 1..MemLen
        BY <1>2 DEF Memory
    <2>2. ~(i <= Len(hex))
        <3>. HIDE DEF bare, hex
        <3>. QED  BY <1>1, <1>2, <1>4, <1>5, <2>1
    <2>. HIDE DEF now, hex
    <2>. QED  BY <1>3, <2>1, <2>2
<1>6. ASSUME IsHex(bare), Len(bare) = 2 * KeyLen
      PROVE  [i \in 1..KeyLen |-> now[i]] = AsBytes(bare)
    <2>1. Len(bare) % 2 = 0 /\ Len(bare) <= 2 * KeyLimit /\ Len(bare) \div 2 = KeyLen
        BY <1>1, <1>6
    <2>2. hex = AsBytes(bare) /\ hex \in Seq(Bytes) /\ Len(hex) = KeyLen
        BY <1>1, <1>6, <2>1, ReadsWhole
    <2>. HIDE DEF hex
    <2>3. [i \in 1..KeyLen |-> now[i]] = hex
        BY <1>1, <2>2, OverKey
    <2>. QED  BY <2>2, <2>3
<1>7. now \in [Memory -> Bytes]
    BY <1>3 DEF Memory
<1>. QED  BY <1>5, <1>6, <1>7

\* The Ethereum address of an account.
LEMMA HexAddress ==
    ASSUME NEW h \in [1..AddressLen -> Bytes]
    PROVE  LET text == Hex2Str(h, 2 * AddressLen + 1)
           IN /\ h \in Seq(Bytes) /\ Len(h) = AddressLen
              /\ text \in Seq(Range(hexmap)) /\ Len(text) = 2 * AddressLen /\ AsBytes(text) = h
              /\ IsText(text) /\ text \in Seq(Characters)
<1>1. AddressLen \in Nat
    BY SizesAssumption
<1>2. h \in Seq(Bytes) /\ Len(h) = AddressLen
    BY <1>1, BytesType
<1>. DEFINE text == Hex2Str(h, 2 * AddressLen + 1)
<1>3. text \in Seq(Range(hexmap)) /\ Len(text) = 2 * AddressLen /\ AsBytes(text) = h
    <2>1. 2 * AddressLen + 1 \in Nat /\ 2 * Len(h) <= 2 * AddressLen + 1
        BY <1>1, <1>2
    <2>2. h \in Seq(Bytes)
        BY <1>2
    <2>3. text \in Seq(Range(hexmap)) /\ Len(text) = 2 * Len(h) /\ AsBytes(text) = h
        BY <2>1, <2>2, Hex2StrWrites
    <2>. QED  BY <1>2, <2>3
<1>. HIDE DEF text
<1>4. IsText(text) /\ text \in Seq(Characters)
    BY <1>3, CharactersOf, TextType
<1>. QED  BY <1>2, <1>3, <1>4 DEF text
LEMMA NothingTyped ==
    Nothing.command \notin {"SignMessage", "Transfer", "CreateAccount", "EncodeHexString"}
<1>1. Nothing.command = ""
    BY Zenon DEF Nothing
<1>2. "" # "SignMessage" /\ "" # "Transfer" /\ "" # "CreateAccount" /\ "" # "EncodeHexString"
    BY Zenon
<1>. QED  BY <1>1, <1>2, Zenon

LEMMA InitConv == Init => ConvInv
<1>. SUFFICES ASSUME Init PROVE ConvInv
    OBVIOUS
<1>1. TypeOK
    <2>1. memory \in [Memory -> Bytes] /\ old \in Stacks
        BY StackType DEF Init, Memory
    <2>2. IsText(<<>>) /\ Len(<<>>) = 0 /\ Range(<<>>) = {} /\ DOMAIN <<>> = {}
        BY DEF IsText, Range
    <2>3. Range(hashed.digits) = {}
        BY <2>2 DEF Init, NotHashed
    <2>. QED  BY <2>1, <2>2, <2>3 DEF Init, TypeOK
<1>2. NamesAgree
    <2>1. <<>> \in Seq(Bytes) /\ <<>> \in Seq(Range(hexmap))
        OBVIOUS
    <2>. QED  BY <2>1 DEF Init, NamesAgree
<1>3. FewTypos
    BY DEF Init, FewTypos
<1>4. TypedIsRead /\ TransferIsAsTyped /\ SignedIsTyped
    BY NothingTyped DEF Init, TypedIsRead, TransferIsAsTyped, SignedIsTyped
<1>. QED  BY <1>1, <1>2, <1>4, <1>3 DEF ConvInv

\* A typed text as a whole key.
LEMMA AccountKey ==
    ASSUME NEW text \in KeyTexts, NEW stack \in Stacks, Len(text) = 2 * KeyLen
    PROVE  LET now == Over(Over(stack, Unset(KeyLen, 0)), Str2Hex(text, KeyLen).hex)
           IN /\ now \in [Memory -> Bytes]
              /\ IsHex(text) => [i \in 1..KeyLen |-> now[i]] = AsBytes(text)
<1>. DEFINE front == Unset(KeyLen, 0)
            hex == Str2Hex(text, KeyLen).hex
            first == Over(stack, front)
            now == Over(first, hex)
<1>1. text \in Seq(Characters) /\ stack \in [1..MemLen -> Bytes] /\ MemLen \in Nat /\ KeyLen \in Nat
    BY TextsAssumption, StackType, SizesAssumption
<1>2. front \in Seq(Bytes) /\ hex \in Seq(Bytes)
    BY <1>1, UnsetType, ZeroInside, Str2HexType
<1>. HIDE DEF front, hex
<1>3. first \in [1..MemLen -> Bytes]
    BY <1>1, <1>2, OverType
<1>. HIDE DEF first
<1>4. now \in [1..MemLen -> Bytes]
    BY <1>1, <1>2, <1>3, OverType
<1>5. ASSUME IsHex(text) PROVE [i \in 1..KeyLen |-> now[i]] = AsBytes(text)
    <2>1. Bare(text) = text
        BY <1>1, <1>5, HexIsBare
    <2>2. Len(text) % 2 = 0 /\ Len(text) <= 2 * KeyLen /\ Len(text) \div 2 = KeyLen
        BY <1>1
    <2>3. hex = AsBytes(text) /\ hex \in Seq(Bytes) /\ Len(hex) = KeyLen
        BY <1>1, <1>5, <2>1, <2>2, ReadsWhole DEF hex
    <2>4. [i \in 1..KeyLen |-> now[i]] = hex
        BY <1>3, <2>3, OverKey
    <2>. QED  BY <2>3, <2>4
<1>6. now \in [Memory -> Bytes]
    BY <1>4 DEF Memory
<1>. QED  BY <1>5, <1>6 DEF first, front, hex

LEMMA CreateAccountStep == ConvInv /\ CreateAccount => ConvInv'
<1>. SUFFICES ASSUME ConvInv, CreateAccount PROVE ConvInv'
    OBVIOUS
<1>1. PICK text \in KeyTexts, key \in Keys :
          /\ typed' = [Nothing EXCEPT !.command = "CreateAccount", !.key = text]
          /\ memory' = IF Len(text) = 2 * KeyLen
                       THEN Over(Over(old, Unset(KeyLen, 0)), Str2Hex(text, KeyLen).hex)
                       ELSE Over(old, key)
    BY Zenon DEF CreateAccount
<1>2. PICK h \in Hashes : /\ hash' = h /\ iotexAddr' = bech32_encode(h)
                          /\ ethAddr' = Hex2Str(h, 2 * AddressLen + 1)
    BY Zenon DEF CreateAccount, GenerateAddresses
<1>3. pc = "menu" /\ pc' = "account" /\ old' = old /\ copy' = copy /\ decoded' = decoded
      /\ hashed' = hashed /\ callData' = callData
    BY DEF CreateAccount
<1>4. typed'.command = "CreateAccount" /\ typed'.key = text
    BY <1>1 DEF Nothing
<1>5. h \in [1..AddressLen -> Bytes] /\ key \in [1..KeyLen -> Bytes]
    BY BytesAssumption
<1>6. old \in Stacks /\ old \in [1..MemLen -> Bytes] /\ MemLen \in Nat /\ KeyLen \in Nat
    BY StackType, SizesAssumption DEF ConvInv, TypeOK
<1>7. /\ memory' \in [Memory -> Bytes]
      /\ IsHex(text) /\ Len(text) = 2 * KeyLen => Key' = AsBytes(text)
    <2>1. CASE Len(text) = 2 * KeyLen
        <3>1. memory' = Over(Over(old, Unset(KeyLen, 0)), Str2Hex(text, KeyLen).hex)
            BY <1>1, <2>1
        <3>2. Key' = [i \in 1..KeyLen |-> memory'[i]]
            BY DEF Key
        <3>. QED  BY <1>6, <2>1, <3>1, <3>2, AccountKey
    <2>2. CASE Len(text) # 2 * KeyLen
        <3>1. memory' = Over(old, key)
            BY <1>1, <2>2
        <3>2. key \in Seq(Bytes)
            BY <1>5, <1>6, BytesType
        <3>. QED  BY <1>6, <2>2, <3>1, <3>2, OverType DEF Memory
    <2>. QED  BY <2>1, <2>2
<1>8. /\ h \in Seq(Bytes) /\ ethAddr' \in Seq(Range(hexmap)) /\ AsBytes(ethAddr') = h
      /\ IsText(ethAddr') /\ \A i \in DOMAIN h : h[i] \in Bytes
    <2>1. \A i \in DOMAIN h : h[i] \in Bytes
        BY <1>5
    <2>. QED  BY <1>2, <1>5, <2>1, HexAddress
<1>9. IsText(iotexAddr')
    <2>1. iotexAddr' \in Seq(Plain)
        BY <1>2, <1>8, AddressType
    <2>. QED  BY <2>1, CharactersOf, TextType
<1>10. decoded' = Invalid
    BY <1>3 DEF ConvInv, NamesAgree
<1>11. TypeOK'
    <2>. /\ IsText(copy) /\ IsText(callData) /\ \A d \in Range(hashed.digits) : d \in 0..9
         /\ Len(callData) \in {0, 8, 2 * (4 + WordLen), 2 * (4 + 2 * WordLen)}
        BY DEF ConvInv, TypeOK
    <2>. QED  BY <1>2, <1>3, <1>6, <1>7, <1>8, <1>9, <1>10 DEF TypeOK
<1>12. NamesAgree'
    BY <1>2, <1>3, <1>5, <1>8, <1>10 DEF NamesAgree
<1>13. FewTypos'
    BY <1>3 DEF FewTypos
<1>14. TypedIsRead'
    BY <1>4, <1>7 DEF TypedIsRead
<1>15. TransferIsAsTyped' /\ SignedIsTyped'
    BY <1>3 DEF TransferIsAsTyped, SignedIsTyped
<1>. QED  BY <1>11, <1>12, <1>14, <1>15, <1>13 DEF ConvInv
LEMMA TypedStays ==
    ASSUME TypedIsRead, UNCHANGED <<typed, old, memory, hash>>
    PROVE  TypedIsRead'
BY DEF TypedIsRead, Key

LEMMA EncodeHexStringStep == ConvInv /\ EncodeHexString => ConvInv'
<1>. SUFFICES ASSUME ConvInv, EncodeHexString PROVE ConvInv'
    OBVIOUS
<1>1. PICK text \in DataTexts, g \in Garbage :
          LET size == Len(text) \div 2
              bytes == Over(Unset(size, g), Str2Hex(text, size).hex)
          IN /\ typed' = [Nothing EXCEPT !.command = "EncodeHexString", !.data = text]
             /\ hash' = bytes
             /\ iotexAddr' = bech32_encode(bytes)
    BY Zenon DEF EncodeHexString
<1>. DEFINE size == Len(text) \div 2
            hex == Str2Hex(text, size).hex
<1>2. pc = "menu" /\ pc' = "encoded" /\ old' = old /\ memory' = memory /\ ethAddr' = ethAddr
      /\ copy' = copy /\ decoded' = decoded /\ hashed' = hashed /\ callData' = callData
    BY DEF EncodeHexString
<1>3. typed'.command = "EncodeHexString" /\ typed'.data = text
    BY <1>1 DEF Nothing
<1>4. text \in Seq(Characters) /\ size \in Nat /\ g \in Bytes
    BY TextsAssumption, BytesAssumption
<1>5. hex \in Seq(Bytes) /\ Unset(size, g) \in [1..size -> Bytes]
    BY <1>4, Str2HexType, UnsetType
<1>6. hash' = Over(Unset(size, g), hex) /\ iotexAddr' = bech32_encode(hash')
    BY <1>1
<1>7. ASSUME IsHex(text), Len(text) % 2 = 0 PROVE hash' = AsBytes(text)
    <2>1. Bare(text) = text /\ Len(text) <= 2 * size
        BY <1>4, <1>7, HexIsBare
    <2>2. hex = AsBytes(text) /\ Len(hex) = size
        BY <1>4, <1>7, <2>1, ReadsWhole
    <2>. HIDE DEF hex, size
    <2>. QED  BY <1>4, <1>5, <1>6, <2>2, OverType
<1>8. hash' \in Seq(Bytes) /\ \A i \in DOMAIN hash' : hash'[i] \in Bytes
    <2>. HIDE DEF hex, size
    <2>1. hash' \in [1..size -> Bytes]
        BY <1>4, <1>5, <1>6, OverType
    <2>. QED  BY <1>4, <2>1, BytesType
<1>9. IsText(iotexAddr')
    <2>1. iotexAddr' \in Seq(Plain)
        BY <1>6, <1>8, AddressType
    <2>. QED  BY <2>1, CharactersOf, TextType
<1>. HIDE DEF hex, size
<1>10. decoded' = Invalid /\ ethAddr' = <<>>
    BY <1>2 DEF ConvInv, NamesAgree
<1>11. TypeOK'
    <2>. /\ memory \in [Memory -> Bytes] /\ old \in Stacks /\ IsText(ethAddr)
         /\ IsText(copy) /\ IsText(callData) /\ \A d \in Range(hashed.digits) : d \in 0..9
         /\ Len(callData) \in {0, 8, 2 * (4 + WordLen), 2 * (4 + 2 * WordLen)}
        BY DEF ConvInv, TypeOK
    <2>. QED  BY <1>2, <1>8, <1>9, <1>10 DEF TypeOK
<1>12. NamesAgree'
    <2>. <<>> \in Seq(Range(hexmap))
        OBVIOUS
    <2>. QED  BY <1>2, <1>6, <1>8, <1>10 DEF NamesAgree
<1>13. FewTypos'
    BY <1>2 DEF FewTypos
<1>14. TypedIsRead'
    BY <1>3, <1>7 DEF TypedIsRead
<1>15. TransferIsAsTyped' /\ SignedIsTyped'
    BY <1>2 DEF TransferIsAsTyped, SignedIsTyped
<1>. QED  BY <1>11, <1>12, <1>14, <1>15, <1>13 DEF ConvInv

\* A copy that is not yet mistyped says what was shown, in capitals or not.
LEMMA RightCopy ==
    ASSUME NEW text \in Seq(Plain)
    PROVE  \A str \in {text, Capitals(text)} :
               \A i \in DOMAIN str : LowerCase(str[i]) = text[i]
<1>1. text \in Seq(Range(Digits) \cup Range(Lower))
    BY DEF Plain
<1>2. \A i \in DOMAIN text : LowerCase(text[i]) = text[i]
    <2>1. \A i \in DOMAIN text : text[i] \notin Range(Upper)
        BY <1>1, CharactersDisjoint
    <2>. QED  BY <2>1, LowerCases
<1>3. \A i \in DOMAIN Capitals(text) : LowerCase(Capitals(text)[i]) = text[i]
    <2>1. DOMAIN Capitals(text) = 1..Len(text)
        BY DEF Capitals
    <2>. QED  BY <1>1, <2>1, SmallCapitals
<1>. QED  BY <1>2, <1>3

LEMMA CopyAddressStep == ConvInv /\ CopyAddress => ConvInv'
<1>. SUFFICES ASSUME ConvInv, CopyAddress PROVE ConvInv'
    OBVIOUS
<1>1. /\ pc \in {"account", "encoded"} /\ copy' \in {iotexAddr, Capitals(iotexAddr)}
      /\ pc' = "copied" /\ typed' = Nothing /\ memory' = old
      /\ old' = old /\ hash' = hash /\ iotexAddr' = iotexAddr /\ ethAddr' = ethAddr
      /\ decoded' = decoded /\ hashed' = hashed /\ callData' = callData
    BY DEF CopyAddress, account
<1>2. hash \in Seq(Bytes) /\ iotexAddr = bech32_encode(hash) /\ decoded = Invalid
    BY <1>1 DEF ConvInv, NamesAgree
<1>3. iotexAddr \in Seq(Plain)
    BY <1>2, AddressType
<1>4. copy' \in Seq(Characters) /\ Len(copy') = Len(iotexAddr)
    <2>1. iotexAddr \in Seq(Characters)
        BY <1>3, CharactersOf, TextType
    <2>2. Capitals(iotexAddr) \in Seq(Range(Digits) \cup Range(Upper))
          /\ Len(Capitals(iotexAddr)) = Len(iotexAddr)
        BY <1>3, SmallCapitals DEF Plain
    <2>3. Capitals(iotexAddr) \in Seq(Characters)
        BY <2>2, CharactersOf, WiderSeq
    <2>. QED  BY <1>1, <2>1, <2>2, <2>3
<1>5. IsText(copy')
    BY <1>4, TextType
<1>6. old \in Stacks /\ old \in [Memory -> Bytes]
    BY StackType DEF ConvInv, TypeOK, Memory
<1>7. TypeOK'
    BY <1>1, <1>2, <1>5, <1>6 DEF ConvInv, TypeOK
<1>8. NamesAgree'
    BY <1>1, <1>2, <1>4 DEF ConvInv, NamesAgree
<1>9. FewTypos'
    BY <1>1, <1>3, RightCopy DEF FewTypos, Typos
<1>10. TypedIsRead' /\ TransferIsAsTyped' /\ SignedIsTyped'
    BY <1>1, NothingTyped DEF TypedIsRead, TransferIsAsTyped, SignedIsTyped
<1>. QED  BY <1>7, <1>8, <1>10, <1>9 DEF ConvInv

LEMMA AtMostOne ==
    ASSUME NEW S, IsFiniteSet(S), Cardinality(S) <= 1, NEW a \in S, NEW b \in S
    PROVE  a = b
<1>. SUFFICES ASSUME a # b PROVE FALSE
    OBVIOUS
<1>1. IsFiniteSet({a}) /\ Cardinality({a}) = 1
    BY FS_Singleton
<1>2. IsFiniteSet({a} \cup {b}) /\ Cardinality({a} \cup {b}) = 2
    <2>1. b \notin {a}
        OBVIOUS
    <2>2. /\ IsFiniteSet({a} \cup {b})
          /\ Cardinality({a} \cup {b}) = Cardinality({a}) + 1
        BY <1>1, <2>1, FS_AddElement, Zenon
    <2>. QED  BY <1>1, <2>2
<1>3. {a} \cup {b} \in SUBSET S
    OBVIOUS
<1>4. Cardinality({a} \cup {b}) <= Cardinality(S)
    BY <1>3, FS_Subset
<1>5. Cardinality(S) \in Nat
    BY FS_CardinalityType
<1>. QED  BY <1>2, <1>4, <1>5

\* A wrong key hits one place, and of a copy that was wrong in one place at
\* most; two neighbours are swapped only in a copy that was right.
LEMMA OneMoreTypo ==
    ASSUME Mistype, copy \in Seq(Characters)
    PROVE  \A i, j, k \in Typos' : i = j \/ j = k \/ i = k
<1>1. iotexAddr' = iotexAddr /\ Cardinality(Typos) < MaxTypos
    BY DEF Mistype, account
<1>2. \A i, j \in Typos : i = j
    <2>1. Len(copy) \in Int /\ Typos \in SUBSET (1..Len(copy))
        BY DEF Typos
    <2>2. IsFiniteSet(Typos)
        <3>1. 1 \in Int
            OBVIOUS
        <3>2. IsFiniteSet(1..Len(copy))
            BY <2>1, <3>1, FS_Interval, Zenon
        <3>. QED  BY <2>1, <3>2, FS_Subset, Zenon
    <2>3. Cardinality(Typos) <= 1
        BY <1>1, <2>2, FS_CardinalityType, SizesAssumption
    <2>. QED  BY <2>2, <2>3, AtMostOne
<1>3. CASE \E i \in DOMAIN copy, c \in Wrong : copy' = [copy EXCEPT ![i] = c]
    <2>1. PICK i \in DOMAIN copy, c \in Wrong : copy' = [copy EXCEPT ![i] = c]
        BY <1>3
    <2>2. Typos' \subseteq Typos \cup {i}
        BY <1>1, <2>1 DEF Typos
    <2>. QED  BY <1>2, <2>2
<1>4. CASE Typos = {} /\ \E i \in 1..Len(copy) - 1 :
              copy' = [copy EXCEPT ![i] = copy[i + 1], ![i + 1] = copy[i]]
    <2>1. PICK i \in 1..Len(copy) - 1 :
              copy' = [copy EXCEPT ![i] = copy[i + 1], ![i + 1] = copy[i]]
        BY <1>4
    <2>2. DOMAIN copy' = DOMAIN copy
          /\ \A j \in DOMAIN copy : j # i /\ j # i + 1 => copy'[j] = copy[j]
        BY <2>1
    <2>3. Typos' \subseteq Typos \cup {i, i + 1}
        BY <1>1, <2>2 DEF Typos
    <2>. QED  BY <1>4, <2>3
<1>. QED  BY <1>3, <1>4, Zenon DEF Mistype

LEMMA MistypeStep == ConvInv /\ Mistype => ConvInv'
<1>. SUFFICES ASSUME ConvInv, Mistype PROVE ConvInv'
    OBVIOUS
<1>1. /\ pc = "copied" /\ pc' = pc /\ typed' = typed /\ old' = old /\ memory' = memory
      /\ hash' = hash /\ iotexAddr' = iotexAddr /\ ethAddr' = ethAddr
      /\ decoded' = decoded /\ hashed' = hashed /\ callData' = callData
    BY DEF Mistype, account
<1>2. copy \in Seq(Characters) /\ Len(copy) = Len(iotexAddr)
    BY <1>1 DEF ConvInv, NamesAgree
<1>3. copy' \in Seq(Characters) /\ Len(copy') = Len(copy)
    <2>1. CASE \E i \in DOMAIN copy, c \in Wrong : copy' = [copy EXCEPT ![i] = c]
        <3>1. PICK i \in DOMAIN copy, c \in Wrong : copy' = [copy EXCEPT ![i] = c]
            BY <2>1
        <3>2. c \in Characters
            BY TextsAssumption
        <3>. QED  BY <1>2, <3>1, <3>2
    <2>2. CASE \E i \in 1..Len(copy) - 1 :
                  copy' = [copy EXCEPT ![i] = copy[i + 1], ![i + 1] = copy[i]]
        <3>1. PICK i \in 1..Len(copy) - 1 :
                  copy' = [copy EXCEPT ![i] = copy[i + 1], ![i + 1] = copy[i]]
            BY <2>2
        <3>2. i \in 1..Len(copy) /\ i + 1 \in 1..Len(copy)
              /\ copy[i] \in Characters /\ copy[i + 1] \in Characters
            BY <1>2
        <3>. QED  BY <1>2, <3>1, <3>2
    <2>. QED  BY <2>1, <2>2, Zenon DEF Mistype
<1>4. IsText(copy')
    BY <1>3, TextType
<1>5. TypeOK'
    BY <1>1, <1>4 DEF ConvInv, TypeOK
<1>6. NamesAgree'
    BY <1>1, <1>2, <1>3 DEF ConvInv, NamesAgree
<1>7. FewTypos'
    BY <1>1, <1>2, OneMoreTypo DEF ConvInv, FewTypos
<1>8. TypedIsRead'
    BY <1>1, TypedStays DEF ConvInv
<1>9. TransferIsAsTyped' /\ SignedIsTyped'
    BY <1>1 DEF TransferIsAsTyped, SignedIsTyped
<1>. QED  BY <1>5, <1>6, <1>8, <1>9, <1>7 DEF ConvInv

LEMMA ReadAddressStep == ConvInv /\ ReadAddress => ConvInv'
<1>. SUFFICES ASSUME ConvInv, ReadAddress PROVE ConvInv'
    OBVIOUS
<1>1. /\ pc = "copied" /\ pc' = "read" /\ decoded' = Decode(copy) /\ copy' = copy
      /\ typed' = typed /\ old' = old /\ memory' = memory
      /\ hash' = hash /\ iotexAddr' = iotexAddr /\ ethAddr' = ethAddr
      /\ hashed' = hashed /\ callData' = callData
    BY DEF ReadAddress, account
<1>2. copy \in Seq(Characters) /\ Len(copy) = Len(iotexAddr)
    BY <1>1 DEF ConvInv, NamesAgree
<1>3. decoded' # Invalid => Len(iotexAddr') = Len(decoded'.hrp) + 1 + Len(decoded'.data) + 6
    BY <1>1, <1>2, DecodeLength
<1>4. TypeOK'
    BY <1>1, <1>3 DEF ConvInv, TypeOK
<1>5. NamesAgree'
    BY <1>1, <1>2 DEF ConvInv, NamesAgree
<1>6. FewTypos'
    BY <1>1 DEF ConvInv, FewTypos, Typos
<1>7. TypedIsRead'
    BY <1>1, TypedStays DEF ConvInv
<1>8. TransferIsAsTyped' /\ SignedIsTyped'
    BY <1>1 DEF TransferIsAsTyped, SignedIsTyped
<1>. QED  BY <1>4, <1>5, <1>7, <1>8, <1>6 DEF ConvInv
LEMMA SmallerOf ==
    ASSUME NEW a \in Nat, NEW b \in Nat
    PROVE  Min({a, b}) \in {a, b} /\ (a <= b => Min({a, b}) = a)
<1>1. \E x \in {a, b} : \A y \in {a, b} : x <= y
    BY DEF Min
<1>. QED  BY <1>1 DEF Min

\* What is hashed of a message.
LEMMA MessageBytes ==
    ASSUME NEW text \in MessageTexts, NEW g \in Garbage
    PROVE  LET size == Len(text) \div 2
               msgBuf == Over(Unset(MessageLen, 0), Str2Hex(text, MessageLen).hex)
               bytes == Over(Unset(size, g), SubSeq(msgBuf, 1, Min({size, MessageLen})))
           IN /\ size \in Nat
              /\ IsHex(text) /\ Len(text) \in {2 * n : n \in 0..MessageLen} =>
                    bytes = AsBytes(text) /\ Len(bytes) = size /\ size <= MessageLen
<1>. DEFINE size == Len(text) \div 2
            hex == Str2Hex(text, MessageLen).hex
            msgBuf == Over(Unset(MessageLen, 0), hex)
            part == SubSeq(msgBuf, 1, Min({size, MessageLen}))
<1>1. text \in Seq(Characters) /\ size \in Nat /\ g \in Bytes /\ MessageLen \in Nat /\ Len(text) \in Nat
    BY TextsAssumption, BytesAssumption, SizesAssumption
<1>2. ASSUME IsHex(text), Len(text) \in {2 * n : n \in 0..MessageLen}
      PROVE  Over(Unset(size, g), part) = AsBytes(text) /\ Len(AsBytes(text)) = size /\ size <= MessageLen
    <2>1. Bare(text) = text
        BY <1>1, <1>2, HexIsBare
    <2>2. Len(text) % 2 = 0 /\ Len(text) <= 2 * MessageLen /\ size <= MessageLen
        BY <1>1, <1>2
    <2>3. hex = AsBytes(text) /\ hex \in Seq(Bytes) /\ Len(hex) = size
        BY <1>1, <1>2, <2>1, <2>2, ReadsWhole
    <2>4. Unset(MessageLen, 0) \in [1..MessageLen -> Bytes] /\ Unset(size, g) \in [1..size -> Bytes]
        BY <1>1, UnsetType, ZeroInside
    <2>5. Min({size, MessageLen}) = size
        BY <1>1, <2>2, SmallerOf
    <2>. HIDE DEF size, hex
    <2>6. /\ msgBuf \in [1..MessageLen -> Bytes]
          /\ \A i \in 1..MessageLen : i <= Len(hex) => msgBuf[i] = hex[i]
        BY <1>1, <2>3, <2>4, OverType
    <2>. HIDE DEF msgBuf
    <2>7. msgBuf \in Seq(Bytes) /\ Len(msgBuf) = MessageLen
        BY <1>1, <2>6, BytesType
    <2>8. part = hex
        <3>1. 0 \in Nat /\ 0 + Len(hex) <= Len(msgBuf)
            BY <1>1, <2>2, <2>3, <2>7
        <3>2. \A i \in 1..Len(hex) : msgBuf[0 + i] = hex[i]
            BY <1>1, <2>2, <2>3, <2>6
        <3>3. msgBuf \in Seq(Bytes) /\ hex \in Seq(Bytes)
            BY <2>3, <2>7
        <3>4. SubSeq(msgBuf, 0 + 1, 0 + Len(hex)) = hex
            BY <3>1, <3>2, <3>3, Part
        <3>5. 0 + 1 = 1 /\ 0 + Len(hex) = size
            BY <1>1, <2>3
        <3>. QED  BY <2>5, <3>4, <3>5, Zenon
    <2>. HIDE DEF part
    <2>9. Over(Unset(size, g), part) = hex
        BY <1>1, <2>3, <2>4, <2>8, OverType
    <2>. QED  BY <2>2, <2>3, <2>9
<1>. HIDE DEF part
<1>3. IsHex(text) /\ Len(text) \in {2 * n : n \in 0..MessageLen} =>
          LET bytes == Over(Unset(size, g), part)
          IN bytes = AsBytes(text) /\ Len(bytes) = size /\ size <= MessageLen
    BY <1>2, Zenon
<1>. QED  BY <1>1, <1>3, Zenon DEF part

LEMMA SignMessageStep == ConvInv /\ SignMessage => ConvInv'
<1>. SUFFICES ASSUME ConvInv, SignMessage PROVE ConvInv'
    OBVIOUS
<1>1. PICK text \in MessageTexts, key \in KeyTexts, g \in Garbage :
          LET size == Len(text) \div 2
              msgBuf == Over(Unset(MessageLen, 0), Str2Hex(text, MessageLen).hex)
          IN /\ typed' = [Nothing EXCEPT !.command = "SignMessage", !.key = key, !.data = text]
             /\ TypeKey(key)
             /\ hashed' = MessageHash(Over(Unset(size, g), SubSeq(msgBuf, 1, Min({size, MessageLen}))),
                                      size)
    BY Zenon DEF SignMessage
<1>. DEFINE size == Len(text) \div 2
            msgBuf == Over(Unset(MessageLen, 0), Str2Hex(text, MessageLen).hex)
            bytes == Over(Unset(size, g), SubSeq(msgBuf, 1, Min({size, MessageLen})))
<1>2. /\ pc = "menu" /\ pc' = "signed" /\ old' = old /\ copy' = copy /\ decoded' = decoded
      /\ hash' = hash /\ iotexAddr' = iotexAddr /\ ethAddr' = ethAddr /\ callData' = callData
    BY DEF SignMessage, account
<1>3. typed'.command = "SignMessage" /\ typed'.key = key /\ typed'.data = text
    BY <1>1 DEF Nothing
<1>4. /\ size \in Nat
      /\ IsHex(text) /\ Len(text) \in {2 * n : n \in 0..MessageLen} =>
            bytes = AsBytes(text) /\ Len(bytes) = size /\ size <= MessageLen
    BY MessageBytes
<1>5. hashed' = MessageHash(bytes, size)
    BY <1>1, Zenon
<1>. HIDE DEF bytes, size
<1>6. hashed' = [digits |-> LengthDigits(size, Reached(size)), bytes |-> bytes]
    BY <1>5, Zenon DEF MessageHash, Reached
<1>7. hashed'.digits = LengthDigits(size, Reached(size)) /\ hashed'.bytes = bytes
    BY <1>6
<1>8. \A d \in Range(hashed'.digits) : d \in 0..9
    <2>1. LengthDigits(size, Reached(size)) \in Seq(0..9)
        BY <1>4, DigitsDef
    <2>2. hashed'.digits \in Seq(0..9)
        BY <1>7, <2>1
    <2>. QED  BY <2>2 DEF Range
<1>9. old \in Stacks /\ memory' = Over(old, Str2Hex(key, KeyLimit).hex)
    BY <1>1 DEF ConvInv, TypeOK, TypeKey
<1>10. /\ memory' \in [Memory -> Bytes]
       /\ IsHex(Bare(key)) /\ Len(Bare(key)) = 2 * KeyLen => Key' = AsBytes(Bare(key))
       /\ \A i \in Memory :
             2 * i > Len(Bare(key)) + 1 \/ Len(Bare(key)) > 2 * KeyLimit + 1 => memory'[i] = old[i]
    BY <1>9, KeyIsRead DEF Key
<1>11. TypeOK'
    BY <1>2, <1>8, <1>9, <1>10 DEF ConvInv, TypeOK
<1>12. NamesAgree'
    BY <1>2 DEF ConvInv, NamesAgree
<1>13. FewTypos'
    BY <1>2 DEF FewTypos
<1>14. TypedIsRead'
    BY <1>2, <1>3, <1>10 DEF TypedIsRead
<1>15. SignedIsTyped'
    <2>1. ASSUME IsHex(text), Len(text) \in {2 * n : n \in 0..MessageLen}
          PROVE  /\ bytes = AsBytes(text)
                 /\ Number(10, hashed'.digits) = Len(bytes)
                 /\ Len(hashed'.digits) > 1 => Head(hashed'.digits) # 0
        <3>1. bytes = AsBytes(text) /\ Len(bytes) = size /\ size <= MessageLen
            BY <1>4, <2>1
        <3>2. size \div Powers[1] < 10
            <4>1. MessageLen \in Nat /\ MessageLen \div Powers[1] < 10 /\ Powers[1] \in Nat \ {0}
                BY SizesAssumption, WorthTypes
            <4>. DEFINE p == Powers[1]
            <4>2. p \in Nat \ {0} /\ MessageLen \div p < 10
                BY <4>1
            <4>. HIDE DEF p
            <4>3. size \div p <= MessageLen \div p
                BY <1>4, <3>1, <4>1, <4>2, QuotientGrows
            <4>4. size \div p \in Nat /\ MessageLen \div p \in Nat
                BY <1>4, <4>1, <4>2
            <4>5. size \div p < 10
                BY <4>2, <4>3, <4>4
            <4>. QED  BY <4>5 DEF p
        <3>3. /\ Number(10, LengthDigits(size, Reached(size))) = size
              /\ Len(LengthDigits(size, Reached(size))) > 1 =>
                    Head(LengthDigits(size, Reached(size))) # 0
            BY <1>4, <3>2, DigitsSayLength
        <3>. QED  BY <1>7, <3>1, <3>3
    <2>. QED  BY <1>3, <1>7, <2>1 DEF SignedIsTyped
<1>16. TransferIsAsTyped'
    BY <1>2 DEF TransferIsAsTyped
<1>. QED  BY <1>11, <1>12, <1>14, <1>15, <1>16, <1>13 DEF ConvInv
\* The account whose address is typed, with or without "0x" and capitals.
LEMMA DestinationRead ==
    ASSUME NEW h \in [1..AddressLen -> Bytes], NEW g \in Garbage, NEW to,
           LET text == Hex2Str(h, 2 * AddressLen + 1)
           IN to \in {text, <<"0", "x">> \o text, Capitals(<<"0", "x">> \o text)}
    PROVE  Over(Unset(AddressLen, g), Str2Hex(Replaced(Small(to)), AddressLen).hex) = h
<1>. DEFINE text == Hex2Str(h, 2 * AddressLen + 1)
<1>1. /\ h \in Seq(Bytes) /\ Len(h) = AddressLen /\ AddressLen \in Nat /\ g \in Bytes
      /\ text \in Seq(Range(hexmap)) /\ Len(text) = 2 * AddressLen /\ AsBytes(text) = h
      /\ text \in Seq(Characters)
    BY HexAddress, SizesAssumption, BytesAssumption
<1>2. to \in {text, <<"0", "x">> \o text, Capitals(<<"0", "x">> \o text)}
    BY Zenon
<1>. HIDE DEF text
<1>3. Small(to) = text \/ Small(to) = <<"0", "x">> \o text
    <2>1. /\ Small(text) = text /\ Small(<<"0", "x">> \o text) = <<"0", "x">> \o text
          /\ Small(Capitals(<<"0", "x">> \o text)) = <<"0", "x">> \o text
        BY <1>1, SmallHex
    <2>2. to = text \/ to = <<"0", "x">> \o text \/ to = Capitals(<<"0", "x">> \o text)
        BY <1>2, Zenon
    <2>. QED  BY <2>1, <2>2, Zenon
<1>4. Replaced(Small(to)) = text
    <2>1. Replaced(text) = text /\ Replaced(<<"0", "x">> \o text) = text
        BY <1>1, ReplacedHex
    <2>. QED  BY <1>3, <2>1, Zenon
<1>5. Str2Hex(text, AddressLen).hex = h
    <2>1. IsHex(text)
        BY <1>1, SmallHex
    <2>2. Bare(text) = text
        BY <1>1, <2>1, HexIsBare
    <2>3. Len(text) % 2 = 0 /\ Len(text) <= 2 * AddressLen
        BY <1>1
    <2>4. Str2Hex(text, AddressLen).hex = AsBytes(text)
        BY <1>1, <2>1, <2>2, <2>3, ReadsWhole
    <2>. QED  BY <1>1, <2>4
<1>6. Unset(AddressLen, g) \in [1..AddressLen -> Bytes]
    BY <1>1, UnsetType
<1>7. Over(Unset(AddressLen, g), h) = h
    <2>. h \in Seq(Bytes) /\ Len(h) = AddressLen
        BY <1>1
    <2>. QED  BY <1>1, <1>6, OverType
<1>. QED  BY <1>4, <1>5, <1>7

LEMMA TransferStep == ConvInv /\ Transfer => ConvInv'
<1>. SUFFICES ASSUME ConvInv, Transfer PROVE ConvInv'
    OBVIOUS
<1>1. PICK key \in KeyTexts, n \in Amounts, g \in Garbage,
           to \in {ethAddr, <<"0", "x">> \o ethAddr, Capitals(<<"0", "x">> \o ethAddr)} :
          LET destAddrBytes == Over(Unset(AddressLen, g),
                                    Str2Hex(Replaced(Small(to)), AddressLen).hex)
          IN /\ typed' = [command |-> "Transfer", key |-> key, data |-> to, amount |-> n]
             /\ TypeKey(key)
             /\ callData' = AsText(generateCallDataForTransfer(destAddrBytes, strtoull(n)))
    BY Zenon DEF Transfer
<1>2. /\ pc = "account" /\ pc' = "paid" /\ old' = old /\ copy' = copy /\ decoded' = decoded
      /\ hash' = hash /\ iotexAddr' = iotexAddr /\ ethAddr' = ethAddr /\ hashed' = hashed
    BY DEF Transfer, account
<1>3. /\ typed'.command = "Transfer" /\ typed'.key = key /\ typed'.amount = n
    BY <1>1
<1>4. /\ hash \in [1..AddressLen -> Bytes] /\ ethAddr = Hex2Str(hash, 2 * AddressLen + 1)
      /\ n \in Int
    BY <1>2, TextsAssumption DEF ConvInv, NamesAgree
<1>5. Over(Unset(AddressLen, g), Str2Hex(Replaced(Small(to)), AddressLen).hex) = hash
    BY <1>4, DestinationRead
<1>. DEFINE value == strtoull(n)
            data == generateCallDataForTransfer(hash, value)
<1>6. callData' = AsText(data)
    BY <1>1, <1>5, Zenon
<1>7. /\ value \in Seq(Bytes) /\ Len(value) = UintLen
      /\ hash \in Seq(Bytes) /\ Len(hash) = AddressLen /\ WordLen \in Nat
    BY <1>4, StrtoullType, HexAddress, SizesAssumption
<1>8. n \in 0..UintMax => Number(256, generateBytesForUint(value)) = n
    BY WordSaysNumber
<1>. HIDE DEF value
<1>9. /\ data \in Seq(Bytes) /\ Len(data) = 4 + 2 * WordLen
      /\ SubSeq(data, 1, 4) = <<169, 5, 156, 187>>
      /\ SubSeq(data, 5, 4 + WordLen) = Unset(WordLen - AddressLen, 0) \o hash
      /\ SubSeq(data, 5 + WordLen, 4 + 2 * WordLen) = generateBytesForUint(value)
    BY <1>7, TransferData
<1>. HIDE DEF data
<1>10. /\ Len(callData') = 2 * (4 + 2 * WordLen) /\ AsBytes(callData') = data
       /\ IsText(callData')
    BY <1>6, <1>9, AsTextType
<1>11. old \in Stacks /\ memory' = Over(old, Str2Hex(key, KeyLimit).hex)
    BY <1>1 DEF ConvInv, TypeOK, TypeKey
<1>12. /\ memory' \in [Memory -> Bytes]
       /\ IsHex(Bare(key)) /\ Len(Bare(key)) = 2 * KeyLen => Key' = AsBytes(Bare(key))
       /\ \A i \in Memory :
             2 * i > Len(Bare(key)) + 1 \/ Len(Bare(key)) > 2 * KeyLimit + 1 => memory'[i] = old[i]
    BY <1>11, KeyIsRead DEF Key
<1>13. TypeOK'
    BY <1>2, <1>10, <1>11, <1>12 DEF ConvInv, TypeOK
<1>14. NamesAgree'
    BY <1>2 DEF ConvInv, NamesAgree
<1>15. FewTypos'
    BY <1>2 DEF FewTypos
<1>16. TypedIsRead'
    BY <1>2, <1>3, <1>12 DEF TypedIsRead
<1>17. TransferIsAsTyped'
    <2>1. 5 + (1 - 1) * WordLen = 5 /\ 4 + 1 * WordLen = 4 + WordLen
          /\ 5 + (2 - 1) * WordLen = 5 + WordLen
        BY <1>7
    <2>2. /\ SubSeq(data, 1, 4) = <<169, 5, 156, 187>>
          /\ SubSeq(data, 5 + (1 - 1) * WordLen, 4 + 1 * WordLen)
                = Unset(WordLen - AddressLen, 0) \o hash
          /\ n \in 0..UintMax =>
                Number(256, SubSeq(data, 5 + (2 - 1) * WordLen, 4 + 2 * WordLen)) = n
        BY <1>8, <1>9, <2>1, Zenon
    <2>3. AsBytes(callData') = data /\ hash' = hash /\ typed'.amount = n
        BY <1>2, <1>3, <1>10
    <2>. QED  BY <2>2, <2>3, Zenon DEF TransferIsAsTyped
<1>18. SignedIsTyped'
    BY <1>2 DEF SignedIsTyped
<1>. QED  BY <1>13, <1>14, <1>16, <1>17, <1>18, <1>15 DEF ConvInv

LEMMA QueryStep == ConvInv /\ Query => ConvInv'
<1>. SUFFICES ASSUME ConvInv, Query PROVE ConvInv'
    OBVIOUS
<1>1. PICK g \in Garbage :
          callData' \in {AsText(generateCallDataForTotalSupply),
                         AsText(generateCallDataForBalanceOf(
                                    getEthereumAddressBytes(Unset(AddressLen, g))))}
    BY Zenon DEF Query
<1>2. /\ pc = "account" /\ pc' = "asked" /\ typed' = typed /\ old' = old /\ memory' = memory
      /\ copy' = copy /\ decoded' = decoded /\ hashed' = hashed
      /\ hash' = hash /\ iotexAddr' = iotexAddr /\ ethAddr' = ethAddr
    BY DEF Query, account
<1>. DEFINE to == getEthereumAddressBytes(Unset(AddressLen, g))
<1>3. to \in Seq(Bytes) /\ Len(to) = AddressLen
    <2>1. <<"0", "x">> \o ethAddr \in Seq(Characters)
        <3>1. ethAddr \in Seq(Characters)
            BY CharactersOf, WiderSeq DEF ConvInv, NamesAgree
        <3>2. <<"0", "x">> \in Seq(Characters)
            <4>1. "0" \in Characters /\ "x" \in Characters
                BY CharactersOf
            <4>. QED  BY <4>1
        <3>. QED  BY <3>1, <3>2, ConcatType
    <2>. DEFINE hex == Str2Hex(<<"0", "x">> \o ethAddr, PointerSize).hex
    <2>2. hex \in Seq(Bytes)
        BY <2>1, Str2HexType, SizesAssumption
    <2>3. to = Over(Unset(AddressLen, g), hex)
        BY DEF getEthereumAddressBytes
    <2>. HIDE DEF hex, to
    <2>4. AddressLen \in Nat /\ Unset(AddressLen, g) \in [1..AddressLen -> Bytes]
        BY SizesAssumption, BytesAssumption, UnsetType
    <2>5. to \in [1..AddressLen -> Bytes]
        BY <2>2, <2>3, <2>4, OverType
    <2>. QED  BY <2>4, <2>5, BytesType
<1>. HIDE DEF to
<1>4. PICK data \in Seq(Bytes) : callData' = AsText(data) /\ Len(data) \in {4, 4 + WordLen}
    <2>1. callData' = AsText(generateCallDataForTotalSupply)
          \/ callData' = AsText(generateCallDataForBalanceOf(to))
        BY <1>1, Zenon DEF to
    <2>. QED  BY <1>3, <2>1, QueryData
<1>5. IsText(callData') /\ Len(callData') \in {8, 2 * (4 + WordLen)}
    <2>1. IsText(callData') /\ Len(callData') = 2 * Len(data)
        BY <1>4, AsTextType
    <2>2. \A m \in {4, 4 + WordLen} : 2 * m \in {8, 2 * (4 + WordLen)}
        BY SizesAssumption
    <2>. QED  BY <1>4, <2>1, <2>2, Zenon
<1>6. TypeOK'
    BY <1>2, <1>5 DEF ConvInv, TypeOK
<1>7. NamesAgree'
    BY <1>2 DEF ConvInv, NamesAgree
<1>8. FewTypos'
    BY <1>2 DEF FewTypos
<1>9. TypedIsRead'
    BY <1>2, TypedStays DEF ConvInv
<1>10. TransferIsAsTyped' /\ SignedIsTyped'
    BY <1>2 DEF TransferIsAsTyped, SignedIsTyped
<1>. QED  BY <1>6, <1>7, <1>9, <1>10, <1>8 DEF ConvInv

LEMMA ReturnStep == ConvInv /\ Return => ConvInv'
<1>. SUFFICES ASSUME ConvInv, Return PROVE ConvInv'
    OBVIOUS
<1>1. /\ pc' = "menu" /\ typed' = Nothing /\ old' \in Stacks /\ memory' = old'
      /\ hash' = <<>> /\ iotexAddr' = <<>> /\ ethAddr' = <<>>
      /\ copy' = <<>> /\ decoded' = Invalid /\ hashed' = NotHashed /\ callData' = <<>>
    BY DEF Return
<1>2. /\ IsText(<<>>) /\ Len(<<>>) = 0 /\ DOMAIN <<>> = {} /\ Range(hashed'.digits) = {}
      /\ <<>> \in Seq(Bytes) /\ <<>> \in Seq(Range(hexmap))
    BY <1>1 DEF IsText, Range, NotHashed
<1>3. memory' \in [Memory -> Bytes]
    BY <1>1, StackType DEF Memory
<1>4. TypeOK'
    BY <1>1, <1>2, <1>3 DEF TypeOK
<1>5. NamesAgree'
    BY <1>1, <1>2 DEF NamesAgree
<1>6. FewTypos'
    BY <1>1 DEF FewTypos
<1>7. TypedIsRead' /\ TransferIsAsTyped' /\ SignedIsTyped'
    BY <1>1, NothingTyped DEF TypedIsRead, TransferIsAsTyped, SignedIsTyped
<1>. QED  BY <1>4, <1>5, <1>7, <1>6 DEF ConvInv

LEMMA ConvStays == ConvInv /\ UNCHANGED vars => ConvInv'
<1>. SUFFICES ASSUME ConvInv, UNCHANGED vars PROVE ConvInv'
    OBVIOUS
<1>1. /\ pc' = pc /\ typed' = typed /\ old' = old /\ memory' = memory
      /\ hash' = hash /\ iotexAddr' = iotexAddr /\ ethAddr' = ethAddr
      /\ copy' = copy /\ decoded' = decoded /\ hashed' = hashed /\ callData' = callData
    BY DEF vars, account
<1>2. TypeOK' /\ NamesAgree'
    BY <1>1 DEF ConvInv, TypeOK, NamesAgree
<1>3. FewTypos'
    BY <1>1 DEF ConvInv, FewTypos, Typos
<1>4. TypedIsRead'
    BY <1>1, TypedStays DEF ConvInv
<1>5. TransferIsAsTyped' /\ SignedIsTyped'
    BY <1>1 DEF ConvInv, TransferIsAsTyped, SignedIsTyped
<1>. QED  BY <1>2, <1>4, <1>5, <1>3 DEF ConvInv
\* What a copy that is right says, which the invariant leaves to the reader.
LEMMA AddressRead == ConvInv => AddressNamesBytes
<1>. SUFFICES ASSUME ConvInv PROVE AddressNamesBytes
    OBVIOUS
<1>1. ethAddr # <<>> => hash = AsBytes(ethAddr)
    BY DEF ConvInv, NamesAgree
<1>2. ASSUME pc = "read", copy \in {iotexAddr, Capitals(iotexAddr)}, Len(copy) <= 90
      PROVE  LET bits == 8 * Len(hash)
             IN /\ decoded.encoding = "BECH32" /\ decoded.hrp = <<"i", "o">>
                /\ Len(decoded.data) = (bits + 4) \div 5
                /\ \A i \in 1..bits - (bits % 5) :
                      GroupBit(decoded.data, i) = ByteBit(hash, i)
    <2>. DEFINE groups == bech32_convertBytesTo5Bit(hash)
                bits == 8 * Len(hash)
    <2>1. hash \in Seq(Bytes) /\ iotexAddr = bech32_encode(hash) /\ decoded = Decode(copy)
        BY <1>2 DEF ConvInv, NamesAgree
    <2>2. /\ groups \in Seq(Groups) /\ Len(groups) = (bits + 4) \div 5
          /\ \A i \in 1..bits - (bits % 5) : GroupBit(groups, i) = ByteBit(hash, i)
        BY <2>1, ConvertKeepsBits
    <2>3. iotexAddr = Encode("BECH32", Io, groups)
        BY <2>1 DEF bech32_encode, Io
    <2>. HIDE DEF groups
    <2>4. decoded = [encoding |-> "BECH32", hrp |-> Io, data |-> groups]
        <3>1. copy = Encode("BECH32", Io, groups) \/ copy = Capitals(Encode("BECH32", Io, groups))
            BY <1>2, <2>3, Zenon
        <3>. QED  BY <1>2, <2>1, <2>2, <3>1, DecodeReads
    <2>5. decoded.encoding = "BECH32" /\ decoded.hrp = <<"i", "o">> /\ decoded.data = groups
        BY <2>4 DEF Io
    <2>. QED  BY <2>2, <2>5
<1>. QED  BY <1>1, <1>2, Zenon DEF AddressNamesBytes

\* What a copy that is wrong says.
LEMMA TypoRead == ConvInv => TypoIsCaught
<1>. SUFFICES ASSUME ConvInv, pc = "read", Typos # {}, decoded # Invalid
              PROVE  /\ decoded.hrp # Io
                     /\ \E i \in Typos : i <= 2 \/ copy[i] = "1"
    BY Zenon DEF TypoIsCaught, Io
<1>. DEFINE groups == bech32_convertBytesTo5Bit(hash)
<1>1. /\ hash \in Seq(Bytes) /\ iotexAddr = bech32_encode(hash) /\ decoded = Decode(copy)
      /\ copy \in Seq(Characters) /\ Len(copy) = Len(iotexAddr)
    BY DEF ConvInv, NamesAgree
<1>2. groups \in Seq(Groups)
    BY <1>1, ConvertKeepsBits
<1>3. iotexAddr = Encode("BECH32", Io, groups)
    BY <1>1 DEF bech32_encode, Io
<1>4. \A i, j, k \in {l \in DOMAIN copy : LowerCase(copy[l]) # iotexAddr[l]} :
          i = j \/ j = k \/ i = k
    BY Zenon DEF ConvInv, FewTypos, Typos
<1>5. \E i \in DOMAIN copy : LowerCase(copy[i]) # iotexAddr[i]
    BY DEF Typos
<1>. HIDE DEF groups
<1>6. /\ Decode(copy).hrp # Io
      /\ \E i \in DOMAIN copy : LowerCase(copy[i]) # iotexAddr[i] /\ (i <= 2 \/ copy[i] = "1")
    BY <1>1, <1>2, <1>3, <1>4, <1>5, TypoRefused
<1>. QED  BY <1>1, <1>6 DEF Typos

(* What the addresses, the stack and the call data are made of, at every     *)
(* step of a command: the invariant is inductive.                            *)
THEOREM ConversionsInvariant == Spec => []ConvInv
<1>1. ConvInv /\ [Next]_vars => ConvInv'
    <2>. SUFFICES ASSUME ConvInv, [Next]_vars PROVE ConvInv'
        OBVIOUS
    <2>1. CASE CreateAccount
        BY <2>1, CreateAccountStep
    <2>2. CASE EncodeHexString
        BY <2>2, EncodeHexStringStep
    <2>3. CASE CopyAddress
        BY <2>3, CopyAddressStep
    <2>4. CASE Mistype
        BY <2>4, MistypeStep
    <2>5. CASE ReadAddress
        BY <2>5, ReadAddressStep
    <2>6. CASE SignMessage
        BY <2>6, SignMessageStep
    <2>7. CASE Transfer
        BY <2>7, TransferStep
    <2>8. CASE Query
        BY <2>8, QueryStep
    <2>9. CASE Return
        BY <2>9, ReturnStep
    <2>10. CASE UNCHANGED vars
        BY <2>10, ConvStays
    <2>. QED  BY <2>1, <2>2, <2>3, <2>4, <2>5, <2>6, <2>7, <2>8, <2>9, <2>10 DEF Next
<1>. QED  BY <1>1, InitConv, PTL DEF Spec

(* Texts are texts, bytes are bytes, what is read of an address has its      *)
(* length, and call data is whole words: whatever is typed into the prompts. *)
THEOREM TypesCorrect == Spec => []TypeOK
<1>1. ConvInv => TypeOK
    BY DEF ConvInv
<1>. QED  BY <1>1, ConversionsInvariant, PTL

(* A private key or an address in bytes, typed as it should be, is what      *)
(* str2hex makes of it, for every size of the arrays and whatever was on the *)
(* stack, and a text that is too long leaves the stack as it was.            *)
THEOREM TypedCorrect == Spec => []TypedIsRead
<1>1. ConvInv => TypedIsRead
    BY DEF ConvInv
<1>. QED  BY <1>1, ConversionsInvariant, PTL

(* A right copy of an address, of at most 90 characters, passes the checksum *)
(* and says the bytes it was made of: bech32 decodes what it encodes.        *)
THEOREM AddressesCorrect == Spec => []AddressNamesBytes
BY AddressRead, ConversionsInvariant, PTL

(* A copy with one or two wrong characters, whatever they are and wherever   *)
(* they stand, is refused by the checksum: except when one of them is in the *)
(* prefix or is a "1" that moves its end, and then what is read, if anything *)
(* is, has another prefix and is no account.                                 *)
THEOREM TyposCaught == Spec => []TypoIsCaught
BY TypoRead, ConversionsInvariant, PTL

(* The call data of a transfer is the selector, the word of the account and  *)
(* the word of the amount, for every uint64_t.                               *)
THEOREM TransferCorrect == Spec => []TransferIsAsTyped
<1>1. ConvInv => TransferIsAsTyped
    BY DEF ConvInv
<1>. QED  BY <1>1, ConversionsInvariant, PTL

(* What is signed of a message is its bytes behind their number in decimal,  *)
(* without a leading zero.                                                   *)
THEOREM SignedCorrect == Spec => []SignedIsTyped
<1>1. ConvInv => SignedIsTyped
    BY DEF ConvInv
<1>. QED  BY <1>1, ConversionsInvariant, PTL
=============================================================================
