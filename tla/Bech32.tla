------------------------------- MODULE Bech32 -------------------------------
(***************************************************************************)
(* encoder/bech32.cpp: a text made of a prefix, a "1", and groups of 5     *)
(* bits of which the last six are a checksum.                              *)
(*                                                                         *)
(* The checksum is the remainder of a polynomial over the field of 32      *)
(* elements.  Its six coefficients, kept in the 30 low bits of a uint32_t, *)
(* are a tuple here, the highest one first.                                *)
(***************************************************************************)
EXTENDS HexText

CHARSET == <<"q", "p", "z", "r", "y", "9", "x", "8", "g", "f", "2", "t", "v", "d", "w", "0",
             "s", "3", "j", "n", "5", "4", "k", "h", "c", "e", "6", "m", "u", "a", "7", "l">>

Groups == 0..31

\* x ^ y: of each bit, the sum without its carry.
Xor5(x, y) ==
    16 * ((x \div 16 + y \div 16) % 2) + 8 * ((x \div 8 + y \div 8) % 2)
        + 4 * ((x \div 4 + y \div 4) % 2) + 2 * ((x \div 2 + y \div 2) % 2) + ((x + y) % 2)
Xor6(a, b) == [i \in 1..6 |-> Xor5(a[i], b[i])]

\* {2^n}k(x): what each bit of the coefficient shifted out stands for.
Generator == <<<<29, 22, 20, 21, 29, 18>>,
               <<19,  5,  1,  3, 19, 13>>,
               <<15, 10,  2,  6, 15, 26>>,
               <<30, 20,  4, 12, 30, 29>>,
               <<21,  1,  8, 24, 21, 19>>>>

Zero == <<0, 0, 0, 0, 0, 0>>

\* What is added for a coefficient shifted out, of which bit n is the lowest.
Times(c0, n) == IF c0 % 2 = 1 THEN Generator[n] ELSE Zero
Carry == [c0 \in Groups |->
             Xor6(Times(c0, 1), Xor6(Times(c0 \div 2, 2), Xor6(Times(c0 \div 4, 3),
                  Xor6(Times(c0 \div 8, 4), Times(c0 \div 16, 5)))))]

Shifted(c, v) == <<c[2], c[3], c[4], c[5], c[6], v>>
Multiplied(c, v_i) == Xor6(Shifted(c, v_i), Carry[c[1]])

PolyMod(v) ==
    LET c[i \in 0..Len(v)] ==
            IF i = 0 THEN <<0, 0, 0, 0, 0, 1>> ELSE Multiplied(c[i - 1], v[i])
    IN c[Len(v)]

EncodingConstant == [BECH32 |-> <<0, 0, 0, 0, 0, 1>>, BECH32M |-> <<21, 28, 16, 12, 5, 3>>]

IsUpper(c) == c \in Range(Upper)
IsLower(c) == c \in Range(Lower)
LowerCase(c) == IF IsUpper(c) THEN Lower[Place(c, Upper)] ELSE c

\* The code of a character.
Code(c) == IF c = " " THEN 32
           ELSE IF c \in Range(Digits) THEN 47 + Place(c, Digits)
           ELSE IF IsUpper(c) THEN 64 + Place(c, Upper) ELSE 96 + Place(c, Lower)

ExpandHRP(hrp) ==
    [i \in 1..Len(hrp) |-> Code(hrp[i]) \div 32] \o <<0>>
        \o [i \in 1..Len(hrp) |-> Code(hrp[i]) % 32]

\* Fault: all but the low bits of the remainder is lost.
VerifyChecksumNarrow(hrp, values) ==
    LET check == PolyMod(ExpandHRP(hrp) \o values)
    IN IF SubSeq(check, 5, 6) = <<0, 1>> THEN "BECH32" ELSE "INVALID"

VerifyChecksum(hrp, values) ==
    LET check == PolyMod(ExpandHRP(hrp) \o values)
    IN IF \E e \in DOMAIN EncodingConstant : EncodingConstant[e] = check
       THEN CHOOSE e \in DOMAIN EncodingConstant : EncodingConstant[e] = check
       ELSE "INVALID"

CreateChecksum(encoding, hrp, values) ==
    Xor6(PolyMod(ExpandHRP(hrp) \o values \o Zero), EncodingConstant[encoding])

Encode(encoding, hrp, values) ==
    LET combined == values \o CreateChecksum(encoding, hrp, values)
    IN hrp \o <<"1">> \o [i \in DOMAIN combined |-> CHARSET[combined[i] + 1]]

Invalid == [encoding |-> "INVALID", hrp |-> <<>>, data |-> <<>>]

\* The result of Decode, once the groups are known.
Verified(hrp, values) ==
    LET encoding == VerifyChecksum(hrp, values)
    IN IF encoding = "INVALID" THEN Invalid
       ELSE [encoding |-> encoding, hrp |-> hrp,
             data |-> SubSeq(values, 1, Len(values) - 6)]

\* Decode(str).  The prefix ends at the last "1".
Decode(str) ==
    LET ones == {i \in DOMAIN str : str[i] = "1"}
        pos == CHOOSE i \in ones : \A j \in ones : j <= i
        rest == [i \in 1..Len(str) - pos |-> LowerCase(str[pos + i])]
    IN IF \/ " " \in Range(str)
          \/ \E i, j \in DOMAIN str : IsLower(str[i]) /\ IsUpper(str[j])
          \/ Len(str) > 90 \/ ones = {} \/ pos = 1 \/ pos + 6 > Len(str)
          \/ ~(Range(rest) \subseteq Range(CHARSET))
       THEN Invalid
       ELSE Verified([i \in 1..pos - 1 |-> LowerCase(str[i])],
                     [i \in DOMAIN rest |-> Place(rest[i], CHARSET) - 1])
=============================================================================
