------------------------------ MODULE HexText -------------------------------
(***************************************************************************)
(* Bytes and the texts that stand for them: hex2str and str2hex of         *)
(* signer/signer.cpp.  A text is a sequence of characters, without the NUL *)
(* behind it.                                                              *)
(***************************************************************************)
EXTENDS Integers, Sequences, SequencesExt

Digits == <<"0", "1", "2", "3", "4", "5", "6", "7", "8", "9">>
Lower == <<"a", "b", "c", "d", "e", "f", "g", "h", "i", "j", "k", "l", "m",
           "n", "o", "p", "q", "r", "s", "t", "u", "v", "w", "x", "y", "z">>
Upper == <<"A", "B", "C", "D", "E", "F", "G", "H", "I", "J", "K", "L", "M",
           "N", "O", "P", "Q", "R", "S", "T", "U", "V", "W", "X", "Y", "Z">>

\* Where a character stands in a sequence of them.
Place(c, s) == CHOOSE i \in DOMAIN s : s[i] = c

\* value(): not the hexadecimal digits alone, the letters go on to z, and 35.
Value == [c \in Range(Digits \o Lower \o Upper) |->
              CASE c \in Range(Digits) -> Place(c, Digits) - 1
                [] c \in Range(Lower)  -> Place(c, Lower) + 9
                [] c \in Range(Upper)  -> Place(c, Upper) + 9]

\* (uint8_t) (high << 4 | low).  What a low digit has above 15, its place over,
\* is there once if the high digit has it too.
Byte(high, low) ==
    LET over == low \div 16
        both == IF over = 0 \/ (high \div over) % 2 = 1 THEN high ELSE high + over
    IN (16 * both + (low % 16)) % 256

HasPrefix(str) == Len(str) >= 2 /\ str[1] = "0" /\ str[2] = "x"

Unprefixed(str) == IF HasPrefix(str) THEN SubSeq(str, 3, Len(str)) ELSE str

\* Characters in front of the first that value() refuses.
Accepted(it) ==
    LET refused == {i \in DOMAIN it : it[i] \notin DOMAIN Value}
    IN IF refused = {} THEN Len(it)
       ELSE (CHOOSE i \in refused : \A j \in refused : i <= j) - 1

\* The bytes of the first n characters; of an odd number of them the last one
\* is a byte alone.
BytesOf(it, n) ==
    [i \in 1..(n + 1) \div 2 |->
        IF 2 * i > n THEN Value[it[n]]
        ELSE Byte(Value[it[2 * i - 1]], Value[it[2 * i]])]

\* Fault: the "0x" in front is read as two digits.
Str2HexKeepsPrefix(str, size) ==
    LET n == Accepted(str)
    IN IF size < Len(str) \div 2 THEN [ret |-> "ERROR_BAD_PARAMETER", hex |-> <<>>]
       ELSE IF n = Len(str) THEN [ret |-> "SUCCESS", hex |-> BytesOf(str, n)]
       ELSE [ret |-> "ERROR_BAD_PARAMETER", hex |-> BytesOf(str, n - (n % 2))]

\* str2hex: what it writes to the front of the array, and its result.  The
\* room is compared with half the characters rounded down, and bytes written
\* before a refused character stay written.
Str2Hex(str, size) ==
    LET it == Unprefixed(str)
        n == Accepted(it)
    IN IF size < Len(it) \div 2 THEN [ret |-> "ERROR_BAD_PARAMETER", hex |-> <<>>]
       ELSE IF n = Len(it) THEN [ret |-> "SUCCESS", hex |-> BytesOf(it, n)]
       ELSE [ret |-> "ERROR_BAD_PARAMETER", hex |-> BytesOf(it, n - (n % 2))]

hexmap == <<"0", "1", "2", "3", "4", "5", "6", "7", "8", "9", "a", "b", "c", "d", "e", "f">>

\* hex2str: the characters written, none when they might not fit.  No NUL is.
Hex2Str(hex, strSize) ==
    IF strSize < 2 * Len(hex) THEN <<>>
    ELSE [i \in 1..2 * Len(hex) |->
             LET byte == hex[(i + 1) \div 2]
             IN hexmap[(IF i % 2 = 1 THEN byte \div 16 ELSE byte % 16) + 1]]
=============================================================================
