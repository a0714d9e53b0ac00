--------------------------- MODULE MCConversions ----------------------------
(***************************************************************************)
(* A small instance of Conversions: keys of 2 bytes with a limit of 5,     *)
(* messages of up to 11, addresses of 5 (14 groups with their checksum),   *)
(* words of 8 and amounts of 2.                                            *)
(***************************************************************************)
EXTENDS Conversions

MCKeys == {<<1, 254>>, <<170, 85>>}
MCHashes == {<<0, 0, 0, 0, 0>>, <<184, 15, 255, 1, 170>>, <<255, 16, 9, 208, 97>>}
MCGarbage == {0, 205}

\* A key as it should be typed, with "0x", in capitals, with a wrong digit
\* first or second of a byte, odd, short, long, and longer than the limit.
MCKeyTexts ==
    {<<>>, <<"a", "0", "1", "f">>, <<"0", "x", "0", "1", "f", "e">>, <<"B", "E", "E", "F">>,
     <<"0", "x", "1", "2">>, <<"1", "2", " ", "f">>, <<"1", "2", "f", " ">>,
     <<"z", "g", "0", "8">>, <<"1", "2", "3">>, <<"1", "2", "3", "4", "5">>, <<"7", "7">>,
     [i \in 1..11 |-> "8"], [i \in 1..12 |-> "9"]}

Nines(n) == [i \in 1..n |-> Digits[(i % 9) + 1]]
MCMessageTexts ==
    {Nines(n) : n \in {0, 1, 2, 18, 20, 22, 23, 24}}
        \cup {<<"0", "x">> \o Nines(6), Append(Nines(5), " ") \o Nines(2)}

MCDataTexts ==
    {Nines(n) : n \in {0, 1, 2, 4, 7, 12}} \cup {<<"0", "x", "f", "0">>, <<"f", " ">>}

MCAmounts == {-65536, -1, 0, 1, 255, 256, 4660, 65535, 65536}
MCWrong == {"q", "p", "7", "1", "b", "Q"}

\* Addresses of real accounts, as the tests and the sketches name them, are
\* read and are what the bytes they name are written as.
Address1 == <<"i", "o", "1", "h", "p", "6", "y", "4", "e", "q", "r", "9", "0", "j", "7", "t", "m", "u", "l", "4", "w", "2", "w", "a", "8", "p", "m", "7", "w", "x", "4", "6", "2", "h", "q", "0", "m", "g", "4", "t", "w">>
Address2 == <<"i", "o", "1", "x", "k", "x", "7", "y", "9", "y", "g", "s", "a", "3", "d", "l", "m", "v", "z", "z", "y", "v", "v", "8", "z", "m", "6", "h", "d", "6", "r", "m", "s", "k", "h", "4", "d", "a", "w", "y", "u">>

ASSUME RealAddresses ==
    \A address \in {Address1, Address2} :
        LET read == Decode(address)
        IN /\ read.encoding = "BECH32" /\ read.hrp = <<"i", "o">> /\ Len(read.data) = 32
           /\ Encode("BECH32", read.hrp, read.data) = address
=============================================================================
