---------------------------- MODULE Conversions -----------------------------
(***************************************************************************)
(* What a user of the command line and the sketches types and reads, and   *)
(* the bytes the library makes of it: private keys, messages to sign,      *)
(* addresses and the data of token calls.  One command runs at a time,     *)
(* with its arrays on the stack; an array that is not set holds what       *)
(* earlier commands left, a byte of Garbage.                               *)
(*                                                                         *)
(* The hash of a public key is external: the last bytes of a hash are a    *)
(* choice, which is all the functions of this module tell apart.           *)
(***************************************************************************)
EXTENDS Bech32

CONSTANTS
    KeyLen,      \* IOTEX_PRIVATE_KEY_SIZE (32)
    KeyLimit,    \* the size given with a key that is typed, IOTEX_SIGNATURE_SIZE (65)
    MessageLen,  \* size of msgBuf (124)
    AddressLen,  \* ETH_ADDRESS_SIZE (20)
    WordLen,     \* size of a word of call data (32)
    UintLen,     \* size of a uint64_t (8)
    Keys,        \* the keys fillRandom may draw
    Hashes,      \* the last AddressLen bytes of hashes of public keys
    Garbage,     \* bytes an array may hold that is not set
    KeyTexts, MessageTexts, DataTexts,  \* what is typed for each
    Amounts,     \* integers typed for an amount
    PointerSize, \* sizeof of a pointer (4)
    Wrong,       \* characters typed in place of others
    MaxTypos     \* bound: characters of an address that are mistyped

Bytes == 0..255
\* What is typed and shown, the space being for every other character.
Characters == DOMAIN Value \cup {" "}
Powers == <<1000000000, 100000000, 10000000, 1000000, 100000, 10000, 1000, 100, 10>>

ASSUME SizesAssumption ==
    /\ {KeyLen, AddressLen, UintLen} \subseteq Nat \ {0}
    /\ KeyLimit \in Nat /\ KeyLimit >= KeyLen
    /\ WordLen \in Nat /\ WordLen >= AddressLen /\ WordLen >= UintLen
    /\ PointerSize \in Nat
    /\ MessageLen \in Nat /\ MessageLen \div Powers[1] < 10
    /\ MaxTypos \in 0..2
ASSUME BytesAssumption ==
    /\ Hashes \subseteq [1..AddressLen -> Bytes] /\ Keys \subseteq [1..KeyLen -> Bytes]
    /\ Garbage \subseteq Bytes /\ Garbage # {}
ASSUME TextsAssumption ==
    /\ KeyTexts \cup MessageTexts \cup DataTexts \subseteq Seq(Characters)
    /\ Wrong \subseteq Characters /\ Amounts \subseteq Int

\* What of the stack a typed key may reach.
MemLen == KeyLimit + 1
Memory == 1..MemLen

VARIABLES
    pc,         \* "menu", or what the command has got to
    typed,      \* what was typed for the command
    old,        \* the stack when the command started
    memory,     \* the stack: the key, and what is behind it
    hash,       \* the bytes an address is made of
    iotexAddr,  \* _iotexAddr
    ethAddr,    \* _ethAddr, without its "0x"
    copy,       \* _iotexAddr as somebody typed it
    decoded,    \* what Decode made of the copy
    hashed,     \* what signMessage hashed, as [digits, bytes]
    callData    \* the text passed to sendExecutionAction

account == <<hash, iotexAddr, ethAddr>>
vars == <<pc, typed, old, memory, account, copy, decoded, hashed, callData>>

Nothing == [command |-> "", key |-> <<>>, data |-> <<>>, amount |-> 0]
NotHashed == [digits |-> <<>>, bytes |-> <<>>]

\* The stack before a command, as far as commands tell it apart.
Stacks == {[i \in Memory |-> g] : g \in Garbage}

Init ==
    /\ pc = "menu"
    /\ typed = Nothing
    /\ old \in Stacks /\ memory = old
    /\ hash = <<>> /\ iotexAddr = <<>> /\ ethAddr = <<>>
    /\ copy = <<>> /\ decoded = Invalid
    /\ hashed = NotHashed
    /\ callData = <<>>

\* An array after bytes were written to the front of it.
Over(array, bytes) ==
    [i \in DOMAIN array |-> IF i <= Len(bytes) THEN bytes[i] ELSE array[i]]

Unset(size, g) == [i \in 1..size |-> g]

-----------------------------------------------------------------------------
(* The account and its addresses. *)

\* The bits of bytes, the highest of each first.
PowersOfTwo == <<128, 64, 32, 16, 8, 4, 2, 1>>
BitsOf(bytes) ==
    [i \in 1..8 * Len(bytes) |->
        (bytes[((i - 1) \div 8) + 1] \div PowersOfTwo[((i - 1) % 8) + 1]) % 2]

\* A group of 5 bits, the highest first, which are so far in front of the last.
Group(bits, last, before) ==
    LET bit(n) == bits[last - before[n]]
    IN 16 * bit(1) + 8 * bit(2) + 4 * bit(3) + 2 * bit(4) + bit(5)

\* The bits of the last group, when it is not whole, go into the array of the
\* bits and not into the group.
InGroups(bytes, before) ==
    LET bits == BitsOf(bytes)
    IN [i \in 1..Len(bits) \div 5 |-> Group(bits, 5 * i, before)]
       \o (IF Len(bits) % 5 = 0 THEN <<>> ELSE <<0>>)

\* Fault: the first bit is the lowest of its group.
To5BitLowFirst(in) == InGroups(in, <<0, 1, 2, 3, 4>>)

bech32_convertBytesTo5Bit(in) == InGroups(in, <<4, 3, 2, 1, 0>>)

bech32_encode(bytes) == Encode("BECH32", <<"i", "o">>, bech32_convertBytesTo5Bit(bytes))

GenerateAddresses(h) ==
    /\ hash' = h
    /\ iotexAddr' = bech32_encode(h)
    /\ ethAddr' = Hex2Str(h, 2 * AddressLen + 1)

\* CreateAccount: a text of another length than a key's is not an error but
\* asks for a new key, and a key with a wrong digit is as good as it got.
CreateAccount ==
    /\ pc = "menu"
    /\ \E text \in KeyTexts, key \in Keys :
        /\ typed' = [Nothing EXCEPT !.command = "CreateAccount", !.key = text]
        /\ memory' = IF Len(text) = 2 * KeyLen
                     THEN Over(Over(old, Unset(KeyLen, 0)), Str2Hex(text, KeyLen).hex)
                     ELSE Over(old, key)
    /\ \E h \in Hashes : GenerateAddresses(h)
    /\ pc' = "account"
    /\ UNCHANGED <<old, copy, decoded, hashed, callData>>

\* bech32_encodeHexString: half as many bytes as the text has characters, and
\* what str2hex does not set of them is not set at all.
EncodeHexString ==
    /\ pc = "menu"
    /\ \E text \in DataTexts, g \in Garbage :
        LET size == Len(text) \div 2
            bytes == Over(Unset(size, g), Str2Hex(text, size).hex)
        IN /\ typed' = [Nothing EXCEPT !.command = "EncodeHexString", !.data = text]
           /\ hash' = bytes
           /\ iotexAddr' = bech32_encode(bytes)
    /\ pc' = "encoded"
    /\ UNCHANGED <<old, memory, ethAddr, copy, decoded, hashed, callData>>

Capitals(text) ==
    [i \in DOMAIN text |-> IF IsLower(text[i]) THEN Upper[Place(text[i], Lower)] ELSE text[i]]
Small(text) == [i \in DOMAIN text |-> LowerCase(text[i])]

\* The command is over, and somebody copies the address, in capitals perhaps.
CopyAddress ==
    /\ pc \in {"account", "encoded"}
    /\ copy' \in {iotexAddr, Capitals(iotexAddr)}
    /\ pc' = "copied"
    /\ typed' = Nothing
    /\ memory' = old
    /\ UNCHANGED <<old, account, decoded, hashed, callData>>

Typos == {i \in DOMAIN copy : LowerCase(copy[i]) # iotexAddr[i]}

\* ... and hits a wrong key, or two neighbours in the wrong order.
Mistype ==
    /\ pc = "copied"
    /\ Cardinality(Typos) < MaxTypos
    /\ \/ \E i \in DOMAIN copy, c \in Wrong :
            /\ LowerCase(c) # iotexAddr[i] /\ \A j \in Typos : j < i
            /\ copy' = [copy EXCEPT ![i] = c]
       \/ \E i \in 1..Len(copy) - 1 :
            /\ Typos = {}
            /\ copy' = [copy EXCEPT ![i] = copy[i + 1], ![i + 1] = copy[i]]
    /\ UNCHANGED <<pc, typed, old, memory, account, decoded, hashed, callData>>

ReadAddress ==
    /\ pc = "copied"
    /\ decoded' = Decode(copy)
    /\ pc' = "read"
    /\ UNCHANGED <<typed, old, memory, account, copy, hashed, callData>>

-----------------------------------------------------------------------------
(* Signing a message, and calling a token. *)

\* A key is typed into an array that is not set, with the size of another one.
TypeKey(text) == memory' = Over(old, Str2Hex(text, KeyLimit).hex)

\* The digits of the length at the powers of ten that are enough, and the last one.
LengthDigits(length, enough) ==
    LET first == CHOOSE i \in 1..10 : i - 1 \notin enough /\ i..9 \subseteq enough
    IN [i \in 1..10 - first |-> (length \div Powers[first + i - 1]) % 10] \o <<length % 10>>

\* Fault: the first number of each number of digits misses its first digit.
MessageHashLate(msg, length) ==
    [digits |-> LengthDigits(length, {i \in 1..9 : length > Powers[i]}), bytes |-> msg]

\* getEthereumMessageHash, as what it hashes behind a fixed text.
MessageHash(msg, length) ==
    [digits |-> LengthDigits(length, {i \in 1..9 : length >= Powers[i]}), bytes |-> msg]

\* SignMessage.  The size is that of the text: with a "0x" or a wrong digit in
\* it the message ends in zeros, and what is too long is not read at all, but
\* signed with what lies behind the array.
SignMessage ==
    /\ pc = "menu"
    /\ \E text \in MessageTexts, key \in KeyTexts, g \in Garbage :
        LET size == Len(text) \div 2
            msgBuf == Over(Unset(MessageLen, 0), Str2Hex(text, MessageLen).hex)
        IN /\ typed' = [Nothing EXCEPT !.command = "SignMessage", !.key = key, !.data = text]
           /\ TypeKey(key)
           /\ hashed' = MessageHash(Over(Unset(size, g), SubSeq(msgBuf, 1, Min({size, MessageLen}))),
                                    size)
    /\ pc' = "signed"
    /\ UNCHANGED <<old, account, copy, decoded, callData>>

\* 256 to the n.
Pow256[n \in Nat] == IF n = 0 THEN 1 ELSE 256 * Pow256[n - 1]
UintMax == Pow256[UintLen] - 1

\* strtoull, as the bytes of the number, the lowest first: too large a number
\* is the largest there is, and one below zero counts from there.
strtoull(n) ==
    LET value == IF n > UintMax \/ -n > UintMax THEN UintMax ELSE n % (UintMax + 1)
    IN [i \in 1..UintLen |-> (value \div Pow256[i - 1]) % 256]

\* Fault: one byte of padding too many.
generateBytesForUintLong(pVal) == Unset(WordLen - Len(pVal) + 1, 0) \o Reverse(pVal)

\* Fault: the bytes go out as they are in memory.
generateBytesForUintAsIs(pVal) == Unset(WordLen - Len(pVal), 0) \o pVal

generateBytesForUint(pVal) == Unset(WordLen - Len(pVal), 0) \o Reverse(pVal)

generateBytesForAddress(pVal) == generateBytesForUint(Reverse(pVal))

generateCallDataForTransfer(to, value) ==
    <<169, 5, 156, 187>> \o generateBytesForAddress(to) \o generateBytesForUint(value)
generateCallDataForBalanceOf(address) == <<112, 160, 130, 49>> \o generateBytesForAddress(address)
generateCallDataForTotalSupply == <<24, 22, 13, 221>>

AsText(data) == Hex2Str(data, 2 * Len(data) + 1)

\* What destinationAddr.replace("0x", "") leaves.
Replaced(text) ==
    LET gone == {i \in DOMAIN text :
                    \/ i < Len(text) /\ text[i] = "0" /\ text[i + 1] = "x"
                    \/ i > 1 /\ text[i - 1] = "0" /\ text[i] = "x"}
        left[n \in 0..Len(text)] ==
            IF n = 0 THEN <<>>
            ELSE IF n \in gone THEN left[n - 1] ELSE Append(left[n - 1], text[n])
    IN left[Len(text)]

\* Xrc20Transfer to the account that was created, whose address is typed as it
\* was shown, with or without "0x" and capitals.
Transfer ==
    /\ pc = "account"
    /\ \E key \in KeyTexts, n \in Amounts, g \in Garbage,
          to \in {ethAddr, <<"0", "x">> \o ethAddr, Capitals(<<"0", "x">> \o ethAddr)} :
        LET destAddrBytes == Over(Unset(AddressLen, g),
                                  Str2Hex(Replaced(Small(to)), AddressLen).hex)
        IN /\ typed' = [command |-> "Transfer", key |-> key, data |-> to, amount |-> n]
           /\ TypeKey(key)
           /\ callData' = AsText(generateCallDataForTransfer(destAddrBytes, strtoull(n)))
    /\ pc' = "paid"
    /\ UNCHANGED <<old, account, copy, decoded, hashed>>

\* getEthereumAddressBytes, with the size of its pointer and not of the array.
getEthereumAddressBytes(buffer) ==
    Over(buffer, Str2Hex(<<"0", "x">> \o ethAddr, PointerSize).hex)

\* Asking the token for the account's balance, or for its total supply.
Query ==
    /\ pc = "account"
    /\ \E g \in Garbage :
        callData' \in {AsText(generateCallDataForTotalSupply),
                       AsText(generateCallDataForBalanceOf(
                                  getEthereumAddressBytes(Unset(AddressLen, g))))}
    /\ pc' = "asked"
    /\ UNCHANGED <<typed, old, memory, account, copy, decoded, hashed>>

\* Back in the menu: whatever ran meanwhile has used the stack.
Return ==
    /\ pc \notin {"menu", "copied"}
    /\ pc' = "menu"
    /\ typed' = Nothing
    /\ old' \in Stacks /\ memory' = old'
    /\ hash' = <<>> /\ iotexAddr' = <<>> /\ ethAddr' = <<>>
    /\ copy' = <<>> /\ decoded' = Invalid
    /\ hashed' = NotHashed
    /\ callData' = <<>>

Next ==
    \/ CreateAccount \/ EncodeHexString
    \/ CopyAddress \/ Mistype \/ ReadAddress
    \/ SignMessage \/ Transfer \/ Query
    \/ Return

Spec == Init /\ [][Next]_vars

-----------------------------------------------------------------------------
(* Properties. *)

IsText(s) == \A i \in DOMAIN s : s[i] \in Characters

\* Addresses are texts, what is read from a copy has the length of what was
\* written, and what is passed on to the chain is whole words of call data.
TypeOK ==
    /\ pc \in {"menu", "account", "encoded", "copied", "read", "signed", "paid", "asked"}
    /\ memory \in [Memory -> Bytes] /\ old \in Stacks
    /\ \A i \in DOMAIN hash : hash[i] \in Bytes
    /\ IsText(iotexAddr) /\ IsText(ethAddr) /\ IsText(copy) /\ IsText(callData)
    /\ decoded # Invalid => Len(iotexAddr) = Len(decoded.hrp) + 1 + Len(decoded.data) + 6
    /\ \A d \in Range(hashed.digits) : d \in 0..9
    /\ Len(callData) \in {0, 8, 2 * (4 + WordLen), 2 * (4 + 2 * WordLen)}

\* The reader's side: bytes as people write them down.
IsHex(text) == Range(Small(text)) \subseteq Range(hexmap)
Bare(text) == IF HasPrefix(text) THEN SubSeq(text, 3, Len(text)) ELSE text
AsBytes(text) ==
    [i \in 1..Len(text) \div 2 |->
        16 * (Place(Small(text)[2 * i - 1], hexmap) - 1) + Place(Small(text)[2 * i], hexmap) - 1]
Number(base, digits) ==
    LET n[i \in 0..Len(digits)] == IF i = 0 THEN 0 ELSE base * n[i - 1] + digits[i]
    IN n[Len(digits)]
Key == [i \in 1..KeyLen |-> memory[i]]

\* A key that is typed as a key should be, is the key that signs, whatever was
\* on the stack before, and so are the bytes of an address given as a text; and
\* no text changes more of the stack than it has digits for, nor any of it when
\* it is longer than the size that was given.
TypedIsRead ==
    LET bare == Bare(typed.key)
    IN /\ typed.command \in {"SignMessage", "Transfer"} =>
            /\ IsHex(bare) /\ Len(bare) = 2 * KeyLen => Key = AsBytes(bare)
            /\ \A i \in Memory :
                  2 * i > Len(bare) + 1 \/ Len(bare) > 2 * KeyLimit + 1 => memory[i] = old[i]
       /\ typed.command = "CreateAccount" /\ IsHex(typed.key) /\ Len(typed.key) = 2 * KeyLen
            => Key = AsBytes(typed.key)
       /\ typed.command = "EncodeHexString" /\ IsHex(typed.data) /\ Len(typed.data) % 2 = 0
            => hash = AsBytes(typed.data)

\* Bit i of groups and of bytes, counted from the front.
GroupBit(groups, i) ==
    (groups[(i + 4) \div 5] \div PowersOfTwo[((i - 1) % 5) + 4]) % 2
ByteBit(bytes, i) ==
    (bytes[(i + 7) \div 8] \div PowersOfTwo[((i - 1) % 8) + 1]) % 2

\* An address that is copied right, in capitals or not, is accepted and says
\* "io" and the bytes it was made of, if it is not too long to be read; only
\* bits that fill no group of five are lost.  The Ethereum address says the same
\* bytes.
AddressNamesBytes ==
    /\ pc = "read" /\ copy \in {iotexAddr, Capitals(iotexAddr)} /\ Len(copy) <= 90 =>
          LET bits == 8 * Len(hash)
          IN /\ decoded.encoding = "BECH32" /\ decoded.hrp = <<"i", "o">>
             /\ Len(decoded.data) = (bits + 4) \div 5
             /\ \A i \in 1..bits - (bits % 5) :
                   GroupBit(decoded.data, i) = ByteBit(hash, i)
    /\ ethAddr # <<>> => hash = AsBytes(ethAddr)

\* An address with one or two wrong characters, or with two neighbours swapped,
\* is refused and never taken for another account's.  Only where a typo is in
\* "io", or is a "1" that moves the end of the prefix, the checksum promises
\* nothing: what is read then has another prefix.
TypoIsCaught ==
    pc = "read" /\ Typos # {} =>
        \/ decoded = Invalid
        \/ /\ decoded.hrp # <<"i", "o">>
           /\ \E i \in Typos : i <= 2 \/ copy[i] = "1"

\* A transfer calls transfer, with the account that was created and with the
\* amount, each in a word of its own, the highest byte first.  (An amount that
\* is no uint64_t is another one.)
TransferIsAsTyped ==
    pc = "paid" =>
        LET data == AsBytes(callData)
            word(k) == SubSeq(data, 5 + (k - 1) * WordLen, 4 + k * WordLen)
        IN /\ SubSeq(data, 1, 4) = <<169, 5, 156, 187>>
           /\ word(1) = Unset(WordLen - AddressLen, 0) \o hash
           /\ typed.amount \in 0..UintMax =>
                 Number(256, word(2)) = typed.amount

\* The hash of a message that is typed as the prompt asks is that of its bytes,
\* with their number in front in decimal and without a leading zero.
SignedIsTyped ==
    pc = "signed" /\ IsHex(typed.data) /\ Len(typed.data) \in {2 * n : n \in 0..MessageLen} =>
        /\ hashed.bytes = AsBytes(typed.data)
        /\ Number(10, hashed.digits) = Len(hashed.bytes)
        /\ Len(hashed.digits) > 1 => Head(hashed.digits) # 0
=============================================================================
