--------------------------- MODULE Wallets_proofs ---------------------------
(***************************************************************************)
(* Theorems about Wallets and about Connection, whose calls are those of   *)
(* Wallets, for every value of their constants: any texts, ports and sizes *)
(* of the arrays, any number of calls.                                     *)
(***************************************************************************)
EXTENDS Connection, RecursionLemmas, SequenceTheorems, TLAPS

-----------------------------------------------------------------------------
(* The fields of a reply. *)

LEMMA FieldSetIn == \A o \in Ops : FieldSet(o) \subseteq AllFields
BY DEF AllFields

(* What a reply to call o leaves unfilled are fields of call o. *)
LEMMA UnfilledIn ==
    ASSUME NEW o \in Ops, NEW k \in RepliesTo(o), k.fault # "notJson"
    PROVE  Unfilled(o, k) \subseteq FieldSet(o)
<1>1. CASE k.fault = "none"
    BY <1>1 DEF Unfilled
<1>2. CASE k.fault = "odd"
    <2>1. k.field \in FieldSet(o)
        BY <1>2 DEF RepliesTo, GoodReply, NotJson, HeaderFaults
    <2>. QED  BY <1>2, <2>1 DEF Unfilled, FieldsFrom
<1>3. CASE k.fault \notin {"none", "odd"}
    BY <1>3 DEF Unfilled, FieldsFrom
<1>. QED  BY <1>1, <1>2, <1>3

(* What fromJson sees is a reply that parses: a known fault, or none.        *)
LEMMA SeenType ==
    ASSUME op \in Ops, reply \in RepliesTo(op), Parses
    PROVE  /\ Seen \in RepliesTo(op) /\ Seen.fault \in {"none", "missing", "odd"}
           /\ Seen.fault = "odd" => reply.fault = "odd"
           /\ Seen.fault = "missing" =>
                  Seen.field = reply.field \/ reply.fault = "headerJson"
<1>1. CASE FromHeader
    <2>1. Fields[op][1] \in FieldSet(op)
        <3>1. 1 \in DOMAIN Fields[op]
            BY DEF Ops, Fields, ActionHead, ActionCoreHead, ActionTail
        <3>. QED  BY <3>1 DEF FieldSet
    <2>2. Seen = [field |-> Fields[op][1], fault |-> "missing"]
        BY <1>1 DEF Seen
    <2>. QED  BY <1>1, <2>1, <2>2 DEF Parses, RepliesTo
<1>2. CASE ~FromHeader /\ reply.fault \in HeaderFaults
    BY <1>2 DEF Seen, RepliesTo, GoodReply
<1>3. CASE ~FromHeader /\ reply.fault \notin HeaderFaults
    <2>1. Seen = reply
        BY <1>3 DEF Seen
    <2>. QED  BY <1>3, <2>1 DEF Parses, RepliesTo, GoodReply, NotJson, HeaderFaults
<1>. QED  BY <1>1, <1>2, <1>3

(* No field of an account is read as a number or as hex. *)
LEMMA AccountNotConverted ==
    "getAccount" \in Ops /\ FieldSet("getAccount") \cap ConvertedFields = {}
<1>1. Fields["getAccount"] = <<"accountMeta", "address", "balance", "nonce",
                               "pendingNonce", "numActions", "isContract">>
    BY DEF Fields
<1>2. FieldSet("getAccount") \subseteq {"accountMeta", "address", "balance", "nonce",
                               "pendingNonce", "numActions", "isContract"}
    BY <1>1 DEF FieldSet
<1>3. "getAccount" \in Ops
    BY DEF Ops, Fields
<1>. QED  BY <1>2, <1>3 DEF ConvertedFields

-----------------------------------------------------------------------------
(* The inductive invariant: what the stage of a call says of its post. *)

StageInv ==
    /\ stage # "idle" => ret = "NONE" /\ reply \in RepliesTo(op)
    /\ stage = "decode" => result = "SUCCESS"

WInv == WTypeOK /\ StageInv /\ AccountIsWhole

LEMMA WInitInv == WInit => WInv
BY MaxPostsAssumption, FieldSetIn, AccountNotConverted
   DEF WInit, Init, WInv, WTypeOK, StageInv, AccountIsWhole,
       Rets, Errors

LEMMA CallInv ==
    ASSUME WInv, NEW o \in Ops, NEW k \in Kinds, Call(o, k)
    PROVE  WInv'
BY MaxPostsAssumption
   DEF Call, Begin, WInv, WTypeOK, StageInv, AccountIsWhole,
       Rets, Errors

LEMMA PostInv ==
    ASSUME WInv, PostFails \/ PostSucceeds
    PROVE  WInv'
<1>1. CASE PostFails
    BY <1>1
       DEF PostFails, Fail, WInv, WTypeOK, StageInv,
           AccountIsWhole, Rets, Errors
<1>2. CASE PostSucceeds
    BY <1>2
       DEF PostSucceeds, Succeed, WInv, WTypeOK, StageInv,
           AccountIsWhole, Rets, Errors
<1>. QED  BY <1>1, <1>2

LEMMA DecodeOkInv ==
    ASSUME WInv, DecodeOk
    PROVE  WInv'
<1>. DEFINE u == Unfilled(op, Seen)
<1>1. /\ op \in Ops /\ reply \in RepliesTo(op) /\ Parses
      /\ UNCHANGED <<phase, cur, reply, response, result, op>>
    BY DEF DecodeOk, WInv, WTypeOK, StageInv, vars
<1>2. u \subseteq AllFields
    BY <1>1, SeenType, UnfilledIn, FieldSetIn
<1>3. out'[op] = [post |-> cur, missing |-> u]
    BY <1>1 DEF DecodeOk, WInv, WTypeOK
<1>4. WTypeOK'
    <2>1. out' \in [Ops -> [post : 0..MaxPosts, missing : SUBSET AllFields]]
        BY <1>1, <1>2 DEF DecodeOk, WInv, WTypeOK
    <2>2. stage' = "idle" /\ ret' = "SUCCESS" /\ stage = "decode"
        BY DEF DecodeOk
    <2>. QED  BY <1>1, <2>1, <2>2 DEF WInv, WTypeOK, Rets
<1>5. StageInv'
    BY DEF DecodeOk, StageInv
<1>6. AccountIsWhole'
    <2>. SUFFICES ASSUME u # {}
                  PROVE  /\ op # "getAccount"
                         /\ \/ reply.fault = "odd"
                            \/ op = "getBalance"
                                  /\ (reply.field = "accountMeta"
                                          \/ reply.fault = "headerJson")
        BY <1>1, <1>3 DEF AccountIsWhole
    <2>1. /\ Seen.fault \in {"none", "missing", "odd"} /\ Seen \in RepliesTo(op)
          /\ Seen.fault = "odd" => reply.fault = "odd"
          /\ Seen.fault = "missing" =>
                 Seen.field = reply.field \/ reply.fault = "headerJson"
        BY <1>1, SeenType
    <2>2. CASE Seen.fault = "none"
        BY <2>2 DEF Unfilled
    <2>3. CASE Seen.fault = "missing"
        BY <2>1, <2>3 DEF DecodeOk, StopsParse
    <2>4. CASE Seen.fault = "odd"
        BY <1>1, <2>1, <2>4, AccountNotConverted DEF RepliesTo, GoodReply, NotJson, HeaderFaults
    <2>. QED  BY <2>1, <2>2, <2>3, <2>4
<1>. QED  BY <1>4, <1>5, <1>6 DEF WInv

LEMMA DecodeFailsInv ==
    ASSUME WInv, DecodeFails
    PROVE  WInv'
BY DEF DecodeFails, vars, WInv, WTypeOK, StageInv,
       AccountIsWhole, Rets, Errors

LEMMA WNextInv == WInv /\ [WNext]_allVars => WInv'
<1>. SUFFICES ASSUME WInv, [WNext]_allVars PROVE WInv'
    OBVIOUS
<1>1. CASE UNCHANGED allVars
    BY <1>1
       DEF allVars, WInv, WTypeOK, StageInv, AccountIsWhole
<1>. QED
    BY <1>1, CallInv, PostInv, DecodeOkInv, DecodeFailsInv DEF WNext

THEOREM WalletsInvariant == WSpec => []WInv
BY WInitInv, WNextInv, PTL DEF WSpec

-----------------------------------------------------------------------------
(* What follows from it. *)

(* Every variable of a call keeps its type. *)
THEOREM WalletsTypeCorrect == WSpec => []WTypeOK
<1>1. WInv => WTypeOK
    BY DEF WInv
<1>. QED  BY <1>1, WalletsInvariant, PTL

(* Only the two known replies make a call succeed with a field left out, and *)
(* no reply makes getAccount do so.                                          *)
THEOREM AccountsAreWhole == WSpec => []AccountIsWhole
<1>1. WInv => AccountIsWhole
    BY DEF WInv
<1>. QED  BY <1>1, WalletsInvariant, PTL

(* A failed call changes no out parameter, a successful one only its own.    *)
THEOREM OutputKept == WSpec => FailureKeepsOutput
<1>. DEFINE Kept == out' # out => /\ ret' = "SUCCESS"
                                  /\ \A o \in Ops \ {op} : out'[o] = out[o]
<1>1. WInv /\ [WNext]_allVars => [Kept]_allVars
    <2>. SUFFICES ASSUME WInv, [WNext]_allVars, out' # out PROVE Kept
        OBVIOUS
    <2>1. DecodeOk
        BY DEF WNext, Call, PostFails, PostSucceeds, DecodeFails, allVars
    <2>. QED  BY <2>1 DEF DecodeOk, WInv, WTypeOK
<1>. QED  BY <1>1, WalletsInvariant, PTL DEF WSpec, FailureKeepsOutput

-----------------------------------------------------------------------------
(* Connection. *)

(* However the host is set between the calls, refused or null, a connection  *)
(* behaves as Wallets says: all of the above holds of it.                    *)
THEOREM ConnectionCalls == CSpec => WSpec
<1>1. CInit => WInit
    BY DEF CInit
<1>2. [CNext]_everyVar => [WNext]_allVars
    <2>. SUFFICES ASSUME [CNext]_everyVar PROVE [WNext]_allVars
        OBVIOUS
    <2>1. ASSUME NEW n \in Names, NEW p \in Ports, NEW b \in Bases,
                 SetHost(n, p, b) \/ SetHostRefused(n, p, b)
          PROVE  UNCHANGED allVars
        BY <2>1 DEF SetHost, SetHostRefused
    <2>2. ASSUME NEW n \in Names, NEW p \in Ports, SetHostNull(n, p)
          PROVE  UNCHANGED allVars
        BY <2>2 DEF SetHostNull
    <2>3. ASSUME NEW o \in Ops, NEW k \in Kinds, CCall(o, k) PROVE WNext
        BY <2>3 DEF CCall, WNext
    <2>4. CASE CallStep
        BY <2>4 DEF CallStep, WNext
    <2>5. CASE UNCHANGED everyVar
        BY <2>5 DEF everyVar
    <2>. QED  BY <2>1, <2>2, <2>3, <2>4, <2>5 DEF CNext
<1>. QED  BY <1>1, <1>2, PTL DEF CSpec, WSpec

-----------------------------------------------------------------------------
(* Digits and texts. *)

DigitSet == {DigitChars[d] : d \in 1..10}

(* The ten digits are ten characters, and none of them separates. *)
LEMMA DigitCharsApart ==
    /\ \A i, j \in 1..10 : DigitChars[i] = DigitChars[j] => i = j
    /\ Len(DigitChars) = 10 /\ DOMAIN DigitChars = 1..10
    /\ ":" \notin DigitSet /\ "/" \notin DigitSet
<1>1. Len(DigitChars) = 10 /\ DOMAIN DigitChars = 1..10
    BY DEF DigitChars
<1>2. /\ DigitChars[1] = "0" /\ DigitChars[2] = "1" /\ DigitChars[3] = "2"
      /\ DigitChars[4] = "3" /\ DigitChars[5] = "4" /\ DigitChars[6] = "5"
      /\ DigitChars[7] = "6" /\ DigitChars[8] = "7" /\ DigitChars[9] = "8"
      /\ DigitChars[10] = "9"
    BY DEF DigitChars
<1>3. \A d \in 1..10 : d \in {1, 2, 3, 4, 5, 6, 7, 8, 9, 10}
    OBVIOUS
<1>4. DigitSet \subseteq {"0", "1", "2", "3", "4", "5", "6", "7", "8", "9"}
    BY <1>2, <1>3 DEF DigitSet
<1>5. \A i, j \in 1..10 : DigitChars[i] = DigitChars[j] => i = j
    BY <1>2, <1>3
<1>6. ":" \notin DigitSet /\ "/" \notin DigitSet
    BY <1>4
<1>. QED  BY <1>1, <1>5, <1>6

(* The first c of s is where it is, and nowhere else. *)
LEMMA FirstAt ==
    ASSUME NEW s, NEW c, NEW n \in DOMAIN s, DOMAIN s \subseteq Nat \ {0},
           s[n] = c, \A j \in 1..n - 1 : s[j] # c
    PROVE  Has(s, c) /\ IndexOf(s, c) = n
<1>1. ASSUME NEW i \in DOMAIN s, s[i] = c, \A j \in 1..i - 1 : s[j] # c
      PROVE  i = n
    <2>1. i \in Nat \ {0} /\ n \in Nat \ {0}
        OBVIOUS
    <2>2. CASE i < n
        BY <1>1, <2>1, <2>2
    <2>3. CASE n < i
        BY <1>1, <2>1, <2>3
    <2>. QED  BY <2>1, <2>2, <2>3
<1>. QED  BY <1>1 DEF Has, IndexOf

(* Digit d stands at place d + 1. *)
LEMMA DigitIndex ==
    ASSUME NEW d \in 0..9
    PROVE  IndexOf(DigitChars, DigitChars[d + 1]) = d + 1
<1>1. d + 1 \in 1..10 /\ \A j \in 1..(d + 1) - 1 : j \in 1..10 /\ j # d + 1
    OBVIOUS
<1>. QED  BY <1>1, FirstAt, DigitCharsApart

(* A text that a character of which a does not have is put behind splits at  *)
(* that character.                                                           *)
LEMMA Joined ==
    ASSUME NEW A, NEW a \in Seq(A), NEW b \in Seq(A), NEW c, ~Has(a, c),
           b # <<>>, b[1] = c
    PROVE  /\ Has(a \o b, c) /\ IndexOf(a \o b, c) = Len(a) + 1
           /\ Before(a \o b, c) = a
           /\ SubSeq(a \o b, IndexOf(a \o b, c), Len(a \o b)) = b
           /\ After(a \o b, c) = Tail(b)
<1>. DEFINE s == a \o b
<1>1. s \in Seq(A) /\ Len(s) = Len(a) + Len(b) /\ Len(b) > 0
    OBVIOUS
<1>2. Len(a) + 1 \in DOMAIN s /\ DOMAIN s \subseteq Nat \ {0} /\ s[Len(a) + 1] = c
    BY <1>1
<1>3. \A j \in 1..(Len(a) + 1) - 1 : s[j] # c
    <2>1. \A j \in 1..Len(a) : s[j] = a[j] /\ a[j] # c
        BY DEF Has
    <2>. QED  BY <2>1
<1>4. Has(s, c) /\ IndexOf(s, c) = Len(a) + 1
    <2>. HIDE DEF s
    <2>. QED  BY <1>2, <1>3, FirstAt
<1>5. SubSeq(s, 1, Len(a)) = a
    BY <1>1
<1>6. SubSeq(s, Len(a) + 1, Len(s)) = b
    BY <1>1
<1>7. SubSeq(s, Len(a) + 2, Len(s)) = Tail(b)
    BY <1>1
<1>8. Before(s, c) = a
    <2>1. (Len(a) + 1) - 1 = Len(a)
        OBVIOUS
    <2>. HIDE DEF s
    <2>. QED  BY <1>4, <1>5, <2>1 DEF Before
<1>9. After(s, c) = Tail(b)
    <2>1. (Len(a) + 1) + 1 = Len(a) + 2
        OBVIOUS
    <2>. HIDE DEF s
    <2>. QED  BY <1>4, <1>7, <2>1 DEF After
<1>. HIDE DEF s
<1>. QED  BY <1>4, <1>6, <1>8, <1>9 DEF s

(* A number is ten times what is left of it and its last digit. *)
LEMMA TenBelow ==
    ASSUME NEW n \in Nat
    PROVE  /\ n \div 10 \in Nat /\ n % 10 \in 0..9 /\ n = 10 * (n \div 10) + (n % 10)
           /\ n >= 10 => n \div 10 < n
OBVIOUS

(* The recursive definition of Digits has a solution, and it is digits. *)
LEMMA DigitsDef ==
    /\ Digits \in [Nat -> Seq(DigitSet)]
    /\ \A n \in Nat : Digits[n] = IF n < 10 THEN <<DigitChars[n + 1]>>
                                  ELSE Append(Digits[n \div 10], DigitChars[(n % 10) + 1])
<1>. DEFINE A == Seq(DigitSet)
            B == 0..9
            base == [n \in Nat |-> IF n < 10 THEN <<DigitChars[n + 1]>> ELSE <<>>]
            pre == [n \in Nat |-> n \div 10]
            step == [p \in Nat \X A |-> Append(p[2], DigitChars[(p[1] % 10) + 1])]
<1>1. B \in SUBSET Nat
    OBVIOUS
<1>2. base \in [Nat -> A]
    <2>1. ASSUME NEW n \in Nat, n < 10 PROVE DigitChars[n + 1] \in DigitSet
        <3>1. n + 1 \in 1..10
            BY <2>1
        <3>. QED  BY <3>1 DEF DigitSet
    <2>. QED  BY <2>1
<1>3. pre \in [Nat -> Nat]
    BY TenBelow
<1>3a. \A n \in Nat \ B : pre[n] < n
    <2>1. \A n \in Nat \ B : n >= 10
        OBVIOUS
    <2>. QED  BY <2>1, TenBelow
<1>4. step \in [Nat \X A -> A]
    <2>1. ASSUME NEW n \in Nat PROVE DigitChars[(n % 10) + 1] \in DigitSet
        <3>1. (n % 10) + 1 \in 1..10
            BY TenBelow
        <3>. QED  BY <3>1 DEF DigitSet
    <2>. QED  BY <2>1
<1>5. \E f \in [Nat -> A] : \A n \in Nat :
          f[n] = IF n \in B THEN base[n] ELSE step[<<n, f[pre[n]]>>]
    <2>1. Recursive(A, B, base, pre, step)
        <3>. HIDE DEF A, B, base, pre, step
        <3>. QED  BY <1>1, <1>2, <1>3, <1>3a, <1>4 DEF Recursive
    <2>. HIDE DEF A, B, base, pre, step
    <2>. QED  BY <2>1, Recursion
<1>6. PICK f \in [Nat -> A] : \A n \in Nat :
          f[n] = IF n \in B THEN base[n] ELSE step[<<n, f[pre[n]]>>]
    BY <1>5
<1>7. ASSUME NEW n \in Nat
      PROVE  f[n] = IF n < 10 THEN <<DigitChars[n + 1]>>
                    ELSE Append(f[n \div 10], DigitChars[(n % 10) + 1])
    <2>1. n \div 10 \in Nat /\ f[n \div 10] \in A
        BY TenBelow
    <2>2. n \in B <=> n < 10
        OBVIOUS
    <2>. HIDE DEF A, B
    <2>. QED  BY <1>6, <2>1, <2>2
<1>8. f = [n \in Nat |-> IF n < 10 THEN <<DigitChars[n + 1]>>
                         ELSE Append(f[n \div 10], DigitChars[(n % 10) + 1])]
    BY <1>7
<1>9. Digits = [n \in Nat |-> IF n < 10 THEN <<DigitChars[n + 1]>>
                         ELSE Append(Digits[n \div 10], DigitChars[(n % 10) + 1])]
    BY <1>8, Zenon DEF Digits
<1>10. \A n \in Nat : Digits[n] = IF n < 10 THEN <<DigitChars[n + 1]>>
                                  ELSE Append(Digits[n \div 10], DigitChars[(n % 10) + 1])
    BY <1>9
<1>11. Nat \subseteq {n \in Nat : Digits[n] \in A}
    <2>. DEFINE S == {n \in Nat : Digits[n] \in A}
    <2>. HIDE DEF base, pre, step
    <2>1. ASSUME NEW n \in Nat, \A k \in 0..n - 1 : k \in S PROVE n \in S
        <3>1. CASE n < 10
            <4>1. n + 1 \in 1..10
                BY <3>1
            <4>2. DigitChars[n + 1] \in DigitSet
                BY <4>1 DEF DigitSet
            <4>3. Digits[n] = <<DigitChars[n + 1]>>
                BY <1>10, <3>1
            <4>4. Digits[n] \in A
                BY <4>2, <4>3
            <4>. QED  BY <4>4
        <3>2. CASE n >= 10
            <4>1. n \div 10 \in 0..n - 1 /\ (n % 10) + 1 \in 1..10
                BY <3>2, TenBelow
            <4>2. Digits[n \div 10] \in A /\ DigitChars[(n % 10) + 1] \in DigitSet
                BY <2>1, <4>1 DEF DigitSet
            <4>3. Digits[n] = Append(Digits[n \div 10], DigitChars[(n % 10) + 1])
                <5>1. ~(n < 10)
                    BY <3>2
                <5>. QED  BY <1>10, <5>1, Zenon
            <4>4. Digits[n] \in A
                BY <4>2, <4>3
            <4>. QED  BY <4>4
        <3>. QED  BY <3>1, <3>2
    <2>. HIDE DEF S
    <2>2. Nat \subseteq S
        BY <2>1, StrongInduction
    <2>. QED  BY <2>2 DEF S
<1>. QED  BY <1>9, <1>10, <1>11

(* So has the one in Atoi, along the text it reads. *)
LEMMA AtoiDef ==
    ASSUME NEW s \in Seq(DigitSet)
    PROVE  \E v \in [0..Len(s) -> Int] :
               /\ v[0] = 0
               /\ \A i \in 1..Len(s) : v[i] = 10 * v[i - 1] + IndexOf(DigitChars, s[i]) - 1
               /\ Atoi(s) = v[Len(s)]
<1>. DEFINE m == Len(s)
            step == [p \in (1..m) \X Int |-> 10 * p[2] + IndexOf(DigitChars, s[p[1]]) - 1]
            Is(f) == f = [i \in 0..Len(s) |->
                        IF i = 0 THEN 0 ELSE 10 * f[i - 1] + IndexOf(DigitChars, s[i]) - 1]
<1>1. m \in Nat /\ \A i \in 1..m : s[i] \in DigitSet
    OBVIOUS
<1>2. \A d \in DigitSet : IndexOf(DigitChars, d) \in Int
    <2>. SUFFICES ASSUME NEW k \in 1..10 PROVE IndexOf(DigitChars, DigitChars[k]) \in Int
        BY DEF DigitSet
    <2>1. k - 1 \in 0..9 /\ (k - 1) + 1 = k
        OBVIOUS
    <2>2. IndexOf(DigitChars, DigitChars[k]) = k
        BY <2>1, DigitIndex
    <2>. QED  BY <2>2
<1>3. step \in [(1..m) \X Int -> Int]
    <2>. HIDE DEF m
    <2>. QED  BY <1>1, <1>2
<1>4. PICK f \in [0..m -> Int] : f[0] = 0 /\ \A i \in 1..m : f[i] = step[<<i, f[i - 1]>>]
    <2>1. Along(Int, m, 0, step)
        <3>. HIDE DEF m, step
        <3>. QED  BY <1>1, <1>3 DEF Along
    <2>. HIDE DEF m, step
    <2>. QED  BY <2>1, ListRecursion
<1>5. ASSUME NEW i \in 1..m
      PROVE  f[i] = 10 * f[i - 1] + IndexOf(DigitChars, s[i]) - 1
    <2>1. i - 1 \in 0..m /\ f[i - 1] \in Int
        BY <1>1
    <2>2. f[i] = step[<<i, f[i - 1]>>]
        BY <1>4
    <2>. QED  BY <2>1, <2>2
<1>6. Is(f)
    <2>. HIDE DEF m
    <2>1. \A i \in 0..m : f[i] = IF i = 0 THEN 0
                                 ELSE 10 * f[i - 1] + IndexOf(DigitChars, s[i]) - 1
        BY <1>1, <1>4, <1>5
    <2>. QED  BY <2>1 DEF m
<1>. DEFINE v == CHOOSE g : Is(g)
<1>7. Is(v)
    <2>. HIDE DEF Is
    <2>. QED  BY <1>6
<1>8. Atoi(s) = v[Len(s)]
    BY Zenon DEF Atoi
<1>9. DOMAIN v = 0..m /\ v[0] = 0 /\ \A i \in 1..m : v[i] =
          10 * v[i - 1] + IndexOf(DigitChars, s[i]) - 1
    <2>. HIDE DEF v
    <2>. QED  BY <1>1, <1>7
<1>10. v \in [0..m -> Int]
    <2>. DEFINE S == {i \in 0..m : v[i] \in Int}
    <2>. HIDE DEF v, m
    <2>1. 0 \in S
        BY <1>1, <1>9
    <2>2. ASSUME NEW i \in 1..m, i - 1 \in S PROVE i \in S
        <3>1. IndexOf(DigitChars, s[i]) \in Int /\ v[i - 1] \in Int
            BY <1>1, <1>2, <2>2
        <3>2. v[i] \in Int
            BY <1>9, <3>1
        <3>. QED  BY <1>1, <3>2
    <2>3. 0..m \subseteq S
        <3>. HIDE DEF S
        <3>. QED  BY <1>1, <2>1, <2>2, InductionUpTo
    <2>4. v = [i \in 0..m |-> v[i]]
        BY <1>7, <1>9 DEF m
    <2>. QED  BY <2>3, <2>4
<1>. HIDE DEF v
<1>. QED  BY <1>8, <1>9, <1>10

(* One more digit behind a text of digits. *)
LEMMA AtoiAppend ==
    ASSUME NEW s \in Seq(DigitSet), NEW d \in DigitSet
    PROVE  Atoi(Append(s, d)) = 10 * Atoi(s) + IndexOf(DigitChars, d) - 1
<1>. DEFINE m == Len(s)
            t == Append(s, d)
<1>1. m \in Nat /\ t \in Seq(DigitSet) /\ Len(t) = m + 1 /\ t[m + 1] = d
      /\ \A i \in 1..m : t[i] = s[i]
    OBVIOUS
<1>2. PICK v \in [0..m -> Int] :
          /\ v[0] = 0
          /\ \A i \in 1..m : v[i] = 10 * v[i - 1] + IndexOf(DigitChars, s[i]) - 1
          /\ Atoi(s) = v[m]
    BY AtoiDef
<1>3. PICK w \in [0..m + 1 -> Int] :
          /\ w[0] = 0
          /\ \A i \in 1..m + 1 : w[i] = 10 * w[i - 1] + IndexOf(DigitChars, t[i]) - 1
          /\ Atoi(t) = w[m + 1]
    <2>. HIDE DEF t, m
    <2>. QED  BY <1>1, AtoiDef
<1>4. 0..m \subseteq {i \in 0..m : v[i] = w[i]}
    <2>. DEFINE S == {i \in 0..m : v[i] = w[i]}
    <2>. HIDE DEF t, m
    <2>1. 0 \in S
        BY <1>1, <1>2, <1>3
    <2>2. ASSUME NEW i \in 1..m, i - 1 \in S PROVE i \in S
        <3>1. i \in 0..m /\ i \in 1..m + 1 /\ t[i] = s[i]
            BY <1>1
        <3>. QED  BY <1>2, <1>3, <2>2, <3>1
    <2>. HIDE DEF S
    <2>3. 0..m \subseteq S
        BY <1>1, <2>1, <2>2, InductionUpTo
    <2>. QED  BY <2>3 DEF S
<1>. HIDE DEF t, m
<1>5. v[m] = w[m] /\ (m + 1) - 1 = m /\ m + 1 \in 1..m + 1
    BY <1>1, <1>4
<1>. QED  BY <1>1, <1>2, <1>3, <1>5 DEF t

(* A text of one digit. *)
LEMMA AtoiOne ==
    ASSUME NEW d \in DigitSet
    PROVE  Atoi(<<d>>) = IndexOf(DigitChars, d) - 1
<1>1. PICK v \in [0..1 -> Int] :
          /\ v[0] = 0
          /\ \A i \in 1..1 : v[i] = 10 * v[i - 1] + IndexOf(DigitChars, <<d>>[i]) - 1
          /\ Atoi(<<d>>) = v[1]
    <2>1. <<d>> \in Seq(DigitSet) /\ Len(<<d>>) = 1
        OBVIOUS
    <2>. QED  BY <2>1, AtoiDef
<1>2. v[1] = 10 * v[1 - 1] + IndexOf(DigitChars, <<d>>[1]) - 1
    BY <1>1
<1>3. PICK k \in 1..10 : d = DigitChars[k]
    BY DEF DigitSet
<1>4. IndexOf(DigitChars, d) = k
    <2>1. k - 1 \in 0..9 /\ (k - 1) + 1 = k
        OBVIOUS
    <2>. QED  BY <1>3, <2>1, DigitIndex
<1>. QED  BY <1>1, <1>2, <1>4

(* The digits of a number are read back as that number. *)
LEMMA AtoiDigits == \A n \in Nat : Atoi(Digits[n]) = n
<1>. DEFINE S == {n \in Nat : Atoi(Digits[n]) = n}
<1>1. ASSUME NEW n \in Nat, \A k \in 0..n - 1 : k \in S PROVE n \in S
    <2>1. CASE n < 10
        <3>1. n \in 0..9 /\ n + 1 \in 1..10
            BY <2>1
        <3>2. Digits[n] = <<DigitChars[n + 1]>>
            BY <2>1, DigitsDef
        <3>3. DigitChars[n + 1] \in DigitSet
            BY <3>1 DEF DigitSet
        <3>4. IndexOf(DigitChars, DigitChars[n + 1]) = n + 1
            BY <3>1, DigitIndex
        <3>5. Atoi(Digits[n]) = n
            BY <3>2, <3>3, <3>4, AtoiOne
        <3>. QED  BY <3>5
    <2>2. CASE ~(n < 10)
        <3>. DEFINE q == n \div 10
                    r == n % 10
        <3>1. q \in 0..n - 1 /\ q \in Nat /\ r \in 0..9 /\ r + 1 \in 1..10 /\ n = 10 * q + r
            BY <2>2, TenBelow
        <3>2. Digits[n] = Append(Digits[q], DigitChars[r + 1])
            BY <2>2, DigitsDef, Zenon
        <3>. HIDE DEF q, r
        <3>3. Digits[q] \in Seq(DigitSet)
            BY <3>1, DigitsDef
        <3>4. DigitChars[r + 1] \in DigitSet
            BY <3>1 DEF DigitSet
        <3>5. IndexOf(DigitChars, DigitChars[r + 1]) = r + 1
            BY <3>1, DigitIndex
        <3>6. Atoi(Digits[q]) = q
            BY <1>1, <3>1
        <3>7. Atoi(Digits[n]) = 10 * q + (r + 1) - 1
            BY <3>2, <3>3, <3>4, <3>5, <3>6, AtoiAppend
        <3>8. Atoi(Digits[n]) = n
            BY <3>1, <3>7
        <3>. QED  BY <3>8
    <2>. QED  BY <2>1, <2>2
<1>2. Nat \subseteq S
    <2>. HIDE DEF S
    <2>. QED  BY <1>1, StrongInduction
<1>. QED  BY <1>2

(* A port whose digits fit is printed whole. *)
LEMMA PortTextWhole ==
    ASSUME NEW p \in Nat, p < UIntSize, Len(Digits[p]) <= PortChars
    PROVE  PortText(p) = Digits[p]
<1>1. p % UIntSize = p
    BY PortsAssumption
<1>2. Digits[p] \in Seq(DigitSet)
    BY DigitsDef
<1>3. SubSeq(Digits[p], 1, Len(Digits[p])) = Digits[p]
    BY <1>2
<1>4. (IF Len(Digits[p]) < PortChars THEN Len(Digits[p]) ELSE PortChars) = Len(Digits[p])
    BY <1>2, PortsAssumption
<1>. QED  BY <1>1, <1>3, <1>4 DEF PortText

(* A text that an array has room for is read back from it, whatever the      *)
(* array held before.                                                        *)
LEMMA CopiedReadsBack ==
    ASSUME NEW A, NEW t \in Seq(A), NUL \notin A, ~TooLong(t), NEW m, DOMAIN m = 1..MaxLen + 1
    PROVE  CString(Copied(t, m)) = t
<1>. DEFINE c == Copied(t, m)
            n == Len(t)
<1>1. n \in Nat /\ n < MaxLen /\ MaxLen \in Nat
    BY ArraysAssumption DEF TooLong
<1>2. c = [i \in 1..MaxLen + 1 |-> IF i <= n THEN t[i] ELSE NUL]
    BY DEF Copied
<1>3. n + 1 \in 1..MaxLen + 1 /\ c[n + 1] = NUL
    BY <1>1, <1>2
<1>4. \A j \in 1..n : c[j] = t[j] /\ c[j] # NUL
    BY <1>1, <1>2
<1>. HIDE DEF c
<1>5. ASSUME NEW i \in DOMAIN c, c[i] = NUL, \A j \in 1..i - 1 : c[j] # NUL
      PROVE  i = n + 1
    <2>1. i \in 1..MaxLen + 1
        BY <1>2
    <2>2. CASE i < n + 1
        <3>1. i \in 1..n
            BY <1>1, <2>1, <2>2
        <3>. QED  BY <1>4, <1>5, <3>1
    <2>3. CASE n + 1 < i
        <3>1. n + 1 \in 1..i - 1
            BY <1>1, <2>1, <2>3
        <3>. QED  BY <1>3, <1>5, <3>1
    <2>. QED  BY <1>1, <2>1, <2>2, <2>3
<1>6. (CHOOSE i \in DOMAIN c : c[i] = NUL /\ \A j \in 1..i - 1 : c[j] # NUL) = n + 1
    <2>1. n + 1 \in DOMAIN c /\ \A j \in 1..(n + 1) - 1 : c[j] # NUL
        BY <1>1, <1>2, <1>3, <1>4
    <2>. QED  BY <1>3, <1>5, <2>1
<1>7. CString(c) = SubSeq(c, 1, n)
    <2>1. (n + 1) - 1 = n
        BY <1>1
    <2>. QED  BY <1>6, <2>1 DEF CString
<1>8. SubSeq(c, 1, n) = [i \in 1..n |-> c[i]]
    <2>1. SubSeq(c, 1, n) = [i \in 1..(1 + n - 1) |-> c[i + 1 - 1]]
        BY <1>1, <1>2
    <2>. QED  BY <1>1, <2>1
<1>9. t = [i \in 1..n |-> t[i]]
    OBVIOUS
<1>. QED  BY <1>4, <1>7, <1>8, <1>9 DEF c

-----------------------------------------------------------------------------
(* The text of a host and its split. *)

\* The path behind base b of a call of method m.
PathOf(b, m) ==
    <<"/">> \o (IF b = <<>> THEN <<>> ELSE b \o <<"/">>) \o <<m>>

\* What toString and the call put together from what the arrays hold.
UrlOf(n, p, b, m) ==
    Append(n \o <<":">> \o PortText(p) \o (IF b = <<>> THEN <<>> ELSE <<"/">> \o b)
               \o <<"/">>, m)

(* The transport takes apart what Host::toString put together. *)
LEMMA UrlSplits ==
    ASSUME NEW A, NEW n \in Seq(A), NEW b \in Seq(A), NEW p \in Nat, NEW m,
           ~Has(n, ":"), ~Has(n, "/"), p < UIntSize, Len(Digits[p]) <= PortChars
    PROVE  Split(UrlOf(n, p, b, m)) = [host |-> n, port |-> p, path |-> PathOf(b, m)]
<1>. DEFINE C == A \cup DigitSet \cup {":", "/", m}
            d == Digits[p]
            auth == n \o (<<":">> \o d)
            tail == IF b = <<>> THEN <<>> ELSE <<"/">> \o b
            u == UrlOf(n, p, b, m)
            path == PathOf(b, m)
<1>1. d \in Seq(DigitSet) /\ PortText(p) = d /\ Atoi(d) = p
    BY DigitsDef, PortTextWhole, AtoiDigits
<1>2. /\ n \in Seq(C) /\ b \in Seq(C) /\ d \in Seq(C) /\ <<":">> \in Seq(C)
      /\ <<"/">> \in Seq(C) /\ <<m>> \in Seq(C) /\ <<>> \in Seq(C) /\ tail \in Seq(C)
      /\ m \in C
    <2>1. A \subseteq C /\ DigitSet \subseteq C /\ ":" \in C /\ "/" \in C /\ m \in C
        OBVIOUS
    <2>. HIDE DEF C, d
    <2>2. n \in Seq(C) /\ b \in Seq(C) /\ d \in Seq(C)
        BY <1>1, <2>1, SeqMonotonic
    <2>. QED  BY <2>1, <2>2
<1>. HIDE DEF C
<1>3. auth \in Seq(C) /\ path \in Seq(C) /\ <<":">> \o d \in Seq(C)
    BY <1>2 DEF PathOf
<1>4. u = auth \o path
    <2>1. u = ((((n \o <<":">>) \o d) \o tail) \o <<"/">>) \o <<m>>
        <3>1. (((n \o <<":">>) \o d) \o tail) \o <<"/">> \in Seq(C)
            BY <1>2
        <3>. QED  BY <1>1, <1>2, <3>1, AppendIsConcat DEF UrlOf
    <2>2. (n \o <<":">>) \o d = n \o (<<":">> \o d)
        <3>. HIDE DEF d
        <3>1. n \in Seq(C) /\ <<":">> \in Seq(C) /\ d \in Seq(C)
            BY <1>2
        <3>. QED  BY <3>1
    <2>3. path = (tail \o <<"/">>) \o <<m>>
        <3>1. CASE b = <<>>
            BY <1>2, <3>1 DEF PathOf
        <3>2. CASE b # <<>>
            <4>1. <<"/">> \o (b \o <<"/">>) = (<<"/">> \o b) \o <<"/">>
                BY <1>2, ConcatAssociative
            <4>. QED  BY <3>2, <4>1 DEF PathOf
        <3>. QED  BY <3>1, <3>2
    <2>. HIDE DEF auth, tail, path, d
    <2>4. (auth \o tail) \o <<"/">> = auth \o (tail \o <<"/">>) /\ tail \o <<"/">> \in Seq(C)
        <3>1. auth \in Seq(C) /\ tail \in Seq(C) /\ <<"/">> \in Seq(C)
            BY <1>2, <1>3
        <3>. QED  BY <3>1
    <2>5. (auth \o (tail \o <<"/">>)) \o <<m>> = auth \o ((tail \o <<"/">>) \o <<m>>)
        <3>. DEFINE x == tail \o <<"/">>
        <3>1. auth \in Seq(C) /\ x \in Seq(C) /\ <<m>> \in Seq(C)
            BY <1>2, <1>3, <2>4
        <3>. HIDE DEF x
        <3>2. (auth \o x) \o <<m>> = auth \o (x \o <<m>>)
            BY <3>1
        <3>. QED  BY <3>2 DEF x
    <2>6. u = ((auth \o tail) \o <<"/">>) \o <<m>>
        BY <2>1, <2>2 DEF auth
    <2>. QED  BY <2>3, <2>4, <2>5, <2>6
<1>5. path # <<>> /\ path[1] = "/"
    <2>1. ASSUME NEW x \in Seq(C), NEW y \in Seq(C)
          PROVE  (<<"/">> \o x) \o y # <<>> /\ ((<<"/">> \o x) \o y)[1] = "/"
        BY <1>2
    <2>2. (IF b = <<>> THEN <<>> ELSE b \o <<"/">>) \in Seq(C)
        BY <1>2
    <2>. QED  BY <1>2, <2>1, <2>2 DEF PathOf
<1>6. ~Has(auth, "/")
    <2>1. \A i \in DOMAIN d : d[i] # "/"
        <3>1. \A i \in DOMAIN d : d[i] \in DigitSet
            BY <1>1
        <3>. QED  BY <3>1, DigitCharsApart
    <2>2. \A i \in DOMAIN (<<":">> \o d) : (<<":">> \o d)[i] # "/"
        <3>. HIDE DEF d
        <3>. QED  BY <1>2, <2>1
    <2>. HIDE DEF d
    <2>3. \A i \in DOMAIN n : n[i] # "/"
        BY DEF Has
    <2>. QED  BY <1>2, <1>3, <2>2, <2>3 DEF Has
<1>7. <<":">> \o d # <<>> /\ (<<":">> \o d)[1] = ":" /\ Tail(<<":">> \o d) = d
    <2>. HIDE DEF d
    <2>. QED  BY <1>2
<1>. HIDE DEF auth, path, u, d
<1>8. Before(u, "/") = auth /\ SubSeq(u, IndexOf(u, "/"), Len(u)) = path
    BY <1>3, <1>4, <1>5, <1>6, Joined
<1>9. Before(auth, ":") = n /\ Has(auth, ":") /\ After(auth, ":") = d
    <2>. DEFINE e == <<":">> \o d
    <2>1. n \in Seq(C) /\ e \in Seq(C) /\ e # <<>> /\ e[1] = ":" /\ Tail(e) = d
        BY <1>2, <1>3, <1>7
    <2>. HIDE DEF e
    <2>2. /\ Before(n \o e, ":") = n /\ Has(n \o e, ":")
          /\ After(n \o e, ":") = Tail(e)
        BY <2>1, Joined
    <2>. QED  BY <2>1, <2>2 DEF auth, e
<1>. QED  BY <1>1, <1>8, <1>9 DEF Split, u, path

-----------------------------------------------------------------------------
(* The inductive invariant of Connection. *)

\* The arrays hold what the latest setHost that was not refused was given, and
\* a call that is under way has the URL that they make.
ConfigInv ==
    /\ configured # <<>> =>
           /\ configured.name \in Seq(Chars) /\ CString(hostname) = configured.name
           /\ configured.base \in Seq(Chars) /\ CString(baseUrl) = configured.base
           /\ configured.port \in Ports /\ port = configured.port
    /\ stage = "post" =>
           url = UrlOf(CString(hostname), port, CString(baseUrl), Method(op))

CInv == CTypeOK /\ ConfigInv

LEMMA CInitInv == CInit => CInv
<1>. SUFFICES ASSUME CInit PROVE CInv
    OBVIOUS
<1>1. hostname \in {Zeros, Garbage} /\ baseUrl = hostname
    BY DEF CInit
<1>2. ASSUME NEW m \in {Zeros, Garbage}
      PROVE  m \in [1..MaxLen + 1 -> Chars \cup Range(Garbage)] /\ NUL \in Range(m)
    <2>1. CASE m = Garbage
        BY <2>1, ArraysAssumption
    <2>2. CASE m = Zeros
        <3>1. 1 \in DOMAIN Zeros
            BY ArraysAssumption DEF Zeros
        <3>2. Zeros[1] = NUL
            BY <3>1 DEF Zeros
        <3>. QED  BY <2>2, <3>1, <3>2, ArraysAssumption DEF Zeros, Range
    <2>. QED  BY <2>1, <2>2
<1>3. CTypeOK
    <2>1. port \in Ports \cup {-1} /\ up \in BOOLEAN /\ sets \in 0..MaxSets
        BY MaxSetsAssumption DEF CInit
    <2>. QED  BY <1>1, <1>2, <2>1 DEF CTypeOK
<1>4. ConfigInv
    BY DEF CInit, WInit, ConfigInv
<1>. QED  BY <1>3, <1>4 DEF CInv

(* A text that is copied leaves an array as an array should be.              *)
LEMMA CopiedType ==
    ASSUME NEW t \in Seq(Chars), ~TooLong(t),
           NEW m \in [1..MaxLen + 1 -> Chars \cup Range(Garbage)]
    PROVE  /\ Copied(t, m) \in [1..MaxLen + 1 -> Chars \cup Range(Garbage)]
           /\ NUL \in Range(Copied(t, m))
           /\ CString(Copied(t, m)) = t
<1>1. Len(t) \in Nat /\ Len(t) < MaxLen /\ MaxLen \in Nat /\ NUL \in Range(Garbage)
    BY ArraysAssumption DEF TooLong
<1>2. Copied(t, m) \in [1..MaxLen + 1 -> Chars \cup Range(Garbage)]
    <2>1. \A i \in 1..MaxLen + 1 : i <= Len(t) => t[i] \in Chars
        BY <1>1
    <2>. QED  BY <1>1, <2>1 DEF Copied
<1>3. MaxLen + 1 \in DOMAIN Copied(t, m) /\ Copied(t, m)[MaxLen + 1] = NUL
    BY <1>1 DEF Copied
<1>4. CString(Copied(t, m)) = t
    BY TextsAssumption, CopiedReadsBack
<1>. QED  BY <1>2, <1>3, <1>4 DEF Range

(* A setHost that is not refused leaves what it was given.                   *)
LEMMA SetInv ==
    ASSUME CInv, NEW n \in Names, NEW p \in Ports, NEW b \in Bases \cup {<<>>},
           ~TooLong(n), ~TooLong(b), Set(n, p, b), stage = "idle", up' \in BOOLEAN,
           sets < MaxSets, sets' = sets + 1, UNCHANGED <<allVars, url>>
    PROVE  CInv'
<1>1. n \in Seq(Chars) /\ b \in Seq(Chars)
    <2>1. <<>> \in Seq(Chars)
        OBVIOUS
    <2>2. \A t \in Names \cup Bases : t \in Seq(Chars)
        BY TextsAssumption
    <2>. QED  BY <2>1, <2>2
<1>2. /\ hostname' = Copied(n, hostname) /\ baseUrl' = Copied(b, baseUrl) /\ port' = p
      /\ configured' = [name |-> n, port |-> p, base |-> b] /\ stage' = "idle"
    BY DEF Set, allVars
<1>3. /\ hostname \in [1..MaxLen + 1 -> Chars \cup Range(Garbage)]
      /\ baseUrl \in [1..MaxLen + 1 -> Chars \cup Range(Garbage)]
      /\ sets \in 0..MaxSets
    BY DEF CInv, CTypeOK
<1>4. CTypeOK'
    <2>1. sets' \in 0..MaxSets
        BY <1>3, MaxSetsAssumption
    <2>. QED  BY <1>1, <1>2, <1>3, <2>1, CopiedType DEF CTypeOK
<1>5. ConfigInv'
    BY <1>1, <1>2, <1>3, CopiedType DEF ConfigInv
<1>. QED  BY <1>4, <1>5 DEF CInv

LEMMA CNextInv == CInv /\ [CNext]_everyVar => CInv'
<1>. SUFFICES ASSUME CInv, [CNext]_everyVar PROVE CInv'
    OBVIOUS
<1>1. ASSUME NEW n \in Names, NEW p \in Ports, NEW b \in Bases, SetHost(n, p, b)
      PROVE  CInv'
    <2>1. /\ ~TooLong(n) /\ ~TooLong(b) /\ Set(n, p, b) /\ stage = "idle"
          /\ up' \in BOOLEAN /\ sets < MaxSets /\ sets' = sets + 1
          /\ UNCHANGED <<allVars, url>>
        BY <1>1 DEF SetHost, CInv, CTypeOK
    <2>. QED  BY <2>1, SetInv
<1>2. ASSUME NEW n \in Names, NEW p \in Ports, SetHostNull(n, p)
      PROVE  CInv'
    <2>1. /\ ~TooLong(n) /\ Set(n, p, <<>>) /\ stage = "idle"
          /\ up' \in BOOLEAN /\ sets < MaxSets /\ sets' = sets + 1
          /\ UNCHANGED <<allVars, url>>
        BY <1>2 DEF SetHostNull
    <2>2. n \in Seq(Chars)
        BY TextsAssumption
    <2>3. ~TooLong(<<>>)
        BY <2>1, <2>2, ArraysAssumption DEF TooLong
    <2>. QED  BY <2>1, <2>3, SetInv
<1>3. ASSUME NEW n \in Names, NEW p \in Ports, NEW b \in Bases, SetHostRefused(n, p, b)
      PROVE  CInv'
    <2>1. sets' \in 0..MaxSets
        BY <1>3, MaxSetsAssumption DEF SetHostRefused, CInv, CTypeOK
    <2>2. /\ stage' = "idle"
          /\ UNCHANGED <<hostname, baseUrl, port, up, configured>>
        BY <1>3 DEF SetHostRefused, hostVars, allVars
    <2>. QED  BY <2>1, <2>2 DEF CInv, CTypeOK, ConfigInv
<1>4. ASSUME NEW o \in Ops, NEW k \in Kinds, CCall(o, k)
      PROVE  CInv'
    <2>1. /\ UNCHANGED <<hostname, baseUrl, port, up, sets, configured>>
          /\ url' = Append(toString, Method(o)) /\ op' = o
        BY <1>4 DEF CCall, Call, hostVars
    <2>2. url' = UrlOf(CString(hostname'), port', CString(baseUrl'), Method(op'))
        BY <2>1 DEF toString, UrlOf
    <2>. QED  BY <2>1, <2>2 DEF CInv, CTypeOK, ConfigInv
<1>5. CASE CallStep
    <2>1. stage' # "post"
        BY <1>5 DEF CallStep, PostFails, PostSucceeds, DecodeOk, DecodeFails
    <2>2. UNCHANGED <<hostname, baseUrl, port, up, sets, configured>>
        BY <1>5 DEF CallStep, hostVars
    <2>. QED  BY <2>1, <2>2 DEF CInv, CTypeOK, ConfigInv
<1>6. CASE UNCHANGED everyVar
    <2>1. UNCHANGED <<hostname, baseUrl, port, url, up, sets, configured, stage, op>>
        BY <1>6 DEF everyVar, allVars, connectionVars
    <2>. QED  BY <2>1 DEF CInv, CTypeOK, ConfigInv
<1>. QED  BY <1>1, <1>2, <1>3, <1>4, <1>5, <1>6 DEF CNext

(* Every reachable state of Connection satisfies its invariant. *)
THEOREM ConnectionInvariant == CSpec => []CInv
BY CInitInv, CNextInv, PTL DEF CSpec

(* The two arrays stay arrays of the size they have, with an end of a text   *)
(* in them: whatever setHost is given, it writes nothing next to them.       *)
THEOREM ConnectionTypeCorrect == CSpec => []CTypeOK
<1>1. CInv => CTypeOK
    BY DEF CInv
<1>. QED  BY <1>1, ConnectionInvariant, PTL

(* Every request goes to the host, the port and the path of the latest       *)
(* setHost that was not refused.                                             *)
THEOREM RequestsGoWhereConfigured == CSpec => []GoesWhereConfigured
<1>1. CInv => GoesWhereConfigured
    <2>. SUFFICES ASSUME CInv, stage = "post", configured # <<>>, Proper(configured)
                  PROVE  Split(url) = [host |-> configured.name,
                                       port |-> configured.port,
                                       path |-> PathOf(configured.base, Method(op))]
        BY DEF GoesWhereConfigured, PathOf
    <2>1. /\ configured.name \in Seq(Chars) /\ configured.base \in Seq(Chars)
          /\ configured.port \in Ports
          /\ url = UrlOf(configured.name, configured.port, configured.base, Method(op))
        BY DEF CInv, ConfigInv
    <2>2. /\ configured.port \in Nat /\ configured.port < UIntSize
          /\ Len(Digits[configured.port]) <= PortChars
          /\ ~Has(configured.name, ":") /\ ~Has(configured.name, "/")
        <3>. DEFINE p == configured.port
        <3>1. p \in Int /\ p < UIntSize
            BY <2>1, PortsAssumption
        <3>2. p >= 0
            BY DEF Proper
        <3>. HIDE DEF p
        <3>3. p \in Nat
            BY <3>1, <3>2
        <3>. QED  BY <3>1, <3>3 DEF Proper, p
    <2>. QED  BY <2>1, <2>2, UrlSplits
<1>. QED  BY <1>1, ConnectionInvariant, PTL
=============================================================================
