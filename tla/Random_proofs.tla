---------------------------- MODULE Random_proofs ---------------------------
(***************************************************************************)
(* Theorems about the random sources: RandomSource, for any number of      *)
(* descriptors, of words in a number, and of operations; TrueRandom, for   *)
(* longs and bytes of any size, any bounds and any number of calls.        *)
(***************************************************************************)
EXTENDS PlatformRandom, RecursionLemmas, SequenceTheorems, TLAPS

-----------------------------------------------------------------------------
(* The inductive invariant of the random source of the OS build. *)

\* A key that was never read, other than of zeros, is in an operation that can
\* read nothing more, and that has read no word of the number it needs.
UnreadInv ==
    /\ pc \in {"key", "derive"} => ~drawn
    /\ key.from = "unread" /\ key.is # "zero" =>
           pc \in {"derive", "draw", "ended"} /\ Exhausted /\ ~drawn

RInv == TypeOK /\ UnreadInv /\ UnreadIsZero

LEMMA InitRInv == Init => RInv
<1>. SUFFICES ASSUME Init PROVE RInv
    OBVIOUS
<1>1. ops \in 0..MaxOps /\ fds \in 0..FdLimit /\ words \in 0..Words /\ left \in 0..2
    BY FdLimitAssumption, WordsAssumption, MaxOpsAssumption DEF Init
<1>2. pc = "idle" /\ key = [from |-> "given", is |-> "inRange"] /\ drawn = FALSE /\ accounts = {}
    BY DEF Init
<1>3. drawn \in BOOLEAN
    BY <1>2, Zenon
<1>4. TypeOK
    BY <1>1, <1>2, <1>3 DEF TypeOK, Keys, Origins, Numbers
<1>5. UnreadInv /\ UnreadIsZero
    BY <1>2 DEF UnreadInv, UnreadIsZero
<1>. QED  BY <1>4, <1>5 DEF RInv

(* An operation begins: no word of its number has been drawn. *)
LEMMA EnterRInv ==
    ASSUME RInv, NEW p \in {"key", "derive", "draw"}, NEW n \in {1, 2}, Enter(p, n),
           key' \in Keys, key' = key \/ key'.from = "given", UNCHANGED <<fds, accounts>>
    PROVE  RInv'
<1>1. /\ pc = "idle" /\ pc' = p /\ left' = n /\ words' = 0 /\ drawn' = FALSE
      /\ ops < MaxOps /\ ops' = ops + 1
    BY DEF Enter
<1>2. key'.from = "unread" => key'.is = "zero"
    BY <1>1 DEF RInv, UnreadInv
<1>3. drawn' \in BOOLEAN
    BY <1>1, Zenon
<1>4. TypeOK'
    BY <1>1, <1>3, WordsAssumption, MaxOpsAssumption DEF RInv, TypeOK
<1>5. UnreadInv' /\ UnreadIsZero'
    BY <1>1, <1>2 DEF RInv, UnreadInv, UnreadIsZero
<1>. QED  BY <1>4, <1>5 DEF RInv

LEMMA FillKeyRInv == RInv /\ FillKey => RInv'
<1>. SUFFICES ASSUME RInv, FillKey PROVE RInv'
    OBVIOUS
<1>1. /\ pc = "key" /\ pc' = "derive"
      /\ UNCHANGED <<ops, left, words, drawn, accounts>>
    BY DEF FillKey
<1>2. ~drawn
    BY <1>1 DEF RInv, UnreadInv
<1>3. CASE Exhausted
    <2>1. key' \in Keys /\ fds' = fds
        BY <1>3 DEF FillKey, Keys, Origins
    <2>2. TypeOK'
        BY <1>1, <2>1 DEF RInv, TypeOK
    <2>3. Exhausted'
        BY <1>3, <2>1 DEF Exhausted
    <2>. QED  BY <1>1, <1>2, <2>2, <2>3 DEF RInv, UnreadInv, UnreadIsZero
<1>4. CASE ~Exhausted
    <2>1. key' = [from |-> "random", is |-> "inRange"] /\ fds' = fds + 1
        BY <1>4 DEF FillKey
    <2>2. fds' \in 0..FdLimit
        BY <1>4, <2>1, FdLimitAssumption DEF Exhausted, RInv, TypeOK
    <2>3. TypeOK'
        BY <1>1, <2>1, <2>2 DEF RInv, TypeOK, Keys, Origins, Numbers
    <2>. QED  BY <1>1, <1>2, <2>1, <2>3 DEF RInv, UnreadInv, UnreadIsZero
<1>. QED  BY <1>3, <1>4

(* A key of zeros is an account at once, whatever was read. *)
LEMMA DeriveZeroRInv == RInv /\ DeriveZero => RInv'
<1>. SUFFICES ASSUME RInv, DeriveZero PROVE RInv'
    OBVIOUS
<1>1. /\ pc = "derive" /\ key.is = "zero" /\ pc' = "idle" /\ left' = 0
      /\ accounts' = accounts \cup {key}
      /\ UNCHANGED <<ops, fds, words, drawn, key>>
    BY DEF DeriveZero
<1>2. TypeOK'
    BY <1>1 DEF RInv, TypeOK
<1>. QED  BY <1>1, <1>2 DEF RInv, UnreadInv, UnreadIsZero

(* Any other key goes on to a number, or ends the process. *)
LEMMA DeriveOtherRInv ==
    ASSUME RInv, pc = "derive", key.is # "zero", pc' \in {"draw", "ended"},
           UNCHANGED <<ops, fds, left, words, drawn, key, accounts>>
    PROVE  RInv'
<1>1. TypeOK'
    BY DEF RInv, TypeOK
<1>2. UnreadInv'
    BY DEF RInv, UnreadInv, Exhausted
<1>. QED  BY <1>1, <1>2 DEF RInv, UnreadIsZero

LEMMA DrawWordRInv == RInv /\ DrawWord => RInv'
<1>. SUFFICES ASSUME RInv, DrawWord PROVE RInv'
    OBVIOUS
<1>1. /\ pc = "draw" /\ words < Words /\ words' = words + 1
      /\ UNCHANGED <<pc, ops, left, key, accounts>>
    BY DEF DrawWord
<1>2. words' \in 0..Words
    BY <1>1, WordsAssumption DEF RInv, TypeOK
<1>3. CASE Exhausted
    <2>1. UNCHANGED <<fds, drawn>>
        BY <1>3 DEF DrawWord
    <2>2. TypeOK'
        BY <1>1, <1>2, <2>1 DEF RInv, TypeOK
    <2>3. UnreadInv'
        BY <1>1, <2>1 DEF RInv, UnreadInv, Exhausted
    <2>. QED  BY <1>1, <2>2, <2>3 DEF RInv, UnreadIsZero
<1>4. CASE ~Exhausted
    <2>1. fds' = fds + 1 /\ drawn' = TRUE
        BY <1>4 DEF DrawWord
    <2>2. fds' \in 0..FdLimit
        BY <1>4, <2>1, FdLimitAssumption DEF Exhausted, RInv, TypeOK
    <2>3. drawn' \in BOOLEAN
        BY <2>1, Zenon
    <2>4. TypeOK'
        BY <1>1, <1>2, <2>2, <2>3 DEF RInv, TypeOK
    <2>5. key.from = "unread" => key.is = "zero"
        BY <1>4 DEF RInv, UnreadInv
    <2>. QED  BY <1>1, <2>4, <2>5 DEF RInv, UnreadInv, UnreadIsZero
<1>. QED  BY <1>3, <1>4

(* A number is thrown away, or another one is begun. *)
LEMMA NextDrawRInv ==
    ASSUME RInv, pc = "draw", left' \in 0..2, words' = 0, drawn' = FALSE,
           UNCHANGED <<pc, ops, fds, key, accounts>>
    PROVE  RInv'
<1>1. drawn' \in BOOLEAN
    BY Zenon
<1>2. TypeOK'
    BY <1>1, WordsAssumption DEF RInv, TypeOK
<1>3. UnreadInv'
    BY DEF RInv, UnreadInv, Exhausted
<1>. QED  BY <1>2, <1>3 DEF RInv, UnreadIsZero

LEMMA ReturnRInv == RInv /\ Return => RInv'
<1>. SUFFICES ASSUME RInv, Return PROVE RInv'
    OBVIOUS
<1>1. /\ pc = "draw" /\ drawn /\ pc' = "idle" /\ left' = 0
      /\ accounts' = accounts \cup {key}
      /\ UNCHANGED <<ops, fds, words, drawn, key>>
    BY DEF Return
<1>2. key.from = "unread" => key.is = "zero"
    BY <1>1 DEF RInv, UnreadInv
<1>3. TypeOK'
    BY <1>1 DEF RInv, TypeOK
<1>. QED  BY <1>1, <1>2, <1>3 DEF RInv, UnreadInv, UnreadIsZero

LEMMA NextRInv == RInv /\ [Next]_vars => RInv'
<1>. SUFFICES ASSUME RInv, [Next]_vars PROVE RInv'
    OBVIOUS
<1>0. key \in Keys
    BY DEF RInv, TypeOK
<1>1. CASE NewAccount
    BY <1>0, <1>1, EnterRInv DEF NewAccount
<1>2. CASE RestoreAccount
    <2>1. key' \in Keys /\ key'.from = "given"
        BY <1>2 DEF RestoreAccount, Keys, Origins
    <2>. QED  BY <1>2, <2>1, EnterRInv DEF RestoreAccount
<1>3. CASE Sign
    BY <1>0, <1>3, EnterRInv DEF Sign
<1>4. CASE DeriveInRange
    BY <1>4, DeriveOtherRInv DEF DeriveInRange
<1>5. CASE DeriveTooBig
    BY <1>5, DeriveOtherRInv DEF DeriveTooBig
<1>6. CASE DrawAgain
    <2>1. left \in 0..2
        BY DEF RInv, TypeOK
    <2>. QED  BY <1>6, <2>1, NextDrawRInv DEF DrawAgain
<1>7. CASE NextNumber
    <2>1. left' \in 0..2
        BY <1>7 DEF NextNumber, RInv, TypeOK
    <2>. QED  BY <1>7, <2>1, NextDrawRInv DEF NextNumber
<1>8. CASE UNCHANGED vars
    BY <1>8 DEF vars, RInv, TypeOK, UnreadInv, Exhausted, UnreadIsZero
<1>. QED  BY <1>1, <1>2, <1>3, <1>4, <1>5, <1>6, <1>7, <1>8, FillKeyRInv, DeriveZeroRInv,
             DrawWordRInv, ReturnRInv DEF Next, Step, Derive

(* Every reachable state satisfies the inductive invariant. *)
THEOREM RandomInvariant == Spec => []RInv
<1>. QED  BY InitRInv, NextRInv, PTL DEF Spec

-----------------------------------------------------------------------------
(* What follows from it. *)

(* Every variable keeps its type: no more descriptors than there are, too. *)
THEOREM RandomTypeCorrect == Spec => []TypeOK
<1>1. RInv => TypeOK
    BY DEF RInv
<1>. QED  BY <1>1, RandomInvariant, PTL

(* An account whose private key was never read comes out of memory of zeros   *)
(* only, for any number of descriptors: every other key has to be multiplied, *)
(* which draws a number that nothing more can be read for.                    *)
THEOREM UnreadKeysAreZero == Spec => []UnreadIsZero
<1>1. RInv => UnreadIsZero
    BY DEF RInv
<1>. QED  BY <1>1, RandomInvariant, PTL

(* An operation that has read no word of its number when the descriptors are *)
(* gone is never heard of again.                                             *)
THEOREM HangsForEver == Spec => HungForEver
<1>1. [Next]_vars => [Hung => Hung']_vars
    <2>. SUFFICES ASSUME Next, Hung PROVE Hung'
        OBVIOUS
    <2>1. pc = "draw" /\ Exhausted /\ ~drawn
        BY DEF Hung
    <2>2. CASE DrawWord
        BY <2>1, <2>2 DEF DrawWord, Hung, Exhausted
    <2>3. CASE DrawAgain
        BY <2>1, <2>3 DEF DrawAgain, Hung, Exhausted
    <2>. QED  BY <2>1, <2>2, <2>3
              DEF Next, Step, NewAccount, RestoreAccount, Sign, Enter, FillKey, Derive,
                  DeriveZero, DeriveInRange, DeriveTooBig, NextNumber, Return
<1>. QED  BY <1>1, PTL DEF Spec, HungForEver

-----------------------------------------------------------------------------
(* Powers of two. *)

LEMMA Pow2Def ==
    /\ Pow2 \in [Nat -> Nat \ {0}]
    /\ Pow2[0] = 1
    /\ \A n \in Nat : Pow2[n + 1] = 2 * Pow2[n]
<1>. DEFINE A == Nat \ {0}
            base == [n \in Nat |-> 1]
            pre == [n \in Nat |-> IF n = 0 THEN 0 ELSE n - 1]
            step == [p \in Nat \X A |-> 2 * p[2]]
            Is(f) == f = [n \in Nat |-> IF n = 0 THEN 1 ELSE 2 * f[n - 1]]
<1>1. Recursive(A, {0}, base, pre, step)
    <2>1. base \in [Nat -> A] /\ {0} \in SUBSET Nat
        OBVIOUS
    <2>2. pre \in [Nat -> Nat] /\ \A n \in Nat \ {0} : pre[n] < n
        OBVIOUS
    <2>3. step \in [Nat \X A -> A]
        OBVIOUS
    <2>. HIDE DEF A, base, pre, step
    <2>. QED  BY <2>1, <2>2, <2>3 DEF Recursive
<1>2. PICK f \in [Nat -> A] : \A n \in Nat :
          f[n] = IF n \in {0} THEN base[n] ELSE step[<<n, f[pre[n]]>>]
    <2>. HIDE DEF A, base, pre, step
    <2>. QED  BY <1>1, Recursion
<1>3. ASSUME NEW n \in Nat PROVE f[n] = IF n = 0 THEN 1 ELSE 2 * f[n - 1]
    <2>1. CASE n = 0
        BY <1>2, <2>1
    <2>2. CASE n # 0
        <3>1. n - 1 \in Nat /\ pre[n] = n - 1 /\ f[n - 1] \in A
            BY <2>2
        <3>2. f[n] = step[<<n, f[n - 1]>>]
            <4>. HIDE DEF base, pre, step
            <4>. QED  BY <1>2, <2>2, <3>1
        <3>. QED  BY <2>2, <3>1, <3>2
    <2>. QED  BY <2>1, <2>2
<1>4. Is(f)
    <2>. HIDE DEF A
    <2>. QED  BY <1>3
<1>5. Is(Pow2)
    <2>1. Pow2 = CHOOSE g : Is(g)
        BY Zenon DEF Pow2
    <2>. HIDE DEF Is
    <2>. QED  BY <1>4, <2>1
<1>6. DOMAIN Pow2 = Nat /\ \A n \in Nat : Pow2[n] = IF n = 0 THEN 1 ELSE 2 * Pow2[n - 1]
    BY <1>5, Zenon
<1>7. Pow2[0] = 1
    BY <1>6
<1>8. \A n \in Nat : Pow2[n + 1] = 2 * Pow2[n]
    <2>1. \A n \in Nat : n + 1 \in Nat /\ n + 1 # 0 /\ (n + 1) - 1 = n
        OBVIOUS
    <2>. QED  BY <1>6, <2>1
<1>9. Pow2 \in [Nat -> A]
    <2>. DEFINE S == {n \in Nat : Pow2[n] \in A}
    <2>1. 0 \in S
        BY <1>7
    <2>2. ASSUME NEW n \in Nat, n \in S PROVE n + 1 \in S
        BY <1>8, <2>2
    <2>3. Nat \subseteq S
        <3>. HIDE DEF S
        <3>. QED  BY <2>1, <2>2, Induction
    <2>4. Pow2 = [n \in Nat |-> Pow2[n]]
        BY <1>5, <1>6
    <2>. QED  BY <2>3, <2>4
<1>. QED  BY <1>7, <1>8, <1>9

LEMMA Pow2Step ==
    ASSUME NEW n \in Nat, n # 0
    PROVE  /\ n - 1 \in Nat /\ Pow2[n - 1] \in Nat \ {0} /\ Pow2[n] \in Nat \ {0}
           /\ Pow2[n] = 2 * Pow2[n - 1] /\ Pow2[n] \div 2 = Pow2[n - 1]
<1>1. n - 1 \in Nat /\ (n - 1) + 1 = n
    OBVIOUS
<1>2. Pow2[n - 1] \in Nat \ {0} /\ Pow2[n] = 2 * Pow2[n - 1]
    BY <1>1, Pow2Def
<1>. QED  BY <1>1, <1>2

LEMMA Pow2Grows ==
    ASSUME NEW m \in Nat, NEW n \in Nat, m <= n
    PROVE  Pow2[m] <= Pow2[n]
<1>. DEFINE S == {i \in Nat : Pow2[m] <= Pow2[m + i]}
<1>1. 0 \in S
    BY Pow2Def
<1>2. ASSUME NEW i \in Nat, i \in S PROVE i + 1 \in S
    <2>1. /\ Pow2[m + i] \in Nat /\ Pow2[m] \in Nat /\ (m + i) + 1 = m + (i + 1)
          /\ Pow2[(m + i) + 1] = 2 * Pow2[m + i]
        BY Pow2Def
    <2>. QED  BY <1>2, <2>1
<1>3. Nat \subseteq S
    <2>. HIDE DEF S
    <2>. QED  BY <1>1, <1>2, Induction
<1>4. n - m \in S /\ m + (n - m) = n
    BY <1>3
<1>. QED  BY <1>4

(* A number below a power of two is 0 or between two neighbours below it.    *)
LEMMA Between ==
    ASSUME NEW k \in Nat, NEW x \in Nat, x < Pow2[k], x # 0
    PROVE  \E j \in 1..k : Pow2[j - 1] <= x /\ x < Pow2[j]
<1>. DEFINE S == {i \in Nat : x < Pow2[i] => \E j \in 1..i : Pow2[j - 1] <= x /\ x < Pow2[j]}
<1>1. 0 \in S
    BY Pow2Def
<1>2. ASSUME NEW i \in Nat, i \in S PROVE i + 1 \in S
    <2>. SUFFICES ASSUME x < Pow2[i + 1]
                  PROVE  \E j \in 1..(i + 1) : Pow2[j - 1] <= x /\ x < Pow2[j]
        OBVIOUS
    <2>1. Pow2[i] \in Nat
        BY Pow2Def
    <2>2. CASE x < Pow2[i]
        BY <1>2, <2>2
    <2>3. CASE Pow2[i] <= x
        <3>1. i + 1 \in 1..(i + 1) /\ (i + 1) - 1 = i
            OBVIOUS
        <3>. QED  BY <2>3, <3>1
    <2>. QED  BY <2>1, <2>2, <2>3
<1>3. Nat \subseteq S
    <2>. HIDE DEF S
    <2>. QED  BY <1>1, <1>2, Induction
<1>. QED  BY <1>3
-----------------------------------------------------------------------------
(* Longs, and the loop that draws a number below a bound. *)

LEMMA LongFacts ==
    /\ LongBits \in Nat /\ LongBits - 1 \in Nat /\ LongBits - 2 \in Nat
    /\ ByteBits \in Nat \ {0, 1} /\ ByteBits <= LongBits - 2
    /\ Pow2[0] = 1 /\ Pow2[1] = 2 /\ Pow2[ByteBits] \in Nat
    /\ 4 <= Pow2[ByteBits] /\ Pow2[ByteBits] <= Pow2[LongBits - 2]
    /\ Pow2[LongBits - 2] \in Nat
    /\ Pow2[LongBits - 1] = 2 * Pow2[LongBits - 2]
    /\ Pow2[LongBits] = 4 * Pow2[LongBits - 2]
    /\ LongMax = 2 * Pow2[LongBits - 2] - 1
    /\ LongMin = -2 * Pow2[LongBits - 2]
<1>. DEFINE n == LongBits
<1>1. n \in Nat /\ n - 1 \in Nat /\ n - 2 \in Nat /\ ByteBits \in Nat \ {0, 1} /\ ByteBits <= n - 2
    BY BitsAssumption
<1>2. Pow2[0] = 1 /\ Pow2[1] = 2 /\ Pow2[2] = 4
    <2>1. 0 + 1 = 1 /\ 1 + 1 = 2
        OBVIOUS
    <2>. QED  BY <2>1, Pow2Def
<1>3. /\ Pow2[n - 2] \in Nat /\ Pow2[n - 1] = 2 * Pow2[n - 2] /\ Pow2[n] = 2 * Pow2[n - 1]
      /\ Pow2[ByteBits] \in Nat
    <2>1. (n - 2) + 1 = n - 1 /\ (n - 1) + 1 = n
        BY <1>1
    <2>. QED  BY <1>1, <2>1, Pow2Def
<1>4. 4 <= Pow2[ByteBits] /\ Pow2[ByteBits] <= Pow2[n - 2]
    <2>1. 2 \in Nat /\ 2 <= ByteBits
        BY <1>1
    <2>. QED  BY <1>1, <1>2, <2>1, Pow2Grows
<1>5. LongMax = Pow2[n - 1] - 1 /\ LongMin = -LongMax - 1
    BY DEF LongMax, LongMin
<1>. QED  BY <1>1, <1>2, <1>3, <1>4, <1>5

LEMMA PositiveLongs ==
    ASSUME NEW h \in 1..LongMax
    PROVE  h \in Int /\ h \in Longs /\ h # 0 /\ h \notin LongMin + 1..-1
<1>. DEFINE p == Pow2[LongBits - 2]
<1>1. p \in Nat /\ LongMax = 2 * p - 1 /\ LongMin = -2 * p
    BY LongFacts
<1>. HIDE DEF p
<1>. QED  BY <1>1 DEF Longs

\* The bound is a power of two that is a long above 0.
PositivePower(h) == \E k \in 0..LongBits - 2 : h = Pow2[k]

LEMMA Powers ==
    ASSUME NEW h
    PROVE  /\ IsPower(h) <=> PositivePower(h) \/ h = LongMin
           /\ PositivePower(h) => h \in 1..Pow2[LongBits - 2]
<1>1. IsPower(h) <=> PositivePower(h) \/ h = LongMin
    BY DEF IsPower, PositivePower
<1>2. ASSUME PositivePower(h) PROVE h \in 1..Pow2[LongBits - 2]
    <2>1. PICK k \in 0..LongBits - 2 : h = Pow2[k]
        BY <1>2 DEF PositivePower
    <2>2. k \in Nat /\ k <= LongBits - 2 /\ LongBits - 2 \in Nat
        BY LongFacts
    <2>3. Pow2[k] \in Nat \ {0} /\ Pow2[k] <= Pow2[LongBits - 2]
        BY <2>2, Pow2Def, Pow2Grows
    <2>. QED  BY <2>1, <2>3, LongFacts
<1>. QED  BY <1>1, <1>2

(* All bits below the highest that is set. *)
LEMMA Smeared ==
    ASSUME NEW n \in 1..LongMax
    PROVE  \E k \in 1..LongBits - 1 :
               Smear(n) = Pow2[k] - 1 /\ Pow2[k - 1] <= n /\ n < Pow2[k]
<1>. DEFINE M == {Pow2[k] - 1 : k \in 0..LongBits - 1}
            Fits(m) == n <= m /\ (m = 0 \/ n > m \div 2)
            s == CHOOSE m \in M : Fits(m)
<1>1. n \in Nat /\ n # 0 /\ ~(n < 0) /\ n < Pow2[LongBits - 1] /\ LongBits - 1 \in Nat
    BY LongFacts
<1>2. Smear(n) = s
    BY <1>1, Zenon DEF Smear
<1>3. \A k \in 1..LongBits - 1 :
          /\ k - 1 \in Nat /\ Pow2[k - 1] \in Nat /\ Pow2[k] = 2 * Pow2[k - 1]
          /\ (Pow2[k] - 1) \div 2 = Pow2[k - 1] - 1
    <2>1. ASSUME NEW k \in 1..LongBits - 1
          PROVE  k - 1 \in Nat /\ Pow2[k - 1] \in Nat /\ Pow2[k] = 2 * Pow2[k - 1]
        <3>1. k \in Nat /\ k # 0
            OBVIOUS
        <3>. QED  BY <3>1, Pow2Step
    <2>2. \A x \in Nat : (2 * x - 1) \div 2 = x - 1
        OBVIOUS
    <2>. QED  BY <2>1, <2>2
<1>4. PICK j \in 1..LongBits - 1 : Pow2[j - 1] <= n /\ n < Pow2[j]
    BY <1>1, Between
<1>5. Pow2[j] - 1 \in M /\ Fits(Pow2[j] - 1)
    <2>1. Pow2[j] - 1 \in M
        OBVIOUS
    <2>2. n <= Pow2[j] - 1 /\ n > (Pow2[j] - 1) \div 2
        BY <1>1, <1>3, <1>4
    <2>. QED  BY <2>1, <2>2
<1>6. s \in M /\ Fits(s)
    <2>. HIDE DEF M, Fits
    <2>. QED  BY <1>5
<1>. HIDE DEF s
<1>7. PICK k \in 0..LongBits - 1 : s = Pow2[k] - 1
    BY <1>6
<1>8. k # 0
    BY <1>1, <1>6, <1>7, LongFacts
<1>9. k \in 1..LongBits - 1
    BY <1>8
<1>10. Pow2[k - 1] <= n /\ n < Pow2[k]
    BY <1>1, <1>3, <1>6, <1>7, <1>9
<1>. QED  BY <1>2, <1>7, <1>9, <1>10

(* The top bit of a bound that is no power of two: the highest that a number *)
(* below the bound has, but for the bounds at which it leaves the range.     *)
LEMMA TopBits ==
    ASSUME NEW h \in Longs, h # 0, ~IsPower(h)
    PROVE  /\ h < 0 => TopBit(h) = 0 /\ ~LeavesRange(h)
           /\ h > 0 /\ ~LeavesRange(h) => \E k \in 0..LongBits - 2 : TopBit(h) = Pow2[k]
           /\ LeavesRange(h) => h > 0 /\ TopBit(h) \in Int /\ TopBit(h) < 0
<1>. DEFINE p == Pow2[LongBits - 2]
<1>1. /\ p \in Nat /\ p >= 4 /\ LongMax = 2 * p - 1 /\ LongMin = -2 * p
      /\ Pow2[LongBits - 1] = 2 * p /\ Pow2[LongBits] = 4 * p
      /\ LongBits \in Nat /\ LongBits - 1 \in Nat /\ LongBits - 2 \in Nat
    BY LongFacts
<1>2. h \in Int /\ LongMin <= h /\ h <= LongMax /\ h # LongMin
    BY <1>1, Powers DEF Longs
<1>. HIDE DEF p
<1>3. Wrap(h - 1) = h - 1
    BY <1>1, <1>2 DEF Wrap
<1>4. CASE h < 0
    <2>1. Smear(h - 1) = -1
        BY <1>2, <1>4 DEF Smear
    <2>2. Wrap(-1 + 1) = 0
        BY <1>1 DEF Wrap
    <2>3. TopBit(h) = 0
        BY <1>3, <2>1, <2>2 DEF TopBit
    <2>. QED  BY <1>1, <1>2, <1>4, <2>3 DEF LeavesRange, p
<1>5. CASE h > 0
    <2>1. h # 1
        <3>1. 0 \in 0..LongBits - 2 /\ Pow2[0] = 1
            BY <1>1, LongFacts
        <3>. QED  BY <3>1, Powers DEF PositivePower
    <2>2. h - 1 \in 1..LongMax
        BY <1>1, <1>2, <1>5, <2>1
    <2>3. PICK k \in 1..LongBits - 1 :
              Smear(h - 1) = Pow2[k] - 1 /\ Pow2[k - 1] <= h - 1 /\ h - 1 < Pow2[k]
        BY <2>2, Smeared
    <2>4. /\ k \in Nat /\ k - 1 \in 0..LongBits - 2 /\ Pow2[k] \in Nat
          /\ Pow2[k - 1] \in Nat /\ Pow2[k] \div 2 = Pow2[k - 1]
        <3>1. k \in Nat /\ k # 0 /\ k - 1 \in 0..LongBits - 2
            BY <1>1
        <3>. QED  BY <3>1, Pow2Step
    <2>5. TopBit(h) = Wrap(Pow2[k]) \div 2
        <3>1. (Pow2[k] - 1) + 1 = Pow2[k]
            BY <2>4
        <3>. QED  BY <1>3, <2>3, <3>1 DEF TopBit
    <2>6. CASE k = LongBits - 1
        <3>1. Pow2[k] = 2 * p /\ Pow2[k - 1] = p
            <4>1. k - 1 = LongBits - 2
                BY <1>1, <2>6
            <4>. QED  BY <1>1, <2>6, <4>1 DEF p
        <3>2. Wrap(Pow2[k]) = -2 * p
            BY <1>1, <3>1 DEF Wrap
        <3>3. TopBit(h) = -p
            BY <1>1, <2>5, <3>2
        <3>4. h > p
            BY <1>1, <1>2, <2>3, <3>1
        <3>5. LeavesRange(h)
            BY <3>4 DEF LeavesRange, p
        <3>. QED  BY <1>1, <1>2, <1>5, <3>3, <3>5
    <2>7. CASE k # LongBits - 1
        <3>1. k \in 0..LongBits - 2
            BY <1>1, <2>4, <2>7
        <3>2. Pow2[k] <= p
            BY <1>1, <2>4, <3>1, Pow2Grows DEF p
        <3>3. Wrap(Pow2[k]) = Pow2[k]
            BY <1>1, <2>4, <3>2 DEF Wrap
        <3>4. TopBit(h) = Pow2[k - 1]
            BY <2>4, <2>5, <3>3
        <3>5. ~LeavesRange(h)
            BY <1>1, <1>2, <2>3, <2>4, <3>2 DEF LeavesRange, p
        <3>. QED  BY <1>2, <1>5, <2>4, <3>4, <3>5
    <2>. QED  BY <2>6, <2>7
<1>. QED  BY <1>2, <1>4, <1>5
\* The positions a bit may be put at, and the weight of the bits before it.
Positions == {Pow2[k] : k \in 0..LongBits - 2}
Weight(position) == IF position = 0 THEN 1 ELSE 2 * position

(* Half a position is the next one, with the weight of the bits before it.   *)
LEMMA HalfPosition ==
    ASSUME NEW p \in Positions
    PROVE  /\ p \in Nat \ {0} /\ p \div 2 \in Positions \cup {0}
           /\ Weight(p \div 2) = p /\ Weight(p) = 2 * p
           /\ p \div 2 < p /\ (p # 1 => p \div 2 # 0)
<1>1. PICK k \in 0..LongBits - 2 : p = Pow2[k]
    BY DEF Positions
<1>2. CASE k = 0
    <2>1. p = 1
        BY <1>1, <1>2, LongFacts
    <2>. QED  BY <2>1 DEF Weight
<1>3. CASE k # 0
    <2>1. k \in Nat /\ k - 1 \in 0..LongBits - 2
        BY <1>3, LongFacts
    <2>2. /\ Pow2[k - 1] \in Nat \ {0} /\ p \in Nat \ {0} /\ p = 2 * Pow2[k - 1]
          /\ p \div 2 = Pow2[k - 1]
        BY <1>1, <1>3, <2>1, Pow2Step
    <2>3. p \div 2 \in Positions
        BY <2>1, <2>2 DEF Positions
    <2>. QED  BY <2>2, <2>3 DEF Weight
<1>. QED  BY <1>2, <1>3

Loops == [kind : {"word", "power", "retry"}, howBig : Int, value : Int, position : Int]

(* How a loop below h begins: with the top bit of h and nothing drawn; with no *)
(* bit to draw when h is below 0; or with a position it will never be done at. *)
LEMMA BelowBegins ==
    ASSUME NEW h \in Longs, h # 0
    PROVE  /\ BelowLoop(h) \in Loops /\ BelowLoop(h).howBig = h /\ BelowLoop(h).value = 0
           /\ \/ /\ h \in 1..LongMax /\ ~LeavesRange(h)
                 /\ BelowLoop(h).kind = IF IsPower(h) THEN "power" ELSE "retry"
                 /\ BelowLoop(h).position \in Positions \cup {0}
                 /\ BelowLoop(h).position = 0 => h = 1
                 /\ IsPower(h) => Weight(BelowLoop(h).position) <= h
              \/ /\ h \in LongMin + 1..-1 /\ ~LeavesRange(h)
                 /\ BelowLoop(h).kind = "retry" /\ BelowLoop(h).position = 0
              \/ /\ LeavesRange(h)
                 /\ BelowLoop(h).kind = IF h = LongMin THEN "power" ELSE "retry"
                 /\ BelowLoop(h).position < 0
<1>. DEFINE p == Pow2[LongBits - 2]
<1>1. p \in Nat /\ p >= 4 /\ LongMax = 2 * p - 1 /\ LongMin = -2 * p /\ h \in Int
      /\ LongMin <= h /\ h <= LongMax
    BY LongFacts DEF Longs
<1>. HIDE DEF p
<1>2. CASE h = LongMin
    <2>1. IsPower(h) /\ LeavesRange(h)
        BY <1>2 DEF IsPower, LeavesRange
    <2>2. BelowLoop(h) = [kind |-> "power", howBig |-> h, value |-> 0, position |-> h \div 2]
        BY <2>1 DEF BelowLoop
    <2>3. h \div 2 \in Int /\ h \div 2 < 0
        BY <1>1, <1>2
    <2>. QED  BY <1>1, <1>2, <2>1, <2>2, <2>3 DEF Loops
<1>3. CASE PositivePower(h)
    <2>1. IsPower(h) /\ h \in 1..p /\ h # LongMin
        BY <1>1, <1>3, Powers DEF p
    <2>2. BelowLoop(h) = [kind |-> "power", howBig |-> h, value |-> 0, position |-> h \div 2]
        BY <2>1 DEF BelowLoop
    <2>3. h \in Positions
        BY <1>3 DEF PositivePower, Positions
    <2>4. /\ h \div 2 \in Positions \cup {0} /\ h \div 2 \in Int /\ Weight(h \div 2) = h
          /\ h # 1 => h \div 2 # 0
        BY <2>1, <2>3, HalfPosition
    <2>5. ~LeavesRange(h)
        BY <2>1 DEF LeavesRange
    <2>. QED  BY <1>1, <2>1, <2>2, <2>4, <2>5 DEF Loops
<1>4. CASE ~IsPower(h)
    <2>1. BelowLoop(h) = [kind |-> "retry", howBig |-> h, value |-> 0, position |-> TopBit(h)]
        BY <1>4 DEF BelowLoop
    <2>2. CASE h < 0
        <3>1. TopBit(h) = 0 /\ ~LeavesRange(h) /\ h # LongMin
            BY <1>4, <2>2, TopBits, Powers
        <3>. QED  BY <1>1, <2>1, <2>2, <3>1 DEF Loops
    <2>3. CASE h > 0 /\ ~LeavesRange(h)
        <3>1. PICK k \in 0..LongBits - 2 : TopBit(h) = Pow2[k]
            BY <1>4, <2>3, TopBits
        <3>2. TopBit(h) \in Positions
            BY <3>1 DEF Positions
        <3>3. TopBit(h) \in Nat \ {0}
            BY <3>2, HalfPosition
        <3>. QED  BY <1>1, <1>4, <2>1, <2>3, <3>2, <3>3 DEF Loops
    <2>4. CASE LeavesRange(h)
        <3>1. h > 0 /\ TopBit(h) \in Int /\ TopBit(h) < 0
            BY <1>4, <2>4, TopBits
        <3>. QED  BY <1>1, <2>1, <2>4, <3>1 DEF Loops
    <2>. QED  BY <1>1, <2>2, <2>3, <2>4
<1>. QED  BY <1>2, <1>3, <1>4, Powers

-----------------------------------------------------------------------------
(* The number of a sequence of bits. *)

(* The recursive definition in NumberOf has a solution along the bits. *)
LEMMA NumberOfDef ==
    ASSUME NEW s \in Seq({0, 1})
    PROVE  \E v \in [0..Len(s) -> Nat] :
               /\ v[0] = 0
               /\ \A i \in 1..Len(s) : v[i] = 2 * v[i - 1] + s[i]
               /\ NumberOf(s) = v[Len(s)]
<1>. DEFINE m == Len(s)
            step == [p \in (1..m) \X Nat |-> 2 * p[2] + s[p[1]]]
            Is(f) == f = [i \in 0..Len(s) |-> IF i = 0 THEN 0 ELSE 2 * f[i - 1] + s[i]]
<1>1. m \in Nat /\ \A i \in 1..m : s[i] \in {0, 1}
    OBVIOUS
<1>2. step \in [(1..m) \X Nat -> Nat]
    <2>. HIDE DEF m
    <2>. QED  BY <1>1
<1>3. PICK f \in [0..m -> Nat] : f[0] = 0 /\ \A i \in 1..m : f[i] = step[<<i, f[i - 1]>>]
    <2>1. Along(Nat, m, 0, step)
        <3>. HIDE DEF m, step
        <3>. QED  BY <1>1, <1>2 DEF Along
    <2>. HIDE DEF m, step
    <2>. QED  BY <2>1, ListRecursion
<1>4. ASSUME NEW i \in 1..m PROVE f[i] = 2 * f[i - 1] + s[i]
    <2>1. i - 1 \in 0..m /\ f[i - 1] \in Nat
        BY <1>1
    <2>2. f[i] = step[<<i, f[i - 1]>>]
        BY <1>3
    <2>. QED  BY <2>1, <2>2
<1>5. Is(f)
    <2>. HIDE DEF m
    <2>1. \A i \in 0..m : f[i] = IF i = 0 THEN 0 ELSE 2 * f[i - 1] + s[i]
        BY <1>1, <1>3, <1>4
    <2>. QED  BY <2>1 DEF m
<1>. DEFINE v == CHOOSE g : Is(g)
<1>6. Is(v)
    <2>. HIDE DEF Is
    <2>. QED  BY <1>5
<1>7. NumberOf(s) = v[Len(s)]
    BY Zenon DEF NumberOf
<1>8. DOMAIN v = 0..m /\ v[0] = 0 /\ \A i \in 1..m : v[i] = 2 * v[i - 1] + s[i]
    <2>. HIDE DEF v
    <2>. QED  BY <1>1, <1>6
<1>9. v \in [0..m -> Nat]
    <2>. DEFINE S == {i \in 0..m : v[i] \in Nat}
    <2>. HIDE DEF v, m
    <2>1. 0 \in S
        BY <1>1, <1>8
    <2>2. ASSUME NEW i \in 1..m, i - 1 \in S PROVE i \in S
        <3>1. v[i - 1] \in Nat /\ s[i] \in {0, 1}
            BY <1>1, <2>2
        <3>2. v[i] \in Nat
            <4>1. v[i] = 2 * v[i - 1] + s[i]
                BY <1>8
            <4>. QED  BY <3>1, <4>1
        <3>. QED  BY <1>1, <3>2
    <2>3. 0..m \subseteq S
        <3>. HIDE DEF S
        <3>. QED  BY <1>1, <2>1, <2>2, InductionUpTo
    <2>4. v = [i \in 0..m |-> v[i]]
        BY <1>6, <1>8 DEF m
    <2>. QED  BY <2>3, <2>4
<1>. HIDE DEF v
<1>. QED  BY <1>7, <1>8, <1>9

(* A bit more doubles the number. *)
LEMMA NumberOfMore ==
    ASSUME NEW s \in Seq({0, 1}), NEW b \in {0, 1}
    PROVE  /\ NumberOf(s) \in Nat
           /\ NumberOf(Append(s, b)) = 2 * NumberOf(s) + b
<1>. DEFINE m == Len(s)
            t == Append(s, b)
<1>1. /\ m \in Nat /\ t \in Seq({0, 1}) /\ Len(t) = m + 1 /\ t[m + 1] = b
      /\ \A i \in 1..m : t[i] = s[i]
    OBVIOUS
<1>2. PICK v \in [0..m -> Nat] : /\ v[0] = 0
                                 /\ \A i \in 1..m : v[i] = 2 * v[i - 1] + s[i]
                                 /\ NumberOf(s) = v[m]
    BY NumberOfDef
<1>. HIDE DEF m, t
<1>3. PICK u \in [0..m + 1 -> Nat] : /\ u[0] = 0
                                     /\ \A i \in 1..m + 1 : u[i] = 2 * u[i - 1] + t[i]
                                     /\ NumberOf(t) = u[m + 1]
    BY <1>1, NumberOfDef
<1>. DEFINE S == {i \in 0..m : u[i] = v[i]}
<1>4. ASSUME NEW i \in 1..m, i - 1 \in S PROVE i \in S
    <2>1. u[i - 1] = v[i - 1] /\ t[i] = s[i]
        BY <1>1, <1>4
    <2>0. i \in 1..m + 1 /\ i \in 0..m
        BY <1>1
    <2>2. u[i] = 2 * u[i - 1] + t[i] /\ v[i] = 2 * v[i - 1] + s[i]
        BY <1>2, <1>3, <2>0
    <2>. QED  BY <2>0, <2>1, <2>2
<1>5. 0..m \subseteq S
    <2>1. 0 \in S
        BY <1>1, <1>2, <1>3
    <2>. HIDE DEF S
    <2>. QED  BY <1>1, <1>4, <2>1, InductionUpTo
<1>6. m \in 0..m /\ m + 1 \in 1..m + 1 /\ (m + 1) - 1 = m
    BY <1>1
<1>7. u[m + 1] = 2 * u[m] + b /\ u[m] = v[m]
    BY <1>1, <1>3, <1>5, <1>6
<1>. QED  BY <1>2, <1>3, <1>6, <1>7 DEF t

LEMMA NumberOfNone == NumberOf(<<>>) = 0
<1>1. <<>> \in Seq({0, 1}) /\ Len(<<>>) = 0
    BY EmptySeq
<1>2. PICK v \in [0..Len(<<>>) -> Nat] : v[0] = 0 /\ NumberOf(<<>>) = v[Len(<<>>)]
    BY <1>1, NumberOfDef
<1>. QED  BY <1>1, <1>2
-----------------------------------------------------------------------------
(* The inductive invariant of the random source of the ESP8266. *)

\* The bits of a word: of the n asked for those at hand are its number.
WordInv ==
    LET n == Len(used) + loop.position IN
    /\ loop.kind = "word"
    /\ loop.howBig = 0
    /\ loop.position \in 0..LongBits - 1
    /\ loop.value = NumberOf(used)
    /\ loop.value < Pow2[Len(used)]
    /\ IF n = 0 THEN call.lo >= call.hi /\ call.size = 0 ELSE call.lo = 0 /\ call.hi = Pow2[n]
    /\ call.size > 0 => n = ByteBits

\* A loop below a bound of this size holds the bits at hand, below that bound.
BelowInv ==
    /\ loop.howBig \in 1..LongMax
    /\ ~LeavesRange(loop.howBig)
    /\ loop.kind = IF IsPower(loop.howBig) THEN "power" ELSE "retry"
    /\ loop.position \in Positions \cup {0}
    /\ loop.value = NumberOf(used) * Weight(loop.position)
    /\ loop.value < loop.howBig
    /\ loop.kind = "power" => loop.value + Weight(loop.position) <= loop.howBig
    /\ call.hi = call.lo + loop.howBig
    /\ call.size > 0 => loop.howBig > 1

\* A bound below 0, asked for or come of a difference that wrapped around.
NegativeInv ==
    /\ loop.kind = "retry"
    /\ loop.howBig \in LongMin + 1..-1
    /\ loop.value = 0
    /\ loop.position = 0
    /\ used = <<>>
    /\ call.size = 0

\* The loops that never end.
EndlessInv ==
    /\ LeavesRange(loop.howBig)
    /\ loop.howBig \in Longs
    /\ loop.kind = IF loop.howBig = LongMin THEN "power" ELSE "retry"
    /\ loop.value \in Int /\ loop.value <= 0
    /\ loop.position \in Int /\ loop.position < 0
    /\ phase \in {"draw", "use"}

LoopInv == WordInv \/ BelowInv \/ NegativeInv \/ EndlessInv

BitsInv ==
    /\ loop \in Loops
    /\ white \in {<<>>, <<0>>, <<1>>}
    /\ bit \in {0, 1}
    /\ used \in Seq({0, 1})

PhaseInv ==
    /\ phase \in {"idle", "draw", "use", "done"}
    /\ phase \in {"draw", "use"} => loop.position # 0 \/ NegativeInv
    /\ phase = "done" => loop.position = 0

BufInv ==
    /\ call.lo \in Int /\ call.hi \in Int /\ call.size \in Nat
    /\ call.size > 0 => call.lo < call.hi
    /\ buf \in Seq(Int)
    /\ \A i \in 1..Len(buf) : call.lo <= buf[i] /\ buf[i] < call.hi
    /\ phase # "idle" => Len(buf) < call.size \/ (call.size = 0 /\ buf = <<>>)

TrueInv == LoopInv /\ BitsInv /\ PhaseInv /\ BufInv /\ InRangeAndFair

LEMMA NoBits == <<>> \in Seq({0, 1}) /\ Len(<<>>) = 0 /\ <<>> \in Seq(Int)
BY EmptySeq

LEMMA TrueInitInv == TrueInit => TrueInv
<1>. SUFFICES ASSUME TrueInit PROVE TrueInv
    OBVIOUS
<1>. USE NumberOfNone, NoBits DEF TrueInit, WordLoop
<1>1. WordInv
    BY LongFacts DEF WordInv
<1>2. BitsInv
    BY DEF BitsInv, Loops
<1>3. PhaseInv
    BY DEF PhaseInv
<1>4. BufInv
    BY DEF BufInv
<1>5. InRangeAndFair
    BY DEF InRangeAndFair
<1>. QED  BY <1>1, <1>2, <1>3, <1>4, <1>5 DEF TrueInv, LoopInv

(* A loop of n bits begins. *)
LEMMA WordStarts ==
    ASSUME BitsInv, NEW n \in 0..LongBits - 1, NEW lo \in Int, NEW hi \in Int, NEW size \in Nat,
           Start(WordLoop(n), lo, hi, size),
           IF n = 0 THEN lo >= hi /\ size = 0 ELSE lo = 0 /\ hi = Pow2[n] /\ hi > 0,
           size > 0 => n = ByteBits
    PROVE  TrueInv'
<1>. USE NoBits DEF Start
<1>1. /\ loop' = [kind |-> "word", howBig |-> 0, value |-> 0, position |-> n] /\ n \in Nat
      /\ call' = [lo |-> lo, hi |-> hi, size |-> size] /\ used' = <<>> /\ buf' = <<>>
      /\ phase' = IF n = 0 THEN "done" ELSE "draw"
    BY DEF WordLoop
<1>0. Pow2[0] = 1 /\ LongBits - 1 \in Nat /\ (size > 0 => n # 0)
    BY LongFacts
<1>2. WordInv'
    <2>1. Len(used') + loop'.position = n /\ Len(used') = 0 /\ NumberOf(used') = 0
        BY <1>1, NumberOfNone
    <2>. QED  BY <1>0, <1>1, <2>1 DEF WordInv
<1>3. BitsInv'
    BY <1>1 DEF BitsInv, Loops
<1>4. PhaseInv'
    BY <1>1 DEF PhaseInv
<1>5. BufInv'
    BY <1>0, <1>1 DEF BufInv
<1>6. InRangeAndFair'
    BY <1>1 DEF InRangeAndFair
<1>. QED  BY <1>2, <1>3, <1>4, <1>5, <1>6 DEF TrueInv, LoopInv

(* A loop below h, the difference of the bounds or come of one that wrapped  *)
(* around, begins.                                                           *)
LEMMA BelowStarts ==
    ASSUME BitsInv, NEW h \in Longs, h # 0,
           NEW lo \in Int, NEW hi \in Int, NEW size \in Nat,
           Start(BelowLoop(h), lo, hi, size),
           h > 0 => hi = lo + h, size > 0 => h \in 2..Pow2[LongBits - 2]
    PROVE  TrueInv'
<1>. DEFINE l == BelowLoop(h)
<1>0. h \in Int /\ LongMax \in Int /\ LongMin \in Int /\ LongMin < 0
    BY LongFacts DEF Longs
<1>1. /\ l \in Loops /\ l.howBig = h /\ l.value = 0
      /\ \/ /\ h \in 1..LongMax /\ ~LeavesRange(h)
            /\ l.kind = IF IsPower(h) THEN "power" ELSE "retry"
            /\ l.position \in Positions \cup {0}
            /\ l.position = 0 => h = 1
            /\ IsPower(h) => Weight(l.position) <= h
         \/ /\ h \in LongMin + 1..-1 /\ ~LeavesRange(h)
            /\ l.kind = "retry" /\ l.position = 0
         \/ /\ LeavesRange(h)
            /\ l.kind = IF h = LongMin THEN "power" ELSE "retry"
            /\ l.position < 0
    BY BelowBegins
<1>2. /\ loop' = l /\ used' = <<>> /\ buf' = <<>>
      /\ call' = [lo |-> lo, hi |-> hi, size |-> size]
      /\ phase' = IF l.position = 0 /\ l.kind # "retry" THEN "done" ELSE "draw"
      /\ UNCHANGED <<white, bit>>
    BY DEF Start
<1>3. \A p \in Positions \cup {0} : Weight(p) \in Nat \ {0} /\ (p # 0 => p > 0)
    BY HalfPosition DEF Weight
<1>4. l.position \in Int /\ l.value \in Int
    BY <1>1 DEF Loops
<1>. HIDE DEF l
<1>5. BitsInv'
    BY <1>1, <1>2, NoBits DEF BitsInv
<1>6. BufInv'
    <2>1. size > 0 => lo < hi
        <3>. SUFFICES ASSUME size > 0 PROVE lo < hi
            OBVIOUS
        <3>1. h \in 2..Pow2[LongBits - 2] /\ Pow2[LongBits - 2] \in Nat
            BY LongFacts
        <3>2. h > 0
            BY <1>0, <3>1
        <3>. QED  BY <1>0, <3>2
    <2>. QED  BY <1>2, <2>1, NoBits DEF BufInv
<1>7. InRangeAndFair'
    BY <1>2 DEF InRangeAndFair
<1>8. CASE h \in 1..LongMax /\ ~LeavesRange(h)
    <2>1. /\ l.kind = (IF IsPower(h) THEN "power" ELSE "retry")
          /\ l.position \in Positions \cup {0}
          /\ l.position = 0 => h = 1
          /\ IsPower(h) => Weight(l.position) <= h
        BY <1>0, <1>1, <1>8
    <2>2. NumberOf(used') * Weight(l.position) = 0
        BY <1>2, <1>3, <2>1, NumberOfNone
    <2>3. BelowInv'
        BY <1>0, <1>1, <1>2, <1>3, <1>8, <2>1, <2>2 DEF BelowInv
    <2>4. h = 1 => IsPower(h)
        <3>1. 0 \in 0..LongBits - 2 /\ Pow2[0] = 1
            BY LongFacts
        <3>. QED  BY <3>1 DEF IsPower
    <2>5. PhaseInv'
        BY <1>2, <2>1, <2>4 DEF PhaseInv
    <2>. QED  BY <1>5, <1>6, <1>7, <2>3, <2>5 DEF TrueInv, LoopInv
<1>9. CASE h \in LongMin + 1..-1 /\ ~LeavesRange(h)
    <2>1. l.kind = "retry" /\ l.position = 0 /\ size = 0
        BY <1>0, <1>1, <1>9, LongFacts
    <2>2. NegativeInv'
        BY <1>1, <1>2, <1>9, <2>1 DEF NegativeInv
    <2>3. PhaseInv'
        BY <1>2, <2>1, <2>2 DEF PhaseInv
    <2>. QED  BY <1>5, <1>6, <1>7, <2>2, <2>3 DEF TrueInv, LoopInv
<1>10. CASE LeavesRange(h)
    <2>1. l.kind = (IF h = LongMin THEN "power" ELSE "retry") /\ l.position < 0
        BY <1>1, <1>10
    <2>2. EndlessInv'
        BY <1>0, <1>1, <1>2, <1>4, <1>10, <2>1 DEF EndlessInv
    <2>3. PhaseInv'
        BY <1>2, <1>4, <2>1 DEF PhaseInv
    <2>. QED  BY <1>5, <1>6, <1>7, <2>2, <2>3 DEF TrueInv, LoopInv
<1>. QED  BY <1>1, <1>8, <1>9, <1>10
LEMMA NoSize == 0 \in Nat /\ 0 \in Int /\ 1 \in Int /\ ~(0 > 0) /\ 0 >= 0
OBVIOUS

LEMMA RandomWordInv ==
    ASSUME TrueInv, NEW n \in WordSizes, RandomWord(n)
    PROVE  TrueInv'
<1>1. n \in 0..LongBits - 1 /\ n # 0 /\ n \in Nat
    BY WordSizesAssumption, LongFacts
<1>2. Pow2[n] \in Int /\ Pow2[n] > 0
    BY <1>1, Pow2Def
<1>3. BitsInv /\ Start(WordLoop(n), 0, Pow2[n], 0)
    BY DEF TrueInv, RandomWord
<1>. QED  BY <1>1, <1>2, <1>3, WordStarts

LEMMA RandomBelowInv ==
    ASSUME TrueInv, NEW h \in Bounds, RandomBelow(h)
    PROVE  TrueInv'
<1>1. h \in Longs /\ h \in Int /\ 0 \in 0..LongBits - 1 /\ BitsInv
    BY BoundsAssumption, LongFacts DEF Longs, TrueInv
<1>2. CASE h = 0
    <2>1. Start(WordLoop(0), 0, 0, 0)
        BY <1>2 DEF RandomBelow
    <2>. QED  BY <1>1, <2>1, NoSize, WordStarts, Zenon
<1>3. CASE h # 0
    <2>1. Start(BelowLoop(h), 0, h, 0)
        BY <1>3 DEF RandomBelow
    <2>2. h > 0 => h = 0 + h
        BY <1>1
    <2>. QED  BY <1>1, <1>3, <2>1, <2>2, NoSize, BelowStarts, Zenon
<1>. QED  BY <1>2, <1>3

LEMMA RandomBetweenInv ==
    ASSUME TrueInv, NEW lo \in Bounds, NEW hi \in Bounds, RandomBetween(lo, hi)
    PROVE  TrueInv'
<1>1. lo \in Longs /\ hi \in Longs /\ lo \in Int /\ hi \in Int /\ 0 \in 0..LongBits - 1 /\ BitsInv
    BY BoundsAssumption, LongFacts DEF Longs, TrueInv
<1>2. CASE lo >= hi
    <2>1. Start(WordLoop(0), lo, hi, 0)
        BY <1>2 DEF RandomBetween
    <2>. QED  BY <1>1, <1>2, <2>1, NoSize, WordStarts, Zenon
<1>3. CASE lo < hi
    <2>. DEFINE h == Wrap(hi - lo)
    <2>1. Start(BelowLoop(h), lo, hi, 0)
        BY <1>1, <1>3 DEF RandomBetween
    <2>2. h \in Longs /\ h # 0 /\ (h > 0 => hi = lo + h)
        <3>. DEFINE p == Pow2[LongBits - 2]
        <3>1. /\ p \in Nat /\ p >= 4 /\ LongMax = 2 * p - 1 /\ LongMin = -2 * p
              /\ Pow2[LongBits] = 4 * p
            BY LongFacts
        <3>. HIDE DEF p
        <3>2. LongMin <= lo /\ hi <= LongMax
            BY <1>1, <3>1 DEF Longs
        <3>. QED  BY <1>1, <1>3, <3>1, <3>2 DEF Wrap, Longs
    <2>. HIDE DEF h
    <2>. QED  BY <1>1, <2>1, <2>2, NoSize, BelowStarts, Zenon
<1>. QED  BY <1>1, <1>2, <1>3

LEMMA ByteBound ==
    /\ ByteMax - 1 \in 2..Pow2[LongBits - 2] /\ ByteMax - 1 \in Longs
    /\ ByteMax \in Int /\ ByteMax = 1 + (ByteMax - 1)
<1>1. ByteMax = Pow2[ByteBits] - 1
    BY DEF ByteMax
<1>. QED  BY <1>1, LongFacts DEF Longs

LEMMA FillRandomInv ==
    ASSUME TrueInv, NEW size \in Sizes, FillRandom(size)
    PROVE  TrueInv'
<1>1. size \in Nat /\ BitsInv /\ Start(BelowLoop(ByteMax - 1), 1, ByteMax, size)
    BY SizesAssumption DEF TrueInv, FillRandom
<1>2. ByteMax - 1 # 0
    BY ByteBound
<1>. QED  BY <1>1, <1>2, NoSize, ByteBound, BelowStarts, Zenon

LEMMA MemfillInv ==
    ASSUME TrueInv, NEW size \in Sizes, Memfill(size)
    PROVE  TrueInv'
<1>1. /\ size \in Nat /\ BitsInv /\ Start(WordLoop(ByteBits), 0, Pow2[ByteBits], size)
      /\ ByteBits \in 0..LongBits - 1 /\ ByteBits # 0
      /\ Pow2[ByteBits] \in Int /\ Pow2[ByteBits] > 0
    BY SizesAssumption, LongFacts DEF TrueInv, Memfill
<1>. QED  BY <1>1, WordStarts

LEMMA RawPairInv ==
    ASSUME TrueInv, NEW x \in {0, 1}, NEW y \in {0, 1}, RawPair(x, y)
    PROVE  TrueInv'
<1>. DEFINE w == Whitened(x, y)
            b == IF white = <<>> \/ w = <<>> THEN <<>> ELSE Whitened(white[1], w[1])
<1>1. /\ phase = "draw" /\ phase' \in {"draw", "use"}
      /\ white' = (IF w = <<>> THEN white ELSE IF white = <<>> THEN w ELSE <<>>)
      /\ bit' = (IF b = <<>> THEN bit ELSE b[1])
      /\ UNCHANGED <<leftFirst, loop, call, buf, ret, used>>
    BY DEF RawPair
<1>2. \A u, v \in {0, 1} : Whitened(u, v) \in {<<>>, <<0>>, <<1>>}
    BY DEF Whitened
<1>3. \A u \in {<<>>, <<0>>, <<1>>} : u # <<>> => u[1] \in {0, 1}
    OBVIOUS
<1>4. w \in {<<>>, <<0>>, <<1>>} /\ white \in {<<>>, <<0>>, <<1>>} /\ bit \in {0, 1}
    BY <1>2 DEF TrueInv, BitsInv
<1>. HIDE DEF w
<1>5. b \in {<<>>, <<0>>, <<1>>}
    BY <1>2, <1>3, <1>4
<1>. HIDE DEF b
<1>6. BitsInv'
    BY <1>1, <1>3, <1>4, <1>5 DEF TrueInv, BitsInv
<1>7. LoopInv' /\ (NegativeInv => NegativeInv')
    BY <1>1 DEF TrueInv, LoopInv, WordInv, BelowInv, NegativeInv, EndlessInv
<1>8. PhaseInv'
    BY <1>1, <1>7 DEF TrueInv, PhaseInv
<1>9. BufInv'
    BY <1>1 DEF TrueInv, BufInv
<1>10. InRangeAndFair'
    BY <1>1 DEF InRangeAndFair
<1>. QED  BY <1>6, <1>7, <1>8, <1>9, <1>10 DEF TrueInv

(* The turn of a word with the bit. *)
LEMMA UseBitOfWord ==
    ASSUME TrueInv, WordInv, UseBit
    PROVE  TrueInv'
<1>. DEFINE m == Len(used)
            v == loop.value
            p == loop.position
<1>1. /\ loop \in Loops /\ bit \in {0, 1} /\ used \in Seq({0, 1}) /\ m \in Nat
      /\ v \in Int /\ p \in 0..LongBits - 1 /\ p # 0 /\ LongBits - 1 \in Nat
    BY LongFacts, LenProperties DEF TrueInv, BitsInv, PhaseInv, NegativeInv, WordInv, UseBit, Loops
<1>2. /\ loop' = [loop EXCEPT !.value = 2 * v + bit, !.position = p - 1]
      /\ used' = Append(used, bit)
      /\ phase' = IF loop'.position = 0 THEN "done" ELSE "draw"
      /\ UNCHANGED <<leftFirst, white, bit, call, buf, ret>> /\ phase = "use"
    <2>1. loop.kind = "word"
        BY DEF WordInv
    <2>2. NextTurn(loop, bit) = [loop EXCEPT !.value = 2 * v + bit, !.position = p - 1]
        BY <2>1 DEF NextTurn
    <2>3. p > 0
        BY <1>1
    <2>. QED  BY <2>1, <2>2, <2>3 DEF UseBit
<1>3. /\ loop' \in Loops /\ loop'.kind = "word" /\ loop'.howBig = 0
      /\ loop'.value = 2 * v + bit /\ loop'.position = p - 1
    <2>2. loop.kind = "word" /\ loop.howBig = 0
        BY DEF WordInv
    <2>. HIDE DEF v, p
    <2>1. /\ 2 * v + bit \in Int /\ p - 1 \in Int
        BY <1>1
    <2>. DEFINE w == 2 * v + bit
                q == p - 1
    <2>3. loop' = [loop EXCEPT !.value = w, !.position = q] /\ w \in Int /\ q \in Int
        BY <1>2, <2>1
    <2>. HIDE DEF w, q
    <2>4. /\ loop' \in Loops /\ loop'.kind = loop.kind /\ loop'.howBig = loop.howBig
          /\ loop'.value = w /\ loop'.position = q
        BY <1>1, <2>3 DEF Loops
    <2>. QED  BY <2>2, <2>4 DEF w, q
<1>4. used' \in Seq({0, 1}) /\ Len(used') = m + 1 /\ NumberOf(used') = 2 * NumberOf(used) + bit
    BY <1>1, <1>2, NumberOfMore
<1>5. Pow2[m + 1] = 2 * Pow2[m] /\ Pow2[m] \in Nat
    BY <1>1, Pow2Def
<1>6. WordInv'
    <2>1. Len(used') + loop'.position = m + p
        BY <1>1, <1>3, <1>4
    <2>2. p - 1 \in 0..LongBits - 1
        BY <1>1
    <2>3. v = NumberOf(used) /\ v < Pow2[m]
        BY DEF WordInv
    <2>4. 2 * v + bit < Pow2[m + 1]
        BY <1>1, <1>5, <2>3
    <2>5. /\ IF m + p = 0 THEN call.lo >= call.hi /\ call.size = 0 ELSE call.lo = 0 /\ call.hi = Pow2[m + p]
          /\ call.size > 0 => m + p = ByteBits
        BY DEF WordInv
    <2>. HIDE DEF m, v, p
    <2>. QED  BY <1>2, <1>3, <1>4, <2>1, <2>2, <2>3, <2>4, <2>5 DEF WordInv
<1>7. BitsInv'
    BY <1>2, <1>3, <1>4 DEF TrueInv, BitsInv
<1>8. PhaseInv'
    BY <1>2 DEF PhaseInv
<1>9. BufInv' /\ InRangeAndFair'
    BY <1>2 DEF TrueInv, BufInv, InRangeAndFair
<1>. QED  BY <1>6, <1>7, <1>8, <1>9 DEF TrueInv, LoopInv

(* A turn with bit b of a loop that has v, which is N times the weight of the *)
(* bits before this one, and puts b at position p.                            *)
LEMMA Weighted ==
    ASSUME NEW N \in Nat, NEW p \in Nat, NEW b \in {0, 1}
    PROVE  N * (2 * p) + b * p = (2 * N + b) * p
<1>1. CASE b = 0
    BY <1>1
<1>2. CASE b = 1
    BY <1>2
<1>. QED  BY <1>1, <1>2

(* The turn of a loop below a bound with the bit. *)
LEMMA UseBitBelow ==
    ASSUME TrueInv, BelowInv, UseBit
    PROVE  TrueInv'
<1>. DEFINE h == loop.howBig
            p == loop.position
            N == NumberOf(used)
            v == loop.value + bit * p
            again == loop.kind = "retry" /\ v >= h
<1>1. /\ loop \in Loops /\ bit \in {0, 1} /\ used \in Seq({0, 1}) /\ N \in Nat
      /\ loop.value \in Int /\ h \in 1..LongMax /\ ~LeavesRange(h) /\ LongMax \in Int
      /\ loop.kind = IF IsPower(h) THEN "power" ELSE "retry"
    BY LongFacts, NumberOfMore DEF TrueInv, BitsInv, BelowInv, Loops
<1>2. p \in Positions
    <2>1. p # 0
        BY DEF TrueInv, PhaseInv, NegativeInv, BelowInv, UseBit
    <2>. QED  BY <2>1 DEF BelowInv
<1>3. /\ p \in Nat \ {0} /\ p \div 2 \in Positions \cup {0} /\ p \div 2 \in Int
      /\ Weight(p \div 2) = p /\ Weight(p) = 2 * p
    BY <1>2, HalfPosition
<1>4. /\ phase = "use" /\ phase' = IF loop'.position = 0 THEN "done" ELSE "draw"
      /\ UNCHANGED <<leftFirst, white, bit, call, buf, ret>>
    BY DEF UseBit
<1>5. v \in Int /\ (IF bit = 1 THEN Or(loop.value, p) ELSE loop.value) = v
    BY <1>1, <1>3 DEF Or
<1>6. /\ again => loop' = BelowLoop(h)
      /\ ~again => loop' = [loop EXCEPT !.value = v, !.position = p \div 2]
    BY <1>1, <1>5, Zenon DEF UseBit, NextTurn
<1>7. used' = IF loop.kind = "retry" /\ loop' = BelowLoop(h) THEN <<>> ELSE Append(used, bit)
    <2>1. p > 0
        BY <1>3
    <2>. QED  BY <2>1 DEF UseBit
<1>8. /\ call.hi = call.lo + h
      /\ call.size > 0 => h > 1
    BY DEF BelowInv
<1>9. /\ BelowLoop(h) \in Loops /\ BelowLoop(h).howBig = h /\ BelowLoop(h).value = 0
      /\ BelowLoop(h).kind = IF IsPower(h) THEN "power" ELSE "retry"
      /\ BelowLoop(h).position \in Positions \cup {0}
      /\ IsPower(h) => Weight(BelowLoop(h).position) <= h
    <2>1. h \in Longs /\ h # 0 /\ h \notin LongMin + 1..-1
        BY <1>1, PositiveLongs
    <2>. QED  BY <1>1, <2>1, BelowBegins
<1>10. \A q \in Positions \cup {0} : Weight(q) \in Nat
    BY HalfPosition DEF Weight
<1>11. used' \in Seq({0, 1})
    BY <1>1, <1>7, NoBits
<1>12. CASE again
    <2>1. loop' = BelowLoop(h) /\ used' = <<>>
        BY <1>6, <1>7, <1>12
    <2>2. NumberOf(used') * Weight(loop'.position) = 0
        BY <1>9, <1>10, <2>1, NumberOfNone
    <2>3. 0 < h
        BY <1>1
    <2>. HIDE DEF h
    <2>. HIDE DEF p, N, v, again
    <2>4. BelowInv'
        <3>1. /\ loop'.howBig = h /\ loop'.value = 0
              /\ loop'.position \in Positions \cup {0} /\ Weight(loop'.position) \in Nat
              /\ loop'.kind = IF IsPower(h) THEN "power" ELSE "retry"
              /\ loop'.kind = "power" => Weight(loop'.position) <= h
            BY <1>9, <1>10, <2>1
        <3>2. call.hi' = call.lo' + h /\ (call.size' > 0 => h > 1)
            BY <1>4, <1>8
        <3>. QED  BY <1>1, <2>2, <2>3, <3>1, <3>2 DEF BelowInv
    <2>5. BitsInv' /\ PhaseInv'
        BY <1>4, <1>9, <1>11, <2>1 DEF TrueInv, BitsInv, PhaseInv
    <2>6. BufInv' /\ InRangeAndFair'
        BY <1>4 DEF TrueInv, BufInv, InRangeAndFair
    <2>. QED  BY <2>4, <2>5, <2>6 DEF TrueInv, LoopInv
<1>13. CASE ~again
    <2>1. /\ loop' \in Loops /\ loop'.kind = loop.kind /\ loop'.howBig = h
          /\ loop'.value = v /\ loop'.position = p \div 2
        <3>1. loop' = [loop EXCEPT !.value = v, !.position = p \div 2]
            BY <1>6, <1>13
        <3>. HIDE DEF v
        <3>. QED  BY <1>1, <1>3, <1>5, <3>1 DEF Loops
    <2>2. v < h /\ (loop.kind = "power" => v + p <= h)
        <3>1. CASE loop.kind = "power"
            <4>1. loop.value + 2 * p <= h
                BY <1>3, <3>1 DEF BelowInv
            <4>2. bit * p \in {0, p} /\ p \in Nat \ {0}
                BY <1>1, <1>3
            <4>3. v = loop.value + bit * p /\ loop.value \in Int /\ h \in Int
                BY <1>1
            <4>. DEFINE add == bit * p
            <4>. HIDE DEF v, h, p, add
            <4>4. v = loop.value + add /\ add \in {0, p}
                BY <4>2, <4>3 DEF add
            <4>. QED  BY <4>1, <4>2, <4>3, <4>4
        <3>2. CASE loop.kind = "retry"
            BY <1>1, <1>5, <1>13, <3>2
        <3>. QED  BY <1>1, <3>1, <3>2
    <2>3. v = NumberOf(used') * p
        <3>1. CASE loop.kind = "retry" /\ loop' = BelowLoop(h)
            <4>1. v = 0 /\ NumberOf(used') = 0
                BY <1>7, <1>9, <2>1, <3>1, NumberOfNone
            <4>. QED  BY <1>3, <4>1
        <3>2. CASE ~(loop.kind = "retry" /\ loop' = BelowLoop(h))
            <4>1. NumberOf(used') = 2 * N + bit
                BY <1>1, <1>7, <3>2, NumberOfMore
            <4>2. loop.value = N * (2 * p)
                BY <1>3 DEF BelowInv
            <4>3. p \in Nat
                BY <1>3
            <4>. HIDE DEF N, p
            <4>. QED  BY <1>1, <4>1, <4>2, <4>3, Weighted
        <3>. QED  BY <3>1, <3>2
    <2>. HIDE DEF h, v, p
    <2>4. BelowInv'
        BY <1>1, <1>3, <1>4, <1>8, <2>1, <2>2, <2>3 DEF BelowInv
    <2>5. BitsInv' /\ PhaseInv'
        BY <1>4, <1>11, <2>1 DEF TrueInv, BitsInv, PhaseInv
    <2>6. BufInv' /\ InRangeAndFair'
        BY <1>4 DEF TrueInv, BufInv, InRangeAndFair
    <2>. QED  BY <2>4, <2>5, <2>6 DEF TrueInv, LoopInv
<1>. QED  BY <1>12, <1>13

(* The one turn of a loop below a bound that is below 0. *)
LEMMA UseBitNegative ==
    ASSUME TrueInv, NegativeInv, UseBit
    PROVE  TrueInv'
<1>. DEFINE h == loop.howBig
<1>1. /\ h \in Longs /\ h # 0 /\ h # LongMin /\ h < 0 /\ h \in LongMin + 1..-1 /\ ~LeavesRange(h)
      /\ h \notin 1..LongMax
    <2>. DEFINE q == Pow2[LongBits - 2]
    <2>1. q \in Nat /\ q >= 4 /\ LongMax = 2 * q - 1 /\ LongMin = -2 * q
        BY LongFacts
    <2>2. h \in LongMin + 1..-1
        BY DEF NegativeInv
    <2>. HIDE DEF h, q
    <2>3. h \in Int /\ LongMin + 1 <= h /\ h <= -1
        BY <2>1, <2>2
    <2>4. ~LeavesRange(h)
        BY <2>1, <2>3 DEF LeavesRange, q
    <2>. QED  BY <2>1, <2>2, <2>3, <2>4 DEF Longs
<1>2. /\ BelowLoop(h) \in Loops /\ BelowLoop(h).howBig = h /\ BelowLoop(h).value = 0
      /\ BelowLoop(h).kind = "retry" /\ BelowLoop(h).position = 0
    BY <1>1, BelowBegins
<1>3. loop' = BelowLoop(h) /\ used' = <<>>
    <2>1. (IF bit = 1 THEN Or(loop.value, loop.position) ELSE loop.value) = 0
        BY DEF NegativeInv, Or
    <2>2. loop.kind = "retry" /\ loop.kind # "word" /\ 0 >= h
        BY <1>1 DEF NegativeInv
    <2>3. NextTurn(loop, bit) = BelowLoop(h)
        BY <2>1, <2>2, Zenon DEF NextTurn
    <2>. QED  BY <2>2, <2>3 DEF UseBit
<1>4. /\ phase = "use" /\ phase' = "done"
      /\ UNCHANGED <<leftFirst, white, bit, call, buf, ret>>
    BY <1>2, <1>3 DEF UseBit
<1>. HIDE DEF h
<1>5. NegativeInv'
    BY <1>1, <1>2, <1>3, <1>4 DEF NegativeInv
<1>6. BitsInv' /\ PhaseInv'
    BY <1>2, <1>3, <1>4, NoBits DEF TrueInv, BitsInv, PhaseInv
<1>7. BufInv' /\ InRangeAndFair'
    BY <1>4 DEF TrueInv, BufInv, InRangeAndFair
<1>. QED  BY <1>5, <1>6, <1>7 DEF TrueInv, LoopInv

(* The turn of a loop that never ends. *)
LEMMA NextTurnEndless ==
    ASSUME NEW l \in Loops, NEW b \in {0, 1}, LeavesRange(l.howBig), l.howBig \in Longs,
           l.kind = IF l.howBig = LongMin THEN "power" ELSE "retry",
           l.value <= 0, l.position < 0
    PROVE  /\ NextTurn(l, b) \in Loops
           /\ NextTurn(l, b).kind = l.kind /\ NextTurn(l, b).howBig = l.howBig
           /\ NextTurn(l, b).value <= 0 /\ NextTurn(l, b).position < 0
<1>. DEFINE v == IF b = 1 THEN Or(l.value, l.position) ELSE l.value
<1>1. l.value \in Int /\ l.position \in Int /\ l.howBig \in Int /\ l.kind # "word"
    BY DEF Loops
<1>2. v \in Int /\ v <= 0
    BY <1>1 DEF Or
<1>3. ~(l.kind = "retry" /\ v >= l.howBig)
    <2>. SUFFICES ASSUME l.kind = "retry" PROVE l.howBig > 0
        BY <1>1, <1>2
    <2>. QED  BY <1>1, LongFacts DEF LeavesRange
<1>4. NextTurn(l, b) = [l EXCEPT !.value = v, !.position = l.position \div 2]
    BY <1>1, <1>3, Zenon DEF NextTurn
<1>5. l.position \div 2 \in Int /\ l.position \div 2 < 0
    BY <1>1
<1>. HIDE DEF v
<1>. QED  BY <1>2, <1>4, <1>5 DEF Loops

LEMMA UseBitEndless ==
    ASSUME TrueInv, EndlessInv, UseBit
    PROVE  TrueInv'
<1>1. loop \in Loops /\ bit \in {0, 1} /\ used \in Seq({0, 1})
    BY DEF TrueInv, BitsInv
<1>2. /\ loop' \in Loops /\ loop'.kind = loop.kind /\ loop'.howBig = loop.howBig
      /\ loop'.value <= 0 /\ loop'.position < 0 /\ loop'.value \in Int /\ loop'.position \in Int
    <2>1. loop' = NextTurn(loop, bit)
        BY DEF UseBit
    <2>2. /\ loop' \in Loops /\ loop'.kind = loop.kind /\ loop'.howBig = loop.howBig
          /\ loop'.value <= 0 /\ loop'.position < 0
        BY <1>1, <2>1, NextTurnEndless DEF EndlessInv
    <2>. QED  BY <2>2 DEF Loops
<1>3. /\ phase = "use" /\ phase' = "draw"
      /\ UNCHANGED <<leftFirst, white, bit, call, buf, ret>>
    BY <1>2 DEF UseBit
<1>4. used' \in Seq({0, 1})
    <2>1. ~(loop.position > 0)
        BY DEF EndlessInv
    <2>2. used' \in {<<>>, used}
        BY <2>1 DEF UseBit
    <2>. QED  BY <1>1, <2>2, NoBits
<1>5. EndlessInv'
    BY <1>2, <1>3 DEF EndlessInv
<1>6. BitsInv' /\ PhaseInv'
    BY <1>2, <1>3, <1>4 DEF TrueInv, BitsInv, PhaseInv
<1>7. BufInv' /\ InRangeAndFair'
    BY <1>3 DEF TrueInv, BufInv, InRangeAndFair
<1>. QED  BY <1>5, <1>6, <1>7 DEF TrueInv, LoopInv
(* At the end of a loop its value is the number of the bits at hand, and no   *)
(* greater than the call allows.                                              *)
LEMMA ValueInRange ==
    ASSUME TrueInv, phase = "done"
    PROVE  /\ loop.position = 0 /\ ~EndlessInv
           /\ loop.value = NumberOf(used) /\ loop.value \in Nat
           /\ IF call.lo < call.hi THEN call.lo + loop.value < call.hi ELSE loop.value = 0
<1>1. loop.position = 0 /\ ~EndlessInv
    BY DEF TrueInv, PhaseInv, EndlessInv
<1>2. NumberOf(used) \in Nat /\ call.lo \in Int /\ call.hi \in Int /\ used \in Seq({0, 1})
    BY NumberOfMore DEF TrueInv, BitsInv, BufInv
<1>3. CASE WordInv
    <2>. DEFINE n == Len(used)
    <2>1. n \in Nat /\ n + 0 = n /\ Pow2[0] = 1
        BY <1>2, LenProperties, Pow2Def
    <2>2. loop.value = NumberOf(used) /\ loop.value < Pow2[n]
        BY <1>3 DEF WordInv
    <2>3. IF n = 0 THEN call.lo >= call.hi ELSE call.lo = 0 /\ call.hi = Pow2[n]
        BY <1>1, <1>3, <2>1 DEF WordInv
    <2>. HIDE DEF n
    <2>4. Pow2[n] \in Nat
        BY <2>1, Pow2Def
    <2>5. CASE n = 0
        BY <1>1, <1>2, <2>1, <2>2, <2>3, <2>5
    <2>6. CASE n # 0
        BY <1>1, <1>2, <2>2, <2>3, <2>4, <2>6
    <2>. QED  BY <2>5, <2>6
<1>4. CASE BelowInv
    <2>1. Weight(loop.position) = 1
        BY <1>1 DEF Weight
    <2>2. /\ loop.value = NumberOf(used) /\ loop.value < loop.howBig
          /\ call.hi = call.lo + loop.howBig /\ loop.howBig \in Int
        <3>1. loop.howBig \in Int
            BY <1>4, PositiveLongs DEF BelowInv
        <3>. QED  BY <1>2, <1>4, <2>1, <3>1 DEF BelowInv
    <2>. QED  BY <1>1, <1>2, <2>2
<1>5. CASE NegativeInv
    BY <1>1, <1>2, <1>5, NumberOfNone DEF NegativeInv
<1>. QED  BY <1>1, <1>3, <1>4, <1>5 DEF TrueInv, LoopInv

(* The bytes after the number is returned. *)
LEMMA BytesReturned ==
    ASSUME TrueInv, ReturnNumber
    PROVE  /\ phase' \in {"draw", "idle"} /\ (phase' = "draw" => call.size > 0)
           /\ BufInv' /\ InRangeAndFair'
<1>1. /\ phase = "done" /\ ret' = call.lo + loop.value
      /\ buf' = (IF call.size > 0 THEN Append(buf, ret') ELSE buf)
      /\ phase' = (IF Len(buf') < call.size THEN "draw" ELSE "idle")
      /\ phase' # "draw" => used' = used
      /\ call' = call
    BY DEF ReturnNumber
<1>2. /\ loop.value = NumberOf(used) /\ loop.value \in Nat
      /\ IF call.lo < call.hi THEN call.lo + loop.value < call.hi ELSE loop.value = 0
    BY <1>1, ValueInRange
<1>3. /\ call.lo \in Int /\ call.hi \in Int /\ call.size \in Nat
      /\ call.size > 0 => call.lo < call.hi
      /\ buf \in Seq(Int) /\ Len(buf) \in Nat
      /\ \A i \in 1..Len(buf) : call.lo <= buf[i] /\ buf[i] < call.hi
      /\ Len(buf) < call.size \/ (call.size = 0 /\ buf = <<>>)
    BY <1>1, LenProperties DEF TrueInv, BufInv
<1>4. /\ ret' \in Int
      /\ IF call.lo < call.hi THEN call.lo <= ret' /\ ret' < call.hi ELSE ret' = call.lo
    BY <1>1, <1>2, <1>3
<1>5. /\ buf' \in Seq(Int) /\ Len(buf') \in Nat /\ DOMAIN buf' = 1..Len(buf')
      /\ \A i \in 1..Len(buf') : call.lo <= buf'[i] /\ buf'[i] < call.hi
      /\ Len(buf') <= call.size
      /\ call.size = 0 => buf' = <<>>
    <2>1. CASE call.size > 0
        <3>1. /\ buf' = Append(buf, ret') /\ buf' \in Seq(Int) /\ Len(buf') = Len(buf) + 1
              /\ DOMAIN buf' = 1..Len(buf') /\ buf'[Len(buf) + 1] = ret'
              /\ \A i \in 1..Len(buf) : buf'[i] = buf[i]
            BY <1>1, <1>3, <1>4, <2>1, AppendProperties
        <3>2. \A i \in 1..Len(buf') : i \in 1..Len(buf) \/ i = Len(buf) + 1
            BY <1>3, <3>1
        <3>. QED  BY <1>3, <1>4, <2>1, <3>1, <3>2
    <2>2. CASE ~(call.size > 0)
        <3>1. buf' = <<>> /\ call.size = 0
            BY <1>1, <1>3, <2>2
        <3>. QED  BY <3>1, NoBits
    <2>. QED  BY <2>1, <2>2
<1>6. BufInv'
    BY <1>1, <1>3, <1>5 DEF BufInv
<1>7. InRangeAndFair'
    <2>. SUFFICES ASSUME phase' = "idle"
                  PROVE  /\ used' = used /\ Len(buf') = call.size
        BY <1>1, <1>2, <1>4, <1>5 DEF InRangeAndFair
    <2>. QED  BY <1>1, <1>3, <1>5
<1>. QED  BY <1>1, <1>3, <1>5, <1>6, <1>7

LEMMA ReturnNumberInv ==
    ASSUME TrueInv, ReturnNumber
    PROVE  TrueInv'
<1>1. /\ phase = "done" /\ call' = call
      /\ phase' = "idle" => loop' = loop /\ used' = used
      /\ phase' = "draw" => loop' = Again(loop) /\ used' = <<>>
      /\ UNCHANGED <<white, bit>>
    BY DEF ReturnNumber
<1>2. /\ phase' \in {"draw", "idle"} /\ (phase' = "draw" => call.size > 0)
      /\ BufInv' /\ InRangeAndFair'
    BY BytesReturned
<1>3. loop.position = 0 /\ ~EndlessInv
    BY <1>1, ValueInRange
<1>4. loop \in Loops /\ BitsInv
    BY DEF TrueInv, BitsInv
<1>5. CASE phase' = "idle"
    <2>1. LoopInv' /\ BitsInv'
        BY <1>1, <1>3, <1>5 DEF TrueInv, LoopInv, BitsInv, WordInv, BelowInv, NegativeInv
    <2>2. PhaseInv'
        BY <1>5 DEF PhaseInv
    <2>. QED  BY <1>2, <2>1, <2>2 DEF TrueInv
<1>6. CASE phase' = "draw" /\ WordInv
    <2>1. loop' = WordLoop(ByteBits) /\ used' = <<>>
        BY <1>1, <1>6 DEF Again, WordInv
    <2>2. /\ loop'.kind = "word" /\ loop'.howBig = 0 /\ loop'.value = 0 /\ loop'.position = ByteBits
          /\ loop' \in Loops /\ ByteBits # 0 /\ ByteBits \in Nat /\ ByteBits \in 0..LongBits - 1
        BY <2>1, LongFacts DEF WordLoop, Loops
    <2>3. call.lo = 0 /\ call.hi = Pow2[ByteBits]
        BY <1>2, <1>6, <2>2 DEF WordInv
    <2>4. /\ NumberOf(used') = 0 /\ 0 < Pow2[0] /\ Len(used') = 0
          /\ Len(used') + loop'.position = ByteBits
        BY <2>1, <2>2, NoBits, NumberOfNone, Pow2Def
    <2>5. WordInv'
        BY <1>1, <2>2, <2>3, <2>4 DEF WordInv
    <2>6. BitsInv' /\ PhaseInv'
        BY <1>1, <1>4, <1>6, <2>1, <2>2, NoBits DEF BitsInv, PhaseInv
    <2>. QED  BY <1>2, <2>5, <2>6 DEF TrueInv, LoopInv
<1>7. CASE phase' = "draw" /\ BelowInv
    <2>. DEFINE h == loop.howBig
    <2>1. loop' = BelowLoop(h) /\ used' = <<>> /\ loop.kind # "word"
        BY <1>1, <1>7 DEF Again, BelowInv
    <2>2. /\ h \in 1..LongMax /\ h > 1 /\ ~LeavesRange(h) /\ call.hi = call.lo + h
          /\ h \in Longs /\ h # 0 /\ h \notin LongMin + 1..-1
        BY <1>2, <1>7, PositiveLongs DEF BelowInv
    <2>3. /\ loop' \in Loops /\ loop'.howBig = h /\ loop'.value = 0
          /\ loop'.kind = IF IsPower(h) THEN "power" ELSE "retry"
          /\ loop'.position \in Positions \cup {0} /\ loop'.position # 0
          /\ IsPower(h) => Weight(loop'.position) <= h
        BY <2>1, <2>2, BelowBegins
    <2>. HIDE DEF h
    <2>4. Weight(loop'.position) \in Nat
        <3>. DEFINE q == loop'.position
        <3>1. q \in Positions
            BY <2>3
        <3>. HIDE DEF q
        <3>2. q \in Nat /\ Weight(q) = 2 * q
            BY <3>1, HalfPosition
        <3>. QED  BY <3>2 DEF q
    <2>5. NumberOf(used') * Weight(loop'.position) = 0
        BY <2>1, <2>4, NumberOfNone
    <2>6. BelowInv'
        BY <1>1, <2>2, <2>3, <2>4, <2>5, LongFacts DEF BelowInv
    <2>7. BitsInv' /\ PhaseInv'
        BY <1>1, <1>4, <1>7, <2>1, <2>3, NoBits DEF BitsInv, PhaseInv
    <2>. QED  BY <1>2, <2>6, <2>7 DEF TrueInv, LoopInv
<1>8. CASE phase' = "draw" /\ NegativeInv
    BY <1>2, <1>8 DEF NegativeInv
<1>. QED  BY <1>2, <1>3, <1>5, <1>6, <1>7, <1>8 DEF TrueInv, LoopInv

-----------------------------------------------------------------------------
(* The random numbers of the ESP8266 (ESP8266TrueRandom.cpp): the inductive   *)
(* invariant of its loops holds in every state, whatever the widths of a long *)
(* and a byte, and whatever bounds and sizes the callers pass.                *)
THEOREM TrueRandomInvariant == TrueSpec => []TrueInv
<1>1. TrueInit => TrueInv
    BY TrueInitInv
<1>2. TrueInv /\ [TrueNext]_trueVars => TrueInv'
    <2>. SUFFICES ASSUME TrueInv, [TrueNext]_trueVars PROVE TrueInv'
        OBVIOUS
    <2>1. CASE \E n \in WordSizes : RandomWord(n)
        BY <2>1, RandomWordInv
    <2>2. CASE \E h \in Bounds : RandomBelow(h)
        BY <2>2, RandomBelowInv
    <2>3. CASE \E lo, hi \in Bounds : RandomBetween(lo, hi)
        BY <2>3, RandomBetweenInv
    <2>4. CASE \E size \in Sizes : FillRandom(size)
        BY <2>4, FillRandomInv
    <2>5. CASE \E size \in Sizes : Memfill(size)
        BY <2>5, MemfillInv
    <2>6. CASE \E x, y \in {0, 1} : RawPair(x, y)
        BY <2>6, RawPairInv
    <2>7. CASE UseBit
        BY <2>7, UseBitOfWord, UseBitBelow, UseBitNegative, UseBitEndless DEF TrueInv, LoopInv
    <2>8. CASE ReturnNumber
        BY <2>8, ReturnNumberInv
    <2>9. CASE UNCHANGED trueVars
        BY <2>9 DEF trueVars, TrueInv, LoopInv, WordInv, BelowInv, NegativeInv, EndlessInv,
                    BitsInv, PhaseInv, BufInv, InRangeAndFair
    <2>. QED  BY <2>1, <2>2, <2>3, <2>4, <2>5, <2>6, <2>7, <2>8, <2>9 DEF TrueNext
<1>. QED  BY <1>1, <1>2, PTL DEF TrueSpec

(* A number that random(), rand(), memfill() or fillRandom() returns lies in  *)
(* the range that was asked for, also when the difference of its bounds       *)
(* wrapped around and however often its loop began again; and it is the bits  *)
(* that were drawn for it since, none lost and none used twice.               *)
THEOREM NumbersAreFair == TrueSpec => []InRangeAndFair
<1>1. TrueInv => InRangeAndFair
    BY DEF TrueInv
<1>. QED  BY <1>1, TrueRandomInvariant, PTL
-----------------------------------------------------------------------------
(* A loop whose next bits are all 0. *)

\* The loops that take turns.
Turning == {l \in Loops : l.howBig \in Longs /\ (l.howBig = 0 => l.kind = "word")}

LEMMA TurnsGoOn ==
    ASSUME NEW l \in Turning
    PROVE  NextTurn(l, 0) \in Turning
<1>1. /\ l \in Loops /\ l.value \in Int /\ l.position \in Int /\ l.howBig \in Longs
      /\ l.howBig \in Int /\ (l.howBig = 0 => l.kind = "word")
    BY DEF Turning, Loops
<1>2. CASE l.kind = "word"
    <2>1. NextTurn(l, 0) = [l EXCEPT !.value = 2 * l.value + 0, !.position = l.position - 1]
        BY <1>2 DEF NextTurn
    <2>2. 2 * l.value + 0 \in Int /\ l.position - 1 \in Int
        BY <1>1
    <2>3. /\ NextTurn(l, 0) \in Loops /\ NextTurn(l, 0).kind = l.kind
          /\ NextTurn(l, 0).howBig = l.howBig
        BY <1>1, <2>1, <2>2 DEF Loops
    <2>. QED  BY <1>1, <2>3 DEF Turning
<1>3. CASE l.kind = "retry" /\ l.value >= l.howBig
    <2>1. NextTurn(l, 0) = BelowLoop(l.howBig)
        BY <1>3 DEF NextTurn
    <2>2. l.howBig # 0
        BY <1>1, <1>3
    <2>3. BelowLoop(l.howBig) \in Loops /\ BelowLoop(l.howBig).howBig = l.howBig
        BY <1>1, <2>2, BelowBegins
    <2>. QED  BY <1>1, <2>1, <2>2, <2>3 DEF Turning
<1>4. CASE l.kind # "word" /\ ~(l.kind = "retry" /\ l.value >= l.howBig)
    <2>1. NextTurn(l, 0) = [l EXCEPT !.value = l.value, !.position = l.position \div 2]
        BY <1>4 DEF NextTurn
    <2>2. l.position \div 2 \in Int
        BY <1>1
    <2>3. /\ NextTurn(l, 0) \in Loops /\ NextTurn(l, 0).kind = l.kind
          /\ NextTurn(l, 0).howBig = l.howBig
        BY <1>1, <2>1, <2>2 DEF Loops
    <2>. QED  BY <1>1, <2>3 DEF Turning
<1>. QED  BY <1>2, <1>3, <1>4

(* The recursive definition in AfterZeros has a solution along the turns. *)
LEMMA AfterZerosDef ==
    ASSUME NEW l \in Turning, NEW n \in Nat
    PROVE  \E f \in [0..n -> Turning] :
               /\ f[0] = l
               /\ \A i \in 1..n : f[i] = NextTurn(f[i - 1], 0)
               /\ AfterZeros(l, n) = f[n]
<1>. DEFINE step == [p \in (1..n) \X Turning |-> NextTurn(p[2], 0)]
            Is(f) == f = [i \in 0..n |-> IF i = 0 THEN l ELSE NextTurn(f[i - 1], 0)]
<1>1. PICK f \in [0..n -> Turning] : f[0] = l /\ \A i \in 1..n : f[i] = step[<<i, f[i - 1]>>]
    <2>1. step \in [(1..n) \X Turning -> Turning]
        BY TurnsGoOn
    <2>2. Along(Turning, n, l, step)
        <3>. HIDE DEF step
        <3>. QED  BY <2>1 DEF Along
    <2>. DEFINE m == n
    <2>3. Along(Turning, m, l, step)
        BY <2>2
    <2>. HIDE DEF step, m
    <2>4. \E f \in [0..m -> Turning] : f[0] = l /\ \A i \in 1..m : f[i] = step[<<i, f[i - 1]>>]
        BY <2>3, ListRecursion
    <2>. QED  BY <2>4 DEF m
<1>2. ASSUME NEW i \in 1..n PROVE f[i] = NextTurn(f[i - 1], 0)
    <2>1. i - 1 \in 0..n /\ f[i - 1] \in Turning
        BY <1>1
    <2>2. f[i] = step[<<i, f[i - 1]>>]
        BY <1>1
    <2>. QED  BY <2>1, <2>2
<1>3. Is(f)
    <2>1. \A i \in 0..n : f[i] = IF i = 0 THEN l ELSE NextTurn(f[i - 1], 0)
        BY <1>1, <1>2
    <2>. QED  BY <1>1, <2>1
<1>. DEFINE v == CHOOSE g : Is(g)
<1>4. Is(v)
    <2>. HIDE DEF Is
    <2>. QED  BY <1>3
<1>5. AfterZeros(l, n) = v[n]
    BY Zenon DEF AfterZeros
<1>6. DOMAIN v = 0..n /\ v[0] = l /\ \A i \in 1..n : v[i] = NextTurn(v[i - 1], 0)
    <2>. HIDE DEF v
    <2>. QED  BY <1>4
<1>7. v \in [0..n -> Turning]
    <2>. DEFINE S == {i \in 0..n : v[i] \in Turning}
    <2>. HIDE DEF v
    <2>1. 0 \in S
        BY <1>6
    <2>2. ASSUME NEW i \in 1..n, i - 1 \in S PROVE i \in S
        BY <1>6, <2>2, TurnsGoOn
    <2>3. 0..n \subseteq S
        <3>. HIDE DEF S
        <3>. QED  BY <2>1, <2>2, InductionUpTo
    <2>4. v = [i \in 0..n |-> v[i]]
        BY <1>4, <1>6
    <2>. QED  BY <2>3, <2>4
<1>. HIDE DEF v
<1>. QED  BY <1>5, <1>6, <1>7

(* A word of k more bits ends after k turns. *)
LEMMA WordEnds ==
    ASSUME NEW l \in Turning, l.kind = "word", NEW k \in Nat, l.position = k
    PROVE  AfterZeros(l, k).position = 0
<1>1. PICK f \in [0..k -> Turning] : /\ f[0] = l
                                     /\ \A i \in 1..k : f[i] = NextTurn(f[i - 1], 0)
                                     /\ AfterZeros(l, k) = f[k]
    BY AfterZerosDef
<1>. DEFINE S == {i \in 0..k : f[i].kind = "word" /\ f[i].position = k - i}
<1>2. 0 \in S
    BY <1>1
<1>3. ASSUME NEW i \in 1..k, i - 1 \in S PROVE i \in S
    <2>. DEFINE m == f[i - 1]
    <2>1. f[i] = NextTurn(m, 0) /\ m \in Loops /\ m.kind = "word" /\ m.position = k - (i - 1)
        BY <1>1, <1>3 DEF Turning
    <2>. HIDE DEF m
    <2>2. f[i] = [m EXCEPT !.value = 2 * m.value + 0, !.position = m.position - 1]
        BY <2>1 DEF NextTurn
    <2>3. f[i].kind = m.kind /\ f[i].position = m.position - 1
        BY <2>1, <2>2 DEF Loops
    <2>. QED  BY <2>1, <2>3
<1>4. 0..k \subseteq S
    <2>. HIDE DEF S
    <2>. QED  BY <1>2, <1>3, InductionUpTo
<1>. QED  BY <1>1, <1>4

(* A loop below a bound does not begin again while its bits are 0, and ends   *)
(* when its position has been halved away.                                    *)
LEMMA BelowEnds ==
    ASSUME NEW l \in Turning, l.kind # "word", l.value < l.howBig,
           NEW k \in 0..LongBits - 2, l.position = Pow2[k]
    PROVE  AfterZeros(l, k + 1).position = 0
<1>0. k \in Nat /\ k + 1 \in Nat /\ Pow2[0] = 1 /\ LongBits \in Nat
    BY LongFacts
<1>1. PICK f \in [0..k + 1 -> Turning] : /\ f[0] = l
                                         /\ \A i \in 1..k + 1 : f[i] = NextTurn(f[i - 1], 0)
                                         /\ AfterZeros(l, k + 1) = f[k + 1]
    BY <1>0, AfterZerosDef
<1>. DEFINE S == {i \in 0..k : /\ f[i].kind = l.kind /\ f[i].howBig = l.howBig
                               /\ f[i].value = l.value /\ f[i].position = Pow2[k - i]}
<1>2. 0 \in S
    BY <1>0, <1>1
<1>3. ASSUME NEW m \in Loops, m.kind = l.kind, m.howBig = l.howBig, m.value = l.value
      PROVE  /\ NextTurn(m, 0).kind = l.kind /\ NextTurn(m, 0).howBig = l.howBig
             /\ NextTurn(m, 0).value = l.value
             /\ NextTurn(m, 0).position = m.position \div 2
    <2>1. l.value \in Int /\ l.howBig \in Int
        BY DEF Turning, Loops
    <2>2. NextTurn(m, 0) = [m EXCEPT !.value = m.value, !.position = m.position \div 2]
        <3>1. m.kind # "word" /\ ~(m.value >= m.howBig)
            BY <1>3, <2>1
        <3>. QED  BY <3>1 DEF NextTurn
    <2>. QED  BY <1>3, <2>2 DEF Loops
<1>4. ASSUME NEW i \in 1..k, i - 1 \in S PROVE i \in S
    <2>. DEFINE m == f[i - 1]
    <2>1. /\ f[i] = NextTurn(m, 0) /\ m \in Loops /\ m.kind = l.kind /\ m.howBig = l.howBig
          /\ m.value = l.value /\ m.position = Pow2[k - (i - 1)]
        BY <1>0, <1>1, <1>4 DEF Turning
    <2>. HIDE DEF m
    <2>2. /\ f[i].kind = l.kind /\ f[i].howBig = l.howBig /\ f[i].value = l.value
          /\ f[i].position = m.position \div 2
        BY <1>3, <2>1
    <2>3. k - (i - 1) \in Nat \ {0} /\ (k - (i - 1)) - 1 = k - i /\ k - i \in Nat
        BY <1>0
    <2>4. Pow2[k - (i - 1)] = 2 * Pow2[k - i] /\ Pow2[k - i] \in Nat
        BY <2>3, Pow2Step, Pow2Def
    <2>5. m.position \div 2 = Pow2[k - i]
        BY <2>1, <2>4
    <2>. QED  BY <2>2, <2>5
<1>5. 0..k \subseteq S
    <2>. HIDE DEF S
    <2>. QED  BY <1>0, <1>2, <1>4, InductionUpTo
<1>6. /\ f[k + 1] = NextTurn(f[k], 0) /\ f[k] \in Loops /\ f[k].kind = l.kind
      /\ f[k].howBig = l.howBig /\ f[k].value = l.value /\ f[k].position = 1
    <2>1. k \in S /\ k - k = 0 /\ k + 1 \in 1..k + 1 /\ (k + 1) - 1 = k
        BY <1>0, <1>5
    <2>. QED  BY <1>0, <1>1, <2>1 DEF Turning
<1>7. f[k + 1].position = 1 \div 2
    BY <1>3, <1>6
<1>. QED  BY <1>1, <1>7

(* A loop that leaves the range of a long never ends. *)
LEMMA EndlessGoesOn ==
    ASSUME NEW l \in Turning, LeavesRange(l.howBig),
           l.kind = IF l.howBig = LongMin THEN "power" ELSE "retry",
           l.value <= 0, l.position < 0, NEW n \in Nat
    PROVE  AfterZeros(l, n).position < 0
<1>1. PICK f \in [0..n -> Turning] : /\ f[0] = l
                                     /\ \A i \in 1..n : f[i] = NextTurn(f[i - 1], 0)
                                     /\ AfterZeros(l, n) = f[n]
    BY AfterZerosDef
<1>. DEFINE S == {i \in 0..n : /\ f[i].kind = l.kind /\ f[i].howBig = l.howBig
                               /\ f[i].value <= 0 /\ f[i].position < 0}
<1>2. 0 \in S
    BY <1>1
<1>3. ASSUME NEW i \in 1..n, i - 1 \in S PROVE i \in S
    <2>. DEFINE m == f[i - 1]
    <2>1. /\ f[i] = NextTurn(m, 0) /\ m \in Loops /\ m.kind = l.kind /\ m.howBig = l.howBig
          /\ m.value <= 0 /\ m.position < 0 /\ m.howBig \in Longs
        BY <1>1, <1>3 DEF Turning
    <2>. HIDE DEF m
    <2>2. /\ NextTurn(m, 0).kind = m.kind /\ NextTurn(m, 0).howBig = m.howBig
          /\ NextTurn(m, 0).value <= 0 /\ NextTurn(m, 0).position < 0
        BY <2>1, NextTurnEndless
    <2>. QED  BY <2>1, <2>2
<1>4. 0..n \subseteq S
    <2>. HIDE DEF S
    <2>. QED  BY <1>2, <1>3, InductionUpTo
<1>. QED  BY <1>1, <1>4
(* Wherever a loop is, the bits a long has can end it, or none do.            *)
LEMMA LoopCanReturn ==
    ASSUME TrueInv, phase \in {"draw", "use"}
    PROVE  (\E n \in 1..LongBits : AfterZeros(loop, n).position = 0)
               <=> ~LeavesRange(loop.howBig)
<1>. DEFINE p == Pow2[LongBits - 2]
<1>0. /\ p \in Nat /\ p >= 4 /\ LongMax = 2 * p - 1 /\ LongMin = -2 * p
      /\ LongBits \in Nat /\ LongBits >= 4 /\ loop \in Loops
    <2>1. loop \in Loops
        BY DEF TrueInv, BitsInv
    <2>2. LongBits \in Nat /\ LongBits >= 4
        BY BitsAssumption
    <2>. QED  BY <2>1, <2>2, LongFacts
<1>1. CASE WordInv
    <2>. DEFINE k == loop.position
    <2>1. k \in 0..LongBits - 1 /\ k # 0 /\ loop.kind = "word" /\ loop.howBig = 0
        BY <1>1 DEF TrueInv, PhaseInv, NegativeInv, WordInv
    <2>2. k \in Nat /\ k \in 1..LongBits /\ loop.position = k
        BY <1>0, <2>1
    <2>3. ~LeavesRange(loop.howBig) /\ loop \in Turning
        <3>1. 0 # LongMin /\ ~(0 > Pow2[LongBits - 2]) /\ 0 \in Longs
            BY <1>0 DEF Longs
        <3>. QED  BY <1>0, <2>1, <3>1 DEF LeavesRange, Turning
    <2>. HIDE DEF k
    <2>4. AfterZeros(loop, k).position = 0
        BY <2>1, <2>2, <2>3, WordEnds
    <2>. QED  BY <2>2, <2>3, <2>4
<1>2. CASE BelowInv
    <2>1. /\ loop.howBig \in 1..LongMax /\ ~LeavesRange(loop.howBig) /\ loop.kind # "word"
          /\ loop.value < loop.howBig /\ loop.position \in Positions \cup {0}
          /\ loop.position # 0
        BY <1>2 DEF TrueInv, PhaseInv, NegativeInv, BelowInv
    <2>2. PICK k \in 0..LongBits - 2 : loop.position = Pow2[k]
        BY <2>1 DEF Positions
    <2>3. loop \in Turning
        BY <1>0, <2>1 DEF Turning, Longs
    <2>4. AfterZeros(loop, k + 1).position = 0
        BY <2>1, <2>2, <2>3, BelowEnds
    <2>5. k + 1 \in 1..LongBits
        BY <1>0
    <2>. QED  BY <2>1, <2>4, <2>5
<1>3. CASE NegativeInv
    <2>. DEFINE h == loop.howBig
    <2>1. /\ h \in LongMin + 1..-1 /\ loop.kind = "retry" /\ loop.value = 0
        BY <1>3 DEF NegativeInv
    <2>2. h \in Int /\ LongMin + 1 <= h /\ h < 0 /\ h \in Longs /\ h # 0 /\ h # LongMin
        BY <1>0, <2>1 DEF Longs
    <2>3. ~LeavesRange(h) /\ h \notin 1..LongMax
        BY <1>0, <2>2 DEF LeavesRange
    <2>4. BelowLoop(h).position = 0
        BY <2>2, <2>3, BelowBegins
    <2>5. NextTurn(loop, 0) = BelowLoop(h)
        <3>1. 0 >= h /\ loop.kind # "word"
            BY <2>1, <2>2
        <3>. QED  BY <2>1, <3>1 DEF NextTurn
    <2>6. loop \in Turning
        BY <1>0, <2>1, <2>2 DEF Turning
    <2>. HIDE DEF h
    <2>. DEFINE k == 1
    <2>7. k \in Nat /\ k \in 1..k /\ k - 1 = 0
        OBVIOUS
    <2>. HIDE DEF k
    <2>8. AfterZeros(loop, k) = NextTurn(loop, 0)
        <3>1. PICK f \in [0..k -> Turning] : /\ f[0] = loop
                                             /\ \A i \in 1..k : f[i] = NextTurn(f[i - 1], 0)
                                             /\ AfterZeros(loop, k) = f[k]
            BY <2>6, <2>7, AfterZerosDef
        <3>2. f[k] = NextTurn(f[k - 1], 0)
            BY <2>7, <3>1
        <3>. QED  BY <2>7, <3>1, <3>2
    <2>9. k \in 1..LongBits
        BY <1>0 DEF k
    <2>. QED  BY <2>3, <2>4, <2>5, <2>8, <2>9 DEF h
<1>4. CASE EndlessInv
    <2>1. /\ LeavesRange(loop.howBig) /\ loop.howBig \in Longs
          /\ loop.kind = IF loop.howBig = LongMin THEN "power" ELSE "retry"
          /\ loop.value <= 0 /\ loop.position < 0
        BY <1>4 DEF EndlessInv
    <2>2. ~LeavesRange(0)
        BY <1>0 DEF LeavesRange
    <2>3. loop \in Turning
        BY <1>0, <2>1, <2>2 DEF Turning
    <2>4. \A n \in 1..LongBits : AfterZeros(loop, n).position < 0
        BY <2>1, <2>3, EndlessGoesOn
    <2>. QED  BY <2>1, <2>4
<1>. QED  BY <1>1, <1>2, <1>3, <1>4 DEF TrueInv, LoopInv

(* From wherever a loop is so many bits as a long has can end it, so that an  *)
(* input whose bits are independent ends it, for all bounds but those that    *)
(* leave the range of a long: random(LONG_MIN), and random(h) for an h above  *)
(* 2^30 that is no power of 2.  No bits that follow one another as 0 end      *)
(* these.                                                                     *)
THEOREM CanEnd == TrueSpec => []CanReturn
<1>1. TrueInv => CanReturn
    BY LoopCanReturn DEF CanReturn
<1>. QED  BY <1>1, TrueRandomInvariant, PTL
-----------------------------------------------------------------------------
(* Either platform's source is a behaviour of both: the one it has runs, the  *)
(* other one stays as it began.  So everything above holds of the program,    *)
(* whatever it is built for.                                                  *)
THEOREM PlatformHasBoth == PlatformSpec => Spec /\ TrueSpec
<1>1. PlatformInit => Init /\ TrueInit
    BY DEF PlatformInit
<1>2. [PlatformNext]_platformVars => [Next]_vars /\ [TrueNext]_trueVars
    BY DEF PlatformNext, OnOs, OnEsp8266, platformVars
<1>. QED  BY <1>1, <1>2, PTL DEF PlatformSpec, Spec, TrueSpec
=============================================================================
