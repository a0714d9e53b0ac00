--------------------------- MODULE RecursionLemmas --------------------------
(***************************************************************************)
(* Induction over the natural numbers, and that recursive functions over   *)
(* them exist, stated with sets and functions (and no operator parameter), *)
(* as the proofs of the other modules use them.                            *)
(***************************************************************************)
EXTENDS Integers, TLAPS, WellFoundedInduction, NaturalsInduction

LEMMA LessIsWellFounded == IsWellFoundedOn({p \in Nat \X Nat : p[1] < p[2]}, Nat)
BY NatLessThanWellFounded, Zenon DEF OpToRel

(* A set of numbers that has 0, and n + 1 with every n, has them all. *)
THEOREM Induction ==
    ASSUME NEW S, 0 \in S, \A n \in Nat : n \in S => n + 1 \in S
    PROVE  Nat \subseteq S
<1>. DEFINE T == {n \in Nat : n \notin S}
            R == {p \in Nat \X Nat : p[1] < p[2]}
<1>. SUFFICES ASSUME T # {} PROVE FALSE
    OBVIOUS
<1>1. PICK x \in T : \A y \in T : <<y, x>> \notin R
    <2>. HIDE DEF R
    <2>1. IsWellFoundedOn(R, Nat)
        BY LessIsWellFounded DEF R
    <2>. QED  BY <2>1, WFMin
<1>2. x # 0 /\ x - 1 \in Nat /\ x \in Nat /\ x - 1 < x
    OBVIOUS
<1>3. <<x - 1, x>> \in R
    BY <1>2
<1>4. x - 1 \notin T
    BY <1>1, <1>3
<1>. QED  BY <1>2, <1>4

(* So for the numbers up to m. *)
THEOREM InductionUpTo ==
    ASSUME NEW S, NEW m \in Nat, 0 \in S, \A i \in 1..m : i - 1 \in S => i \in S
    PROVE  0..m \subseteq S
<1>. DEFINE T == {n \in Nat : n <= m => n \in S}
<1>1. 0 \in T
    OBVIOUS
<1>2. ASSUME NEW n \in Nat, n \in T PROVE n + 1 \in T
    <2>. SUFFICES ASSUME n + 1 <= m PROVE n + 1 \in S
        OBVIOUS
    <2>1. n \in S /\ n + 1 \in 1..m /\ (n + 1) - 1 = n
        BY <1>2
    <2>. QED  BY <2>1
<1>3. Nat \subseteq T
    <2>. HIDE DEF T
    <2>. QED  BY <1>1, <1>2, Induction
<1>. QED  BY <1>3

(* So has a set that has every n below which it has every number. *)
THEOREM StrongInduction ==
    ASSUME NEW S, \A n \in Nat : (\A k \in 0..n - 1 : k \in S) => n \in S
    PROVE  Nat \subseteq S
<1>. DEFINE T == {n \in Nat : \A k \in 0..n - 1 : k \in S}
<1>1. 0 \in T
    OBVIOUS
<1>2. ASSUME NEW n \in Nat, n \in T PROVE n + 1 \in T
    <2>1. n \in S
        BY <1>2
    <2>2. \A k \in 0..(n + 1) - 1 : k \in 0..n - 1 \/ k = n
        OBVIOUS
    <2>. QED  BY <1>2, <2>1, <2>2
<1>3. Nat \subseteq T
    <2>. HIDE DEF T
    <2>. QED  BY <1>1, <1>2, Induction
<1>. QED  BY <1>3

-----------------------------------------------------------------------------
(* A function defined by the value it has at a smaller number exists: of    *)
(* the functions that satisfy the definition up to n, for each n, any two   *)
(* agree, and their values at n make the one that satisfies it everywhere.  *)

LEMMA Below ==
    ASSUME NEW n \in Nat, NEW p \in Nat, p < n
    PROVE  p \in 0..n - 1 /\ \A k \in Nat : n <= k => p <= k /\ p \in 0..k
OBVIOUS

\* f satisfies the definition for the numbers up to m.
Satisfies(f, m, B, base, pre, step) ==
    \A n \in 0..m : f[n] = IF n \in B THEN base[n] ELSE step[<<n, f[pre[n]]>>]

\* The parts of such a definition: the numbers B it gives the value of outright,
\* the smaller number of every other, and the value in A it makes of that one's.
Recursive(A, B, base, pre, step) ==
    /\ B \in SUBSET Nat
    /\ base \in [Nat -> A]
    /\ pre \in [Nat -> Nat]
    /\ \A n \in Nat \ B : pre[n] < n
    /\ step \in [Nat \X A -> A]

LEMMA Extend ==
    ASSUME NEW A, NEW B \in SUBSET Nat, NEW base \in [Nat -> A],
           NEW pre \in [Nat -> Nat], \A n \in Nat \ B : pre[n] < n,
           NEW step \in [Nat \X A -> A], NEW m \in Nat, 0 \in B,
           NEW g \in [0..m -> A], Satisfies(g, m, B, base, pre, step)
    PROVE  \E f \in [0..m + 1 -> A] : Satisfies(f, m + 1, B, base, pre, step)
<1>. DEFINE v == IF m + 1 \in B THEN base[m + 1] ELSE step[<<m + 1, g[pre[m + 1]]>>]
            f == [n \in 0..m + 1 |-> IF n = m + 1 THEN v ELSE g[n]]
<1>1. ASSUME NEW n \in 0..m + 1, n \notin B
      PROVE  pre[n] \in 0..m /\ f[pre[n]] = g[pre[n]]
    <2>1. pre[n] \in Nat /\ pre[n] < n
        BY <1>1
    <2>2. pre[n] \in 0..m /\ pre[n] # m + 1
        BY <2>1
    <2>. QED  BY <2>2
<1>2. v \in A
    <2>1. CASE m + 1 \in B
        BY <2>1
    <2>2. CASE m + 1 \notin B
        <3>1. m + 1 \in Nat /\ g[pre[m + 1]] \in A
            BY <1>1, <2>2
        <3>2. step[<<m + 1, g[pre[m + 1]]>>] \in A
            BY <3>1
        <3>. QED  BY <2>2, <3>2
    <2>. QED  BY <2>1, <2>2
<1>3. f \in [0..m + 1 -> A]
    <2>1. ASSUME NEW n \in 0..m + 1, n # m + 1 PROVE g[n] \in A
        <3>1. n \in 0..m
            BY <2>1
        <3>. QED  BY <3>1
    <2>. HIDE DEF v
    <2>. QED  BY <1>2, <2>1
<1>4. ASSUME NEW n \in 0..m + 1
      PROVE  f[n] = IF n \in B THEN base[n] ELSE step[<<n, f[pre[n]]>>]
    <2>1. CASE n = m + 1
        BY <1>1, <2>1
    <2>2. CASE n # m + 1
        <3>1. n \in 0..m /\ f[n] = g[n]
            BY <2>2
        <3>2. g[n] = IF n \in B THEN base[n] ELSE step[<<n, g[pre[n]]>>]
            BY <3>1 DEF Satisfies
        <3>. HIDE DEF f
        <3>. QED  BY <1>1, <3>1, <3>2
    <2>. QED  BY <2>1, <2>2
<1>5. Satisfies(f, m + 1, B, base, pre, step)
    <2>. HIDE DEF f
    <2>. QED  BY <1>4 DEF Satisfies
<1>. HIDE DEF f
<1>. QED  BY <1>3, <1>5

THEOREM Recursion ==
    ASSUME NEW A, NEW B, NEW base, NEW pre, NEW step,
           Recursive(A, B, base, pre, step)
    PROVE  \E f \in [Nat -> A] : \A n \in Nat :
               f[n] = IF n \in B THEN base[n] ELSE step[<<n, f[pre[n]]>>]
<1>. /\ B \in SUBSET Nat
     /\ base \in [Nat -> A]
     /\ pre \in [Nat -> Nat]
     /\ \A n \in Nat \ B : pre[n] < n
     /\ step \in [Nat \X A -> A]
    BY DEF Recursive
<1>1. \A p \in Nat : \A k, m \in Nat :
          \A f \in [0..k -> A], g \in [0..m -> A] :
              /\ p <= k /\ p <= m
              /\ Satisfies(f, k, B, base, pre, step)
              /\ Satisfies(g, m, B, base, pre, step)
              => f[p] = g[p]
    <2>. DEFINE S == {n \in Nat : \A k, m \in Nat :
                          \A f \in [0..k -> A], g \in [0..m -> A] :
                              /\ n <= k /\ n <= m
                              /\ Satisfies(f, k, B, base, pre, step)
                              /\ Satisfies(g, m, B, base, pre, step)
                              => f[n] = g[n]}
    <2>1. ASSUME NEW n \in Nat, \A i \in 0..n - 1 : i \in S PROVE n \in S
        <3>. SUFFICES ASSUME NEW k \in Nat, NEW m \in Nat, n <= k, n <= m,
                             NEW f \in [0..k -> A], NEW g \in [0..m -> A],
                             Satisfies(f, k, B, base, pre, step),
                             Satisfies(g, m, B, base, pre, step)
                      PROVE  f[n] = g[n]
            OBVIOUS
        <3>. n \in 0..k /\ n \in 0..m
            OBVIOUS
        <3>1. /\ f[n] = IF n \in B THEN base[n] ELSE step[<<n, f[pre[n]]>>]
              /\ g[n] = IF n \in B THEN base[n] ELSE step[<<n, g[pre[n]]>>]
            BY Zenon DEF Satisfies
        <3>2. ASSUME n \notin B PROVE f[pre[n]] = g[pre[n]]
            <4>1. pre[n] \in 0..n - 1 /\ pre[n] <= k /\ pre[n] <= m
                <5>1. pre[n] \in Nat /\ pre[n] < n
                    BY <3>2
                <5>. QED  BY <5>1, Below
            <4>2. pre[n] \in S
                BY <2>1, <4>1
            <4>3. \A p \in S : p <= k /\ p <= m => f[p] = g[p]
                OBVIOUS
            <4>. QED  BY <4>1, <4>2, <4>3, Zenon
        <3>. QED  BY <3>1, <3>2
    <2>2. Nat \subseteq S
        <3>. HIDE DEF S
        <3>. QED  BY <2>1, StrongInduction
    <2>. QED  BY <2>2
<1>. DEFINE S == {m \in Nat :
                      \E f \in [0..m -> A] : Satisfies(f, m, B, base, pre, step)}
            F(m) == CHOOSE f \in [0..m -> A] : Satisfies(f, m, B, base, pre, step)
            h == [n \in Nat |-> F(n)[n]]
<1>2. 0 \in B
    <2>. SUFFICES ASSUME 0 \notin B PROVE FALSE
        OBVIOUS
    <2>. QED  OBVIOUS
<1>3. Nat \subseteq S
    <2>1. 0 \in S
        <3>. DEFINE f == [n \in 0..0 |-> base[n]]
        <3>1. f \in [0..0 -> A]
            OBVIOUS
        <3>2. Satisfies(f, 0, B, base, pre, step)
            BY <1>2 DEF Satisfies
        <3>. HIDE DEF f
        <3>. QED  BY <3>1, <3>2
    <2>2. ASSUME NEW m \in Nat, m \in S PROVE m + 1 \in S
        <3>1. PICK g \in [0..m -> A] : Satisfies(g, m, B, base, pre, step)
            BY <2>2
        <3>2. PICK f \in [0..m + 1 -> A] : Satisfies(f, m + 1, B, base, pre, step)
            BY <1>2, <3>1, Extend
        <3>. QED  BY <3>2
    <2>. HIDE DEF S
    <2>. QED  BY <2>1, <2>2, Induction
<1>4. \A m \in Nat : F(m) \in [0..m -> A] /\ Satisfies(F(m), m, B, base, pre, step)
    BY <1>3
<1>. HIDE DEF F
<1>5. h \in [Nat -> A]
    BY <1>4
<1>6. ASSUME NEW n \in Nat
      PROVE  h[n] = IF n \in B THEN base[n] ELSE step[<<n, h[pre[n]]>>]
    <2>1. F(n)[n] = IF n \in B THEN base[n] ELSE step[<<n, F(n)[pre[n]]>>]
        <3>1. Satisfies(F(n), n, B, base, pre, step) /\ n \in 0..n
            BY <1>4
        <3>. QED  BY <3>1 DEF Satisfies
    <2>2. ASSUME n \notin B PROVE F(n)[pre[n]] = F(pre[n])[pre[n]]
        <3>1. pre[n] \in Nat /\ pre[n] < n
            BY <2>2
        <3>2. pre[n] <= n /\ pre[n] <= pre[n]
            BY <3>1
        <3>. DEFINE q == pre[n]
        <3>3. /\ F(n) \in [0..n -> A] /\ Satisfies(F(n), n, B, base, pre, step)
              /\ F(q) \in [0..q -> A] /\ Satisfies(F(q), q, B, base, pre, step)
            BY <1>4, <3>1
        <3>4. q \in Nat /\ n \in Nat /\ q <= n /\ q <= q
            BY <3>1, <3>2
        <3>. HIDE DEF q
        <3>5. F(n)[q] = F(q)[q]
            BY <1>1, <3>3, <3>4, Zenon
        <3>. QED  BY <3>5 DEF q
    <2>3. n \notin B => pre[n] \in Nat
        OBVIOUS
    <2>. QED  BY <2>1, <2>2, <2>3
<1>. HIDE DEF h
<1>. QED  BY <1>5, <1>6

(* So does a function along 0..m that makes each value of the one before.    *)
Along(A, m, a, step) ==
    m \in Nat /\ a \in A /\ step \in [(1..m) \X A -> A]

THEOREM ListRecursion ==
    ASSUME NEW A, NEW m, NEW a, NEW step, Along(A, m, a, step)
    PROVE  \E f \in [0..m -> A] :
               /\ f[0] = a
               /\ \A i \in 1..m : f[i] = step[<<i, f[i - 1]>>]
<1>. m \in Nat /\ a \in A /\ step \in [(1..m) \X A -> A]
    BY DEF Along
<1>. DEFINE base == [n \in Nat |-> a]
            pre == [n \in Nat |-> IF n = 0 THEN 0 ELSE n - 1]
            next == [p \in Nat \X A |-> IF p[1] \in 1..m THEN step[p] ELSE a]
<1>1. Recursive(A, {0}, base, pre, next)
    <2>1. base \in [Nat -> A] /\ {0} \in SUBSET Nat
        OBVIOUS
    <2>2. pre \in [Nat -> Nat] /\ \A n \in Nat \ {0} : pre[n] < n
        OBVIOUS
    <2>3. next \in [Nat \X A -> A]
        OBVIOUS
    <2>. HIDE DEF base, pre, next
    <2>. QED  BY <2>1, <2>2, <2>3 DEF Recursive
<1>2. PICK g \in [Nat -> A] : \A n \in Nat :
          g[n] = IF n \in {0} THEN base[n] ELSE next[<<n, g[pre[n]]>>]
    <2>. HIDE DEF base, pre, next
    <2>. QED  BY <1>1, Recursion
<1>. DEFINE f == [i \in 0..m |-> g[i]]
<1>3. f \in [0..m -> A] /\ f[0] = a
    <2>1. g[0] = a
        BY <1>2
    <2>. QED  BY <2>1
<1>4. ASSUME NEW i \in 1..m PROVE f[i] = step[<<i, f[i - 1]>>]
    <2>1. i \in Nat /\ i # 0 /\ i - 1 \in Nat /\ i \in 0..m /\ i - 1 \in 0..m
        OBVIOUS
    <2>2. g[i] = next[<<i, g[i - 1]>>] /\ g[i - 1] \in A
        <3>1. pre[i] = i - 1
            BY <2>1
        <3>. HIDE DEF base, pre, next
        <3>2. g[i] = next[<<i, g[pre[i]]>>]
            BY <1>2, <2>1
        <3>. QED  BY <2>1, <3>1, <3>2
    <2>. QED  BY <2>1, <2>2
<1>. HIDE DEF f
<1>. QED  BY <1>3, <1>4
=============================================================================
