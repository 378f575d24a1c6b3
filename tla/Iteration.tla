----------------------------- MODULE Iteration ------------------------------
(***************************************************************************)
(* Induction on the natural numbers, and functions defined by recursion on *)
(* them, for the loops of the program that the specifications write as     *)
(* such functions.                                                         *)
(*                                                                         *)
(* Both are stated for sets.  The library states them for operators, which *)
(* the provers cannot be given; here they follow from the least element of *)
(* a set of numbers.                                                       *)
(***************************************************************************)
EXTENDS Integers, WellFoundedInduction, NaturalsInduction, TLAPS

\* A set of numbers that is not empty has a least one.
LEMMA LeastNumber ==
    ASSUME NEW T, T \subseteq Nat, T # {}
    PROVE  \E x \in T : \A y \in T : ~ (y < x)
<1>1. PICK x \in T : \A y \in T : <<y, x>> \notin OpToRel(<, Nat)
    BY NatLessThanWellFounded, WFMin, Zenon
<1>2. \A y \in T : y < x => <<y, x>> \in OpToRel(<, Nat)
    BY Zenon DEF OpToRel
<1> QED BY <1>1, <1>2, Zenon

\* Induction, for the set of the numbers that have a property.
LEMMA Induction ==
    ASSUME NEW T, 0 \in T, \A n \in Nat : n \in T => n + 1 \in T
    PROVE  \A n \in Nat : n \in T
<1> SUFFICES ASSUME Nat \ T # {} PROVE FALSE
    OBVIOUS
<1>1. PICK x \in Nat \ T : \A y \in Nat \ T : ~(y < x)
    BY LeastNumber
<1>2. x # 0 /\ x - 1 \in Nat /\ x - 1 \notin T
    OBVIOUS
<1> QED BY <1>1, <1>2

\* f holds the first n + 1 values of the iteration.
IsRun(f, n, first, step) ==
    /\ f = [i \in 0..n |-> f[i]]
    /\ f[0] = first
    /\ \A i \in 0..n - 1 : f[i + 1] = step[<<i, f[i]>>]

\* Two runs of the same steps agree as far as both go.
LEMMA RunsAgree ==
    ASSUME NEW first, NEW step, NEW n \in Nat, NEW m \in Nat,
           NEW f, IsRun(f, n, first, step), NEW h, IsRun(h, m, first, step)
    PROVE  \A i \in Nat : i <= n /\ i <= m => f[i] = h[i]
<1> DEFINE T == {i \in Nat : i <= n /\ i <= m => f[i] = h[i]}
<1>1. 0 \in T
    BY DEF IsRun
<1>2. ASSUME NEW i \in Nat, i \in T PROVE i + 1 \in T
    <2> SUFFICES ASSUME i + 1 <= n, i + 1 <= m PROVE f[i + 1] = h[i + 1]
        OBVIOUS
    <2>1. i \in 0..n - 1 /\ i \in 0..m - 1 /\ f[i] = h[i]
        BY <1>2
    <2> QED BY <2>1 DEF IsRun
<1>3. \A i \in Nat : i \in T
    <2> HIDE DEF T
    <2> QED BY <1>1, <1>2, Induction
<1> QED BY <1>3

\* There are runs of every length.
LEMMA RunsExist ==
    ASSUME NEW S, NEW first \in S, NEW step \in [Nat \X S -> S]
    PROVE  \A n \in Nat : \E f : IsRun(f, n, first, step) /\ f[n] \in S
<1> DEFINE T == {n \in Nat : \E f : IsRun(f, n, first, step) /\ f[n] \in S}
<1>1. 0 \in T
    <2>1. IsRun([i \in 0..0 |-> first], 0, first, step)
        BY DEF IsRun
    <2> QED BY <2>1
<1>2. ASSUME NEW n \in Nat, n \in T PROVE n + 1 \in T
    <2>1. PICK f : IsRun(f, n, first, step) /\ f[n] \in S
        BY <1>2
    <2>2. PICK e \in S : e = step[<<n, f[n]>>]
        BY <2>1
    <2> DEFINE h == [i \in 0..(n + 1) |-> IF i = n + 1 THEN e ELSE f[i]]
    <2>3. h[n + 1] = e /\ h[0] = first /\ \A i \in 0..n : h[i] = f[i]
        BY <2>1 DEF IsRun
    <2>4. \A i \in 0..n : h[i + 1] = step[<<i, h[i]>>]
        <3> SUFFICES ASSUME NEW i \in 0..n PROVE h[i + 1] = step[<<i, h[i]>>]
            OBVIOUS
        <3>1. CASE i = n
            BY <3>1, <2>2, <2>3
        <3>2. CASE i # n
            <4>1. i \in 0..n - 1 /\ i + 1 \in 0..n
                BY <3>2
            <4>2. f[i + 1] = step[<<i, f[i]>>]
                BY <4>1, <2>1 DEF IsRun
            <4>3. h[i + 1] = f[i + 1] /\ h[i] = f[i]
                BY <4>1, <2>3
            <4> QED BY <4>2, <4>3
        <3> QED BY <3>1, <3>2
    <2>5. h = [i \in 0..(n + 1) |-> h[i]]
        OBVIOUS
    <2> HIDE DEF h
    <2>6. IsRun(h, n + 1, first, step)
        <3>1. 0..(n + 1) - 1 = 0..n
            OBVIOUS
        <3> QED BY <2>3, <2>4, <2>5, <3>1 DEF IsRun
    <2> QED BY <2>3, <2>6
<1> QED BY <1>1, <1>2, Induction

\* f holds all of them.
Iterates(f, S, first, step) ==
    /\ f \in [Nat -> S]
    /\ f[0] = first
    /\ \A n \in Nat : f[n + 1] = step[<<n, f[n]>>]

\* A step from S to S can be iterated for ever.
LEMMA Iteration ==
    ASSUME NEW S, NEW first \in S, NEW step \in [Nat \X S -> S]
    PROVE  \E f : Iterates(f, S, first, step)
<1> DEFINE Run(n) == CHOOSE f : IsRun(f, n, first, step) /\ f[n] \in S
<1>1. \A n \in Nat : IsRun(Run(n), n, first, step) /\ Run(n)[n] \in S
    BY RunsExist
<1> HIDE DEF Run
<1> DEFINE f == [n \in Nat |-> Run(n)[n]]
<1>2. f \in [Nat -> S]
    BY <1>1
<1>3. f[0] = first
    BY <1>1 DEF IsRun
<1>4. ASSUME NEW n \in Nat PROVE f[n + 1] = step[<<n, f[n]>>]
    <2>1. Run(n + 1)[n + 1] = step[<<n, Run(n + 1)[n]>>]
        BY <1>1 DEF IsRun
    <2>2. Run(n + 1)[n] = Run(n)[n]
        BY <1>1, RunsAgree
    <2> QED BY <2>1, <2>2
<1> QED BY <1>2, <1>3, <1>4 DEF Iterates

=============================================================================
