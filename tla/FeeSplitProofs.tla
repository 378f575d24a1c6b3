--------------------------- MODULE FeeSplitProofs ---------------------------
(***************************************************************************)
(* Proofs about FeeSplit, for any accounts, shares, fees and payers' funds.*)
(*                                                                         *)
(* The loops of distribute_fee are recursive functions on numbers: that    *)
(* they have values at all, and what these are, comes from Iteration.      *)
(***************************************************************************)
EXTENDS FeeSplit, Iteration, FiniteSetTheorems, TLAPS

-----------------------------------------------------------------------------
(***************************************************************************)
(* Totals.                                                                 *)
(***************************************************************************)
Value(f, k) == IF k \in DOMAIN f THEN f[k] ELSE 0

IntValued(f) == \A k \in DOMAIN f : f[k] \in Int

\* A total grows by each value in turn.
LEMMA TotalSteps ==
    ASSUME NEW f, IntValued(f)
    PROVE  /\ TotalUpTo(f) \in [Nat -> Int]
           /\ TotalUpTo(f)[0] = 0
           /\ \A k \in Nat : TotalUpTo(f)[k + 1] = TotalUpTo(f)[k] + Value(f, k + 1)
<1> DEFINE step == [p \in Nat \X Int |-> p[2] + Value(f, p[1] + 1)]
           body(s) == [k \in Nat |-> IF k = 0 THEN 0
                                     ELSE s[k - 1] + (IF k \in DOMAIN f THEN f[k] ELSE 0)]
           t == TotalUpTo(f)
<1>1. step \in [Nat \X Int -> Int]
    BY DEF Value, IntValued
<1>2. PICK h : Iterates(h, Int, 0, step)
    <2> HIDE DEF step
    <2>1. 0 \in Int
        OBVIOUS
    <2> QED BY <1>1, <2>1, Iteration, Zenon
<1>3. /\ h \in [Nat -> Int]
      /\ h[0] = 0
      /\ \A k \in Nat : h[k + 1] = h[k] + Value(f, k + 1)
    BY <1>2 DEF Iterates
<1>4. h = body(h)
    <2>1. \A k \in Nat : h[k] = body(h)[k]
        <3> SUFFICES ASSUME NEW k \in Nat, k # 0 PROVE h[k] = body(h)[k]
            BY <1>3
        <3>1. k - 1 \in Nat /\ (k - 1) + 1 = k
            OBVIOUS
        <3> QED BY <3>1, <1>3 DEF Value
    <2> QED BY <2>1, <1>3
<1>5. t = CHOOSE s : s = body(s)
    BY Zenon DEF TotalUpTo
<1>6. t = body(t)
    <2> HIDE DEF body
    <2> QED BY <1>4, <1>5, Zenon
<1> HIDE DEF t
<1>7. t[0] = 0 /\ \A k \in Nat : t[k + 1] = t[k] + Value(f, k + 1)
    BY <1>6 DEF Value
<1> DEFINE T == {k \in Nat : t[k] \in Int}
<1>8. \A k \in Nat : k \in T
    <2>1. 0 \in T /\ \A k \in Nat : k \in T => k + 1 \in T
        BY <1>7 DEF Value, IntValued
    <2> HIDE DEF T
    <2> QED BY <2>1, Induction
<1>9. t \in [Nat -> Int]
    BY <1>6, <1>8
<1> QED BY <1>7, <1>9 DEF t

\* A total of numbers that are not negative does not go down.
LEMMA TotalsGrow ==
    ASSUME NEW f, \A k \in DOMAIN f : f[k] \in Nat
    PROVE  \A k, n \in Nat : TotalUpTo(f)[k] \in Nat
                             /\ (k <= n => TotalUpTo(f)[k] <= TotalUpTo(f)[n])
<1> DEFINE t == TotalUpTo(f)
<1>1. /\ t \in [Nat -> Int] /\ t[0] = 0
      /\ \A k \in Nat : Value(f, k + 1) \in Nat /\ t[k + 1] = t[k] + Value(f, k + 1)
    BY TotalSteps DEF Value, IntValued
<1> HIDE DEF t
<1> DEFINE T == {k \in Nat : t[k] \in Nat /\ \A j \in Nat : j <= k => t[j] <= t[k]}
<1>2. 0 \in T
    BY <1>1
<1>3. ASSUME NEW k \in Nat, k \in T PROVE k + 1 \in T
    <2>1. t[k + 1] \in Nat /\ t[k] <= t[k + 1] /\ t[k] \in Nat
        BY <1>1, <1>3
    <2>2. ASSUME NEW j \in Nat, j <= k + 1 PROVE t[j] <= t[k + 1]
        <3>1. CASE j <= k
            <4>1. t[j] <= t[k] /\ t[j] \in Int
                BY <3>1, <1>1, <1>3
            <4> QED BY <4>1, <2>1
        <3>2. CASE j = k + 1
            BY <3>2, <2>1
        <3> QED BY <2>2, <3>1, <3>2
    <2> QED BY <2>1, <2>2
<1>4. \A k \in Nat : k \in T
    <2> HIDE DEF T
    <2> QED BY <1>2, <1>3, Induction
<1> QED BY <1>4 DEF t

\* What is added to one value is added to the total.
LEMMA TotalExcept ==
    ASSUME NEW f, IntValued(f), NEW a \in Payees, a \in DOMAIN f, NEW d \in Int,
           NEW h, h = [f EXCEPT ![a] = f[a] + d]
    PROVE  Total(h) = Total(f) + d
<1>1. /\ IntValued(h)
      /\ \A k \in Nat : Value(h, k) = Value(f, k) + (IF k = a THEN d ELSE 0)
    BY DEF IntValued, Value, Payees
<1> DEFINE t == TotalUpTo(f)
           u == TotalUpTo(h)
<1>2. /\ t \in [Nat -> Int] /\ t[0] = 0
      /\ \A k \in Nat : t[k + 1] = t[k] + Value(f, k + 1)
    BY TotalSteps
<1>3. /\ u \in [Nat -> Int] /\ u[0] = 0
      /\ \A k \in Nat : u[k + 1] = u[k] + Value(h, k + 1)
    BY <1>1, TotalSteps
<1>4. \A k \in Nat : Value(f, k) \in Int
    BY DEF Value, IntValued
<1> HIDE DEF t, u
<1> DEFINE T == {k \in Nat : u[k] = t[k] + (IF a <= k THEN d ELSE 0)}
<1>5. a \in Nat /\ 1 <= a /\ a <= NumAccounts
    BY AccountsAssumption DEF Payees
<1>6. 0 \in T
    BY <1>2, <1>3, <1>5
<1>7. ASSUME NEW k \in Nat, k \in T PROVE k + 1 \in T
    <2>1. Value(h, k + 1) = Value(f, k + 1) + (IF k + 1 = a THEN d ELSE 0)
        <3>1. k + 1 \in Nat
            OBVIOUS
        <3> QED BY <1>1, <3>1, Zenon
    <2>2. u[k + 1] = u[k] + Value(h, k + 1) /\ t[k + 1] = t[k] + Value(f, k + 1)
        BY <1>2, <1>3
    <2>3. t[k] \in Int /\ Value(f, k + 1) \in Int
        BY <1>2, <1>4
    <2>4. u[k + 1] = t[k + 1] + (IF a <= k + 1 THEN d ELSE 0)
        <3>1. u[k] = t[k] + (IF a <= k THEN d ELSE 0)
            BY <1>7
        <3> QED BY <2>1, <2>2, <2>3, <3>1, <1>5
    <2> QED BY <2>4
<1>8. \A k \in Nat : k \in T
    <2> HIDE DEF T
    <2> QED BY <1>6, <1>7, Induction
<1> QED BY <1>5, <1>8, AccountsAssumption DEF Total, t, u

\* A total of nothing is nothing.
LEMMA TotalOfZeros ==
    ASSUME NEW f, \A k \in DOMAIN f : f[k] = 0
    PROVE  Total(f) = 0
<1> DEFINE t == TotalUpTo(f)
<1>1. /\ t \in [Nat -> Int] /\ t[0] = 0
      /\ \A k \in Nat : t[k + 1] = t[k] + Value(f, k + 1)
    BY TotalSteps DEF IntValued
<1>2. \A k \in Nat : Value(f, k) = 0
    BY DEF Value
<1> HIDE DEF t
<1> DEFINE T == {k \in Nat : t[k] = 0}
<1>3. 0 \in T /\ \A k \in Nat : k \in T => k + 1 \in T
    BY <1>1, <1>2
<1>4. \A k \in Nat : k \in T
    <2> HIDE DEF T
    <2> QED BY <1>3, Induction
<1> QED BY <1>4, AccountsAssumption DEF Total, t
-----------------------------------------------------------------------------
(***************************************************************************)
(* Pass 1 and 2: how an amount is divided under a split that               *)
(* set_fee_split has accepted.                                             *)
(***************************************************************************)
Recipients == DOMAIN split

Sound(s) ==
    \/ s = NoSplit
    \/ /\ DOMAIN s \subseteq Payees
       /\ s \in [DOMAIN s -> Nat \ {0}]
       /\ Complete(s)

Divisible == Sound(split) /\ split # NoSplit

\* A split that is not absent has recipients.
LEMMA RecipientsExist ==
    ASSUME Divisible
    PROVE  /\ Recipients \subseteq Payees /\ Recipients # {}
           /\ split \in [Recipients -> Nat \ {0}]
           /\ Total(split) = BPS
BY DEF Divisible, Sound, Complete, Recipients, NoSplit

\* The floor and the fraction of a share.
LEMMA FloorAndFraction ==
    \A x \in Nat : /\ x \div BPS \in Nat /\ x % BPS \in Nat
                   /\ (x \div BPS) * BPS <= x
BY SharesAssumption

\* The floors and the fractions are natural numbers.
LEMMA FloorsAreNumbers ==
    ASSUME Divisible, NEW amount \in Nat
    PROVE  /\ Floors(amount) \in [Recipients -> Nat]
           /\ Fracs(amount) \in [Recipients -> Nat]
<1>1. \A a \in Recipients : amount * split[a] \in Nat
    <2>1. \A m, n \in Nat : m * n \in Nat
        OBVIOUS
    <2> QED BY <2>1, RecipientsExist
<1> QED BY <1>1, FloorAndFraction DEF Floors, Fracs, Recipients

\* The floors together are no more than the amount: the shares are BPS parts.
LEMMA FloorsFit ==
    ASSUME Divisible, NEW amount \in Nat
    PROVE  Total(Floors(amount)) \in Nat /\ Total(Floors(amount)) <= amount
<1> DEFINE t == TotalUpTo(split)
           u == TotalUpTo(Floors(amount))
<1>1. /\ t \in [Nat -> Int] /\ t[0] = 0
      /\ \A k \in Nat : t[k + 1] = t[k] + Value(split, k + 1)
    BY RecipientsExist, TotalSteps DEF IntValued, Recipients
<1>2. /\ u \in [Nat -> Int] /\ u[0] = 0
      /\ \A k \in Nat : u[k + 1] = u[k] + Value(Floors(amount), k + 1)
    BY FloorsAreNumbers, TotalSteps DEF IntValued
<1>3. \A k \in Nat : /\ Value(split, k) \in Nat
                     /\ Value(Floors(amount), k) \in Nat
                     /\ Value(Floors(amount), k) * BPS <= amount * Value(split, k)
    <2> SUFFICES ASSUME NEW k \in Nat
                 PROVE  /\ Value(split, k) \in Nat
                        /\ Value(Floors(amount), k) \in Nat
                        /\ Value(Floors(amount), k) * BPS <= amount * Value(split, k)
        OBVIOUS
    <2>1. CASE k \in Recipients
        <3>1. amount * split[k] \in Nat
            <4>1. \A m, n \in Nat : m * n \in Nat
                OBVIOUS
            <4> QED BY <4>1, <2>1, RecipientsExist
        <3>2. Value(Floors(amount), k) = (amount * split[k]) \div BPS
            BY <2>1 DEF Value, Floors, Recipients
        <3>3. Value(split, k) = split[k] /\ split[k] \in Nat
            BY <2>1, RecipientsExist DEF Value, Recipients
        <3> QED BY <3>1, <3>2, <3>3, FloorAndFraction
    <2>2. CASE k \notin Recipients
        <3>1. Value(split, k) = 0 /\ Value(Floors(amount), k) = 0
            BY <2>2 DEF Value, Floors, Recipients
        <3> QED BY <3>1, SharesAssumption
    <2> QED BY <2>1, <2>2
<1> HIDE DEF t, u
<1> DEFINE T == {k \in Nat : u[k] \in Nat /\ u[k] * BPS <= amount * t[k]}
<1>4. 0 \in T
    BY <1>1, <1>2, SharesAssumption
<1>5. ASSUME NEW k \in Nat, k \in T PROVE k + 1 \in T
    <2> DEFINE v == Value(split, k + 1)
               w == Value(Floors(amount), k + 1)
    <2>1. v \in Nat /\ w \in Nat /\ w * BPS <= amount * v
        <3>1. k + 1 \in Nat
            OBVIOUS
        <3> QED BY <1>3, <3>1, Zenon
    <2>2. t[k + 1] = t[k] + v /\ u[k + 1] = u[k] + w /\ t[k] \in Int
        BY <1>1, <1>2
    <2>3. u[k] \in Nat /\ u[k] * BPS <= amount * t[k]
        BY <1>5
    <2> HIDE DEF v, w
    <2>4. \A x, y, z \in Int : (x + y) * z = x * z + y * z /\ z * (x + y) = z * x + z * y
        OBVIOUS
    <2>5. /\ (u[k] + w) * BPS = u[k] * BPS + w * BPS
          /\ amount * (t[k] + v) = amount * t[k] + amount * v
        BY <2>1, <2>2, <2>3, <2>4, SharesAssumption
    <2>6. \A x, y \in Int : x * y \in Int
        OBVIOUS
    <2>7. u[k] * BPS \in Int /\ w * BPS \in Int /\ amount * t[k] \in Int /\ amount * v \in Int
        BY <2>1, <2>2, <2>3, <2>6, SharesAssumption
    <2>8. (u[k] + w) * BPS <= amount * (t[k] + v)
        <3>1. \A c, d, e, g \in Int : c <= d /\ e <= g => c + e <= d + g
            OBVIOUS
        <3> QED BY <2>1, <2>3, <2>5, <2>7, <3>1
    <2>9. u[k] + w \in Nat
        BY <2>1, <2>3
    <2> QED BY <2>2, <2>8, <2>9
<1>6. \A k \in Nat : k \in T
    <2> HIDE DEF T
    <2> QED BY <1>4, <1>5, Induction
<1>7. /\ Total(Floors(amount)) \in Nat
      /\ Total(Floors(amount)) * BPS <= amount * BPS
    <2>1. NumAccounts \in Nat
        BY AccountsAssumption
    <2>2. u[NumAccounts] \in Nat /\ u[NumAccounts] * BPS <= amount * t[NumAccounts]
        BY <1>6, <2>1
    <2>3. t[NumAccounts] = BPS
        BY RecipientsExist DEF Total, t
    <2> QED BY <2>2, <2>3 DEF Total, u
<1>8. \A x, y \in Nat : x * BPS <= y * BPS => x <= y
    <2> SUFFICES ASSUME NEW x \in Nat, NEW y \in Nat, y < x PROVE y * BPS < x * BPS
        BY SharesAssumption
    <2>1. PICK d \in Nat : d >= 1 /\ x = y + d
        <3>1. x - y \in Nat /\ x - y >= 1 /\ x = y + (x - y)
            OBVIOUS
        <3> QED BY <3>1
    <2>2. x * BPS = y * BPS + d * BPS
        BY <2>1, SharesAssumption
    <2>3. d * BPS >= 1 /\ d * BPS \in Int /\ y * BPS \in Int
        BY <2>1, SharesAssumption
    <2>4. \A c, e \in Int : c >= 1 => e < e + c
        OBVIOUS
    <2> QED BY <2>2, <2>3, <2>4
<1> QED BY <1>7, <1>8
\* Which of two entries is awarded first.
Before(fracs, a, b) == fracs[a] > fracs[b] \/ (fracs[a] = fracs[b] /\ a < b)

\* Among finitely many entries one is the best.
LEMMA BestIs ==
    ASSUME NEW D, D \subseteq Payees, D # {}, NEW fracs \in [D -> Nat]
    PROVE  /\ Best(fracs) \in D
           /\ \A b \in D \ {Best(fracs)} : Before(fracs, Best(fracs), b)
<1> DEFINE T == {k \in Nat : D \cap 1..k # {} =>
                    \E a \in D \cap 1..k : \A b \in (D \cap 1..k) \ {a} : Before(fracs, a, b)}
<1>1. 0 \in T
    OBVIOUS
<1>2. ASSUME NEW k \in Nat, k \in T PROVE k + 1 \in T
    <2>1. CASE k + 1 \notin D
        <3>1. D \cap 1..(k + 1) = D \cap 1..k
            BY <2>1
        <3> QED BY <3>1, <1>2
    <2>2. CASE k + 1 \in D /\ D \cap 1..k = {}
        <3>1. D \cap 1..(k + 1) = {k + 1}
            BY <2>2
        <3> QED BY <3>1
    <2>3. CASE k + 1 \in D /\ D \cap 1..k # {}
        <3>1. PICK a \in D \cap 1..k : \A b \in (D \cap 1..k) \ {a} : Before(fracs, a, b)
            BY <2>3, <1>2
        <3>2. D \cap 1..(k + 1) = (D \cap 1..k) \cup {k + 1}
            BY <2>3
        <3>3. fracs[a] \in Nat /\ fracs[k + 1] \in Nat /\ a \in Nat /\ a < k + 1
              /\ \A b \in D : fracs[b] \in Nat
            BY <2>3
        <3>4. CASE fracs[a] >= fracs[k + 1]
            <4>1. \A b \in (D \cap 1..(k + 1)) \ {a} : Before(fracs, a, b)
                BY <3>1, <3>2, <3>3, <3>4 DEF Before
            <4> QED BY <4>1, <3>2
        <3>5. CASE fracs[a] < fracs[k + 1]
            <4>1. \A b \in (D \cap 1..(k + 1)) \ {k + 1} : Before(fracs, k + 1, b)
                BY <3>1, <3>2, <3>3, <3>5 DEF Before
            <4> QED BY <4>1, <3>2
        <3> QED BY <3>3, <3>4, <3>5
    <2> QED BY <2>1, <2>2, <2>3
<1>3. \A k \in Nat : k \in T
    <2> HIDE DEF T
    <2> QED BY <1>1, <1>2, Induction
<1>4. D \cap 1..NumAccounts = D
    BY DEF Payees
<1>5. \E a \in D : \A b \in D \ {a} : Before(fracs, a, b)
    <2>1. NumAccounts \in T
        BY <1>3, AccountsAssumption
    <2> QED BY <2>1, <1>4
<1>6. DOMAIN fracs = D
    OBVIOUS
<1> QED BY <1>5, <1>6 DEF Best, Before

\* An entry has not been awarded its stroop yet, or has been.
Waiting(amount, s, a) ==
    s.shares[a] = Floors(amount)[a] /\ s.fracs[a] = Fracs(amount)[a]

Awarded(amount, s, a) ==
    s.shares[a] = Floors(amount)[a] + 1 /\ s.fracs[a] = 0 /\ Fracs(amount)[a] > 0

Allocation(amount, s) ==
    /\ s \in [shares : [Recipients -> Nat], fracs : [Recipients -> Nat], left : Nat]
    /\ Total(s.shares) + s.left = amount
    /\ \A a \in Recipients : Waiting(amount, s, a) \/ Awarded(amount, s, a)
    /\ \A a, b \in Recipients :
         Awarded(amount, s, a) /\ Waiting(amount, s, b) => Before(Fracs(amount), a, b)

Start(amount) ==
    [shares |-> Floors(amount), fracs |-> Fracs(amount),
     left   |-> amount - Total(Floors(amount))]

\* Pass 1 awards nothing.
LEMMA StartAllocates ==
    ASSUME Divisible, NEW amount \in Nat
    PROVE  Allocation(amount, Start(amount))
<1> DEFINE s == Start(amount)
<1>1. s.shares = Floors(amount) /\ s.fracs = Fracs(amount)
      /\ s.left = amount - Total(Floors(amount))
      /\ s = [shares |-> s.shares, fracs |-> s.fracs, left |-> s.left]
    BY DEF Start
<1>2. s.left \in Nat /\ Total(s.shares) + s.left = amount
    BY <1>1, FloorsFit
<1> HIDE DEF s
<1>3. s \in [shares : [Recipients -> Nat], fracs : [Recipients -> Nat], left : Nat]
    BY <1>1, <1>2, FloorsAreNumbers
<1>4. \A a \in Recipients : Waiting(amount, s, a) /\ ~Awarded(amount, s, a)
    <2> SUFFICES ASSUME NEW a \in Recipients PROVE Waiting(amount, s, a) /\ ~Awarded(amount, s, a)
        OBVIOUS
    <2>1. Floors(amount)[a] \in Nat
        BY FloorsAreNumbers
    <2> QED BY <1>1, <2>1 DEF Waiting, Awarded
<1> QED BY <1>2, <1>3, <1>4 DEF Allocation, s

\* A turn awards the best of those that wait.
LEMMA AwardAllocates ==
    ASSUME Divisible, NEW amount \in Nat, NEW s, Allocation(amount, s)
    PROVE  Allocation(amount, Award(s))
<1> DEFINE a == Best(s.fracs)
           w == Award(s)
<1>1. /\ s \in [shares : [Recipients -> Nat], fracs : [Recipients -> Nat], left : Nat]
      /\ Total(s.shares) + s.left = amount
    BY DEF Allocation
<1>2. s.fracs \in [Recipients -> Nat] /\ s.shares \in [Recipients -> Nat] /\ s.left \in Nat
    BY <1>1
<1>3. a \in Recipients /\ \A b \in Recipients \ {a} : Before(s.fracs, a, b)
    BY <1>2, RecipientsExist, BestIs
<1>4. s.fracs[a] \in Nat
    BY <1>2, <1>3
<1> HIDE DEF a
<1>5. CASE s.left <= 0 \/ s.fracs[a] <= 0
    BY <1>5 DEF Award, a
<1>6. CASE s.left >= 1 /\ s.fracs[a] >= 1
    <2>1. w = [shares |-> [s.shares EXCEPT ![a] = s.shares[a] + 1],
               fracs  |-> [s.fracs EXCEPT ![a] = 0],
               left   |-> s.left - 1]
        BY <1>2, <1>4, <1>6 DEF Award, Spent, a
    <2> HIDE DEF w
    <2>2. /\ w.shares = [s.shares EXCEPT ![a] = s.shares[a] + 1]
          /\ w.fracs = [s.fracs EXCEPT ![a] = 0]
          /\ w.left = s.left - 1
          /\ w = [shares |-> w.shares, fracs |-> w.fracs, left |-> w.left]
        BY <2>1
    <2>3. w.shares \in [Recipients -> Nat] /\ w.fracs \in [Recipients -> Nat] /\ w.left \in Nat
        BY <2>2, <1>2, <1>3, <1>6
    <2>4. w \in [shares : [Recipients -> Nat], fracs : [Recipients -> Nat], left : Nat]
        BY <2>2, <2>3
    <2>5. Total(w.shares) = Total(s.shares) + 1
        <3>1. a \in Payees /\ a \in DOMAIN s.shares /\ IntValued(s.shares)
            BY <1>2, <1>3, RecipientsExist DEF IntValued
        <3> QED BY <2>2, <3>1, TotalExcept
    <2>6. Total(w.shares) + w.left = amount
        <3>1. Total(s.shares) \in Int
            BY <1>2, TotalSteps, AccountsAssumption DEF Total, IntValued
        <3> QED BY <3>1, <1>1, <1>2, <2>2, <2>5
    <2>7. Waiting(amount, s, a)
        <3>1. ~Awarded(amount, s, a)
            BY <1>6 DEF Awarded
        <3> QED BY <3>1, <1>3 DEF Allocation
    <2>8. Awarded(amount, w, a)
        BY <2>2, <2>7, <1>2, <1>3, <1>6 DEF Waiting, Awarded
    <2>9. \A b \in Recipients \ {a} : /\ Waiting(amount, w, b) <=> Waiting(amount, s, b)
                                      /\ Awarded(amount, w, b) <=> Awarded(amount, s, b)
        <3>1. \A b \in Recipients \ {a} : w.shares[b] = s.shares[b] /\ w.fracs[b] = s.fracs[b]
            BY <2>2, <1>2
        <3> QED BY <3>1 DEF Waiting, Awarded
    <2>10. ~Waiting(amount, w, a)
        <3>1. Floors(amount)[a] \in Nat
            BY <1>3, FloorsAreNumbers
        <3> QED BY <2>8, <3>1 DEF Waiting, Awarded
    <2>11. \A b \in Recipients : Waiting(amount, w, b) \/ Awarded(amount, w, b)
        BY <2>8, <2>9 DEF Allocation
    <2>12. ASSUME NEW b \in Recipients, NEW c \in Recipients,
                  Awarded(amount, w, b), Waiting(amount, w, c)
           PROVE  Before(Fracs(amount), b, c)
        <3>1. c # a /\ Waiting(amount, s, c)
            BY <2>9, <2>10, <2>12
        <3>2. CASE b = a
            BY <3>1, <3>2, <2>7, <1>3 DEF Before, Waiting
        <3>3. CASE b # a
            BY <3>1, <3>3, <2>9, <2>12 DEF Allocation
        <3> QED BY <3>2, <3>3
    <2> QED BY <2>4, <2>6, <2>11, <2>12 DEF Allocation, w
<1> QED BY <1>2, <1>4, <1>5, <1>6

\* The division that distribute_fee comes to.
LEMMA AllocateAllocates ==
    ASSUME Divisible, NEW amount \in Nat, Cardinality(Recipients) \in Nat
    PROVE  Allocation(amount, Allocate(amount))
<1> DEFINE S == {s \in [shares : [Recipients -> Nat], fracs : [Recipients -> Nat], left : Nat] :
                    Allocation(amount, s)}
           first == Start(amount)
           step == [p \in Nat \X S |-> Award(p[2])]
           body(f) == [n \in Nat |-> IF n = 0 THEN first ELSE Award(f[n - 1])]
           t == Turns(first)
<1>1. first \in S
    BY StartAllocates DEF Allocation
<1>2. step \in [Nat \X S -> S]
    <2>1. \A s \in S : Award(s) \in S
        BY AwardAllocates DEF Allocation
    <2> HIDE DEF S
    <2> QED BY <2>1
<1> HIDE DEF S, first
<1>3. PICK h : Iterates(h, S, first, step)
    <2> HIDE DEF step
    <2> QED BY <1>1, <1>2, Iteration
<1>4. h \in [Nat -> S] /\ h[0] = first /\ \A n \in Nat : h[n + 1] = Award(h[n])
    BY <1>3 DEF Iterates
<1>5. h = body(h)
    <2>1. \A n \in Nat : h[n] = body(h)[n]
        <3> SUFFICES ASSUME NEW n \in Nat, n # 0 PROVE h[n] = body(h)[n]
            BY <1>4
        <3>1. n - 1 \in Nat /\ (n - 1) + 1 = n
            OBVIOUS
        <3> QED BY <3>1, <1>4
    <2> QED BY <2>1, <1>4
<1>6. t = CHOOSE f : f = body(f)
    BY Zenon DEF Turns
<1>7. t = body(t)
    <2> HIDE DEF body
    <2> QED BY <1>5, <1>6, Zenon
<1> HIDE DEF t
<1>8. t[0] = first /\ \A n \in Nat : t[n + 1] = Award(t[n])
    BY <1>7
<1> DEFINE T == {n \in Nat : t[n] = h[n]}
<1>9. \A n \in Nat : n \in T
    <2>1. 0 \in T /\ \A n \in Nat : n \in T => n + 1 \in T
        BY <1>4, <1>8
    <2> HIDE DEF T
    <2> QED BY <2>1, Induction
<1>10. t[Cardinality(Recipients)] \in S
    BY <1>4, <1>9
<1>11. Allocate(amount) = t[Cardinality(Recipients)]
    BY Zenon DEF Allocate, Start, Recipients, first, t
<1> QED BY <1>10, <1>11 DEF S
-----------------------------------------------------------------------------
(***************************************************************************)
(* Pass 3: the transfers.                                                  *)
(***************************************************************************)
Payments == [ok : BOOLEAN, funds : Nat, extra : Nat, received : [Payees -> Nat]]

\* The types of a payment's fields.
LEMMA PaymentFields ==
    ASSUME NEW p \in Payments
    PROVE  p.funds \in Nat /\ p.extra \in Nat /\ p.received \in [Payees -> Nat]
BY DEF Payments

Received(p, q, a, n) ==
    /\ a \notin frozen /\ n <= p.funds
    /\ q.ok = p.ok
    /\ q.funds = p.funds - n
    /\ q.extra = p.extra
    /\ q.received = [p.received EXCEPT ![a] = p.received[a] + n]

\* A transfer moves the amount from the payer to an account that is not frozen.
LEMMA TransferMoves ==
    ASSUME NEW p \in Payments, NEW a \in Payees, NEW n \in Nat, Accepts(p, a, n)
    PROVE  /\ Transfer(p, a, n) \in Payments
           /\ Received(p, Transfer(p, a, n), a, n)
<1>1. a \notin frozen /\ n <= p.funds
    BY DEF Accepts
<1>2. PICK q : q = Transfer(p, a, n)
    OBVIOUS
<1>3. q.ok = p.ok /\ q.funds = p.funds - n /\ q.extra = p.extra
    BY <1>2 DEF Transfer, Payments
<1>4. q.received = [p.received EXCEPT ![a] = p.received[a] + n]
    BY <1>2 DEF Transfer, Payments
<1>5. q \in Payments
    <2>1. PICK r : r = [p EXCEPT !.funds = p.funds - n]
        OBVIOUS
    <2>2. r \in Payments
        BY <1>1, <2>1 DEF Payments
    <2>3. r.received = p.received
        BY <2>1 DEF Payments
    <2>4. PICK f : f = [p.received EXCEPT ![a] = p.received[a] + n]
        OBVIOUS
    <2>5. f \in [Payees -> Nat]
        <3>1. p.received \in [Payees -> Nat]
            BY PaymentFields
        <3> QED BY <2>4, <3>1
    <2>6. q = [r EXCEPT !.received = f]
        BY <1>2, <2>1, <2>3, <2>4 DEF Transfer
    <2> QED BY <2>2, <2>5, <2>6 DEF Payments
<1> QED BY <1>1, <1>2, <1>3, <1>4, <1>5 DEF Received

Redirected(p, q, a, n) ==
    /\ a \in frozen \/ n > p.funds
    /\ q.ok = p.ok
    /\ q.funds = p.funds
    /\ q.extra = p.extra + n
    /\ q.received = p.received

\* A share is nothing, is received, or is left for the treasury.
LEMMA PayShareDoes ==
    ASSUME NEW p \in Payments, NEW a \in Payees, NEW n \in Nat
    PROVE  /\ PayShare(p, a, n) \in Payments
           /\ \/ n = 0 /\ PayShare(p, a, n) = p
              \/ Received(p, PayShare(p, a, n), a, n)
              \/ Redirected(p, PayShare(p, a, n), a, n)
<1>1. CASE n = 0
    BY <1>1 DEF PayShare
<1>2. CASE n > 0 /\ Accepts(p, a, n)
    BY <1>2, TransferMoves DEF PayShare
<1>3. CASE n > 0 /\ ~Accepts(p, a, n)
    <2>1. PICK q : q = Refused(p, n)
        OBVIOUS
    <2>2. q.ok = p.ok /\ q.funds = p.funds /\ q.extra = p.extra + n /\ q.received = p.received
        BY <2>1 DEF Refused, Payments
    <2>3. q \in Payments
        BY <2>1 DEF Refused, Payments
    <2>4. a \in frozen \/ n > p.funds
        <3>1. p.funds \in Nat
            BY PaymentFields
        <3> QED BY <1>3, <3>1 DEF Accepts
    <2>5. PayShare(p, a, n) = q
        BY <1>3, <2>1 DEF PayShare
    <2> QED BY <2>2, <2>3, <2>4, <2>5 DEF Redirected
<1> QED BY <1>1, <1>2, <1>3

\* What is received is added to the total.
LEMMA ReceivedTotal ==
    ASSUME NEW p \in Payments, NEW q, NEW a \in Payees, NEW n \in Nat, Received(p, q, a, n)
    PROVE  Total(q.received) = Total(p.received) + n
<1>1. a \in DOMAIN p.received /\ IntValued(p.received)
    <2>1. p.received \in [Payees -> Nat]
        BY PaymentFields
    <2> QED BY <2>1 DEF IntValued
<1> QED BY <1>1, TotalExcept DEF Received

\* The loop pays the shares one after the other.
LEMMA PaymentSteps ==
    ASSUME NEW shares \in [Recipients -> Nat], Recipients \subseteq Payees,
           NEW start \in Payments
    PROVE  /\ PayInOrder(shares, start)[0] = start
           /\ \A k \in Nat :
                /\ PayInOrder(shares, start)[k] \in Payments
                /\ PayInOrder(shares, start)[k + 1] =
                     IF k + 1 \in Recipients
                     THEN PayShare(PayInOrder(shares, start)[k], k + 1, shares[k + 1])
                     ELSE PayInOrder(shares, start)[k]
<1> DEFINE Pay(k, p) == IF k \in Recipients THEN PayShare(p, k, shares[k]) ELSE p
           step == [p \in Nat \X Payments |-> Pay(p[1] + 1, p[2])]
           body(f) == [k \in Nat |-> IF k = 0 THEN start
                                     ELSE IF k \in DOMAIN shares
                                          THEN PayShare(f[k - 1], k, shares[k])
                                          ELSE f[k - 1]]
           t == PayInOrder(shares, start)
<1>1. step \in [Nat \X Payments -> Payments]
    <2>1. \A k \in Nat, p \in Payments : Pay(k, p) \in Payments
        BY PayShareDoes
    <2> HIDE DEF Pay
    <2> QED BY <2>1
<1>2. PICK h : Iterates(h, Payments, start, step)
    <2> HIDE DEF step
    <2> QED BY <1>1, Iteration
<1>3. h \in [Nat -> Payments] /\ h[0] = start /\ \A k \in Nat : h[k + 1] = Pay(k + 1, h[k])
    BY <1>2 DEF Iterates
<1>4. h = body(h)
    <2>1. \A k \in Nat : h[k] = body(h)[k]
        <3> SUFFICES ASSUME NEW k \in Nat, k # 0 PROVE h[k] = body(h)[k]
            BY <1>3
        <3>1. k - 1 \in Nat /\ (k - 1) + 1 = k
            OBVIOUS
        <3> QED BY <3>1, <1>3
    <2> QED BY <2>1, <1>3
<1>5. t = CHOOSE f : f = body(f)
    BY Zenon DEF PayInOrder
<1>6. t = body(t)
    <2> HIDE DEF body
    <2> QED BY <1>4, <1>5, Zenon
<1> HIDE DEF t
<1>7. t[0] = start /\ \A k \in Nat : t[k + 1] = Pay(k + 1, t[k])
    BY <1>6
<1> DEFINE T == {k \in Nat : t[k] = h[k]}
<1>8. \A k \in Nat : k \in T
    <2>1. 0 \in T /\ \A k \in Nat : k \in T => k + 1 \in T
        BY <1>3, <1>7
    <2> HIDE DEF T
    <2> QED BY <2>1, Induction
<1>9. \A k \in Nat : t[k] \in Payments
    BY <1>3, <1>8
<1> QED BY <1>7, <1>9 DEF t
\* After account k: what was received and what is left for the treasury are
\* the shares so far, and a payer who has enough refuses nobody.
PaidUpTo(shares, left, funds, k, p) ==
    /\ p \in Payments /\ p.ok
    /\ p.funds + Total(p.received) = funds
    /\ Total(p.received) + p.extra = left + TotalUpTo(shares)[k]
    /\ \A a \in Payees : a > k \/ a \in frozen => p.received[a] = 0
    /\ funds >= left + Total(shares) =>
         \A a \in Recipients \ frozen : a <= k => p.received[a] = shares[a]

\* Each account keeps it.
LEMMA PayShareKeeps ==
    ASSUME NEW shares \in [Recipients -> Nat], Recipients \subseteq Payees,
           NEW left \in Nat, NEW funds \in Nat, NEW k \in Nat, k + 1 \in Payees,
           NEW p, PaidUpTo(shares, left, funds, k, p), NEW q,
           q = IF k + 1 \in Recipients THEN PayShare(p, k + 1, shares[k + 1]) ELSE p
    PROVE  PaidUpTo(shares, left, funds, k + 1, q)
<1> DEFINE T == TotalUpTo(shares)
           a == k + 1
           n == Value(shares, a)
<1>1. p \in Payments /\ p.funds \in Nat /\ p.extra \in Nat /\ p.received \in [Payees -> Nat]
    BY PaymentFields DEF PaidUpTo
<1>2. n \in Nat /\ T[k] \in Nat /\ T[a] = T[k] + n /\ T[a] <= T[NumAccounts]
    <2>1. n \in Nat
        BY DEF Value
    <2>2. T[a] = T[k] + n
        BY TotalSteps DEF IntValued
    <2>3. T[k] \in Nat /\ T[a] <= T[NumAccounts]
        <3>1. a \in Nat /\ NumAccounts \in Nat /\ a <= NumAccounts
            BY AccountsAssumption DEF Payees
        <3>2. \A b \in DOMAIN shares : shares[b] \in Nat
            OBVIOUS
        <3> HIDE DEF a
        <3> QED BY <3>1, <3>2, TotalsGrow
    <2> QED BY <2>1, <2>2, <2>3
<1>3. Total(shares) = T[NumAccounts] /\ T[NumAccounts] \in Nat
    BY TotalsGrow, AccountsAssumption DEF Total
<1>4. a \in Payees /\ a \in Nat
    OBVIOUS
<1>5. Total(p.received) \in Int
    BY <1>1, TotalSteps, AccountsAssumption DEF Total, IntValued
<1>6. q \in Payments
    BY <1>1, PayShareDoes
<1>7. p.received[a] = 0
    BY <1>4 DEF PaidUpTo
<1>8. \/ n = 0 /\ q = p
      \/ Received(p, q, a, n)
      \/ Redirected(p, q, a, n)
    <2>1. CASE a \in Recipients
        <3>1. n = shares[a] /\ q = PayShare(p, a, n)
            BY <2>1 DEF Value
        <3> HIDE DEF n, a
        <3>2. \/ n = 0 /\ PayShare(p, a, n) = p
              \/ Received(p, PayShare(p, a, n), a, n)
              \/ Redirected(p, PayShare(p, a, n), a, n)
            BY <1>1, <1>2, <1>4, PayShareDoes
        <3> QED BY <3>1, <3>2
    <2>2. CASE a \notin Recipients
        BY <2>2 DEF Value
    <2> QED BY <2>1, <2>2
<1>9. a \in Recipients => n = shares[a]
    BY DEF Value
<1>10. \A b \in Payees : b <= a => b <= k \/ b = a
    BY DEF Payees
<1>11. \A b \in Payees : b > a => b > k /\ b # a
    BY DEF Payees
<1> HIDE DEF T, n, a
<1>12. /\ p.ok /\ p.funds + Total(p.received) = funds
       /\ Total(p.received) + p.extra = left + T[k]
       /\ \A b \in Payees : b > k \/ b \in frozen => p.received[b] = 0
       /\ funds >= left + Total(shares) =>
            \A b \in Recipients \ frozen : b <= k => p.received[b] = shares[b]
    BY DEF PaidUpTo, T
<1>13. funds >= left + Total(shares) => n <= p.funds
    BY <1>1, <1>2, <1>3, <1>5, <1>12
<1>14. CASE n = 0 /\ q = p
    <2>1. Total(q.received) + q.extra = left + T[a]
        BY <1>14, <1>2, <1>12
    <2>2. \A b \in Payees : b > a \/ b \in frozen => q.received[b] = 0
        BY <1>14, <1>11, <1>12
    <2>3. ASSUME funds >= left + Total(shares), NEW b \in Recipients \ frozen, b <= a
          PROVE  q.received[b] = shares[b]
        <3>1. CASE b = a
            BY <3>1, <1>14, <1>7, <1>9
        <3>2. CASE b <= k
            BY <3>2, <2>3, <1>14, <1>12
        <3> QED BY <3>1, <3>2, <2>3, <1>10
    <2> QED BY <1>14, <1>6, <1>12, <2>1, <2>2, <2>3 DEF PaidUpTo, T, a
<1>15. CASE Received(p, q, a, n)
    <2>1. /\ a \notin frozen /\ q.ok = p.ok /\ q.funds = p.funds - n /\ q.extra = p.extra
          /\ q.received = [p.received EXCEPT ![a] = p.received[a] + n]
        BY <1>15 DEF Received
    <2>2. Total(q.received) = Total(p.received) + n
        BY <1>15, <1>1, <1>2, <1>4, ReceivedTotal
    <2>3. q.received[a] = n /\ \A b \in Payees \ {a} : q.received[b] = p.received[b]
        BY <2>1, <1>1, <1>2, <1>4, <1>7
    <2>4. Total(q.received) + q.extra = left + T[a] /\ q.funds + Total(q.received) = funds
        BY <2>1, <2>2, <1>1, <1>2, <1>5, <1>12
    <2>5. \A b \in Payees : b > a \/ b \in frozen => q.received[b] = 0
        BY <2>1, <2>3, <1>11, <1>12
    <2>6. ASSUME funds >= left + Total(shares), NEW b \in Recipients \ frozen, b <= a
          PROVE  q.received[b] = shares[b]
        <3>1. CASE b = a
            BY <3>1, <2>3, <1>9
        <3>2. CASE b # a /\ b <= k
            BY <3>2, <2>3, <2>6, <1>12
        <3> QED BY <3>1, <3>2, <2>6, <1>10
    <2> QED BY <1>6, <1>12, <2>1, <2>4, <2>5, <2>6 DEF PaidUpTo, T, a
<1>16. CASE Redirected(p, q, a, n)
    <2> USE DEF Redirected
    <2>1. Total(q.received) + q.extra = left + T[a]
        BY <1>16, <1>1, <1>2, <1>5, <1>12
    <2>2. \A b \in Payees : b > a \/ b \in frozen => q.received[b] = 0
        BY <1>16, <1>11, <1>12
    <2>3. ASSUME funds >= left + Total(shares), NEW b \in Recipients \ frozen, b <= a
          PROVE  q.received[b] = shares[b]
        <3>1. b # a
            BY <2>3, <1>1, <1>2, <1>13, <1>16
        <3> QED BY <3>1, <2>3, <1>10, <1>12, <1>16
    <2> QED BY <1>16, <1>6, <1>12, <2>1, <2>2, <2>3 DEF PaidUpTo, T, a
<1> QED BY <1>8, <1>14, <1>15, <1>16

\* Pass 3 as a whole.
LEMMA AllPaid ==
    ASSUME NEW shares \in [Recipients -> Nat], Recipients \subseteq Payees,
           NEW left \in Nat, NEW funds \in Nat, NEW start,
           start = Payer(funds, left)
    PROVE  PaidUpTo(shares, left, funds, NumAccounts, PayInOrder(shares, start)[NumAccounts])
<1> DEFINE paid == PayInOrder(shares, start)
           T == {k \in Nat : k <= NumAccounts => PaidUpTo(shares, left, funds, k, paid[k])}
<1>1. start \in Payments
    BY DEF Payer, Payments, NoPayment
<1>2. /\ paid[0] = start
      /\ \A k \in Nat : paid[k + 1] = IF k + 1 \in Recipients
                                      THEN PayShare(paid[k], k + 1, shares[k + 1])
                                      ELSE paid[k]
    BY <1>1, PaymentSteps
<1> HIDE DEF paid
<1>3. 0 \in T
    <2>1. Total(NoPayment) = 0
        BY TotalOfZeros DEF NoPayment
    <2>2. TotalUpTo(shares)[0] = 0
        BY TotalSteps DEF IntValued
    <2>3. \A a \in Payees : NoPayment[a] = 0 /\ ~(a <= 0)
        BY DEF NoPayment, Payees
    <2>4. PaidUpTo(shares, left, funds, 0, start)
        BY <1>1, <2>1, <2>2, <2>3 DEF PaidUpTo, Payer
    <2> QED BY <1>2, <2>4
<1>4. ASSUME NEW k \in Nat, k \in T PROVE k + 1 \in T
    <2> SUFFICES ASSUME k + 1 <= NumAccounts PROVE PaidUpTo(shares, left, funds, k + 1, paid[k + 1])
        OBVIOUS
    <2>1. k + 1 \in Payees
        BY AccountsAssumption DEF Payees
    <2>2. PaidUpTo(shares, left, funds, k, paid[k])
        BY <1>4, AccountsAssumption
    <2> HIDE DEF T
    <2> QED BY <1>2, <2>1, <2>2, PayShareKeeps
<1>5. \A k \in Nat : k \in T
    <2> HIDE DEF T
    <2> QED BY <1>3, <1>4, Induction
<1>6. NumAccounts \in T /\ NumAccounts <= NumAccounts
    <2> HIDE DEF T
    <2> QED BY <1>5, AccountsAssumption
<1> QED BY <1>6 DEF paid
-----------------------------------------------------------------------------
(***************************************************************************)
(* What a charge comes to.                                                 *)
(***************************************************************************)

\* What every account receives of a charge, with these shares.
Divided(amount, shares, got) ==
    /\ got \in [Payees -> Nat]
    /\ Total(got) = amount
    /\ \A a \in Payees \cap frozen : got[a] = 0
    /\ \A a \in Recipients \ frozen :
         got[a] >= shares[a] /\ (a # Treasury => got[a] = shares[a])

\* The treasury's transfer is made or fails the call.
LEMMA TreasuryIsPaid ==
    ASSUME NEW p \in Payments, p.ok, NEW n \in Nat
    PROVE  /\ PayTreasury(p, n).ok => /\ PayTreasury(p, n) \in Payments
                                      /\ Received(p, PayTreasury(p, n), Treasury, n)
           /\ Treasury \notin frozen /\ n <= p.funds => PayTreasury(p, n).ok
<1>1. CASE Accepts(p, Treasury, n)
    <2>1. PayTreasury(p, n) = Transfer(p, Treasury, n)
        BY <1>1 DEF PayTreasury
    <2>2. Treasury \in Payees
        BY AccountsAssumption
    <2>3. Transfer(p, Treasury, n) \in Payments /\ Received(p, Transfer(p, Treasury, n), Treasury, n)
        BY <1>1, <2>2, TransferMoves
    <2>4. Transfer(p, Treasury, n).ok
        BY <2>3 DEF Received
    <2> QED BY <2>1, <2>3, <2>4
<1>2. CASE ~Accepts(p, Treasury, n)
    <2>1. PayTreasury(p, n) = [p EXCEPT !.ok = FALSE]
        BY <1>2 DEF PayTreasury
    <2>2. ~PayTreasury(p, n).ok
        BY <2>1 DEF Payments
    <2> QED BY <1>2, <2>2 DEF Accepts
<1> QED BY <1>1, <1>2

\* Without a split the treasury receives the amount.
LEMMA UndividedGoesToTreasury ==
    ASSUME split = NoSplit, NEW amount \in Nat, NEW funds \in Nat,
           NEW r, r = Distribute(amount, funds)
    PROVE  /\ r.ok => Divided(amount, NoPayment, r.received)
           /\ Treasury \notin frozen /\ amount <= funds => r.ok
<1> DEFINE p == Payer(funds, 0)
<1>1. r = PayTreasury(p, amount)
    BY Zenon DEF Distribute
<1>2. p \in Payments /\ p.ok /\ p.funds = funds /\ p.received = NoPayment
    BY DEF Payer, Payments, NoPayment
<1>3. Total(NoPayment) = 0 /\ \A a \in Payees : NoPayment[a] = 0
    BY TotalOfZeros DEF NoPayment
<1>4. Recipients = {} /\ Treasury \in Payees
    BY AccountsAssumption DEF Recipients, NoSplit
<1> HIDE DEF p
<1>5. ASSUME r.ok PROVE Divided(amount, NoPayment, r.received)
    <2>1. r \in Payments /\ Received(p, r, Treasury, amount)
        BY <1>1, <1>2, <1>5, TreasuryIsPaid
    <2>2. Total(r.received) = amount
        BY <2>1, <1>2, <1>3, <1>4, ReceivedTotal
    <2>3. \A a \in Payees \cap frozen : r.received[a] = 0
        BY <2>1, <1>2, <1>3 DEF Received, NoPayment
    <2>4. r.received \in [Payees -> Nat]
        BY <2>1, PaymentFields
    <2> QED BY <2>2, <2>3, <2>4, <1>4 DEF Divided
<1>6. Treasury \notin frozen /\ amount <= funds => r.ok
    BY <1>1, <1>2, TreasuryIsPaid
<1> QED BY <1>5, <1>6

\* With a split it receives what is left of it.
LEMMA SharesAreReceived ==
    ASSUME Divisible, NEW amount \in Nat, NEW funds \in Nat,
           NEW r, r = Distribute(amount, funds)
    PROVE  /\ Allocation(amount, Allocate(amount))
           /\ r.ok => Divided(amount, Allocate(amount).shares, r.received)
           /\ Treasury \notin frozen /\ amount = funds => r.ok
<1> DEFINE alloc == Allocate(amount)
           start == Payer(funds, alloc.left)
           p == PayInOrder(alloc.shares, start)[NumAccounts]
<1>1. Allocation(amount, alloc)
    <2>1. Cardinality(Recipients) \in Nat
        <3>1. IsFiniteSet(Payees)
            BY FS_Interval, AccountsAssumption DEF Payees
        <3> QED BY <3>1, RecipientsExist, FS_Subset, FS_CardinalityType
    <2> QED BY <2>1, AllocateAllocates
<1>2. /\ alloc.shares \in [Recipients -> Nat] /\ alloc.left \in Nat
      /\ Total(alloc.shares) + alloc.left = amount
    BY <1>1 DEF Allocation
<1>3. r = IF p.extra > 0 THEN PayTreasury(p, p.extra) ELSE p
    <2>1. split # NoSplit
        BY DEF Divisible
    <2> QED BY <2>1 DEF Distribute
<1> HIDE DEF alloc
<1>4. PaidUpTo(alloc.shares, alloc.left, funds, NumAccounts, p)
    BY <1>2, RecipientsExist, AllPaid
<1> HIDE DEF p, start
<1>5. /\ p \in Payments /\ p.ok
      /\ p.funds + Total(p.received) = funds
      /\ Total(p.received) + p.extra = amount
      /\ \A a \in Payees \cap frozen : p.received[a] = 0
      /\ funds >= amount => \A a \in Recipients \ frozen : p.received[a] = alloc.shares[a]
    <2>1. Total(alloc.shares) = TotalUpTo(alloc.shares)[NumAccounts]
        BY DEF Total
    <2>2. Total(alloc.shares) \in Int
        BY <1>2, TotalSteps, AccountsAssumption DEF Total, IntValued
    <2>3. alloc.left + Total(alloc.shares) = amount
        BY <1>2, <2>2
    <2>4. \A a \in Recipients : a <= NumAccounts
        BY RecipientsExist DEF Payees
    <2> QED BY <1>4, <2>1, <2>3, <2>4 DEF PaidUpTo
<1>6. p.funds \in Nat /\ p.extra \in Nat /\ p.received \in [Payees -> Nat]
    BY <1>5, PaymentFields
<1>7. Total(p.received) \in Int
    BY <1>6, TotalSteps, AccountsAssumption DEF Total, IntValued
<1>8. CASE p.extra = 0
    <2>1. r = p /\ Total(p.received) = amount /\ funds >= amount
        BY <1>3, <1>5, <1>6, <1>7, <1>8
    <2>2. \A a \in Recipients \ frozen : p.received[a] \in Nat /\ p.received[a] = alloc.shares[a]
        BY <2>1, <1>5, <1>6, RecipientsExist
    <2>3. Divided(amount, alloc.shares, p.received)
        BY <2>1, <2>2, <1>5, <1>6 DEF Divided
    <2> QED BY <1>1, <1>5, <2>1, <2>3 DEF alloc
<1>9. CASE p.extra > 0
    <2>1. r = PayTreasury(p, p.extra)
        BY <1>3, <1>9
    <2>2. ASSUME r.ok PROVE Divided(amount, alloc.shares, r.received)
        <3>1. r \in Payments /\ Received(p, r, Treasury, p.extra)
            BY <2>1, <2>2, <1>5, <1>6, TreasuryIsPaid
        <3>2. Treasury \in Payees
            BY AccountsAssumption
        <3>3. Total(r.received) = amount
            BY <3>1, <3>2, <1>5, <1>6, ReceivedTotal
        <3>4. funds >= amount
            <4>1. p.extra <= p.funds
                BY <3>1 DEF Received
            <4> QED BY <4>1, <1>5, <1>6, <1>7
        <3>5. /\ Treasury \notin frozen
              /\ r.received = [p.received EXCEPT ![Treasury] = p.received[Treasury] + p.extra]
            BY <3>1 DEF Received
        <3>6. \A a \in Payees \cap frozen : r.received[a] = 0
            BY <3>5, <1>5, <1>6
        <3>7. \A a \in Recipients \ frozen :
                r.received[a] >= alloc.shares[a]
                /\ (a # Treasury => r.received[a] = alloc.shares[a])
            <4> SUFFICES ASSUME NEW a \in Recipients \ frozen
                         PROVE  r.received[a] >= alloc.shares[a]
                                /\ (a # Treasury => r.received[a] = alloc.shares[a])
                OBVIOUS
            <4>1. p.received[a] = alloc.shares[a] /\ p.received[a] \in Nat /\ a \in Payees
                BY <3>4, <1>5, <1>6, RecipientsExist
            <4> QED BY <4>1, <3>2, <3>5, <1>6
        <3>8. r.received \in [Payees -> Nat]
            BY <3>1, PaymentFields
        <3> QED BY <3>3, <3>6, <3>7, <3>8 DEF Divided
    <2>3. ASSUME Treasury \notin frozen, amount = funds PROVE r.ok
        <3>1. p.extra <= p.funds
            BY <2>3, <1>5, <1>6, <1>7
        <3> QED BY <3>1, <2>1, <2>3, <1>5, <1>6, TreasuryIsPaid
    <2> QED BY <1>1, <2>2, <2>3 DEF alloc
<1> QED BY <1>6, <1>8, <1>9

\* The shares of an allocation are floors, or one more for the largest
\* fractions.
LEMMA SharesAreFair ==
    ASSUME Divisible, NEW amount \in Nat, NEW s, Allocation(amount, s),
           NEW a \in Recipients, NEW b \in Recipients
    PROVE  /\ s.shares[a] \in Nat /\ Floors(amount)[a] \in Nat
           /\ s.shares[a] \in {Floors(amount)[a], Floors(amount)[a] + 1}
           /\ s.shares[a] > Floors(amount)[a] /\ s.shares[b] = Floors(amount)[b] =>
                Fracs(amount)[a] > 0 /\ Before(Fracs(amount), a, b)
<1>1. /\ Floors(amount)[a] \in Nat /\ Floors(amount)[b] \in Nat
      /\ s.shares[a] \in Nat
    BY FloorsAreNumbers DEF Allocation
<1>2. /\ Waiting(amount, s, a) \/ Awarded(amount, s, a)
      /\ Waiting(amount, s, b) \/ Awarded(amount, s, b)
    BY DEF Allocation
<1>3. s.shares[a] \in {Floors(amount)[a], Floors(amount)[a] + 1}
    BY <1>2 DEF Waiting, Awarded
<1>4. ASSUME s.shares[a] > Floors(amount)[a], s.shares[b] = Floors(amount)[b]
      PROVE  Fracs(amount)[a] > 0 /\ Before(Fracs(amount), a, b)
    <2>1. ~Waiting(amount, s, a) /\ ~Awarded(amount, s, b)
        BY <1>1, <1>4 DEF Waiting, Awarded
    <2>2. Awarded(amount, s, a) /\ Waiting(amount, s, b)
        BY <1>2, <2>1
    <2> QED BY <2>2 DEF Allocation, Awarded
<1> QED BY <1>1, <1>3, <1>4

-----------------------------------------------------------------------------
(***************************************************************************)
(* The theorems.                                                           *)
(***************************************************************************)
IInv ==
    /\ Sound(split)
    /\ frozen \subseteq Payees
    /\ charged \subseteq Nat
    /\ ExactlyCharged
    /\ WithinOneStroop
    /\ LargestRemainderFirst

\* Nothing is charged at the start, and nobody has a share.
LEMMA InitIInv == SplitInit => IInv
BY DEF SplitInit, IInv, Sound, ExactlyCharged, WithinOneStroop, LargestRemainderFirst

\* A new split or another set of frozen accounts begins without a charge.
LEMMA NothingChargedIInv ==
    ASSUME charged' = {}, Sound(split)', (frozen \subseteq Payees)'
    PROVE  IInv'
BY DEF IInv, ExactlyCharged, WithinOneStroop, LargestRemainderFirst

\* set_fee_split accepts only splits that can be divided by.
LEMMA SetFeeSplitIInv ==
    ASSUME IInv, NEW s \in Splits, SetFeeSplit(s)
    PROVE  IInv'
<1>1. PICK D \in SUBSET Payees : s \in [D -> BpsValues]
    BY DEF Splits
<1>2. Sound(s)
    <2>1. CASE s = NoSplit
        BY <2>1 DEF Sound
    <2>2. CASE s # NoSplit
        <3>1. DOMAIN s = D /\ \A a \in D : s[a] \in Nat \ {0}
            BY <1>1, <2>2, SharesAssumption DEF SetFeeSplit
        <3>2. s \in [D -> Nat \ {0}]
            BY <1>1, <3>1
        <3> QED BY <2>2, <3>1, <3>2 DEF SetFeeSplit, Sound
    <2> QED BY <2>1, <2>2
<1>3. Sound(split)'
    BY <1>2 DEF SetFeeSplit, Sound, Complete
<1> QED BY <1>3, NothingChargedIInv DEF SetFeeSplit, IInv

\* A charge divides its amount as it should, whatever the payer has.
LEMMA ChargeFeeIInv ==
    ASSUME IInv, NEW n \in Nat, NEW funds \in Nat, ChargeFee(n, funds)
    PROVE  IInv'
<1>1. PICK r : r = Distribute(n, funds) /\ r.ok /\ received' = r.received
    BY DEF ChargeFee
<1>2. charged' = {n} /\ split' = split /\ frozen' = frozen
    BY DEF ChargeFee
<1>3. Sound(split)' /\ (frozen \subseteq Payees)' /\ (charged \subseteq Nat)'
    BY <1>2 DEF IInv, Sound, Complete
<1>4. CASE split = NoSplit
    <2>1. Divided(n, NoPayment, received')
        BY <1>1, <1>4, UndividedGoesToTreasury
    <2>2. ExactlyCharged'
        BY <2>1, <1>2 DEF ExactlyCharged, Divided, IInv
    <2>3. WithinOneStroop' /\ LargestRemainderFirst'
        BY <1>2, <1>4 DEF WithinOneStroop, LargestRemainderFirst, NoSplit
    <2> QED BY <1>3, <2>2, <2>3 DEF IInv
<1>5. CASE Divisible
    <2>1. PICK s : Allocation(n, s) /\ Divided(n, s.shares, received')
        BY <1>1, <1>5, SharesAreReceived
    <2>2. ExactlyCharged'
        BY <2>1, <1>2 DEF ExactlyCharged, Divided, IInv
    <2>3. \A x : Floors(x)' = Floors(x) /\ Fracs(x)' = Fracs(x)
        BY <1>2 DEF Floors, Fracs
    <2>4. WithinOneStroop'
        <3>1. ASSUME NEW a \in Recipients \ frozen
              PROVE  /\ received'[a] >= Floors(n)[a]
                     /\ a # Treasury => received'[a] <= Floors(n)[a] + 1
            <4>1. received'[a] >= s.shares[a] /\ (a # Treasury => received'[a] = s.shares[a])
                BY <2>1 DEF Divided
            <4>2. /\ s.shares[a] \in Nat /\ Floors(n)[a] \in Nat
                  /\ s.shares[a] \in {Floors(n)[a], Floors(n)[a] + 1}
                BY <1>5, <2>1, SharesAreFair
            <4>3. received'[a] \in Nat
                BY <2>1, <1>5, RecipientsExist DEF Divided
            <4> QED BY <4>1, <4>2, <4>3
        <3> QED BY <3>1, <2>3, <1>2 DEF WithinOneStroop, Recipients
    <2>5. LargestRemainderFirst'
        <3>1. ASSUME NEW a \in Recipients \ (frozen \cup {Treasury}),
                     NEW b \in Recipients \ (frozen \cup {Treasury}),
                     received'[a] > Floors(n)[a], received'[b] = Floors(n)[b]
              PROVE  Fracs(n)[a] > 0 /\ Before(Fracs(n), a, b)
            <4>1. received'[a] = s.shares[a] /\ received'[b] = s.shares[b]
                BY <2>1 DEF Divided
            <4> QED BY <3>1, <4>1, <1>5, <2>1, SharesAreFair
        <3>2. \A a, b \in Payees : a < b => a <= b
            BY DEF Payees
        <3>3. Recipients \subseteq Payees
            BY <1>5, RecipientsExist
        <3> QED BY <3>1, <3>2, <3>3, <2>3, <1>2 DEF LargestRemainderFirst, Recipients, Before
    <2> QED BY <1>3, <2>2, <2>4, <2>5 DEF IInv
<1> QED BY <1>4, <1>5 DEF IInv, Divisible

\* Every step keeps the invariant.
LEMMA NextIInv == IInv /\ [SplitNext]_splitVars => IInv'
<1> SUFFICES ASSUME IInv, [SplitNext]_splitVars PROVE IInv'
    OBVIOUS
<1>1. ASSUME NEW s \in Splits, SetFeeSplit(s) PROVE IInv'
    BY <1>1, SetFeeSplitIInv
<1>2. ASSUME NEW A \in SUBSET Payees, SetFrozen(A) PROVE IInv'
    <2>1. Sound(split)'
        BY <1>2 DEF SetFrozen, IInv, Sound, Complete
    <2> QED BY <1>2, <2>1, NothingChargedIInv DEF SetFrozen
<1>3. ASSUME NEW n \in Amounts, NEW funds \in {n - 1, n, n + 1} \cap Nat, ChargeFee(n, funds)
      PROVE  IInv'
    <2>1. n \in Nat /\ funds \in Nat
        BY AmountsAssumption
    <2> QED BY <1>3, <2>1, ChargeFeeIInv
<1>4. CASE UNCHANGED splitVars
    BY <1>4 DEF splitVars, lastFee, IInv, Sound, Complete, ExactlyCharged, WithinOneStroop,
                LargestRemainderFirst, Floors, Fracs
<1> QED BY <1>1, <1>2, <1>3, <1>4 DEF SplitNext

\* Every reachable state satisfies the invariant.
THEOREM Invariance == SplitSpec => []IInv
BY InitIInv, NextIInv, PTL DEF SplitSpec

\* A charge that succeeds costs exactly the fee, and pays nobody who cannot be
\* paid, for every split, amount and payer.
THEOREM ChargesAreExact == SplitSpec => []ExactlyCharged
<1>1. IInv => ExactlyCharged
    BY DEF IInv
<1> QED BY <1>1, Invariance, PTL

\* Every recipient that can be paid gets the floor of its share and at most one
\* stroop more.
THEOREM SharesAreRounded == SplitSpec => []WithinOneStroop
<1>1. IInv => WithinOneStroop
    BY DEF IInv
<1> QED BY <1>1, Invariance, PTL

\* The odd stroops go to the largest remainders, ties in the map's order.
THEOREM LargestRemaindersWin == SplitSpec => []LargestRemainderFirst
<1>1. IInv => LargestRemainderFirst
    BY DEF IInv
<1> QED BY <1>1, Invariance, PTL

\* While the treasury can be paid, no set of broken recipients blocks a payer
\* who has the fee.
THEOREM BrokenRecipientsNeverBlock == SplitSpec => []BrokenRecipientsIsolated
<1>1. IInv => BrokenRecipientsIsolated
    <2> SUFFICES ASSUME IInv, Treasury \notin frozen, NEW n \in Amounts
                 PROVE  Distribute(n, n).ok
        BY DEF BrokenRecipientsIsolated
    <2>1. n \in Nat /\ n <= n
        BY AmountsAssumption
    <2>2. CASE split = NoSplit
        BY <2>1, <2>2, UndividedGoesToTreasury
    <2>3. CASE Divisible
        BY <2>1, <2>3, SharesAreReceived
    <2> QED BY <2>2, <2>3 DEF IInv, Divisible
<1> QED BY <1>1, Invariance, PTL

=============================================================================
