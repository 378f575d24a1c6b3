------------------------------ MODULE FeeSplit ------------------------------
(***************************************************************************)
(* How the factory contract divides a fee                                  *)
(* (src/contracts/token-factory/src/lib.rs): set_fee_split installs shares *)
(* in basis points, distribute_fee pays each recipient its share by the    *)
(* largest-remainder method and redirects to the treasury the share of a   *)
(* recipient that cannot receive it.                                       *)
(*                                                                         *)
(* Accounts are numbered in the order in which the contract's Map iterates *)
(* its keys, and its loops are functions on these numbers: f[k] is what a  *)
(* loop has after account k, so f[0] is what it starts with.  A charge     *)
(* that returns Err reverts every transfer, so it is no step.              *)
(***************************************************************************)
EXTENDS Integers, FiniteSets

CONSTANTS
    NumAccounts,               \* accounts a share can be given to
    Treasury,                  \* state.treasury
    BPS,                       \* 10_000 basis points
    BpsValues,                 \* shares that admins ask for
    MAX_FEE_SPLIT_RECIPIENTS,
    Amounts,                   \* fees that are charged
    MaxI128                    \* i128::MAX

Payees == 1..NumAccounts

ASSUME AccountsAssumption == NumAccounts \in Nat /\ Treasury \in Payees
ASSUME SharesAssumption   == BPS \in Nat \ {0} /\ BpsValues \subseteq Nat
ASSUME AmountsAssumption  == Amounts \subseteq Nat /\ MaxI128 \in Nat

VARIABLES
    split,        \* the "split" entry; the empty map when it is absent
    frozen,       \* external: accounts that cannot receive the fee token
    charged,      \* history: the fee last charged under this split, {} if none
    received      \* history: what each account received of it

lastFee == <<charged, received>>
splitVars == <<split, frozen, lastFee>>

NoSplit   == [a \in {} |-> 0]
NoPayment == [a \in Payees |-> 0]

SplitInit ==
    /\ split = NoSplit
    /\ frozen = {}
    /\ charged = {}
    /\ received = NoPayment

-----------------------------------------------------------------------------
(* A definition named X_<fault> is X with that fault; it stands before X and *)
(* is used only to see that the properties detect the fault.                *)

\* The sum of the values of f, which is zero where f has no value.
TotalUpTo(f) ==
    LET sum[k \in Nat] ==
          IF k = 0 THEN 0
          ELSE sum[k - 1] + (IF k \in DOMAIN f THEN f[k] ELSE 0)
    IN sum

Total(f) == TotalUpTo(f)[NumAccounts]

WithinCap(s) == Cardinality(DOMAIN s) <= MAX_FEE_SPLIT_RECIPIENTS

Complete_Unchecked(s) == TRUE

Complete(s) == Total(s) = BPS

SetFeeSplit(s) ==
    /\ s # NoSplit =>
         /\ WithinCap(s)
         /\ \A a \in DOMAIN s : s[a] # 0
         /\ Complete(s)
    /\ split' = s
    /\ charged' = {}
    /\ received' = NoPayment
    /\ UNCHANGED frozen

\* Outside the factory an account loses or regains its trustline, or the
\* issuer freezes it.
SetFrozen(accounts) ==
    /\ frozen' = accounts
    /\ charged' = {}
    /\ received' = NoPayment
    /\ UNCHANGED split

-----------------------------------------------------------------------------
(* distribute_fee *)

Fits(amount) == \A a \in DOMAIN split : amount * split[a] <= MaxI128

Floors(amount) == [a \in DOMAIN split |-> (amount * split[a]) \div BPS]

Fracs(amount) == [a \in DOMAIN split |-> (amount * split[a]) % BPS]

\* The first of the entries with the largest fraction.
Best_Smallest(fracs) ==
    CHOOSE a \in DOMAIN fracs : \A b \in DOMAIN fracs \ {a} :
        fracs[a] < fracs[b] \/ (fracs[a] = fracs[b] /\ a < b)

Best(fracs) ==
    CHOOSE a \in DOMAIN fracs : \A b \in DOMAIN fracs \ {a} :
        fracs[a] > fracs[b] \/ (fracs[a] = fracs[b] /\ a < b)

\* The fractions after an entry has been awarded its stroop.
Spent_Kept(fracs, a) == fracs

Spent(fracs, a) == [fracs EXCEPT ![a] = 0]

\* One stroop of the remainder for the best entry.
Award(s) ==
    LET a == Best(s.fracs)
    IN IF s.left <= 0 \/ s.fracs[a] <= 0
       THEN s
       ELSE [shares |-> [s.shares EXCEPT ![a] = @ + 1],
             fracs  |-> Spent(s.fracs, a),
             left   |-> s.left - 1]

Turns(start) ==
    LET turn[n \in Nat] == IF n = 0 THEN start ELSE Award(turn[n - 1])
    IN turn

\* Pass 2.  No entry wins twice, so there are at most as many turns as entries.
Allocate(amount) ==
    LET start == [shares |-> Floors(amount), fracs |-> Fracs(amount),
                  left   |-> amount - Total(Floors(amount))]
    IN Turns(start)[Cardinality(DOMAIN split)]

\* try_transfer(payer, a, n) when the payer has p.funds left.
Accepts(p, a, n) == a \notin frozen /\ n <= p.funds

Transfer(p, a, n) ==
    [p EXCEPT !.funds = @ - n, !.received[a] = @ + n]

\* A transfer that fails leaves its share for the treasury.
Refused_Aborts(p, n) == [p EXCEPT !.ok = FALSE]

Refused(p, n) == [p EXCEPT !.extra = @ + n]

PayTreasury(p, n) ==
    IF Accepts(p, Treasury, n) THEN Transfer(p, Treasury, n) ELSE [p EXCEPT !.ok = FALSE]

\* The transfer of a share; a share of nothing needs none.
PayShare(p, a, n) ==
    IF n <= 0 THEN p
    ELSE IF Accepts(p, a, n) THEN Transfer(p, a, n)
    ELSE Refused(p, n)

PayInOrder(shares, start) ==
    LET paid[k \in Nat] ==
          IF k = 0 THEN start
          ELSE IF k \in DOMAIN shares THEN PayShare(paid[k - 1], k, shares[k])
          ELSE paid[k - 1]
    IN paid

Payer(funds, extra) ==
    [ok |-> TRUE, funds |-> funds, extra |-> extra, received |-> NoPayment]

\* Pass 3: the transfers in order, then what is left over to the treasury.
Distribute(amount, funds) ==
    LET alloc == Allocate(amount)
        paid  == PayInOrder(alloc.shares, Payer(funds, alloc.left))[NumAccounts]
    IN IF split = NoSplit THEN PayTreasury(Payer(funds, 0), amount)
       ELSE IF paid.extra > 0 THEN PayTreasury(paid, paid.extra)
       ELSE paid

\* A caller with this many fee tokens is charged amount.
ChargeFee(amount, funds) ==
    /\ Fits(amount)
    /\ LET p == Distribute(amount, funds) IN
         /\ p.ok
         /\ received' = p.received
    /\ charged' = {amount}
    /\ UNCHANGED <<split, frozen>>

-----------------------------------------------------------------------------
\* Every map from some of the accounts to some shares, as callers send it.
Splits == UNION {[D -> BpsValues] : D \in SUBSET Payees}

SplitNext ==
    \/ \E s \in Splits : SetFeeSplit(s)
    \/ \E A \in SUBSET Payees : SetFrozen(A)
    \/ \E n \in Amounts : \E funds \in {n - 1, n, n + 1} \cap Nat : ChargeFee(n, funds)

SplitSpec == SplitInit /\ [][SplitNext]_splitVars

-----------------------------------------------------------------------------
(* Properties *)

\* "the sum of all transfers always equals amount": a charge that succeeds
\* costs the payer the fee, to the stroop, wherever the shares are redirected
\* and whatever the payer's funds; nobody frozen receives any of it.
ExactlyCharged ==
    \A n \in charged :
        /\ Total(received) = n
        /\ \A a \in frozen : received[a] = 0

\* "each recipient receives at least floor(amount * bps / 10_000)", and at most
\* one stroop more; only the treasury, which takes over the shares of those
\* that cannot be paid, may receive more than that.
WithinOneStroop ==
    \A n \in charged : \A a \in DOMAIN split \ frozen :
        /\ received[a] >= Floors(n)[a]
        /\ a # Treasury => received[a] <= Floors(n)[a] + 1

\* "The recipient with the largest fractional remainder gets the leftover
\* stroop(s)": an odd stroop never goes past a larger fractional part, nor to a
\* share that came out exact.  Among equal parts the account first in the map's
\* order has it, though the comment calls the distribution "deterministic
\* regardless of map iteration order", and the treasury has no claim to it, though
\* src/README.md gives it one (RemainderToTreasury).
LargestRemainderFirst ==
    \A n \in charged : \A a, b \in DOMAIN split \ (frozen \cup {Treasury}) :
        received[a] > Floors(n)[a] /\ received[b] = Floors(n)[b] =>
            /\ Fracs(n)[a] > 0
            /\ \/ Fracs(n)[a] > Fracs(n)[b]
               \/ Fracs(n)[a] = Fracs(n)[b] /\ a <= b

\* The isolation guarantee of distribute_fee: as long as the treasury can
\* receive the fee token, no set of broken recipients makes a charge fail that
\* the payer can afford.
BrokenRecipientsIsolated ==
    Treasury \notin frozen =>
        \A n \in Amounts : Fits(n) => Distribute(n, n).ok


=============================================================================
