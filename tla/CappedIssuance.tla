--------------------------- MODULE CappedIssuance ---------------------------
(***************************************************************************)
(* What the factory promises the holders of its tokens, without the        *)
(* registry, the counters, the fees or the pause switch: a token is        *)
(* launched once with a cap that never changes, its cumulative issue never *)
(* passes the cap, and what circulates grows only by issue and shrinks     *)
(* only by burning.                                                        *)
(***************************************************************************)
EXTENDS Integers

CONSTANTS Tokens, Caps, NoCap

VARIABLES
    cap,         \* the cap of every launched token
    minted,      \* what each has issued in its life
    circulating  \* what its holders have now

vars == <<cap, minted, circulating>>

Init == /\ cap = [t \in {} |-> NoCap]
        /\ minted = [t \in {} |-> 0]
        /\ circulating = [t \in {} |-> 0]

\* Some new tokens are launched; every other token stays as it is.
Launch ==
    \E new \in SUBSET (Tokens \ DOMAIN cap) :
        /\ new # {}
        /\ DOMAIN cap' = DOMAIN cap \cup new
        /\ DOMAIN minted' = DOMAIN cap'
        /\ circulating' = [t \in DOMAIN cap' |-> IF t \in new THEN minted'[t]
                                                              ELSE circulating[t]]
        /\ \A t \in DOMAIN cap : cap'[t] = cap[t] /\ minted'[t] = minted[t]
        /\ \A t \in new : /\ cap'[t] \in Caps
                          /\ minted'[t] \in Nat
                          /\ cap'[t] # NoCap => minted'[t] <= cap'[t]

Issue(t) ==
    /\ minted'[t] > minted[t]
    /\ cap[t] # NoCap => minted'[t] <= cap[t]
    /\ minted' = [minted EXCEPT ![t] = minted'[t]]
    /\ circulating' = [circulating EXCEPT ![t] = @ + (minted'[t] - minted[t])]
    /\ UNCHANGED cap

Retire(t) ==
    /\ circulating'[t] \in 0..circulating[t]
    /\ circulating' = [circulating EXCEPT ![t] = circulating'[t]]
    /\ UNCHANGED <<cap, minted>>

Next == Launch \/ \E t \in DOMAIN cap : Issue(t) \/ Retire(t)

Spec == Init /\ [][Next]_vars

=============================================================================
