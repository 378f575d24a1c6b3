-------------------------- MODULE AnnouncedChange ---------------------------
(***************************************************************************)
(* A value that is never replaced without warning.  A replacement is       *)
(* announced; it may be withdrawn or announced anew, which starts its age  *)
(* again; and it takes effect only while its age is in a window.  This is  *)
(* what Governance promises whoever watches the factory, about its         *)
(* administrator and about its code.                                       *)
(***************************************************************************)
EXTENDS Integers

CONSTANTS Values, None, MinAge, MaxAge

VARIABLES
    current,    \* the value in force
    announced,  \* its announced replacement, or None
    since,      \* when that was announced (meaningless if announced = None)
    now         \* the clock

vars == <<current, announced, since, now>>

Init == current \in Values /\ announced = None /\ now \in Nat

Announce(v) ==
    /\ announced' = v
    /\ since' = now
    /\ UNCHANGED <<current, now>>

Withdraw ==
    /\ announced' = None
    /\ UNCHANGED <<current, now>>

TakeEffect ==
    /\ announced # None
    /\ now - since >= MinAge
    /\ now - since < MaxAge
    /\ current' = announced
    /\ announced' = None
    /\ UNCHANGED now

Pass ==
    /\ now' > now
    /\ UNCHANGED <<current, announced, since>>

Next == \/ \E v \in Values : Announce(v)
        \/ Withdraw
        \/ TakeEffect
        \/ Pass

Spec == Init /\ [][Next]_vars

=============================================================================
