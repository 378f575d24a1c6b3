-------------------------- MODULE MCAdministration --------------------------
(***************************************************************************)
(* TLC instance of what the administrator sets: the administration and the *)
(* code of the factory, and the division of its fees.  They share no       *)
(* state, so a behaviour runs one of them, its part, and leaves the other  *)
(* as it starts.                                                           *)
(***************************************************************************)
EXTENDS MCGovernance, MCFeeSplit

VARIABLE part

AdministrationInit ==
    /\ part \in {"governance", "fees"}
    /\ Init
    /\ SplitInit

AdministrationNext ==
    /\ \/ part = "governance" /\ Next /\ UNCHANGED splitVars
       \/ part = "fees" /\ SplitNext /\ UNCHANGED vars
    /\ UNCHANGED part

AdministrationSpec ==
    AdministrationInit /\ [][AdministrationNext]_<<vars, splitVars, part>>

=============================================================================
