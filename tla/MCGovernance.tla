---------------------------- MODULE MCGovernance ----------------------------
(***************************************************************************)
(* TLC instance of Governance: keys and hashes are interchangeable.        *)
(***************************************************************************)
EXTENDS Governance, TLC

MCSymmetry == Permutations(Accounts) \cup Permutations(Hashes)

=============================================================================
