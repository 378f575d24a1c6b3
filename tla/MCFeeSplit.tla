----------------------------- MODULE MCFeeSplit -----------------------------
(***************************************************************************)
(* TLC instances of FeeSplit.                                              *)
(***************************************************************************)
EXTENDS FeeSplit

MCBpsValues == 0..5
MCAmounts   == 0..11

=============================================================================
