--------------------------- MODULE MCMetadataPins ---------------------------
(***************************************************************************)
(* TLC instances of MetadataPins: two tokens of two wallets that choose    *)
(* the same image, and one token whose creator changes the image.          *)
(***************************************************************************)
EXTENDS MetadataPins

CONSTANTS t1, t2, w1, w2

MCCreator == [t \in Tokens |-> IF t = t1 THEN w1 ELSE w2]

=============================================================================
