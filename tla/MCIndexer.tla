----------------------------- MODULE MCIndexer ------------------------------
(***************************************************************************)
(* TLC instance of Indexer: one token older than the indexer, without a    *)
(* reverse mapping, and room for one more.                                 *)
(***************************************************************************)
EXTENDS Indexer

MCEarlierVersions == <<0>>

=============================================================================
