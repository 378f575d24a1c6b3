---------------------------- MODULE MCMigration -----------------------------
(***************************************************************************)
(* TLC instance of Migration: two old creators, one of them with a page    *)
(* that is exactly full, more tokens than one chunk.                       *)
(***************************************************************************)
EXTENDS Migration

CONSTANTS a, b

MCCreators == {a, b}
MCLegacy   == <<a, b, a>>

=============================================================================
