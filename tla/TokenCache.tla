----------------------------- MODULE TokenCache -----------------------------
(***************************************************************************)
(* What the indexer promises its readers: a cache of the factory's tokens  *)
(* and of their metadata URIs that learns tokens late and URIs later, may  *)
(* fall back to an earlier URI of the same token, but never serves a token *)
(* the factory has not, a URI the token never had, or less than before.    *)
(***************************************************************************)
EXTENDS Sequences

CONSTANTS
    Tokens,
    Uris,
    NoUri       \* a token served without a URI

VARIABLES
    history,    \* token -> the URIs set_metadata has given it, oldest first
    cache       \* token -> the URI the indexer serves with it

cacheVars == <<history, cache>>

\* The URIs that set_metadata has given t.
Given(t) == {history[t][i] : i \in DOMAIN history[t]}

CacheTypeOK ==
    /\ DOMAIN history \subseteq Tokens
    /\ \A t \in DOMAIN history : history[t] \in Seq(Uris)
    /\ DOMAIN cache \subseteq DOMAIN history
    /\ \A t \in DOMAIN cache : cache[t] \in Given(t) \cup {NoUri}

CacheInit == CacheTypeOK /\ DOMAIN cache = {}

-----------------------------------------------------------------------------
(* The factory *)

TokenCreated(t) ==
    /\ t \in Tokens \ DOMAIN history
    /\ history' = [u \in DOMAIN history \cup {t} |-> IF u = t THEN << >> ELSE history[u]]
    /\ UNCHANGED cache

UriSet(t, uri) ==
    /\ t \in DOMAIN history
    /\ history' = [history EXCEPT ![t] = Append(@, uri)]
    /\ UNCHANGED cache

-----------------------------------------------------------------------------
(* The indexer *)

TokenLearned(t) ==
    /\ t \in DOMAIN history \ DOMAIN cache
    /\ cache' = [u \in DOMAIN cache \cup {t} |-> IF u = t THEN NoUri ELSE cache[u]]
    /\ UNCHANGED history

UriLearned(t, uri) ==
    /\ t \in DOMAIN cache
    /\ uri \in Given(t)
    /\ cache' = [cache EXCEPT ![t] = uri]
    /\ UNCHANGED history

CacheNext ==
    \E t \in Tokens :
        \/ TokenCreated(t)
        \/ TokenLearned(t)
        \/ \E uri \in Uris : UriSet(t, uri) \/ UriLearned(t, uri)

CacheSpec == CacheInit /\ [][CacheNext]_cacheVars

=============================================================================
