--------------------------- MODULE ExplorerPages ---------------------------
(***************************************************************************)
(* The token explorer's pages                                              *)
(* (src/frontend/src/hooks/useExplorerTokens.ts over getAllTokens of       *)
(* stellar-impl.ts, or of tokenSource.ts when the indexer is enabled).     *)
(* Pages are windows below a count of the factory's tokens, read once and  *)
(* kept in a ref, so that new tokens do not shift them; pages are cached.  *)
(* A change of page or network, a refresh and a retry each start a new     *)
(* run of the effect; the superseded one is cancelled, but its request     *)
(* goes on and its answer is still cached.                                 *)
(***************************************************************************)
EXTENDS Integers, FiniteSets

CONSTANTS
    Chains,          \* networks, each with its factory
    PAGE_SIZE,       \* EXPLORER_PAGE_SIZE
    MaxCount,        \* bound on the tokens of a factory
    indexerEnabled,  \* isIndexerEnabled: a flag of the build
    IndexedChain     \* the network whose factory the indexer follows

ASSUME PagesAssumption == PAGE_SIZE \in Nat \ {0} /\ MaxCount \in Nat

VARIABLES
    count,        \* external: tokens of each factory
    chain,        \* the network selected
    currentPage,
    snapshot,     \* tokenCountSnapshotRef; Unread: not read
    pageCache,    \* pageCacheRef: pages by network and number
    run,          \* the current run of the effect
    late,         \* requests of cancelled runs that are still answered
    shown,        \* the page that tokens and totalTokens are of
    error,
    mixed         \* history: the cache may hold pages of two snapshots

pageVars == <<count, chain, currentPage, snapshot, pageCache, run, late, shown,
              error, mixed>>

Unread == -1
Key    == <<chain, currentPage>>

Loading == run.stage # "done"

Highest(S) == CHOOSE i \in S : \A j \in S : j <= i

Lowest(S) == CHOOSE i \in S : \A j \in S : i <= j

\* The tokens of page p below a count of n, newest first.
Window(n, p) ==
    LET high == n - (p - 1) * PAGE_SIZE
    IN {i \in 1..high : i > high - PAGE_SIZE}

\* The run of the effect with the snapshot and the cache of its start: it
\* asks for the count, asks for the page, or has the page.
StartRun(key, snap, pages) ==
    IF snap = Unread THEN [stage |-> "count"]
    ELSE IF key \in DOMAIN pages THEN [stage |-> "enrich", page |-> pages[key]]
    ELSE [stage |-> "tokens", snap |-> snap]

PageInit ==
    /\ count \in [Chains -> 0..MaxCount]
    /\ chain \in Chains
    /\ currentPage = 1
    /\ snapshot = Unread
    /\ pageCache = [key \in {} |-> 0]
    /\ run = [stage |-> "count"]
    /\ late = {}
    /\ shown = [key |-> <<chain, 0>>, total |-> 0]
    /\ error = FALSE
    /\ mixed = FALSE

TokenCreated(c) ==
    /\ count[c] < MaxCount
    /\ count' = [count EXCEPT ![c] = @ + 1]
    /\ UNCHANGED <<chain, currentPage, snapshot, pageCache, run, late, shown,
                   error, mixed>>

-----------------------------------------------------------------------------
(* What changes the page *)

\* The effect's cleanup cancels its run; a request for a page goes on.
Supersede ==
    late' = IF run.stage = "tokens" THEN late \cup {[key |-> Key, snap |-> run.snap]}
                                    ELSE late

\* The snapshot is not read again for the other network.
SwitchChain(c) ==
    /\ c # chain
    /\ chain' = c
    /\ Supersede
    /\ run' = StartRun(<<c, currentPage>>, snapshot, pageCache)
    /\ error' = FALSE
    /\ UNCHANGED <<count, currentPage, snapshot, pageCache, shown, mixed>>

\* The controls are hidden during a load, after an error and for a single page.
GoTo(p) ==
    /\ ~Loading
    /\ ~error
    /\ shown.total > PAGE_SIZE
    /\ \/ p = currentPage - 1 /\ p >= 1
       \/ p = currentPage + 1 /\ (p - 1) * PAGE_SIZE < shown.total
    /\ currentPage' = p
    /\ run' = StartRun(<<chain, p>>, snapshot, pageCache)
    /\ UNCHANGED <<count, chain, snapshot, pageCache, late, shown, error, mixed>>

NoPages == [key \in {} |-> 0]

Refresh_KeepsPages ==
    /\ ~Loading
    /\ snapshot' = Unread
    /\ UNCHANGED pageCache
    /\ currentPage' = 1
    /\ run' = [stage |-> "count"]
    /\ error' = FALSE
    /\ mixed' = (late # {})
    /\ UNCHANGED <<count, chain, late, shown>>

Refresh ==
    /\ ~Loading
    /\ snapshot' = Unread
    /\ pageCache' = NoPages
    /\ currentPage' = 1
    /\ run' = [stage |-> "count"]
    /\ error' = FALSE
    /\ mixed' = (late # {})
    /\ UNCHANGED <<count, chain, late, shown>>

\* The other pages stay cached beside the snapshot that is read anew.
Retry ==
    /\ ~Loading
    /\ error
    /\ snapshot' = Unread
    /\ pageCache' = [key \in DOMAIN pageCache \ {Key} |-> pageCache[key]]
    /\ run' = [stage |-> "count"]
    /\ error' = FALSE
    /\ mixed' = (mixed \/ DOMAIN pageCache' # {} \/ late # {})
    /\ UNCHANGED <<count, chain, currentPage, late, shown>>

-----------------------------------------------------------------------------
(* What a run waits for *)

RunFails ==
    /\ run' = [stage |-> "done"]
    /\ shown' = [key |-> Key, total |-> shown.total]
    /\ error' = TRUE

CountArrives ==
    /\ run.stage = "count"
    /\ \/ /\ snapshot' = count[chain]
          /\ run' = StartRun(Key, count[chain], pageCache)
          /\ UNCHANGED <<shown, error>>
       \/ RunFails /\ UNCHANGED snapshot
    /\ UNCHANGED <<count, chain, currentPage, pageCache, late, mixed>>

\* getAllTokens over RPC: the page covers its window, also when the read of an
\* index failed and its token is missing in the list; a window that resolved
\* nothing fails as a whole.
RpcPages(key, snap) ==
    LET window == Window(snap, key[2])
        Resolved == window = {} \/ window \cap 1..count[key[1]] # {}
    IN IF Resolved THEN {[indices |-> window, total |-> snap]} ELSE {}

\* getAllTokens of the indexer, whichever the network: the newest of the
\* tokens that it has listed below the cursor.
IndexerPages(key) ==
    LET offset == (key[2] - 1) * PAGE_SIZE
        Below(k) == {i \in 1..k : offset > 0 => i < offset}
        Newest(s) == {i \in s : Cardinality({j \in s : j > i}) < PAGE_SIZE}
        Page(got) == [indices |-> got, total |-> Highest(got \cup {offset + Cardinality(got)})]
    IN {Page(Newest(Below(k))) : k \in 0..count[IndexedChain]}

\* The indexer's page, or RPC's when the indexer failed, timed out or lags.
getAllTokens(key, snap) ==
    RpcPages(key, snap) \cup (IF indexerEnabled THEN IndexerPages(key) ELSE {})

Cached(key, page) ==
    [k \in DOMAIN pageCache \cup {key} |-> IF k = key THEN page ELSE pageCache[k]]

TokensArrive ==
    /\ run.stage = "tokens"
    /\ \/ \E page \in getAllTokens(Key, run.snap) :
            /\ pageCache' = Cached(Key, page)
            /\ run' = [stage |-> "enrich", page |-> page]
            /\ UNCHANGED <<shown, error>>
       \/ RunFails /\ UNCHANGED pageCache
    /\ UNCHANGED <<count, chain, currentPage, snapshot, late, mixed>>

\* enrichPage waits for events and metadata, which may be missing.
EnrichmentArrives ==
    /\ run.stage = "enrich"
    /\ run' = [stage |-> "done"]
    /\ shown' = [key |-> Key, total |-> run.page.total]
    /\ UNCHANGED <<count, chain, currentPage, snapshot, pageCache, late, error, mixed>>

\* The answer to a cancelled run is cached and goes no further.
LateArrives_NotCancelled(f) ==
    /\ late' = late \ {f}
    /\ \E page \in getAllTokens(f.key, f.snap) :
         /\ pageCache' = Cached(f.key, page)
         /\ shown' = [key |-> f.key, total |-> page.total]
    /\ UNCHANGED <<count, chain, currentPage, snapshot, run, error, mixed>>

LateArrives(f) ==
    /\ late' = late \ {f}
    /\ \/ \E page \in getAllTokens(f.key, f.snap) : pageCache' = Cached(f.key, page)
       \/ UNCHANGED pageCache
    /\ UNCHANGED <<count, chain, currentPage, snapshot, run, shown, error, mixed>>

PageNext ==
    \/ \E c \in Chains : TokenCreated(c) \/ SwitchChain(c)
    \/ \E p \in 1..MaxCount : GoTo(p)
    \/ Refresh
    \/ Retry
    \/ CountArrives
    \/ TokensArrive
    \/ EnrichmentArrives
    \/ \E f \in late : LateArrives(f)

PageSpec == PageInit /\ [][PageNext]_pageVars

-----------------------------------------------------------------------------
(* Properties *)

\* When nothing is loading, what the explorer shows is the page and the
\* network selected, whatever requests of earlier selections arrive when.
LatestWins == Loading \/ shown.key = Key

Indices(key) == pageCache[key].indices

\* Cached pages of one network follow each other, full ones, without a gap and
\* without a token on two of them.
Tile ==
    \A a, b \in DOMAIN pageCache :
        a[1] = b[1] /\ a[2] < b[2] /\ Indices(b) # {} =>
            /\ Indices(a) # {}
            /\ Highest(Indices(b)) = Lowest(Indices(a)) - 1 - (b[2] - a[2] - 1) * PAGE_SIZE

\* Tokens created meanwhile never shift the pages of a session, so that there
\* are no duplicates or gaps: only a retry, or a request from before a
\* refresh, mixes two snapshots, and the next refresh separates them again.
\* It holds over RPC; with the indexer enabled it does not.
WindowsTile == ~mixed => Tile

=============================================================================
