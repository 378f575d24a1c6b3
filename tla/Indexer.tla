------------------------------ MODULE Indexer -------------------------------
(***************************************************************************)
(* The token indexer (src/api/_lib/indexer): scheduled runs of runIngest   *)
(* copy the factory's tokens and their metadata URIs into a table, from    *)
(* the contract's views (back-fill, reconciliation) and from the RPC's     *)
(* event stream, which keeps only recent events.  A run is killed or fails *)
(* at any await, runs may overlap, reads fail.                             *)
(*                                                                         *)
(* A token is named by its enumeration index, a URI by the metadata        *)
(* version it was set with.  The stream holds the two topics ingest acts   *)
(* on; what was emitted before the indexer was deployed is no longer in it.*)
(***************************************************************************)
EXTENDS Integers, Sequences, FiniteSets

CONSTANTS
    Runs,           \* invocations of the cron endpoint that can overlap
    LastToken,      \* tokens the model creates
    LastEvent,      \* events the model's factory emits
    EarlierVersions,    \* the tokens older than the indexer, with their versions
    EarlierMapped,      \* those of them that the reverse mapping knows
    METADATA_MAX_UPDATES,
    Faults,         \* failing reads and killed runs
    EVENT_PAGE_SIZE,
    MAX_EVENT_PAGES_PER_RUN,
    BACKFILL_BATCH_SIZE,
    MAX_BACKFILL_BATCHES_PER_RUN

Tokens   == 1..LastToken
Versions == 1..METADATA_MAX_UPDATES
NoUri    == 0               \* metadata_uri NULL
NoCursor == 0               \* last_cursor NULL: the head of the stream
Unknown  == 0               \* the index a created event gets when its read fails

Created(t) == [topic |-> "created", token |-> t, version |-> 0]
Meta(t, v) == [topic |-> "meta", token |-> t, version |-> v]

\* The statements of upsertTokens and setMetadataUri; at orders those of a batch.
Row(n, t, i) == [op |-> "upsertTokens", at |-> n, token |-> t, value |-> i]
SetUri(n, e) == [op |-> "setMetadataUri", at |-> n, token |-> e.token, value |-> e.version]

ASSUME BoundsAssumption ==
    /\ LastToken \in Nat
    /\ LastEvent \in Nat
    /\ METADATA_MAX_UPDATES \in Nat
    /\ EarlierVersions \in Seq(0..METADATA_MAX_UPDATES)
    /\ Len(EarlierVersions) <= LastToken
    /\ EarlierMapped \subseteq 1..Len(EarlierVersions)
    /\ Faults \in Nat
    /\ EVENT_PAGE_SIZE \in Nat \ {0}
    /\ MAX_EVENT_PAGES_PER_RUN \in Nat \ {0}
    /\ BACKFILL_BATCH_SIZE \in Nat \ {0}
    /\ MAX_BACKFILL_BATCHES_PER_RUN \in Nat \ {0}

VARIABLES
    version,    \* the factory's tokens, with the metadata version of each
    log,        \* the factory's events since then, oldest first
    pruned,     \* how many of them the RPC no longer returns
    mapped,     \* tokens get_token_address resolves
    rows,       \* the tokens table: token -> index and URI
    saved,      \* the indexer_state row: last_cursor and backfill_complete
    run,        \* the invocations' local state
    faults,     \* faults still to come
    covered     \* history variable: the furthest event a checkpoint has passed

chainVars == <<version, log, pruned, mapped>>
vars      == <<chainVars, rows, saved, run, faults, covered>>

-----------------------------------------------------------------------------
(* Reading the chain and the table *)

token_count   == Len(version)
countTokens   == Cardinality(DOMAIN rows)
Present       == {rows[t].index : t \in DOMAIN rows}
First(n, S)   == {i \in S : Cardinality({j \in S : j < i}) < n}
RowsOf(S)     == {Row(i, i, i) : i \in S}

\* A read that fails is answered with null.  Which of them fail is open, and
\* any number of failures in one step counts as one fault.
FailingAmong(S) == IF faults > 0 THEN SUBSET S ELSE {{}}
Suffer(failed)  == faults' = IF failed = {} THEN faults ELSE faults - 1

Idle == [pc |-> "idle", count |-> 0, cursor |-> NoCursor, upto |-> 0,
         turn |-> 0, todo |-> {}]

-----------------------------------------------------------------------------
(* The factory *)

CreateToken ==
    /\ token_count < LastToken /\ Len(log) < LastEvent
    /\ version' = Append(version, 0)
    /\ log' = Append(log, Created(token_count + 1))
    /\ mapped' = mapped \cup {token_count + 1}
    /\ UNCHANGED <<pruned, rows, saved, run, faults, covered>>

SetMetadata(t) ==
    /\ t <= token_count /\ Len(log) < LastEvent
    /\ version[t] < METADATA_MAX_UPDATES
    /\ version' = [version EXCEPT ![t] = @ + 1]
    /\ log' = Append(log, Meta(t, version[t] + 1))
    /\ UNCHANGED <<pruned, mapped, rows, saved, run, faults, covered>>

\* backfill_token_address, which anyone may call.
BackfillTokenAddress(t) ==
    /\ t \in (1..token_count) \ mapped
    /\ mapped' = mapped \cup {t}
    /\ UNCHANGED <<version, log, pruned, rows, saved, run, faults, covered>>

\* The RPC keeps events for days and runs start every five minutes: an event
\* goes after a checkpoint has passed it, while nothing is running.
Prune ==
    /\ pruned < covered
    /\ \A r \in Runs : run[r].pc = "idle"
    /\ pruned' = pruned + 1
    /\ UNCHANGED <<version, log, mapped, rows, saved, run, faults, covered>>

-----------------------------------------------------------------------------
(* One run of runIngest *)

At(r, pc)   == run[r].pc = pc /\ run[r].todo = {}
Goto(r, pc) == run' = [run EXCEPT ![r].pc = pc]

Begin(r) ==
    /\ At(r, "idle")
    /\ run' = [run EXCEPT ![r].pc = "state", ![r].count = token_count]
    /\ UNCHANGED <<chainVars, rows, saved, faults, covered>>

ReadState(r) ==
    /\ At(r, "state")
    /\ Goto(r, IF saved.complete THEN "open" ELSE "backfill")
    /\ UNCHANGED <<chainVars, rows, saved, faults, covered>>

\* backfillIndices: the rows of the indices asked for that the table lacks and
\* the factory can resolve.  Nothing to write ends the phase (otherwise).
ReadIndices(r, indices, pc, otherwise) ==
    LET missing == indices \ Present
    IN  \E failed \in FailingAmong(missing \cap mapped) :
            LET found == (missing \cap mapped) \ failed
            IN  /\ Suffer(failed)
                /\ run' = [run EXCEPT ![r].pc   = IF found = {} THEN otherwise ELSE pc,
                                      ![r].turn = IF found = {} THEN 0 ELSE @ + 1,
                                      ![r].todo = RowsOf(found)]

RunBackfill(r) ==
    /\ At(r, "backfill")
    /\ LET end    == countTokens + BACKFILL_BATCH_SIZE
           window == {i \in countTokens + 1..end : i <= run[r].count}
       IN  IF run[r].turn < MAX_BACKFILL_BATCHES_PER_RUN
           THEN ReadIndices(r, window, "backfill", "open")
           ELSE /\ run' = [run EXCEPT ![r].pc = "open", ![r].turn = 0]
                /\ UNCHANGED faults
    /\ UNCHANGED <<chainVars, rows, saved, covered>>

OpenStream(r) ==
    /\ At(r, "open")
    /\ run' = [run EXCEPT ![r].pc = "page", ![r].cursor = saved.cursor]
    /\ UNCHANGED <<chainVars, rows, saved, faults, covered>>

\* getEventPage from the cursor on; a page that is not full has reached the head.
\* Without a cursor the stream starts at the oldest event still kept: what an RPC
\* makes of a configured start ledger that it has pruned is left out.
From(r) == IF run[r].cursor < pruned THEN pruned ELSE run[r].cursor
Full(r) == From(r) + EVENT_PAGE_SIZE <= Len(log)
Upto(r) == IF Full(r) THEN From(r) + EVENT_PAGE_SIZE ELSE Len(log)

OnPage(r, topic) == {n \in From(r) + 1..Upto(r) : log[n].topic = topic}

\* The writes its events call for, some with their index lookup failed.
WritesOf(r, failed) ==
    LET Index(t) == IF t \in failed THEN Unknown ELSE t
    IN  {Row(n, log[n].token, Index(log[n].token)) : n \in OnPage(r, "created")}
        \cup {SetUri(n, log[n]) : n \in OnPage(r, "meta")}

ReadPage(r) ==
    /\ At(r, "page")
    /\ \E failed \in FailingAmong({log[n].token : n \in OnPage(r, "created")}) :
         /\ Suffer(failed)
         /\ run' = [run EXCEPT ![r] =
                     [@ EXCEPT !.pc     = "save",
                               !.cursor = IF Full(r) THEN Upto(r) ELSE NoCursor,
                               !.upto   = Upto(r),
                               !.turn   = run[r].turn + 1,
                               !.todo   = WritesOf(r, failed)]]
    /\ UNCHANGED <<chainVars, rows, saved, covered>>

\* saveState with the page's cursor; a null one, or the last page of the run's
\* budget, ends the loop.
Checkpoint(r) ==
    /\ saved' = [saved EXCEPT !.cursor = run[r].cursor]
    /\ covered' = IF covered < run[r].upto THEN run[r].upto ELSE covered
    /\ run' = [run EXCEPT ![r] =
                 IF @.cursor = NoCursor \/ @.turn = MAX_EVENT_PAGES_PER_RUN
                 THEN [@ EXCEPT !.pc = "reconcile", !.cursor = NoCursor, !.upto = 0, !.turn = 0]
                 ELSE [@ EXCEPT !.pc = "page"]]
    /\ UNCHANGED <<chainVars, rows, faults>>

\* Mutant of SavePage: the checkpoint ahead of the page's writes.
SavePage_BeforeWrites(r) == run[r].pc = "save" /\ Checkpoint(r)

SavePage(r) == At(r, "save") /\ Checkpoint(r)

\* Mutant: reconciles by count, as the back-fill does.
Reconcile_FromCount(r) ==
    /\ At(r, "reconcile")
    /\ IF countTokens < run[r].count
       THEN ReadIndices(r, countTokens + 1..run[r].count, "finish", "finish")
       ELSE Goto(r, "finish") /\ UNCHANGED faults
    /\ UNCHANGED <<chainVars, rows, saved, covered>>

Reconcile(r) ==
    /\ At(r, "reconcile")
    /\ IF countTokens < run[r].count
       THEN ReadIndices(r, First(BACKFILL_BATCH_SIZE, (1..run[r].count) \ Present),
                        "finish", "finish")
       ELSE Goto(r, "finish") /\ UNCHANGED faults
    /\ UNCHANGED <<chainVars, rows, saved, covered>>

Finish(r) ==
    /\ At(r, "finish")
    /\ saved' = [saved EXCEPT !.complete = countTokens >= run[r].count]
    /\ run' = [run EXCEPT ![r] = Idle]
    /\ UNCHANGED <<chainVars, rows, faults, covered>>

-----------------------------------------------------------------------------
(* The writes of a run, one statement each *)

\* The rows of a page come before its URIs, and each in the stream's order.
Before(v, w) ==
    \/ v.op = "upsertTokens" /\ w.op = "setMetadataUri"
    \/ v.op = w.op /\ v.at < w.at

\* token_index is UNIQUE: an index another row holds is refused, and the
\* exception ends the run.
UpsertRefused(w) == \E t \in DOMAIN rows \ {w.token} : rows[t].index = w.value

WithRow(t, row) == [u \in DOMAIN rows \cup {t} |-> IF u = t THEN row ELSE rows[u]]

\* Mutant: the upsert takes the null URI it was given (no COALESCE).
Upsert_Overwrites(w) == rows' = WithRow(w.token, [index |-> w.value, uri |-> NoUri])

Upsert(w) ==
    LET old == IF w.token \in DOMAIN rows THEN rows[w.token].uri ELSE NoUri
    IN  rows' = WithRow(w.token, [index |-> w.value, uri |-> old])

SetMetadataUri(w) ==
    rows' = [t \in DOMAIN rows |-> IF t = w.token THEN [rows[t] EXCEPT !.uri = w.value]
                                                  ELSE rows[t]]

Write(r) ==
    /\ \E w \in run[r].todo :
         /\ \A v \in run[r].todo : ~Before(v, w)
         /\ \/ /\ w.op = "upsertTokens"
               /\ ~UpsertRefused(w)
               /\ Upsert(w)
               /\ run' = [run EXCEPT ![r].todo = @ \ {w}]
            \/ /\ w.op = "upsertTokens"
               /\ UpsertRefused(w)
               /\ run' = [run EXCEPT ![r] = Idle]
               /\ UNCHANGED rows
            \/ /\ w.op = "setMetadataUri"
               /\ SetMetadataUri(w)
               /\ run' = [run EXCEPT ![r].todo = @ \ {w}]
    /\ UNCHANGED <<chainVars, saved, faults, covered>>

\* An exception, or the platform killing the function: what was written stays,
\* the checkpoint and backfill_complete too.
Fail(r) ==
    /\ faults > 0
    /\ run[r].pc # "idle"
    /\ faults' = faults - 1
    /\ run' = [run EXCEPT ![r] = Idle]
    /\ UNCHANGED <<chainVars, rows, saved, covered>>

-----------------------------------------------------------------------------
Init ==
    /\ version = EarlierVersions
    /\ log = << >>
    /\ pruned = 0
    /\ mapped = EarlierMapped
    /\ rows = [t \in {} |-> NoUri]
    /\ saved = [cursor |-> NoCursor, complete |-> FALSE]
    /\ run = [r \in Runs |-> Idle]
    /\ faults = Faults
    /\ covered = 0

Step(r) ==
    \/ Begin(r)
    \/ ReadState(r)
    \/ RunBackfill(r)
    \/ OpenStream(r)
    \/ ReadPage(r)
    \/ Write(r)
    \/ SavePage(r)
    \/ Reconcile(r)
    \/ Finish(r)

Next ==
    \/ CreateToken
    \/ \E t \in Tokens : SetMetadata(t) \/ BackfillTokenAddress(t)
    \/ Prune
    \/ \E r \in Runs : Step(r) \/ Fail(r)

\* The platform starts runs on schedule, and a run that neither fails nor is
\* killed goes on.
Spec == Init /\ [][Next]_vars /\ \A r \in Runs : WF_vars(Step(r))

-----------------------------------------------------------------------------
(* Properties *)

\* ingest.ts: "the cursor advances only after a page has been written, so a
\* crash mid-run replays the range rather than skipping it".  Whatever was
\* killed, refused or run twice, each event a checkpoint has passed is in the
\* table: its token has a row, and a URI once one of its meta events was passed.
\* (A meta event of a token older than the indexer is dropped while the token
\* has no row.)
Announced(t, n) == \E m \in 1..n : log[m] = Created(t)

InTable(n) ==
    LET t == log[n].token
    IN  IF log[n].topic = "created" THEN t \in DOMAIN rows
        ELSE Announced(t, n) => t \in DOMAIN rows /\ rows[t].uri # NoUri

NothingSkipped == \A n \in 1..covered : InTable(n)

Cache == INSTANCE TokenCache WITH
            Tokens  <- Tokens,
            Uris    <- Versions,
            NoUri   <- NoUri,
            history <- [t \in 1..token_count |-> [v \in 1..version[t] |-> v]],
            cache   <- [t \in DOMAIN rows |-> rows[t].uri]

\* The detailed runs implement the cache they promise.
ImplementsTokenCache == Cache!CacheSpec

\* Once the factory is quiet, every token it can resolve is served for good: the
\* ones it created before the indexer was deployed too, whatever failed before.
CatchesUp == <>[](mapped \subseteq DOMAIN rows)

=============================================================================
