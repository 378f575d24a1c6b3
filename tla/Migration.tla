----------------------------- MODULE Migration ------------------------------
(***************************************************************************)
(* A factory written by an older binary, under the present code            *)
(* (src/contracts/token-factory/src/lib.rs): migrate moves TokenInfo from  *)
(* instance to persistent storage in bounded chunks, every other keyed     *)
(* entry moves when a call touches it, a creator's list moves at the       *)
(* creator's next token, and the operator back-fills what old binaries did *)
(* not store.  All of it interleaves with ordinary calls.                  *)
(*                                                                         *)
(* A token is named by its index.  Who may call what, the pause switch and *)
(* the fees are in TokenFactory, and so are the counters of new tokens.    *)
(***************************************************************************)
EXTENDS Integers, Sequences

CONSTANTS
    Creators,
    Legacy,                      \* the creators of the old binary's tokens, in order
    Capped,                      \* which of them have a max_supply
    Cap,                         \* that max_supply
    MaxTokenCount,               \* tokens a run creates
    MAX_TOKENS_BY_CREATOR_PAGE,
    MIGRATE_TOKEN_INFO_CHUNK

ASSUME CreatorsAssumption == Legacy \in Seq(Creators)
ASSUME BoundsAssumption ==
    /\ Cap \in Nat \ {0}
    /\ MaxTokenCount \in Nat
    /\ Len(Legacy) <= MaxTokenCount
    /\ Capped \subseteq DOMAIN Legacy
    /\ MAX_TOKENS_BY_CREATOR_PAGE \in Nat \ {0}
    /\ MIGRATE_TOKEN_INFO_CHUNK \in Nat \ {0}

VARIABLES
    sv,                  \* the on-chain schema version
    mig3cur,             \* the cursor of schema step 3
    token_count,
    settings,            \* optional fields of FactoryState that are set
    instance,            \* keyed entries in the shared instance entry,
    persistent,          \*   and in entries of their own
    legacyList,          \* LegacyDataKey::CreatorTokens, absent once moved
    page,                \* DataKey::CreatorTokens(creator, page number)
    count,               \* DataKey::CreatorTokenCount(creator)
    bkfld,               \* tokens with the back-fill marker
    verified,            \* external: the supply the operator reconstructed
    missed,              \* history: units issued that a back-fill did not know of
    issued,              \* history: what each capped token ever issued
    burnEnabled,         \* history: the burn switch as its creator last set it
    creator              \* history: who created each token

entries == <<instance, persistent>>
lists   == <<legacyList, page, count>>
admins  == <<sv, mig3cur, settings>>
repair  == <<bkfld, verified>>
past    == <<missed, issued, burnEnabled, creator>>
vars == <<admins, token_count, entries, lists, repair, past>>

\* The keys DataKey::TokenInfo(i) and (address of i, "supply"); the value of
\* the first is its burn_enabled.
InfoKey(i)   == <<"info", i>>
SupplyKey(i) == <<"supply", i>>

EmptyMap == [k \in {} |-> k]

Put(f, key, val) ==
    [k \in DOMAIN f \cup {key} |-> IF k = key THEN val ELSE f[k]]

\* read_addr_keyed
Read(key, default) ==
    IF key \in DOMAIN persistent THEN persistent[key]
    ELSE IF key \in DOMAIN instance THEN instance[key]
    ELSE default

Lesser(m, n) == IF m <= n THEN m ELSE n

\* The indices of c's tokens, in order, when s says who created each token.
IndicesUpTo(s, c) ==
    LET list[n \in Nat] ==
          IF n = 0 THEN <<>>
          ELSE IF s[n] = c THEN Append(list[n - 1], n)
          ELSE list[n - 1]
    IN list

IndicesOf(c) == IndicesUpTo(creator, c)[Len(creator)]

\* append_creator_token cuts the legacy list into pages.
PagesOf(s) ==
    LET P == MAX_TOKENS_BY_CREATOR_PAGE
        pages == (Len(s) + P - 1) \div P
    IN [k \in 1..pages |-> SubSeq(s, (k - 1) * P + 1, Lesser(k * P, Len(s)))]

\* The old binary kept everything in the instance entry (schema 0 to 2) or has
\* already moved it (3, 4), wrote no TokenAddress, and counted only what
\* mint_tokens issued: here one unit or none, after an initial supply of one.
OldEntries(minted) ==
    [k \in {InfoKey(i) : i \in DOMAIN Legacy}
             \cup {SupplyKey(i) : i \in {j \in Capped : minted > 0}} |->
        IF k[1] = "info" THEN TRUE ELSE minted]

OldCreators == {Legacy[i] : i \in DOMAIN Legacy}

\* The state struct that the old binary wrote is taken to decode under the
\* present code, its optional fields unset: migrate reads it as every call does,
\* and would fail with them all if it did not.
Init ==
    /\ sv \in 0..4
    /\ mig3cur = 0
    /\ token_count = Len(Legacy)
    /\ settings = {}
    /\ creator = Legacy
    /\ \E minted \in {0, 1} :
         /\ instance = IF sv < 3 THEN OldEntries(minted) ELSE EmptyMap
         /\ persistent = IF sv < 3 THEN EmptyMap ELSE OldEntries(minted)
         /\ issued = [i \in Capped |-> 1 + minted]
    /\ IF sv < 3
       THEN /\ legacyList = [c \in OldCreators |-> IndicesOf(c)]
            /\ page = [c \in Creators |-> <<>>]
            /\ count = EmptyMap
       ELSE /\ legacyList = EmptyMap
            /\ page = [c \in Creators |-> PagesOf(IndicesOf(c))]
            /\ count = [c \in OldCreators |-> Len(IndicesOf(c))]
    /\ bkfld = {}
    /\ missed = EmptyMap
    /\ verified = EmptyMap
    /\ burnEnabled = [i \in DOMAIN Legacy |-> TRUE]

-----------------------------------------------------------------------------
(* A definition named X_<fault> is X with that fault; it stands before X and *)
(* is used only to see that the properties detect the fault.                *)

\* migrate_addr_keyed for the keys K: what persistent lacks is moved over.
LeftBehind_Copied(K) == instance

LeftBehind(K) ==
    [k \in DOMAIN instance \ (K \ DOMAIN persistent) |-> instance[k]]

Moved(K) ==
    [k \in DOMAIN persistent \cup (K \cap DOMAIN instance) |->
        IF k \in DOMAIN persistent THEN persistent[k] ELSE instance[k]]

\* Set a key after its old copy, if any, has been moved.
MigrateAndSet(K, key, val) ==
    /\ persistent' = Put(Moved(K), key, val)
    /\ instance' = LeftBehind(K)

-----------------------------------------------------------------------------
(* Creator lists *)

\* The page that the next index goes to, and the pages with it appended.
TailPage_Last(n) == IF n = 0 THEN 1 ELSE (n - 1) \div MAX_TOKENS_BY_CREATOR_PAGE + 1

TailPage(n) == n \div MAX_TOKENS_BY_CREATOR_PAGE + 1

AppendIndex(pages, n, index) ==
    LET t == TailPage(n)
    IN IF t \in DOMAIN pages THEN [pages EXCEPT ![t] = Append(@, index)]
       ELSE Append(pages, <<index>>)

OldPages_Dropped(c) == IF c \in DOMAIN count THEN page[c] ELSE <<>>

OldPages(c) ==
    IF c \in DOMAIN count THEN page[c]
    ELSE IF c \in DOMAIN legacyList THEN PagesOf(legacyList[c])
    ELSE <<>>

OldCount(c) ==
    IF c \in DOMAIN count THEN count[c]
    ELSE IF c \in DOMAIN legacyList THEN Len(legacyList[c])
    ELSE 0

\* The pages after each of the new indices, which follow token_count.
Appended(c) ==
    LET pages[k \in Nat] ==
          IF k = 0 THEN OldPages(c)
          ELSE AppendIndex(pages[k - 1], OldCount(c) + k - 1, token_count + k)
    IN pages

\* create_token, or create_tokens_batch for n > 1.
CreateTokens(c, n) ==
    LET new == token_count + 1 .. token_count + n IN
    /\ token_count + n <= MaxTokenCount
    /\ token_count' = token_count + n
    /\ persistent' = [k \in DOMAIN persistent \cup {InfoKey(i) : i \in new} |->
                        IF k \in DOMAIN persistent THEN persistent[k] ELSE TRUE]
    /\ page' = [page EXCEPT ![c] = Appended(c)[n]]
    /\ count' = Put(count, c, OldCount(c) + n)
    /\ legacyList' = [d \in DOMAIN legacyList \ {c} |-> legacyList[d]]
    /\ creator' = creator \o [k \in 1..n |-> c]
    /\ burnEnabled' = burnEnabled \o [k \in 1..n |-> TRUE]
    /\ UNCHANGED <<admins, instance, repair, missed, issued>>

\* get_tokens_by_creator: the slots from offset on, up to the first hole.
PageNo(i) == i \div MAX_TOKENS_BY_CREATOR_PAGE + 1
Local(i)  == (i % MAX_TOKENS_BY_CREATOR_PAGE) + 1

Filled(c, i) == PageNo(i) \in DOMAIN page[c] /\ Local(i) \in DOMAIN page[c][PageNo(i)]

GetTokensByCreator(c, offset, limit) ==
    LET total == IF c \in DOMAIN count THEN count[c] ELSE 0
        end   == Lesser(offset + Lesser(limit, MAX_TOKENS_BY_CREATOR_PAGE), total)
        stop  == CHOOSE i \in offset..end :
                    /\ \A j \in offset..i - 1 : Filled(c, j)
                    /\ i # end => ~Filled(c, i)
    IN  IF limit = 0 \/ offset >= total THEN <<>>
        ELSE [k \in 1..stop - offset |-> page[c][PageNo(offset + k - 1)][Local(offset + k - 1)]]

-----------------------------------------------------------------------------
(* Calls that touch a token *)

SetBurnEnabled(i, enabled) ==
    /\ MigrateAndSet({InfoKey(i)}, InfoKey(i), enabled)
    /\ burnEnabled' = [burnEnabled EXCEPT ![i] = enabled]
    /\ UNCHANGED <<admins, token_count, lists, repair, missed, issued, creator>>

MintTokens(i) ==
    /\ i \in Capped
    /\ Read(SupplyKey(i), 0) + 1 <= Cap
    /\ MigrateAndSet({InfoKey(i), SupplyKey(i)}, SupplyKey(i), Read(SupplyKey(i), 0) + 1)
    /\ issued' = [issued EXCEPT ![i] = @ + 1]
    /\ UNCHANGED <<admins, token_count, lists, repair, missed, burnEnabled, creator>>

\* Off-chain the operator sums the mint events of a token.
ReconstructSupply(i) ==
    /\ i \in Capped
    /\ i \notin bkfld
    /\ verified' = Put(verified, i, issued[i])
    /\ UNCHANGED <<admins, token_count, entries, lists, bkfld, past>>

Backfilled_Added(current, verified_supply) == current + verified_supply

Backfilled(current, verified_supply) ==
    IF verified_supply > current THEN verified_supply ELSE current

BackfillCappedSupply(i) ==
    /\ i \in DOMAIN verified
    /\ verified[i] <= Cap
    /\ i \notin bkfld
    /\ IF verified[i] > Read(SupplyKey(i), 0)
       THEN MigrateAndSet({InfoKey(i), SupplyKey(i)}, SupplyKey(i),
                          Backfilled(Read(SupplyKey(i), 0), verified[i]))
       ELSE /\ persistent' = Moved({InfoKey(i), SupplyKey(i)})
            /\ instance' = LeftBehind({InfoKey(i), SupplyKey(i)})
    /\ bkfld' = bkfld \cup {i}
    /\ missed' = Put(missed, i, issued[i] - verified[i])
    /\ UNCHANGED <<admins, token_count, lists, verified, issued,
                   burnEnabled, creator>>

-----------------------------------------------------------------------------
(* The administrator *)

Target_Unclamped == mig3cur + MIGRATE_TOKEN_INFO_CHUNK

Target == Lesser(mig3cur + MIGRATE_TOKEN_INFO_CHUNK, token_count)

Walked_NotSaved == mig3cur

Walked == Target

CaughtUp_AfterOneChunk == TRUE

CaughtUp == Target >= token_count

\* The step that introduced a field resets it.
Introduced == [whitelist_enabled |-> 3, pending_admin |-> 4, pending_upgrade |-> 5]

ResetFrom(version) == {s \in settings : Introduced[s] <= version}

\* One call walks all the pending steps, except that step 3 moves one chunk
\* and holds the later ones back until the cursor has caught up.  The walk
\* writes an instance copy over a persistent one.
Migrate ==
    /\ IF sv < 3
       THEN LET K == {InfoKey(i) : i \in mig3cur + 1 .. Target} \cap DOMAIN instance IN
            /\ persistent' = [k \in DOMAIN persistent \cup K |->
                                IF k \in K THEN instance[k] ELSE persistent[k]]
            /\ instance' = [k \in DOMAIN instance \ K |-> instance[k]]
            /\ mig3cur' = Walked
            /\ sv' = IF CaughtUp THEN 5 ELSE 2
            /\ settings' = IF CaughtUp THEN ResetFrom(2) ELSE settings
       ELSE /\ sv' = 5
            /\ settings' = ResetFrom(sv)
            /\ UNCHANGED <<mig3cur, entries>>
    /\ UNCHANGED <<token_count, lists, repair, past>>

\* set_whitelist_enabled; a proposal is recorded, or taken up or cancelled.
ChangeSetting(s) ==
    /\ settings' \in {settings \cup {s}, settings \ {s}}
    /\ UNCHANGED <<sv, mig3cur, token_count, entries, lists, repair, past>>

-----------------------------------------------------------------------------
Next ==
    \/ \E c \in Creators, n \in {1, 2} : CreateTokens(c, n)
    \/ \E i \in 1..token_count :
        \/ \E b \in BOOLEAN : SetBurnEnabled(i, b)
        \/ MintTokens(i)
        \/ ReconstructSupply(i)
        \/ BackfillCappedSupply(i)
    \/ Migrate
    \/ \E s \in DOMAIN Introduced : ChangeSetting(s)

\* The operator calls migrate again until get_state says it is done.
Spec == Init /\ [][Next]_vars /\ WF_vars(Migrate)

-----------------------------------------------------------------------------
(* Properties *)

\* Every variable has its type; no keyed entry is in both storages, and the
\* cursor never runs past the tokens there are.
TypeOK ==
    /\ sv \in 0..5
    /\ token_count \in 0..MaxTokenCount
    /\ mig3cur \in 0..token_count
    /\ settings \subseteq DOMAIN Introduced
    /\ DOMAIN instance \cap DOMAIN persistent = {}
    /\ DOMAIN instance \cup DOMAIN persistent \subseteq
         {InfoKey(i) : i \in 1..token_count} \cup {SupplyKey(i) : i \in Capped}
    /\ DOMAIN count \cap DOMAIN legacyList = {}
    /\ page \in [Creators -> Seq(Seq(1..token_count))]
    /\ missed \in [bkfld -> Nat] /\ bkfld \subseteq DOMAIN verified
    /\ issued \in [Capped -> Nat]
    /\ creator \in [1..token_count -> Creators]

\* However the chunks of migrate, the lazy moves and the creators' calls
\* interleave, every TokenInfo can be read and carries its creator's last
\* set_burn_enabled: no stale copy comes back over a newer one.
NoEntryLostOrStale ==
    \A i \in 1..token_count : Read(InfoKey(i), "missing") = burnEnabled[i]

\* Past schema 3 no TokenInfo is left in the instance entry, where no later
\* migrate would look for it, although tokens are created during the walk.
MigratedLeavesNothing ==
    sv >= 3 => \A i \in 1..token_count : InfoKey(i) \notin DOMAIN instance

\* A client pages with a limit, advancing by the length of each page until one
\* is shorter than the limit.
PagedThrough(c, limit) ==
    LET from[offset \in Nat] ==
          LET got == GetTokensByCreator(c, offset, limit)
          IN  IF Len(got) < limit THEN got ELSE got \o from[offset + limit]
    IN from[0]

\* A client that pages through get_tokens_by_creator with any limit up to the
\* cap sees every token of the creator once, in order of creation, across page
\* borders, batches and the move of the legacy list.
PagedListsExact ==
    \A c \in DOMAIN count, limit \in 1..MAX_TOKENS_BY_CREATOR_PAGE :
        PagedThrough(c, limit) = IndicesOf(c)

\* Once back-filled the supply counter of an old token falls short of what it
\* issued by no more than what was minted between the operator's sum and the
\* call, however it is minted from then on, and the token passes its cap by no
\* more.  With nothing minted in between the counter is exact and the cap holds.
BackfillClosesTheGap ==
    \A i \in bkfld :
        /\ Read(SupplyKey(i), 0) \in issued[i] - missed[i] .. issued[i]
        /\ issued[i] <= Cap + missed[i]

\* Repeated calls of migrate finish the migration, whatever else is called in
\* between.
MigrationFinishes == <>(sv = 5)

\* docs/contract-abi.md on entries not yet moved: "Pure read-only view
\* entrypoints [...] use the same `persistent`-then-`instance` fallback", so
\* get_tokens_by_creator lists an old creator's tokens, after migrate at the
\* latest.
LegacyListsReadable ==
    sv = 5 => \A c \in Creators :
                PagedThrough(c, MAX_TOKENS_BY_CREATOR_PAGE) = IndicesOf(c)

=============================================================================
