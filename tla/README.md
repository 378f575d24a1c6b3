# Stellar-forge: models and proofs

TLA+ models of the Stellar-forge token factory (a Soroban contract, a web client
and a few serverless functions), the TLC runs that check them, and theorems that
TLAPS proves about them. Paths below are relative to the repository (`src/...`);
`lib.rs` is `src/contracts/token-factory/src/lib.rs`.

## 1. The system

| Part | Where | State it keeps | Operations | What makes it correct |
|---|---|---|---|---|
| Token registry and supply | `lib.rs` | `FactoryState`, `TokenInfo(i)`, `TokenIndex(a)`, `TokenAddress(i)`, `(a,"owner")`, `(a,"supply")`, creator pages, metadata, version, freeze, whitelist | `create_token`, `create_tokens_batch`, `mint_tokens`, `burn`, `set_burn_enabled`, `set_metadata`, `freeze_metadata`, `pause`/`unpause`, `update_fees`, whitelist | caps bound cumulative issue; index and address are inverse; lists exact; fees exactly as authorised; freeze is final; pause stops creation, minting and metadata |
| Governance | `lib.rs` | `admin`, `pending_admin(_expiry)`, `pending_upgrade_hash/_ready_at`, `token_wasm_hash` | `propose_admin` (and two aliases), `accept_admin`, `cancel_admin_proposal`, `propose/execute/cancel_upgrade` | no change without a live announcement of that very change |
| Fee split | `lib.rs` | the `"split"` map | `set_fee_split`, `distribute_fee` | the payer pays the fee to the stroop; rounding is fair per charge; broken recipients do not block |
| Migration | `lib.rs` | `"sv"`, `"mig3cur"`, instance and persistent copies, back-fill markers | `migrate`, lazy moves in every mutating call, `backfill_capped_supply`, `get_tokens_by_creator` | no entry lost, stale or stranded; lists page exactly; the repair restores the cap, but for mints its sum missed |
| Transaction submission | `src/frontend/src/services/transactionSubmission.ts`, `stellar-impl.ts`, `hooks/useTransaction.ts` | one envelope in flight, attempts, error count, verdict | sign, send, poll, end with a verdict | verdicts are true and stay true; a retry never executes a call twice; a submission ends |
| Pins | `ipfs.ts`, `MetadataForm.tsx`, `src/api/_lib/pin*.ts`, `src/api/ipfs` | CIDs of the last upload, pin owners, pins | upload, unpin, daily reconciliation | the job spares uploads in flight and documents the indexer serves; a form reclaims only its own attempt's pins |
| Indexer | `src/api/_lib/indexer`, `src/api/cron` | token rows, checkpoint | back-fill, event pages, reconciliation, listing | no event skipped, no token lost or made up, every resolvable token served in the end |
| Upload login | `services/auth.ts`, `src/api/auth/challenge.ts`, `challengeStore.ts`, `jwt.ts`, `http.ts` | one challenge per wallet, a token kept in the browser | draw, sign, verify, redeem, upload | a challenge buys a token at most until it is deleted; an outage is never reported as a missing challenge; a kept token is accepted |
| Wallet session | `WalletContext.tsx`, `services/wallet.ts`, `NetworkContext.tsx` | account and balance shown, account signed for, saved account | connect, disconnect, check, watch, switch network, refresh | only accounts selected on this page are shown or signed for; a balance belongs to its account |
| Token explorer | `useExplorerTokens.ts`, `TokenExplorer.tsx`, `stellar-impl.ts`, `tokenSource.ts` | count snapshot, page cache, run of the effect | page, refresh, retry, switch network | the last request wins; the pages of a session neither repeat nor skip tokens |
| Other hooks, forms, rate limits, scripts | rest of `src/frontend`, `src/api`, `src/scripts` | single cached reads, buckets | reads, presentation | |

How they interact: the client reads a fee or a registry view from the contract,
builds and signs an envelope and hands it to an RPC server; the network includes
it in a ledger at most once; the contract call it carries is atomic, moves the
fee through the fee token and deploys, mints or burns through token contracts.
The indexer follows the contract's events; the pin reconciliation asks the
indexer which CIDs are referenced and deletes the others; a failed
`set_metadata` makes the client delete its own. Every upload and unpin carries the
token that the login of the wallet bought. The explorer's pages come from the
contract or, when the build enables it, from the indexer.

What is hard here. The contract has no threads, and the host refuses re-entry;
its difficulty is *long sequences of legal calls by several accounts*: a quote
taken before a fee change, a proposal replaced or accepted at its border, an
upgrade re-announced, a migration that is chunked and lazy at once. The client
is a protocol over a network that loses replies, and its pages hold answers of
requests that other requests have overtaken. The serverless parts have
overlapping runs, partial failures and stale reads. `PROJECT.json` lists each
hazard at its line under `hazards`, with the properties that would catch it.

## 2. Modules and how they correspond to the code

| Module | Models | Composes / refines |
|---|---|---|
| `TokenFactory` | registry, supply, metadata, pause, whitelist, fees of one contract | implements `CappedIssuance` |
| `CappedIssuance` | what a holder is promised: launch once, issue within the cap, retire | abstract |
| `Governance` | rotation and upgrade with the ledger clock | implements `AnnouncedChange` twice |
| `AnnouncedChange` | a value replaced only by a live announcement whose age is in a window | abstract |
| `FeeSplit` | `set_fee_split`, `distribute_fee` | |
| `Migration` | storage layout of old factories under the present code | |
| `TxSubmission` | submission client and the network it talks to | |
| `Indexer` | `runIngest`, its store and chain reader, the factory's views and events | implements `TokenCache` |
| `TokenCache` | what the indexer promises its readers | abstract |
| `MetadataPins` | the metadata form, the upload and unpin endpoints, the reconciliation job | uses `TokenCache` for the chain and the indexer |
| `WalletSession` | the wallet context over the wallet service and Freighter | |
| `UploadLogin` | the browser's login in two tabs, the challenge endpoint and its store | |
| `ExplorerPages` | the explorer's hook over RPC or the indexer with its fallback | |
| `MCClient` | the instance of `MetadataPins`, `WalletSession`, `UploadLogin` and `ExplorerPages` | |
| `MCAdministration` | the instance of `Governance` and `FeeSplit` | |
| `MC*` | instances for TLC, bounds and symmetry | |
| `Iteration` | induction and recursive functions on the numbers, as lemmas | used by `FeeSplitProofs`, `MigrationProofs` |
| `*Proofs` | theorems about the module of that name; `ClientProofs` about `MetadataPins`, `WalletSession`, `UploadLogin` and `ExplorerPages` | |

**One entrypoint is one action.** A Soroban invocation that returns an error or
traps leaves nothing behind, so early returns are guards and a refused call is
no step. `FactoryState.locked` is FALSE between invocations and is left out.
Keyed storage is a function whose domain is the set of keys present; entries of
a deployed token contract (balances) are kept beside it and marked external, as
are the fee token's balances, ledgers, the transaction queue and the operator's
off-chain sums. Variables marked *history* (`issued`, `nominator`,
`announcedAt`, `charged`, `received`, `lost`, `missed`, `selected`, ...) are read by
properties and by no guard.

Definitions named `X_<fault>` stand before `X` and are `X` with a plausible
mistake (a dropped guard, a counter refunded, a clock not restarted). No
specification uses them; each property is known to fail when `X` is replaced by
one of them (`PROJECT.json`, `mutants`).

- `TokenFactory`. `QuoteFee` is the client reading the fee before it builds its
  call; `Charge` is `fee_payment >= base_fee` followed by `distribute_fee` of
  exactly the fee. `RecordTokens` is `record_token` for every element of a
  batch: the deployed address is a function of creator and salt, and deploying
  twice to it traps. `supply` exists for capped tokens only; `issued` is the
  history it is compared with. The administrator is fixed.
- `Governance`. `ExecuteUpgrade` sets the contract's code and, as the code does,
  `token_wasm_hash`. `CancelAdminProposal` and `CancelUpgrade` succeed with
  nothing pending, as the code does. A replaced administrator's pending upgrade
  stays.
- `FeeSplit`. Accounts are the numbers `1..NumAccounts` in the iteration order of
  the contract's map, and a loop is a recursive function on the numbers: `sum[k]` and
  `paid[k]` are what it has after account `k`, `turn[n]` after `n` awards. `Allocate` is pass 1 and 2 of `distribute_fee`, `Distribute` pass 3 with
  `try_transfer` failing for frozen accounts and for a payer without funds.
- `Migration`. Tokens are their indices; `instance` and `persistent` are the two
  storages with the `TokenInfo` and `supply` entries. `Init` covers factories of
  schema 0 to 4: below 3 everything is in the instance entry and the creator
  lists are monolithic; supply counters are short by the initial supply. An old
  binary's `FactoryState` is taken to decode under the present code (section 4). One
  `Migrate` is one call, all pending steps or one chunk. `Appended(c)[k]` is the
  pages of a creator after `k` calls of `append_creator_token`.
- `TxSubmission`. `SendTransaction` and `GetTransaction` are one turn of the two
  loops with every outcome an RPC server can give: accepted, TRY_AGAIN_LATER,
  ERROR, an undocumented status, an exception before or after the request took
  effect. `Sign` is the user starting the call or answering a verdict with
  `safeToRetry`. Ledger time stands for both `maxLedger` and `maxTime`.

- `TokenCache`. `history` is the URIs each token was given on chain, `cache` what
  is served. Tokens are learned late and URIs later, an earlier URI of the same
  token may come back, a token is never lost or made up.
- `Indexer`. `version` is the factory's registry as the indexer sees it: its tokens with
  their metadata versions, which stand for their URIs. `log` is the event stream since
  the indexer was deployed (the two topics `ingest.ts` acts on; events of other topics
  only make a page's share of these smaller); older events are pruned and known from the
  views alone. A run is a program counter with its locals; each store or RPC call is a
  step, each row written a step of its own: `todo` is the statements still to come, which
  `Before` orders, and `Fail` is the exception or the killed function between any two.
  `FailingAmong` chooses the reads that are answered with null; a failed index lookup
  gives the row index 0, and `UpsertRefused` is the UNIQUE column refusing the second. A
  full page that ends at the head gives a cursor, a short one null; null replays from the
  oldest event kept.
- `MetadataPins`. Content is its own CID: an image, and a document named by its
  token and image (the description is abstracted). A form's steps are those of
  `handleConfirm`; `JudgedNotApplied` and `Unconfirmed` are the verdicts of
  `TxSubmission`, with the envelope that may be included later left behind in
  `envelopes`. `unpins` are the requests of `unpinLastUpload`, which nothing
  waits for. Pins are young or old; `GraceEnds` needs that nothing of a day
  before is still open. The job lists, reads the references and unpins in steps;
  `Classify` holds the breaker and the dry run.
- `WalletSession`. `session` is the account on the screen, `connected` the one the
  service signs for, `saved` the browser's copy. Each request to Freighter is a
  record that first has no answer, then has one (`FreighterAnswers` takes the
  account selected at that moment), and then is acted on (`ConnectEnds`,
  `CheckEnds`): the selection can change between any two of these. `Show` is the
  `setWallet` of connecting, checking and watching together with the balance
  request of the caller and of the effect on the address. The watcher asks Freighter
  one question after another; the answer (`WatcherAnswered`) and its report
  (`WatcherReports`), which turns the screen and does not tell the service, are steps
  apart. `Rewatch` is part of every step that changes the account shown or the
  network: the effect stops the watcher and starts another, and a question of the
  stopped one goes on in `stopped` with the account, the network and perhaps the
  answer of its time, to be reported whenever it likes (`StoppedReports`). `selected`
  is the history of the accounts selected while the page was open. A balance is
  whose it is; its arrival is marked `late` when another account is shown by then.
- `UploadLogin`. A challenge is its number. A `POST` handler is a record that
  arrives, has read and verified, and ends; its answer travels on its own. Every
  call of the store may fail, applied or not, a request may be rate limited, an
  answer or a page may be lost (`LeaveUpload`; an answer nobody waits for changes
  nothing). The 401 is answered before the deletion, the 200 after it, as in
  `challenge.ts:110-121`. `kept` is the token in `localStorage`, shared by the tabs.
- `ExplorerPages`. `run` is the present run of the effect: waiting for the count,
  for a page, for the enrichment, or done. `Supersede` leaves the request of a
  cancelled run in `late`; its answer goes into the cache and no further. A page is
  the set of indices it covers and the total it reports. `getAllTokens` is the RPC
  window below the snapshot, and with the indexer enabled also what the indexer may
  answer, whose rows follow one network's factory and may lag.

Three modules state a type invariant as a property, which their theorems or a
numeric hazard need: `TokenFactory`, `Governance` and `Migration`. The others spend
their runs on properties a step of several actors could break.

## 3. Runs

All `pass` runs are exhaustive for their bounds. `MaxTokenCount`, `MaxAmount`,
`MaxLedger`, `MaxI128` are `u32::MAX` or `i128::MAX` in the code, brought close
enough for the checked additions to fail; they are the bounds of the runs too.

| Run | Instance | Shows |
|---|---|---|
| `token_registry` | 2 interchangeable accounts, 2 salts, 3 tokens, batches of 2, caps and amounts 0..2 or no cap, fees 0..2, funds 3, 2 URIs, 2 metadata updates | the cap bounds cumulative issue with burns and a `max_supply` reached exactly; the counter is exact; `CappedIssuance` is implemented; registry bijection, exact creator lists, metadata final, pause quiet; every token paid for, no charge above the quote |
| `administration` | 3 accounts, 3 hashes, windows of 2, ledgers 0..6; beside them 4 payees, all splits in fifths, cap of 3 recipients, fees 0..11, all frozen sets, payer 1 stroop short, exact, 1 over | both refinements of `AnnouncedChange`, proposals are the incumbent's, a re-proposal restarts the clock; exact charging, largest remainders, isolation, with products past the overflow bound |
| `governance_token_hash` | the accounts and hashes of `administration` | finding 1 |
| `fee_split_remainder` | the payees of `administration` | finding 6 |
| `tx_submission` | 3 signings, 3 sends, 2 tolerated errors, bound of 2 ledgers, 7 ledgers | verdicts stay true, retries execute once while no reply is lost, every submission ends |
| `tx_submission_retry` | the code's budgets of 5 and 5 | finding 2 |
| `migration` | 3 old tokens of 2 creators, one with a page exactly full, up to 5 tokens, pages and chunks of 2, cap 2 | nothing lost, stale or stranded; paging exact; a back-fill closes the gap up to what its sum missed; migration finishes |
| `migration_creator_view` | same | finding 3 |
| `indexer` | 2 overlapping runs, 2 tokens (one older than the indexer, unmapped), 3 events, 1 fault, pages and batches of 2 | no event a checkpoint passed is missing; `TokenCache` is implemented; every token the factory can resolve is served in the end |
| `client` | pins: 2 tokens of 2 wallets, one shared image, 2 attempts, 2 URIs a token; session: 2 accounts, 2 networks, 2 requests or late reports in flight; login: one wallet in 2 tabs, 3 challenges, clock 1..4, lives of 2, 2 and 1; pages: 2 networks, up to 3 tokens, pages of 2, one superseded request | the job spares what was young or served when it began; only accounts selected on the page are shown or signed for; a path to another account keeps no balance; one-time challenges, explained refusals, accepted tokens; the last request wins and the pages of a session tile |
| `explorer_indexer` | 1 network, up to 4 tokens, pages of 2, indexer enabled | finding 5 |
| `metadata_pins_reclaim` | 1 token, 2 images, 2 attempts | finding 4 |

`token_registry` explores the registry in two halves (`half` in `MCTokenFactory`):
a behaviour of the first varies amounts without fees and metadata and stops at two
tokens, one of the second varies fees and metadata without amounts. Every action of
`TokenFactory` fires in one of them; the theorems of section 5 are about the whole
`Spec`. `administration` and `client` likewise run two and four models side by side:
`part` in `MCAdministration` and `MCClient` chooses which one a behaviour steps, since they share no state that their
properties are about, and the others keep their initial state. What one does to
another is nondeterministic inside it: a session's account may change at any time,
an upload may be left at any time, a token may be created at any time.

Why these bounds suffice for the questions asked: two accounts are a creator and
another holder; a batch of two and three tokens in all make an index follow a
batch and precede one; two fee values are before and after an `update_fees`;
windows of two ledgers have an inside, a border and an outside; shares in fifths
give ties, exact shares and more than one odd stroop; two chunks and a last one
make `migrate` interleave with creation at the cursor; three signings are a call
and two retries; three events make a full page, a short one and a replay, and one
fault stands before or between any two steps of two runs; a shared image and two
attempts let one wallet's reclaim meet another's upload; two accounts and two
networks with two requests, beside the connection and the watcher of the page, let
a check, the report of a stopped watcher and a balance cross in pairs; three
challenges are a login, one that displaces it and one more; lives of 2 and 1 leave a
margin of one tick that an answer and an upload can use up together; three tokens in
pages of two are a full page, a short one and a shift between them, and a second
network is where a snapshot is wrong. `LastToken`, `LastEvent`, `Faults` (of which the theorems need only that they are numbers),
`MaxUpdates`, `MaxAttempts`, `MaxInFlight`, `MaxLate`, `MaxDrawn`, `MaxTime` and
`MaxCount` bound the model, not the
code; the breaker's floor and percentage are small enough to trip with four pins.

**Fairness.** Three runs assume any. `tx_submission` assumes weak fairness of
sending, polling, the wall-clock limit and the closing of ledgers: a request
ends with an answer or an exception, the loops of the client run to their end,
and ledgers close; nothing obliges the user to sign. Deadlock checking is off
there because a user who does not retry is a legal end. `migration` assumes weak
fairness of `Migrate`: the operator repeats the call until `get_state` reports
the schema, which the comment at `lib.rs:1778` asks for; weak fairness suffices
because new tokens never disable the call, and the cap on tokens is not what
makes it end: with the token count growing at most by one chunk's worth between
calls an operator that calls often enough catches up. The bound does make that
certain here, and a factory that for ever creates more than a chunk per call
would not finish. `indexer` assumes
weak fairness of each run's `Step`: the scheduler starts runs every five minutes
and a run that is not killed goes on; nothing obliges the factory, a repair of
the reverse mapping, or pruning. Faults are finitely many, which says that reads
succeed in the end.

## 4. Findings

1. **The token hash follows the factory's upgrade** (`lib.rs:1652`). After an
   executed upgrade new tokens would be deployed from the factory's own code;
   the README says the hash is that of the token contract.
2. **A retry can execute twice** (`transactionSubmission.ts:301`). An exception
   whose text is not recognised as transient becomes `dropped`, and a resend
   after a lost reply can become `failed`; both offer a retry although the
   first envelope may have been, or still be, included.
3. **Old creators' tokens are not listed** (`lib.rs:2230`). Neither `migrate` nor
   the view reads the legacy list; only the creator's next token does.
4. **A failed attempt reclaims the pins of the one before**
   (`MetadataForm.tsx:161`, `ipfs.ts:148`). `_lastCids` outlives a linked upload;
   an attempt that fails before its own image is pinned unpins the image and the
   document of a token that is linked to them.
5. **With the indexer, pages repeat and skip tokens** (`tokenSource.ts:208`). The
   indexer's source ignores the snapshot and sends the offset as a keyset cursor,
   so page 2 is the tokens whose index is below the page size; and a session may
   get one page from the indexer and the next from RPC.
6. **The odd stroops do not go to the treasury** (`lib.rs:524`). `src/README.md:44`
   says the rounding remainder of a split does; the code gives it to the recipients
   with the largest fractional parts, as `docs/contract-abi.md:336` says.

Apart from these and the limits below the code does what its documents say. `RetryExecutesOnce` and
`VerdictsStayTrue` say exactly how far the promise of finding 2 does hold, and
`LargestRemainderFirst` is what the code does where finding 6 says what it does not.

Known limits met while modelling, which the properties are stated around:

- The comment at `lib.rs:463` calls the division of a fee "deterministic regardless of
  map iteration order". Of equal fractional parts the first in that order gets the odd
  stroop (`lib.rs:536`): `LargestRemainderFirst` says so, and it is a divergence from
  the comment. The host's map iterates by key, so the result is deterministic all the
  same, but which of two equal recipients has the stroop is decided by their addresses.
- `migrate` undoes settings made while it is unfinished (`lib.rs:1787`, `1812-1856`). The
  whitelist switch and the proposals work before the first call and between two chunks,
  and the steps that introduce the fields reset them; `docs/contract-abi.md:433` calls
  repeated calls safe, "including mid-migration". The model does this (`ChangeSetting`,
  `ResetFrom`), and no property excludes it.
- A back-fill with a stale sum leaves the cap open (`lib.rs:1899`): a mint between the
  operator's sum and `backfill_capped_supply` is not counted, and the call cannot be
  repeated. The procedure at `docs/contract-abi.md:186` does not ask to halt minting.
  `BackfillClosesTheGap` bounds the excess by what was minted in between.
- `docs/contract-abi.md:336` says no recipient of a split receives zero for
  ever. The odd stroops of a charge (`lib.rs:524`) remember no earlier one: with
  shares of 2000, 5000 and 3000 and charges of 1 and 2 stroops the first is never
  paid.
- A replay applies old `meta` events again (`ingest.ts:230`), so "every write is an
  idempotent upsert" is true of rows and not of URIs: a token shows an earlier
  URI until the replay ends, and a reconciliation that reads in between does not
  see the live one. With `INDEXER_START_LEDGER` set, every such replay asks for
  that ledger, also when the RPC has pruned it (`sorobanChain.ts:135`); the model takes
  a replay to start at the oldest event kept.
- An old state struct may lack fields that the present one has. The models take it to
  decode, as the repository's migration tests do, which only set `"sv"` back; if the
  SDK refuses it, `load_state` (`lib.rs:429`) fails in every call, `migrate` included.
- A token known from the back-fill alone has no URI in the table, and
  `backfill_complete` does not say otherwise; the job then counts its document,
  once older than a day, as unreferenced. Images are never referenced. The
  circuit breaker is what stands between these and a mass unpin.
- A batch of tokens without a reverse mapping at the lowest missing indices fills
  the reconciliation's slice every time (`ingest.ts:277`), and later ones wait
  until `backfill_token_address` has repaired those; `indexer` has fewer of them
  than a batch.
- Lag is measured from the last event of a page: a factory whose stream has
  events but none in the last quarter of an hour counts as lagging, and the job
  does not run.
- Two wallets that upload the same image share one pin and one owner record; the
  later one's reclaim unpins it for both.

- The account on the screen and the one the service signs for can differ, once the user
  has selected a second account: the watcher turns the page and does not tell the
  service (`WalletContext.tsx:126`), which keeps its account until the next connect or
  check; and `stop()` (`:168`) does not cancel a question in flight, so the report of a
  stopped watcher can turn the page back to an account selected before, after a check
  or a connect has set both. The watcher also shows an account after `disconnect`.
  No document promises that the two agree; `OnlySelectedAccounts` says what does hold.
- A balance asked for one account appears beside another when its answer is late:
  `WalletContext.tsx:57` puts it beside whatever account is shown by then. The test at
  `WalletContext.test.tsx:235` asks for the present account's balance, with requests that
  never overlap; `BalanceOfShownAccount` excepts exactly the late answers.
- The token kept for uploads is not bound to the wallet that asks, and nothing calls
  `clearUploadToken`: after a change of account the next upload runs under the
  earlier wallet's token until it expires.
- Of two logins of one wallet that overlap, the later challenge displaces the
  earlier, whose signature is then wrong; its 401 deletes the later challenge after
  answering, so both can fail. `RefusalsExplained` says that nothing else does.
- Two POSTs with one signature can both be issued a token, which
  `challengeStore.ts:71` accepts; the model has one POST per login.
- The explorer keeps its snapshot across a change of network
  (`useExplorerTokens.ts:138`): a larger one asks for indices the other factory does
  not have, and a snapshot of 0 shows "no tokens" for a factory that has some.
  Retry reads a new snapshot and keeps the other cached pages, and a request from
  before a refresh lands in the cleared cache; `WindowsTile` excepts both until the
  next refresh. The indexer is asked without the network that is selected.
- A new administrator can execute an upgrade that the former one announced
  (`lib.rs:1575`): `UpgradeIsAnnounced` holds of it, and no document asks rotation
  to clear it.
- The day bucket of the rate limiter renews its expiry with each count, so a wallet
  that stays active is counted over more than a day. `CreateToken`'s own 90 s limit
  (`CreateToken.tsx:101`) reports a failure while the submission goes on.

## 5. Proofs

Proved for every value of the constants that meets the named assumptions: those of
`TokenFactory` (finite accounts, fees and amounts natural, `NoCap` not a number,
bounds natural), of `Governance` (`None` neither account, hash nor number,
windows natural, no factory binary has the token contract's hash), and of the other
modules, whose bounds are natural and whose markers for "none" are not values.

Two library facts are out of reach for the provers: theorems whose parameter is an
operator (induction in `NaturalsInduction`, recursion) cannot be instantiated. `Iteration`
states both for *sets*: `Induction` is about the set of the numbers that have a
property, and `Iteration` says that a function defined by `f[k] = step(k, f[k - 1])`
is defined everywhere and satisfies its equation; they follow from the least
element of a set of numbers. The loops of `FeeSplit` and `Migration` are such functions,
so what they compute is proved for any number of rounds.

`TokenFactoryProofs`: `Invariance` of

    IInv == TypeOK /\ CounterExact /\ CapRespected /\ RegistryConsistent

and from it `TypeCorrect`, `CapSafety`, `CounterAccurate`, `RegistrySafety`,
`MetadataIsFinal`, `PauseIsQuiet` and `TokensPaidFor`. `CapRespected` alone is not inductive:
`mint_tokens` compares the *counter* with the cap, so the step needs that the
counter is exactly what was issued; and it finds the cap of an address through
`TokenIndex` and `TokenInfo`, so that the steps that write other entries leave
it alone needs the registry to be a bijection. `TokensPaidFor` needs of the invariant
only that fees and counts are natural, and the distributivity of the batch's fee. The long part is creation: lemma
`RecordTokensEffect` turns the batch's `CHOOSE`s into what is written for each
address and index, and `CreationIInv` argues from that, old token or new, capped
or not. The other actions have a lemma each. On the same invariant rest

- `CreatorListsAccurate`: a batch's indices are above all old ones and in one list, so
  that each list stays the sorted list of its creator's indices (`CreationLists`);
- `ChargesWithinQuotes`: of a batch of `n`, the payment is at least `n` fees of the
  moment of the call and what is taken is exactly that (`ChargedPerToken`);
- `PromiseKept`, the refinement of `CappedIssuance`. What circulates of a token is a sum
  over accounts; it is stated as the number of units in their hands, so that a mint adds
  an interval of units to one hand and a burn is a mint undone (`CirculatingGrows`), and
  no induction over the accounts is needed. `Launch`, `Issue` and `Retire` have a lemma
  each, and `CapRespected'` gives the cap that `Issue` promises.

`GovernanceProofs`: `Invariance` of

    IInv == TypeOK /\ Together /\ ProposalIsTheIncumbents /\ UpgradeWaitsForItself

where `Together` says that a proposal and its clock are set and cleared as one
(without it a cleared proposal could leave an old clock for the next). From it
`TypeCorrect`, `ProposalOfIncumbent`, `UpgradeClock`, and the two refinements
`RotationRefines` and `UpgradeRefines`: initial states map to initial states and
every step to a step of `AnnouncedChange` or a stutter.

`FeeSplitProofs`: all four properties of the fee, for any number of accounts and any
split, fee and set of broken recipients. Four parts:

1. Sums (`TotalSteps`, `TotalExcept`, `FloorsFit`): by induction on the account, so
   that the floors of the shares are at most the fee.
2. The largest-remainder loop. `Allocation` is its invariant: shares and what is left
   make the fee; each entry is `Waiting` (its floor, its remainder) or `Awarded` (one
   more, remainder cleared); and no waiting one comes before an awarded one.
   `AwardAllocates` is one turn, `AllocateAllocates` the loop. `WithinOneStroop` and
   `LargestRemainderFirst` are read off it. That the loop can stop early for want of a
   remainder, leaving stroops over, is covered: they go to the treasury.
3. The payment loop, invariant `PaidUpTo`: after account `k`, received and kept for the
   treasury are what was left over and the shares up to `k`; a frozen account has
   nothing; and a payer with the whole fee has paid every sound recipient its share.
4. The state: `IInv` says that the installed split is empty or complete (`Sound`), and
   that the last charge was as the properties say. `BrokenRecipientsNeverBlock` is about
   a charge alone and follows from part 3.

`MigrationProofs`: the invariant says that an entry is in one storage and none is of
a token to come (`StorageOK`), that what the walk has not moved lies ahead of its
cursor and only while the walk goes on (`LeftAhead`), and that neither a supply
counter nor the operator's sum exceeds what was issued (`SuppliesOK`). The middle part
gives `NothingLeftBehind`, and the first with the two lemmas about moves, which change
no reading, gives `EntriesKept`. `BackfillIsExact` needs the last: a counter raised to a sum is at
least that sum, and at most what was issued because neither was above it; a mint moves
both.

`PagedListsComplete` has an invariant of its own, `ListsOK`: a migrated creator's `count`
is the number of its tokens and slot `i` of its pages, that is entry `i mod size` of page
`i div size`, holds the `i`-th of its indices and no slot beyond is filled (`Paged`).
`AppendFills` shows that appending fills the next slot and disturbs no other,
`PagesOfPaged` that the lazy migration puts a legacy list into the same slots whether or
not its last page is full, `AppendedSteps` adds a batch by induction. `GetTokensReturns`
turns one call of the view into a piece of the list and `PagesReadThrough` the client's
paging, again by induction, into the whole. `TypeCorrect` joins these invariants.

`TxSubmissionProofs`: a verdict says that an envelope is dead, and it stays so because
no envelope is signed ahead of its turn (`SignedInTurn`: `seq[e] <= accountSeq + 1`)
and deadlines do not come back (`DeadStaysDead`). While an envelope is being submitted
with no reply lost the network has not seen it, which makes `dropped` and `failed`
true; and every earlier envelope is dead (`EarlierDead`), which gives
`RetriesExecuteOnce` from `VerdictsHold`.

`IndexerProofs`: `Invariance` of

    IInv == FactoryOK /\ RowsOK /\ CheckpointsOK /\ RunsOK /\ NothingSkipped

`RunsOK` is what makes it inductive: a run asks for its page from a position some
checkpoint has reached, so that what lies before its page is in the table; and from
reading a page until saving its cursor every event up to the page's end is in the table
or `Pending`, its statement still in `todo` (`ReadPageIInv`, `WriteIInv`). A URI is dropped
when its token has no row; that loses nothing that was announced, because the page's rows
are written before its URIs (`RowsComeFirst`). A run that dies becomes idle and has
promised nothing; an overlapping run can set the shared cursor back but never ahead of
`covered`; and the table only grows. `NothingIsSkipped` is the last part of `IInv`.
`CacheImplemented` is the refinement of `TokenCache`: `create_token` and `set_metadata` are
`TokenCreated` and `UriSet`, an upsert `TokenLearned` or a stutter, `setMetadataUri`
`UriLearned` or a stutter, because `RunsOK` says of every pending statement that its token
and URI are the factory's (`GenuineWrite`).

`ClientProofs`, about four modules:

- `MetadataPins`. `JobSpares`: until the job reads the references, an aged document it
  has to spare is served or has been replaced, and once it has read them only a replaced
  one is among its orphans (`JobHolds`). The proof uses that the indexer serves only what
  the token was given, and that the chain only adds URIs; both are promises of
  `TokenCache`, which `CacheImplemented` proves of `Indexer`.

- `WalletSession`. `SelectedAccountsOnly`: every answer that is on its way, to a connect,
  a check, the watcher or a stopped one, is an account selected on this page
  (`AnswersSelected`), because Freighter answers with its selection and a new page
  drops what the last one asked. `BalanceIsShownAccounts` is inductive as it stands.
- `UploadLogin`. `ChallengesBuyOnce`: what a tab signs or posts has been drawn and is
  stored for no other wallet (`SignersOwn`, `PostsOwn`), so deleting the wallet's
  challenge leaves no copy under another wallet to buy a second token with.
  `RefusalsAreExplained` adds `HandsInv`: a challenge is in one pair of hands, the tab that
  signs it or the one post that carries it (`OneHolder`), and until that post is verified
  it is still stored or has been displaced (`HoldersTraced`); so a post that finds
  nothing or something else was displaced. `CachedTokensAccepted` rests on `TimesInv`: a
  token is handed out only until `CacheLife` after it was received, so a token the
  server finds expired had an answer or an upload that took longer than the margin; the
  assumption `LivesAssumption` that the cache lives no longer than the token is what the
  constants of the code satisfy.
- `ExplorerPages`. `LatestAlwaysWins`: every change of page starts a run, so the property
  is inductive as it stands. `PagesTileOverRpc`, for a build without the indexer (with it
  the property fails, finding 5), needs `SnapshotInv`: the cache, the requests of cancelled
  runs and the present run have one snapshot, and a snapshot is read only when no page of
  an older one is left. That the windows of one snapshot tile is arithmetic
  (`WindowsOfOneSnapshot`).

Every safety invariant and every action property of the passing runs is a theorem, and
so are the four refinements. Only model-checked: liveness, that is `CatchesUp`,
`MigrationFinishes` and `EverySubmissionEnds`, which needs fairness and ENABLED and is
beyond the prover; and what the violation runs refute.

## 6. Not modelled, and why

- The indexer's event store and its read API but for the listing that the explorer
  asks for, the choice between Postgres and memory,
  and columns that are only copied; the pages of the pin list, the awaits inside
  the unpin endpoint, and the memory fallback of the ownership records. One limit this
  leaves, read in the code and not checked: a `created` event carries no decimals, so
  its row has `decimals: 0` (`sorobanChain.ts:161`), and the upsert takes the new value
  (`postgresStore.ts:102`), also over the decimals that the back-fill had read.
- The treasury argument of `update_fees`, TTL extension of entries: an expired
  persistent entry is restored by the network, not lost. A whitelisted creation
  is a guard of an atomic call (`RequireWhitelisted`), with no property of its
  own.
- `useTransactionPolling` and the creator mode of `useTokens`: no page mounts the
  first, and the application uses `useTokens` only to be told of new tokens. Both
  have hazards of their own (a lost connection judged "failed", a change of creator
  during a fetch dropped) should they come into use.
- SEP-53 verification and the token's HMAC: a signature is of the challenge it
  signs. The wallet context's fallback without `WatchWalletChanges`.
- The explorer's search by creator and the other hooks, which keep one read each.
- Validation of names, URIs and files, XDR decoding, message texts, rate-limit
  windows, presentation: no interaction that a test would not reach.
- Authorisation is the `require_auth` of the account an action names.

## 7. Plan

Done in this order: `TokenFactory` with `CappedIssuance`, `Governance` with
`AnnouncedChange`, `FeeSplit`, `TxSubmission`, `Migration`; proofs for the first
two; `Indexer` with `TokenCache`, `MetadataPins`; `WalletSession`, `UploadLogin` and
`ExplorerPages`; proofs for all of them. `FeeSplit` and `Migration` have their loops as
recursive functions, and `Indexer` its pages by position, so that they can be proved
about. Next:

1. That the operators of the contract's numeric edges do what their references say where
   only the invariants use them now: `Appended` for every page size against `SubSeq`, the
   fractions of `FeeSplit` against the exact quotas.
2. The steps that the liveness properties rest on and that need no ENABLED: a chunk of
   `migrate` moves the cursor, a poll uses up its budget, a run's `turn` is bounded.
3. The rate limiter's two buckets beside `UploadLogin`, whose store it shares.
4. The indexer's event store and its keyset listing while rows change index.
