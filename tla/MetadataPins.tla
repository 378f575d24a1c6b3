---------------------------- MODULE MetadataPins ----------------------------
(***************************************************************************)
(* The life of the IPFS pins behind token metadata.  The metadata form     *)
(* uploads an image and a JSON document, links the document on chain, and  *)
(* asks for both to be unpinned when that fails                            *)
(* (src/frontend/src/services/ipfs.ts, components/MetadataForm.tsx); the   *)
(* upload and unpin endpoints keep the pins and who made them (src/api);   *)
(* a scheduled job unpins what the indexer does not know (reconcile-pins). *)
(* The indexer is TokenCache, which Indexer implements.                    *)
(*                                                                         *)
(* Content is addressed by its hash: an image is its own CID, a document   *)
(* is named by the token and the image it is about.                        *)
(***************************************************************************)
EXTENDS Integers, Sequences, FiniteSets, TLC
LOCAL INSTANCE Functions

CONSTANTS
    Tokens,
    Wallets,            \* each with a browser session and an IPFSService of its own
    Images,
    Creator,            \* token -> the wallet that created it
    Nobody,
    NoUri,
    MaxUpdates,         \* bound: URIs a token gets
    MaxAttempts,        \* bound: uploads the forms begin
    UNPIN_RATIO_FLOOR,
    MAX_UNPIN_PERCENT

Documents == Tokens \X Images
Cids      == Images \cup Documents

ASSUME CreatorAssumption == Creator \in [Tokens -> Wallets]
ASSUME BoundsAssumption ==
    /\ Nobody \notin Wallets
    /\ NoUri \notin Cids
    /\ MaxUpdates \in Nat
    /\ MaxAttempts \in Nat
    /\ UNPIN_RATIO_FLOOR \in Nat
    /\ MAX_UNPIN_PERCENT \in 0..100

VARIABLES
    history, cache,     \* the factory's URIs and the indexer's, as in TokenCache
    pins,               \* CID -> absent, young (within the grace window) or old
    owner,              \* CID -> pinowner: the wallet of its last upload, or Nobody
    attempts,           \* uploads begun
    form,               \* wallet -> its MetadataForm
    lastCids,           \* wallet -> _lastCids: the image, then the document
    unpins,             \* requests of forms to unpin, still on their way
    envelopes,          \* documents of live submissions nobody waits for any more
    job                 \* the reconciliation run; spared, what it has to leave
                        \* alone, is for the property only

chainVars == <<history, cache>>
pinVars   == <<pins, owner>>
formVars  == <<attempts, form, lastCids, unpins, envelopes>>
vars      == <<chainVars, pinVars, formVars, job>>

Cache == INSTANCE TokenCache WITH Uris <- Documents

-----------------------------------------------------------------------------
(* The chain and the indexer *)

IndexerLearns ==
    /\ \E t \in Tokens :
         \/ Cache!TokenLearned(t)
         \/ \E uri \in Documents : Cache!UriLearned(t, uri)
    /\ UNCHANGED <<pinVars, formVars, job>>

\* A signed envelope nobody waits for any more is included late, or never.
LateInclusion ==
    /\ \E e \in envelopes :
         /\ \/ Len(history[e[1]]) < MaxUpdates /\ Cache!UriSet(e[1], e)
            \/ UNCHANGED <<history, cache>>
         /\ envelopes' = envelopes \ {e}
    /\ UNCHANGED <<pinVars, attempts, form, lastCids, unpins, job>>

-----------------------------------------------------------------------------
(* The form *)

Idle == [pc |-> "idle", token |-> NoUri, image |-> NoUri]
Document(w) == <<form[w].token, form[w].image>>
Advance(w, pc) == form' = [form EXCEPT ![w].pc = pc]

Confirm(w, t, image) ==
    /\ form[w].pc = "idle"
    /\ attempts < MaxAttempts
    /\ attempts' = attempts + 1
    /\ form' = [form EXCEPT ![w] = [pc |-> "image", token |-> t, image |-> image]]
    /\ UNCHANGED <<chainVars, pinVars, lastCids, unpins, envelopes, job>>

\* upload-file and upload-json: Pinata pins the content, keeping the date of a
\* pin it has, and the wallet becomes its owner on record.  (A record that fails
\* makes later requests fail, which Unpin allows for.)
Pin(w, cid) ==
    /\ pins' = [pins EXCEPT ![cid] = IF @ = "absent" THEN "young" ELSE @]
    /\ owner' = [owner EXCEPT ![cid] = w]

\* The endpoint is done.  The form moves on when the answer arrives; without it
\* the upload is tried again or given up.
UploadImage(w) ==
    /\ form[w].pc = "image"
    /\ Pin(w, form[w].image)
    /\ \/ /\ Advance(w, "json")
          /\ lastCids' = [lastCids EXCEPT ![w] = <<form[w].image>>]
       \/ UNCHANGED <<form, lastCids>>
    /\ UNCHANGED <<chainVars, unpins, envelopes, attempts, job>>

UploadJson(w) ==
    /\ form[w].pc = "json"
    /\ Pin(w, Document(w))
    /\ \/ /\ Advance(w, "submit")
          /\ lastCids' = [lastCids EXCEPT ![w] = <<form[w].image, Document(w)>>]
       \/ UNCHANGED <<form, lastCids>>
    /\ UNCHANGED <<chainVars, unpins, envelopes, attempts, job>>

\* unpinLastUpload, not awaited: requests for whatever _lastCids holds.
UnpinLastUpload(w) == unpins' = unpins \cup {[wallet |-> w, cid |-> c] : c \in Range(lastCids[w])}

\* An invalid image, a refused login, or an upload without an answer.
UploadFails(w) ==
    /\ form[w].pc \in {"image", "json"}
    /\ UnpinLastUpload(w)
    /\ form' = [form EXCEPT ![w] = Idle]
    /\ UNCHANGED <<chainVars, pinVars, lastCids, envelopes, attempts, job>>

Submit(w) ==
    /\ form[w].pc = "submit"
    /\ Advance(w, "waiting")
    /\ UNCHANGED <<chainVars, pinVars, lastCids, unpins, envelopes, attempts, job>>

\* set_metadata executes: only the token's creator may call it.
Included(w) ==
    /\ form[w].pc = "waiting"
    /\ w = Creator[form[w].token]
    /\ Len(history[form[w].token]) < MaxUpdates
    /\ Cache!UriSet(form[w].token, Document(w))
    /\ Advance(w, "included")
    /\ UNCHANGED <<pinVars, lastCids, unpins, envelopes, attempts, job>>

LinkSucceeds(w) ==
    /\ form[w].pc = "included"
    /\ form' = [form EXCEPT ![w] = Idle]
    /\ UNCHANGED <<chainVars, pinVars, lastCids, unpins, envelopes, attempts, job>>

\* The form stops waiting: the envelope is still live, or dead.
LeaveEnvelope(w) ==
    envelopes' \in {envelopes} \cup
        (IF form[w].pc = "waiting" /\ w = Creator[form[w].token]
         THEN {envelopes \cup {Document(w)}} ELSE {})

\* Not signed, rejected, dropped or expired: judged safe to retry.  A lost
\* answer to sendTransaction is judged so too (see TxSubmission), and then the
\* call may have been, or still be, included.
JudgedNotApplied(w) ==
    /\ form[w].pc \in {"submit", "waiting", "included"}
    /\ UnpinLastUpload(w)
    /\ LeaveEnvelope(w)
    /\ form' = [form EXCEPT ![w] = Idle]
    /\ UNCHANGED <<chainVars, pinVars, lastCids, attempts, job>>

Unconfirmed(w) ==
    /\ form[w].pc \in {"waiting", "included"}
    /\ LeaveEnvelope(w)
    /\ form' = [form EXCEPT ![w] = Idle]
    /\ UNCHANGED <<chainVars, pinVars, lastCids, unpins, attempts, job>>

\* The page is closed or reloaded.
Abandon(w) ==
    /\ form[w].pc # "idle" \/ lastCids[w] # << >>
    /\ LeaveEnvelope(w)
    /\ form' = [form EXCEPT ![w] = Idle]
    /\ lastCids' = [lastCids EXCEPT ![w] = << >>]
    /\ UNCHANGED <<chainVars, pinVars, unpins, attempts, job>>

\* The unpin endpoint: only for the owner on record.  Or the request fails.
Unpin(q) ==
    /\ q \in unpins
    /\ \/ /\ owner[q.cid] = q.wallet
          /\ pins' = [pins EXCEPT ![q.cid] = "absent"]
          /\ owner' = [owner EXCEPT ![q.cid] = Nobody]
       \/ UNCHANGED pinVars
    /\ unpins' = unpins \ {q}
    /\ UNCHANGED <<chainVars, form, lastCids, envelopes, attempts, job>>

-----------------------------------------------------------------------------
(* The reconciliation job *)

NoJob == [pc |-> "idle", spared |-> {}, aged |-> {}, orphans |-> {}, count |-> 0]
Pinned == {c \in Cids : pins[c] # "absent"}
cidInUse == {cache[t] : t \in DOMAIN cache}
Old    == {c \in Cids : pins[c] = "old"}

\* A pin passes the grace window.  That takes a day: no attempt, submission or
\* unpin request of its time is still open.
InUse(c) ==
    \/ \E w \in Wallets : form[w].pc # "idle" /\ c \in {form[w].image, Document(w)}
    \/ \E e \in envelopes : c \in {e, e[2]}
    \/ \E q \in unpins : c = q.cid

GraceEnds(c) ==
    /\ pins[c] = "young"
    /\ ~InUse(c)
    /\ pins' = [pins EXCEPT ![c] = "old"]
    /\ UNCHANGED <<chainVars, owner, formVars, job>>

\* checkReconciliationReadiness, as far as it goes: backfill_complete says that
\* every token has a row.  A store that is down or lags refuses the run, which
\* is no step here.  now is read when the run starts.
backfillComplete == DOMAIN history \subseteq DOMAIN cache

JobStart ==
    /\ job.pc = "idle"
    /\ backfillComplete
    /\ job' = [NoJob EXCEPT !.pc = "list", !.aged = Old,
                  !.spared = {c \in Cids : pins[c] = "young" \/ c \in cidInUse}]
    /\ UNCHANGED <<chainVars, pinVars, formVars>>

\* Mutant: the grace window is not looked at.
ListAllPins_NoGrace ==
    /\ job.pc = "list"
    /\ job' = [job EXCEPT !.pc = "classify", !.aged = Pinned, !.count = Cardinality(Pinned)]
    /\ UNCHANGED <<chainVars, pinVars, formVars>>

\* listAllPins; a pin made anew since the start has a date after now.
ListAllPins ==
    /\ job.pc = "list"
    /\ job' = [job EXCEPT !.pc = "classify", !.aged = @ \cap Old, !.count = Cardinality(Pinned)]
    /\ UNCHANGED <<chainVars, pinVars, formVars>>

\* getMetadataUris, extractCidsFromMetadataUris and classifyPins; the breaker
\* and the dry run end the run, an operator may override the first.
Breaker(n, checked) == n > UNPIN_RATIO_FLOOR /\ n * 100 > checked * MAX_UNPIN_PERCENT

Classify(override, dryRun) ==
    /\ job.pc = "classify"
    /\ LET toUnpin == job.aged \ cidInUse
       IN  job' = IF dryRun \/ (Breaker(Cardinality(toUnpin), job.count) /\ ~override)
                  THEN NoJob
                  ELSE [NoJob EXCEPT !.pc = "unpin", !.orphans = toUnpin, !.spared = job.spared]
    /\ UNCHANGED <<chainVars, pinVars, formVars>>

\* unpinCids, one at a time; an error is counted and the run goes on.  The
\* record of the owner stays.
JobUnpin ==
    /\ job.pc = "unpin"
    /\ \E c \in job.orphans :
         /\ pins' \in {pins, [pins EXCEPT ![c] = "absent"]}
         /\ job' = [job EXCEPT !.orphans = @ \ {c}]
    /\ UNCHANGED <<chainVars, owner, formVars>>

\* Done, a query failed, or the platform killed the function.
JobEnds ==
    /\ job.pc # "idle"
    /\ job' = NoJob
    /\ UNCHANGED <<chainVars, pinVars, formVars>>

-----------------------------------------------------------------------------
Init ==
    /\ history = [t \in Tokens |-> << >>]
    /\ cache = << >>
    /\ pins = [c \in Cids |-> "absent"]
    /\ owner = [c \in Cids |-> Nobody]
    /\ attempts = 0
    /\ form = [w \in Wallets |-> Idle]
    /\ lastCids = [w \in Wallets |-> << >>]
    /\ unpins = {}
    /\ envelopes = {}
    /\ job = NoJob

Next ==
    \/ IndexerLearns \/ LateInclusion
    \/ \E w \in Wallets :
         \/ \E t \in Tokens, image \in Images : Confirm(w, t, image)
         \/ UploadImage(w) \/ UploadJson(w) \/ UploadFails(w)
         \/ Submit(w) \/ Included(w)
         \/ LinkSucceeds(w) \/ JudgedNotApplied(w) \/ Unconfirmed(w) \/ Abandon(w)
    \/ \E q \in unpins : Unpin(q)
    \/ \E c \in Cids : GraceEnds(c)
    \/ JobStart \/ ListAllPins \/ JobUnpin \/ JobEnds
    \/ \E override, dryRun \in BOOLEAN : Classify(override, dryRun)

Spec == Init /\ [][Next]_vars

-----------------------------------------------------------------------------
(* Properties *)

\* The image and the document of a token's present URI.
OnChain(c) ==
    \E t \in Tokens :
        /\ history[t] # << >>
        /\ LET uri == history[t][Len(history[t])] IN c \in {uri, uri[2]}

\* The grace window and the reference set do what the job is built on, whatever
\* users upload, link and unpin while it works: a run removes no pin that was
\* inside the grace window when it began, and no document the indexer served
\* then, unless a later set_metadata of that token let the indexer fall back to
\* another one.
SparingStep ==
    \A c \in job.spared :
        job.pc = "unpin" /\ job' # job /\ pins[c] # "absent" /\ pins'[c] = "absent"
          => \E t \in Tokens : c \in Cache!Given(t) /\ Len(history[t]) > 1

JobSparesUploadsAndReferences == [][SparingStep]_vars

\* ipfs.ts, of a failed attempt: its caller "can clean up the exact pins that
\* attempt created".  So a form asks to unpin what a token is linked to only
\* when its own attempt was about that very content.
ReclaimIsTheAttemptsOwn ==
    [][\A q \in unpins' \ unpins :
          OnChain(q.cid) => q.cid \in {form[q.wallet].image, Document(q.wallet)}]_vars

=============================================================================
