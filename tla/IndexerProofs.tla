---------------------------- MODULE IndexerProofs ----------------------------
(***************************************************************************)
(* Proofs about Indexer: no event that a checkpoint has passed is missing  *)
(* from the table, and the runs implement TokenCache, for any number of    *)
(* overlapping runs, tokens, events and faults and any size of pages and   *)
(* batches.                                                                *)
(***************************************************************************)
EXTENDS Indexer, SequenceTheorems, FiniteSetTheorems, TLAPS

LoggedEvents == [topic : {"created", "meta"}, token : Nat, version : Nat]
Writes       == [op : {"upsertTokens", "setMetadataUri"}, at : Nat, token : Nat, value : Nat]
TokenRows    == [index : Nat, uri : Nat]
RunStates    ==
    [pc     : {"idle", "state", "backfill", "open", "page", "save", "reconcile", "finish"},
     count  : Nat,
     cursor : Nat,
     upto   : Nat,
     turn   : Nat,
     todo   : SUBSET Writes]

\* t is a token of the factory, and v one of the versions its URI has had.
Given(t, v) == t \in 1..token_count /\ v \in 1..version[t]

GenuineEvent(e) ==
    /\ e.token \in 1..token_count
    /\ e.topic = "meta" => Given(e.token, e.version)

GenuineWrite(w) ==
    /\ w.token \in 1..token_count
    /\ w.op = "setMetadataUri" => Given(w.token, w.value)

FactoryOK ==
    /\ version \in Seq(0..METADATA_MAX_UPDATES)
    /\ token_count <= LastToken
    /\ mapped \subseteq 1..token_count
    /\ log \in Seq(LoggedEvents)
    /\ \A n \in 1..Len(log) : GenuineEvent(log[n])

\* The table has only what the factory has.
RowsOK ==
    /\ rows \in [DOMAIN rows -> TokenRows]
    /\ DOMAIN rows \subseteq 1..token_count
    /\ \A t \in DOMAIN rows : rows[t].uri = NoUri \/ Given(t, rows[t].uri)

CheckpointsOK ==
    /\ saved \in [cursor : Nat, complete : BOOLEAN]
    /\ pruned \in Nat /\ covered \in Nat
    /\ saved.cursor <= covered
    /\ pruned <= covered
    /\ covered <= Len(log)

\* A run still has to write what event n calls for.
Pending(q, n) ==
    \E w \in q.todo :
        /\ w.token = log[n].token
        /\ IF log[n].topic = "created" THEN w.op = "upsertTokens"
           ELSE w.op = "setMetadataUri"

\* A run in state q asks for a page from where a checkpoint has been, and has
\* the page's events in the table or still to write until it saves its own.
RunOK(q) ==
    /\ \A w \in q.todo : GenuineWrite(w)
    /\ q.pc = "page" => q.cursor <= covered
    /\ q.pc = "save" =>
         /\ q.cursor <= q.upto
         /\ q.upto <= Len(log)
         /\ \A n \in 1..q.upto : InTable(n) \/ Pending(q, n)

RunsOK == run \in [Runs -> RunStates] /\ \A r \in Runs : RunOK(run[r])

IInv == FactoryOK /\ RowsOK /\ CheckpointsOK /\ RunsOK /\ NothingSkipped

-----------------------------------------------------------------------------
(* The initial state *)

\* A run that is idle has nothing to answer for.
LEMMA IdleOK == Idle \in RunStates /\ RunOK(Idle) /\ RunOK(Idle)'
BY DEF Idle, RunStates, RunOK, NoCursor

\* Nothing has been read and nothing is passed.
LEMMA InitIInv == Init => IInv
<1> SUFFICES ASSUME Init PROVE IInv
    OBVIOUS
<1>1. FactoryOK
    BY BoundsAssumption DEF Init, FactoryOK, token_count
<1>2. RowsOK
    BY DEF Init, RowsOK
<1>3. CheckpointsOK
    BY DEF Init, CheckpointsOK, NoCursor
<1>4. RunsOK
    BY IdleOK DEF Init, RunsOK
<1>5. NothingSkipped
    BY DEF Init, NothingSkipped
<1> QED BY <1>1, <1>2, <1>3, <1>4, <1>5 DEF IInv

-----------------------------------------------------------------------------
(* The factory goes on *)

\* It has more tokens, later versions and more events.
ChainGrows ==
    /\ token_count <= token_count'
    /\ \A t \in 1..token_count : version[t] <= version'[t]
    /\ Len(log) <= Len(log')
    /\ \A n \in 1..Len(log) : log'[n] = log[n]

\* What was given stays given, and the table is what it was.
LEMMA GrowthKeeps ==
    ASSUME IInv, FactoryOK', ChainGrows, UNCHANGED <<pruned, rows, saved, run, covered>>
    PROVE  IInv'
<1>1. token_count \in Nat /\ token_count' \in Nat /\ Len(log) \in Nat /\ Len(log') \in Nat
    BY DEF IInv, FactoryOK, token_count
<1>2. \A t, v : Given(t, v) => Given(t, v)'
    <2> SUFFICES ASSUME NEW t, NEW v, Given(t, v) PROVE Given(t, v)'
        OBVIOUS
    <2>1. t \in 1..token_count /\ t \in 1..token_count'
        BY <1>1 DEF Given, ChainGrows
    <2>2. version[t] \in Nat /\ version'[t] \in Nat
        BY <2>1, BoundsAssumption DEF IInv, FactoryOK, token_count
    <2> QED BY <2>1, <2>2 DEF Given, ChainGrows
<1>3. RowsOK'
    BY <1>1, <1>2 DEF IInv, RowsOK, ChainGrows
<1>4. CheckpointsOK'
    BY <1>1 DEF IInv, CheckpointsOK, ChainGrows
<1>5. ASSUME NEW n \in 1..Len(log) PROVE InTable(n)' <=> InTable(n)
    <2>1. \A m \in 1..n : log'[m] = log[m]
        BY <1>1 DEF ChainGrows
    <2> QED BY <2>1 DEF InTable, Announced
<1>6. NothingSkipped'
    BY <1>1, <1>5 DEF IInv, NothingSkipped, CheckpointsOK
<1>7. ASSUME NEW q \in RunStates, RunOK(q) PROVE RunOK(q)'
    <2>1. \A w \in q.todo : GenuineWrite(w)'
        BY <1>1, <1>2, <1>7 DEF RunOK, GenuineWrite, ChainGrows, RunStates, Writes
    <2>2. q.pc = "save" => \A n \in 1..q.upto : InTable(n)' \/ Pending(q, n)'
        <3> SUFFICES ASSUME q.pc = "save", NEW n \in 1..q.upto
                     PROVE  InTable(n)' \/ Pending(q, n)'
            OBVIOUS
        <3>1. n \in 1..Len(log) /\ log'[n] = log[n]
            BY <1>1, <1>7 DEF RunOK, RunStates, ChainGrows
        <3> QED BY <1>5, <1>7, <3>1 DEF RunOK, Pending
    <2> QED BY <1>1, <1>7, <2>1, <2>2 DEF RunOK, RunStates, ChainGrows
<1>8. RunsOK'
    BY <1>7 DEF IInv, RunsOK
<1> QED BY <1>3, <1>4, <1>6, <1>8 DEF IInv
\* create_token appends a token without a URI, and its event.
LEMMA CreateTokenIInv == IInv /\ CreateToken => IInv'
<1> SUFFICES ASSUME IInv, CreateToken PROVE IInv'
    OBVIOUS
<1>1. /\ version \in Seq(0..METADATA_MAX_UPDATES) /\ log \in Seq(LoggedEvents)
      /\ 0 \in 0..METADATA_MAX_UPDATES
      /\ token_count \in Nat /\ Len(log) \in Nat
    BY BoundsAssumption DEF IInv, FactoryOK, token_count
<1>2. /\ version' = Append(version, 0) /\ log' = Append(log, Created(token_count + 1))
      /\ Created(token_count + 1) \in LoggedEvents
    BY <1>1 DEF CreateToken, Created, LoggedEvents
<1>3. /\ version' \in Seq(0..METADATA_MAX_UPDATES)
      /\ token_count' = token_count + 1
      /\ \A t \in 1..token_count : version'[t] = version[t]
    BY <1>1, <1>2, AppendProperties DEF token_count
<1>4. /\ log' \in Seq(LoggedEvents)
      /\ Len(log') = Len(log) + 1
      /\ \A n \in 1..Len(log) : log'[n] = log[n]
      /\ log'[Len(log) + 1] = Created(token_count + 1)
    BY <1>1, <1>2, AppendProperties
<1>5. \A t \in 1..token_count : version[t] \in Nat
    BY <1>1, BoundsAssumption DEF token_count
<1>6. ChainGrows
    BY <1>1, <1>3, <1>4, <1>5 DEF ChainGrows
<1>7. \A n \in 1..Len(log') : GenuineEvent(log[n])'
    <2> SUFFICES ASSUME NEW n \in 1..Len(log') PROVE GenuineEvent(log[n])'
        OBVIOUS
    <2>1. CASE n \in 1..Len(log)
        <3>1. GenuineEvent(log[n])
            BY <2>1 DEF IInv, FactoryOK
        <3> QED BY <1>1, <1>3, <1>4, <2>1, <3>1 DEF GenuineEvent, Given
    <2>2. CASE n = Len(log) + 1
        BY <1>1, <1>3, <1>4, <2>2 DEF GenuineEvent, Created
    <2> QED BY <1>1, <1>4, <2>1, <2>2
<1>8. token_count' <= LastToken /\ mapped' \subseteq 1..token_count'
    <2>1. token_count < LastToken /\ mapped' = mapped \cup {token_count + 1}
        BY DEF CreateToken
    <2>2. mapped \subseteq 1..token_count
        BY DEF IInv, FactoryOK
    <2> QED BY <1>1, <1>3, <2>1, <2>2, BoundsAssumption
<1>9. FactoryOK'
    BY <1>3, <1>4, <1>7, <1>8 DEF FactoryOK
<1> QED BY <1>6, <1>9, GrowthKeeps DEF CreateToken

\* set_metadata gives its token one more version, and announces it.
LEMMA SetMetadataIInv ==
    ASSUME IInv, NEW t \in Tokens, SetMetadata(t)
    PROVE  IInv'
<1> DEFINE v == version[t] + 1
<1>1. /\ version \in Seq(0..METADATA_MAX_UPDATES) /\ log \in Seq(LoggedEvents)
      /\ token_count \in Nat /\ Len(log) \in Nat
      /\ t \in 1..token_count
    BY BoundsAssumption DEF IInv, FactoryOK, token_count, SetMetadata, Tokens
<1>2. /\ version[t] \in Nat /\ v \in 0..METADATA_MAX_UPDATES /\ v \in 1..v
      /\ \A u \in 1..token_count : version[u] \in Nat
    BY <1>1, BoundsAssumption DEF SetMetadata, token_count
<1>3. /\ version' = [version EXCEPT ![t] = v] /\ log' = Append(log, Meta(t, v))
      /\ Meta(t, v) \in LoggedEvents
    BY <1>1, <1>2 DEF SetMetadata, Meta, LoggedEvents
<1>4. /\ version' \in Seq(0..METADATA_MAX_UPDATES)
      /\ token_count' = token_count
      /\ \A u \in 1..token_count : version'[u] = IF u = t THEN v ELSE version[u]
    <2> HIDE DEF v
    <2>1. /\ [version EXCEPT ![t] = v] \in Seq(0..METADATA_MAX_UPDATES)
          /\ Len([version EXCEPT ![t] = v]) = Len(version)
          /\ \A u \in 1..Len(version) :
               [version EXCEPT ![t] = v][u] = IF u = t THEN v ELSE version[u]
        BY <1>1, <1>2, ExceptSeq DEF token_count
    <2> QED BY <1>3, <2>1 DEF token_count
<1>5. /\ log' \in Seq(LoggedEvents)
      /\ Len(log') = Len(log) + 1
      /\ \A n \in 1..Len(log) : log'[n] = log[n]
      /\ log'[Len(log) + 1] = Meta(t, v)
    BY <1>1, <1>3, AppendProperties
<1>6. ChainGrows
    BY <1>1, <1>2, <1>4, <1>5 DEF ChainGrows
<1>7. \A n \in 1..Len(log') : GenuineEvent(log[n])'
    <2> SUFFICES ASSUME NEW n \in 1..Len(log') PROVE GenuineEvent(log[n])'
        OBVIOUS
    <2>1. CASE n \in 1..Len(log)
        <3>1. GenuineEvent(log[n])
            BY <2>1 DEF IInv, FactoryOK
        <3>2. version'[log[n].token] >= version[log[n].token]
            BY <1>2, <1>4, <3>1 DEF GenuineEvent
        <3>3. log'[n] = log[n] /\ version[log[n].token] \in Nat /\ version'[log[n].token] \in Nat
            BY <1>2, <1>4, <1>5, <2>1, <3>1 DEF GenuineEvent
        <3> QED BY <1>4, <3>1, <3>2, <3>3 DEF GenuineEvent, Given
    <2>2. CASE n = Len(log) + 1
        BY <1>1, <1>2, <1>4, <1>5, <2>2 DEF GenuineEvent, Given, Meta
    <2> QED BY <1>1, <1>5, <2>1, <2>2
<1>8. FactoryOK'
    BY <1>1, <1>4, <1>5, <1>7 DEF SetMetadata, IInv, FactoryOK
<1> QED BY <1>6, <1>8, GrowthKeeps DEF SetMetadata

\* The repair of the reverse mapping names a token there is.
LEMMA BackfillTokenAddressIInv ==
    ASSUME IInv, NEW t, BackfillTokenAddress(t)
    PROVE  IInv'
<1>1. FactoryOK'
    BY DEF BackfillTokenAddress, IInv, FactoryOK, token_count, GenuineEvent, Given
<1>2. ChainGrows
    BY BoundsAssumption DEF BackfillTokenAddress, IInv, FactoryOK, token_count, ChainGrows
<1> QED BY <1>1, <1>2, GrowthKeeps DEF BackfillTokenAddress

\* An event that is pruned has been passed.
LEMMA PruneIInv == IInv /\ Prune => IInv'
<1> SUFFICES ASSUME IInv, Prune PROVE IInv'
    OBVIOUS
<1>1. CheckpointsOK'
    BY DEF Prune, IInv, CheckpointsOK
<1>2. \A q : RunOK(q) => RunOK(q)'
    BY DEF Prune, RunOK, GenuineWrite, Given, token_count, InTable, Announced, Pending
<1> QED
    BY <1>1, <1>2 DEF Prune, IInv, FactoryOK, RowsOK, RunsOK, NothingSkipped, token_count,
                      GenuineEvent, Given, InTable, Announced
-----------------------------------------------------------------------------
(* One run *)

\* A step of a run that leaves the chain, the table and the checkpoint alone.
LEMMA LocalStepIInv ==
    ASSUME IInv, NEW r \in Runs, NEW q \in RunStates, RunOK(q),
           run' = [run EXCEPT ![r] = q],
           UNCHANGED <<chainVars, rows, saved, covered>>
    PROVE  IInv'
<1>1. \A p : RunOK(p) => RunOK(p)'
    BY DEF chainVars, RunOK, GenuineWrite, Given, token_count, InTable, Announced, Pending
<1>2. RunsOK'
    BY <1>1 DEF IInv, RunsOK
<1>3. FactoryOK' /\ RowsOK' /\ CheckpointsOK' /\ NothingSkipped'
    BY DEF chainVars, IInv, FactoryOK, RowsOK, CheckpointsOK, NothingSkipped, token_count,
           GenuineEvent, Given, InTable, Announced
<1> QED BY <1>2, <1>3 DEF IInv

\* A state of a run that is not at a page.
LEMMA OffPage ==
    ASSUME NEW q \in RunStates, q.pc \notin {"page", "save"}, \A w \in q.todo : GenuineWrite(w)
    PROVE  RunOK(q)
BY DEF RunOK

\* The rows of indices that are mapped.
LEMMA RowsOfGenuine ==
    ASSUME IInv, NEW S, S \subseteq mapped
    PROVE  RowsOf(S) \subseteq Writes /\ \A w \in RowsOf(S) : GenuineWrite(w)
<1>1. \A i \in S : i \in Nat /\ i \in 1..token_count
    BY BoundsAssumption DEF IInv, FactoryOK, token_count
<1> QED BY <1>1 DEF RowsOf, Row, Writes, GenuineWrite

\* backfillIndices leaves its run off the pages.
LEMMA ReadIndicesIInv ==
    ASSUME IInv, NEW r \in Runs, NEW indices, NEW pc \in {"backfill", "finish"},
           NEW otherwise \in {"open", "finish"},
           ReadIndices(r, indices, pc, otherwise),
           UNCHANGED <<chainVars, rows, saved, covered>>
    PROVE  IInv'
<1>1. PICK found \in SUBSET mapped :
        run' = [run EXCEPT ![r].pc   = IF found = {} THEN otherwise ELSE pc,
                           ![r].turn = IF found = {} THEN 0 ELSE @ + 1,
                           ![r].todo = RowsOf(found)]
    BY DEF ReadIndices
<1>2. run[r] \in RunStates
    BY DEF IInv, RunsOK
<1> DEFINE p == IF found = {} THEN otherwise ELSE pc
           n == IF found = {} THEN 0 ELSE run[r].turn + 1
           q == [run[r] EXCEPT !.pc = p, !.turn = n, !.todo = RowsOf(found)]
<1>3. q \in RunStates /\ q.pc \in {otherwise, pc} /\ q.todo = RowsOf(found)
    <2>1. RowsOf(found) \in SUBSET Writes
        BY RowsOfGenuine
    <2>2. p \in {otherwise, pc} /\ n \in Nat
        BY <1>2 DEF RunStates
    <2> HIDE DEF p, n
    <2> QED BY <1>2, <2>1, <2>2 DEF RunStates
<1>4. RunOK(q)
    BY <1>3, RowsOfGenuine, OffPage
<1>5. run' = [run EXCEPT ![r] = q]
    BY <1>1 DEF IInv, RunsOK
<1> HIDE DEF q
<1> QED BY <1>3, <1>4, <1>5, LocalStepIInv

\* A step that only moves a run with nothing to write.
LEMMA GotoIInv ==
    ASSUME IInv, NEW r \in Runs, run[r].todo = {},
           NEW pc \in {"state", "backfill", "open", "reconcile", "finish"},
           NEW count \in Nat, NEW turn \in Nat,
           run' = [run EXCEPT ![r].pc = pc, ![r].count = count, ![r].turn = turn],
           UNCHANGED <<chainVars, rows, saved, covered>>
    PROVE  IInv'
<1> DEFINE q == [run[r] EXCEPT !.pc = pc, !.count = count, !.turn = turn]
<1>1. run[r] \in RunStates
    BY DEF IInv, RunsOK
<1>2. q \in RunStates /\ q.pc = pc /\ q.todo = {}
    BY <1>1 DEF RunStates
<1>3. run' = [run EXCEPT ![r] = q]
    BY DEF IInv, RunsOK
<1> HIDE DEF q
<1> QED BY <1>2, <1>3, OffPage, LocalStepIInv

\* Up to the stream: the count, the state, the back-fill.
LEMMA FirstPhaseIInv ==
    ASSUME IInv, NEW r \in Runs, Begin(r) \/ ReadState(r) \/ RunBackfill(r) \/ Reconcile(r)
    PROVE  IInv'
<1>1. run[r] \in RunStates /\ run \in [Runs -> RunStates] /\ token_count \in Nat
    BY DEF IInv, RunsOK, FactoryOK, token_count
<1>2. CASE Begin(r)
    <2>1. run' = [run EXCEPT ![r].pc = "state", ![r].count = token_count, ![r].turn = run[r].turn]
        BY <1>1, <1>2 DEF Begin, RunStates
    <2>2. run[r].turn \in Nat /\ run[r].todo = {}
        BY <1>1, <1>2 DEF Begin, At, RunStates
    <2>3. UNCHANGED <<chainVars, rows, saved, covered>>
        BY <1>2 DEF Begin
    <2> QED BY <1>1, <2>1, <2>2, <2>3, GotoIInv
<1>3. ASSUME NEW pc \in {"backfill", "open", "finish"}, Goto(r, pc), run[r].todo = {},
             UNCHANGED <<chainVars, rows, saved, covered>>
      PROVE  IInv'
    <2>1. run' = [run EXCEPT ![r].pc = pc, ![r].count = run[r].count, ![r].turn = run[r].turn]
        BY <1>1, <1>3 DEF Goto, RunStates
    <2>2. run[r].turn \in Nat /\ run[r].count \in Nat
        BY <1>1 DEF RunStates
    <2> QED BY <1>3, <2>1, <2>2, GotoIInv
<1>4. CASE ReadState(r)
    BY <1>3, <1>4 DEF ReadState, At
<1>5. CASE RunBackfill(r)
    <2>1. run[r].todo = {} /\ UNCHANGED <<chainVars, rows, saved, covered>>
        BY <1>5 DEF RunBackfill, At
    <2>2. CASE run' = [run EXCEPT ![r].pc = "open", ![r].turn = 0]
        <3>1. run' = [run EXCEPT ![r].pc = "open", ![r].count = run[r].count, ![r].turn = 0]
            BY <1>1, <2>2 DEF RunStates
        <3>2. run[r].count \in Nat
            BY <1>1 DEF RunStates
        <3> QED BY <2>1, <3>1, <3>2, GotoIInv
    <2>3. CASE \E window : ReadIndices(r, window, "backfill", "open")
        BY <2>1, <2>3, ReadIndicesIInv
    <2> QED BY <1>5, <2>2, <2>3 DEF RunBackfill
<1>6. CASE Reconcile(r)
    <2>1. run[r].todo = {} /\ UNCHANGED <<chainVars, rows, saved, covered>>
        BY <1>6 DEF Reconcile, At
    <2>2. CASE Goto(r, "finish")
        BY <1>3, <2>1, <2>2
    <2>3. CASE \E missing : ReadIndices(r, missing, "finish", "finish")
        BY <2>1, <2>3, ReadIndicesIInv
    <2> QED BY <1>6, <2>2, <2>3 DEF Reconcile
<1> QED BY <1>2, <1>4, <1>5, <1>6
\* The run goes on from the shared checkpoint.
LEMMA OpenStreamIInv ==
    ASSUME IInv, NEW r \in Runs, OpenStream(r)
    PROVE  IInv'
<1> DEFINE q == [run[r] EXCEPT !.pc = "page", !.cursor = saved.cursor]
<1>1. run[r] \in RunStates /\ saved.cursor \in Nat /\ saved.cursor <= covered
    BY DEF IInv, RunsOK, CheckpointsOK
<1>2. q \in RunStates /\ q.pc = "page" /\ q.cursor = saved.cursor /\ q.todo = {}
    BY <1>1 DEF OpenStream, At, RunStates
<1>3. RunOK(q)
    BY <1>1, <1>2 DEF RunOK
<1>4. run' = [run EXCEPT ![r] = q] /\ UNCHANGED <<chainVars, rows, saved, covered>>
    BY DEF OpenStream, IInv, RunsOK
<1> HIDE DEF q
<1> QED BY <1>2, <1>3, <1>4, LocalStepIInv

\* Whatever of a page is not behind a checkpoint already is to be written.
LEMMA ReadPageIInv ==
    ASSUME IInv, NEW r \in Runs, ReadPage(r)
    PROVE  IInv'
<1> DEFINE next == IF Full(r) THEN Upto(r) ELSE NoCursor
<1>1. PICK failed :
        run' = [run EXCEPT ![r] = [run[r] EXCEPT !.pc = "save", !.cursor = next,
                                     !.upto = Upto(r), !.turn = run[r].turn + 1,
                                     !.todo = WritesOf(r, failed)]]
    BY DEF ReadPage
<1> DEFINE q == [run[r] EXCEPT !.pc = "save", !.cursor = next, !.upto = Upto(r),
                               !.turn = run[r].turn + 1, !.todo = WritesOf(r, failed)]
<1>2. /\ run[r] \in RunStates /\ run[r].cursor <= covered
      /\ pruned \in Nat /\ covered \in Nat /\ pruned <= covered /\ covered <= Len(log)
      /\ Len(log) \in Nat
    BY DEF ReadPage, At, IInv, RunsOK, RunOK, CheckpointsOK, FactoryOK
<1>3. From(r) \in Nat /\ From(r) <= covered
    BY <1>2 DEF From, RunStates
<1>4. Upto(r) \in Nat /\ Upto(r) <= Len(log) /\ next \in Nat /\ next <= Upto(r)
    BY <1>2, <1>3, BoundsAssumption DEF Upto, Full, NoCursor
<1> HIDE DEF next
<1>5. ASSUME NEW n \in From(r) + 1..Upto(r)
      PROVE  log[n] \in LoggedEvents /\ GenuineEvent(log[n]) /\ n \in Nat
    BY <1>2, <1>3, <1>4, ElementOfSeq DEF IInv, FactoryOK
<1>6. WritesOf(r, failed) \in SUBSET Writes /\ \A w \in WritesOf(r, failed) : GenuineWrite(w)
    <2>1. ASSUME NEW n \in OnPage(r, "created"), NEW i \in {Unknown, log[n].token}
          PROVE  Row(n, log[n].token, i) \in Writes /\ GenuineWrite(Row(n, log[n].token, i))
        BY <1>5, <2>1 DEF OnPage, Row, Writes, LoggedEvents, GenuineWrite, GenuineEvent, Unknown
    <2>2. ASSUME NEW n \in OnPage(r, "meta")
          PROVE  SetUri(n, log[n]) \in Writes /\ GenuineWrite(SetUri(n, log[n]))
        BY <1>5, <2>2 DEF OnPage, SetUri, Writes, LoggedEvents, GenuineWrite, GenuineEvent
    <2> QED BY <2>1, <2>2 DEF WritesOf
<1>7. /\ q \in RunStates
      /\ q.pc = "save" /\ q.cursor = next /\ q.upto = Upto(r) /\ q.todo = WritesOf(r, failed)
    <2>1. run[r].turn + 1 \in Nat
        BY <1>2 DEF RunStates
    <2> QED BY <1>2, <1>4, <1>6, <2>1 DEF RunStates
<1> HIDE DEF q
<1>8. \A n \in 1..Upto(r) : InTable(n) \/ Pending(q, n)
    <2> SUFFICES ASSUME NEW n \in 1..Upto(r) PROVE InTable(n) \/ Pending(q, n)
        OBVIOUS
    <2>1. CASE n <= From(r)
        BY <1>2, <1>3, <1>4, <2>1 DEF IInv, NothingSkipped
    <2>2. CASE n \in OnPage(r, "created")
        <3> DEFINE index == IF log[n].token \in failed THEN Unknown ELSE log[n].token
                   w     == Row(n, log[n].token, index)
        <3>1. w \in WritesOf(r, failed)
            BY <2>2 DEF WritesOf
        <3>2. w.token = log[n].token /\ w.op = "upsertTokens"
            BY DEF Row
        <3> HIDE DEF w
        <3> QED BY <1>7, <2>2, <3>1, <3>2 DEF OnPage, Pending
    <2>3. CASE n \in OnPage(r, "meta")
        <3> DEFINE w == SetUri(n, log[n])
        <3>1. w \in WritesOf(r, failed)
            BY <2>3 DEF WritesOf
        <3>2. w.token = log[n].token /\ w.op = "setMetadataUri"
            BY DEF SetUri
        <3> HIDE DEF w
        <3> QED BY <1>7, <2>3, <3>1, <3>2 DEF OnPage, Pending
    <2> QED BY <1>3, <1>4, <1>5, <2>1, <2>2, <2>3 DEF LoggedEvents, OnPage
<1>9. RunOK(q)
    BY <1>4, <1>6, <1>7, <1>8 DEF RunOK
<1>10. run' = [run EXCEPT ![r] = q] /\ UNCHANGED <<chainVars, rows, saved, covered>>
    BY <1>1 DEF q, ReadPage
<1> QED BY <1>7, <1>9, <1>10, LocalStepIInv

\* The checkpoint passes a page when all of it is in the table.
LEMMA SavePageIInv ==
    ASSUME IInv, NEW r \in Runs, SavePage(r)
    PROVE  IInv'
<1> DEFINE done == [run[r] EXCEPT !.pc = "reconcile", !.cursor = NoCursor, !.upto = 0, !.turn = 0]
           more == [run[r] EXCEPT !.pc = "page"]
<1>1. /\ run[r] \in RunStates /\ RunOK(run[r]) /\ run[r].pc = "save" /\ run[r].todo = {}
      /\ covered \in Nat /\ covered <= Len(log) /\ Len(log) \in Nat
      /\ pruned \in Nat /\ pruned <= covered
    BY DEF SavePage, At, IInv, RunsOK, CheckpointsOK, FactoryOK
<1>2. /\ saved' = [saved EXCEPT !.cursor = run[r].cursor]
      /\ covered' = IF covered < run[r].upto THEN run[r].upto ELSE covered
      /\ run' = [run EXCEPT ![r] = done] \/ run' = [run EXCEPT ![r] = more]
      /\ UNCHANGED <<chainVars, rows>>
    BY DEF SavePage, Checkpoint
<1>3. /\ covered' \in Nat /\ covered <= covered' /\ covered' <= Len(log)
      /\ run[r].cursor <= covered'
    BY <1>1, <1>2 DEF RunOK, RunStates
<1>4. \A n \in 1..covered' : InTable(n)
    BY <1>1, <1>2 DEF RunOK, Pending, IInv, NothingSkipped
<1>5. CheckpointsOK'
    BY <1>1, <1>2, <1>3 DEF chainVars, IInv, CheckpointsOK, RunStates
<1>6. ASSUME NEW p \in RunStates, RunOK(p) PROVE RunOK(p)'
    <2>1. p.pc = "page" => p.cursor <= covered'
        BY <1>1, <1>3, <1>6 DEF RunOK, RunStates
    <2> QED
        BY <1>2, <1>6, <2>1 DEF chainVars, RunOK, GenuineWrite, Given, token_count, InTable,
                                Announced, Pending
<1>7. PICK q \in RunStates :
        /\ run' = [run EXCEPT ![r] = q]
        /\ q.pc \in {"reconcile", "page"}
        /\ q.pc = "page" => q.cursor = run[r].cursor
        /\ q.todo = {}
    <2>1. /\ done \in RunStates /\ done.pc = "reconcile" /\ done.todo = {}
          /\ more \in RunStates /\ more.pc = "page" /\ more.todo = {}
          /\ more.cursor = run[r].cursor
        BY <1>1 DEF RunStates, NoCursor
    <2> HIDE DEF done, more
    <2> QED BY <1>2, <2>1
<1>8. RunOK(q)'
    BY <1>3, <1>7 DEF RunOK
<1>9. RunsOK'
    BY <1>6, <1>7, <1>8 DEF IInv, RunsOK
<1>10. FactoryOK' /\ RowsOK' /\ NothingSkipped'
    BY <1>2, <1>4 DEF chainVars, IInv, FactoryOK, RowsOK, NothingSkipped, token_count,
                      GenuineEvent, Given, InTable, Announced
<1> QED BY <1>5, <1>9, <1>10 DEF IInv

\* A run that ends, fails or is killed leaves nothing behind.
LEMMA EndsIInv ==
    ASSUME IInv, NEW r \in Runs, Finish(r) \/ Fail(r)
    PROVE  IInv'
<1>1. CASE Fail(r)
    BY <1>1, IdleOK, LocalStepIInv DEF Fail
<1>2. CASE Finish(r)
    <2>0. countTokens \in Nat /\ run[r].count \in Nat
        <3>1. IsFiniteSet(1..token_count) /\ DOMAIN rows \subseteq 1..token_count
            BY FS_Interval DEF IInv, RowsOK, FactoryOK, token_count
        <3> QED BY <3>1, FS_Subset, FS_CardinalityType DEF countTokens, IInv, RunsOK, RunStates
    <2>1. CheckpointsOK'
        <3>1. saved' = [saved EXCEPT !.complete = countTokens >= run[r].count]
              /\ UNCHANGED <<chainVars, covered>> /\ (countTokens >= run[r].count) \in BOOLEAN
            BY <1>2, <2>0 DEF Finish
        <3> QED BY <3>1 DEF chainVars, IInv, CheckpointsOK
    <2>2. \A q : RunOK(q) => RunOK(q)'
        BY <1>2 DEF Finish, chainVars, RunOK, GenuineWrite, Given, token_count, InTable,
                    Announced, Pending
    <2>3. RunsOK'
        BY <1>2, <2>2, IdleOK DEF Finish, IInv, RunsOK
    <2> QED
        BY <1>2, <2>1, <2>3 DEF Finish, chainVars, IInv, FactoryOK, RowsOK, NothingSkipped,
                                token_count, GenuineEvent, Given, InTable, Announced
<1> QED BY <1>1, <1>2
-----------------------------------------------------------------------------
(* The writes *)

\* A statement that writes w keeps what is in the table and adds its own.
Written(w) ==
    /\ DOMAIN rows \subseteq DOMAIN rows'
    /\ \A t \in DOMAIN rows : rows[t].uri # NoUri => rows'[t].uri # NoUri
    /\ w.op = "upsertTokens" => w.token \in DOMAIN rows'
    /\ w.op = "setMetadataUri" /\ w.token \in DOMAIN rows => rows'[w.token].uri # NoUri

\* upsertTokens keeps the URI it finds.
LEMMA UpsertWrites ==
    ASSUME IInv, NEW w \in Writes, GenuineWrite(w), w.op = "upsertTokens", Upsert(w),
           UNCHANGED chainVars
    PROVE  RowsOK' /\ Written(w)
<1> DEFINE old == IF w.token \in DOMAIN rows THEN rows[w.token].uri ELSE NoUri
           row == [index |-> w.value, uri |-> old]
<1>1. rows' = [u \in DOMAIN rows \cup {w.token} |-> IF u = w.token THEN row ELSE rows[u]]
    BY DEF Upsert, WithRow
<1>2. /\ rows \in [DOMAIN rows -> TokenRows]
      /\ DOMAIN rows \subseteq 1..token_count /\ w.token \in 1..token_count
      /\ \A t \in DOMAIN rows : rows[t].uri = NoUri \/ Given(t, rows[t].uri)
    BY DEF IInv, RowsOK, GenuineWrite
<1>3. row \in TokenRows /\ row.uri = old /\ (old = NoUri \/ Given(w.token, old))
    BY <1>2 DEF TokenRows, Writes, NoUri
<1> HIDE DEF row
<1>4. DOMAIN rows' = DOMAIN rows \cup {w.token} /\ rows' \in [DOMAIN rows' -> TokenRows]
    BY <1>1, <1>2, <1>3
<1>5. \A t \in DOMAIN rows' : rows'[t].uri = NoUri \/ Given(t, rows'[t].uri)
    BY <1>1, <1>2, <1>3, <1>4
<1>6. RowsOK'
    BY <1>2, <1>4, <1>5 DEF RowsOK, chainVars, token_count, Given
<1>7. Written(w)
    BY <1>1, <1>3, <1>4 DEF Written
<1> QED BY <1>6, <1>7

\* setMetadataUri changes the URI of the row it finds.
LEMMA SetMetadataUriWrites ==
    ASSUME IInv, NEW w \in Writes, GenuineWrite(w), w.op = "setMetadataUri", SetMetadataUri(w),
           UNCHANGED chainVars
    PROVE  RowsOK' /\ Written(w)
<1>1. /\ rows \in [DOMAIN rows -> TokenRows]
      /\ DOMAIN rows \subseteq 1..token_count
      /\ \A t \in DOMAIN rows : rows[t].uri = NoUri \/ Given(t, rows[t].uri)
      /\ Given(w.token, w.value) /\ w.value # NoUri /\ w.value \in Nat
    BY DEF IInv, RowsOK, GenuineWrite, Given, NoUri, Writes
<1>2. /\ DOMAIN rows' = DOMAIN rows
      /\ \A t \in DOMAIN rows : t # w.token => rows'[t] = rows[t]
      /\ w.token \in DOMAIN rows => rows'[w.token] = [rows[w.token] EXCEPT !.uri = w.value]
      /\ rows' = [t \in DOMAIN rows |-> rows'[t]]
    BY DEF SetMetadataUri
<1>3. w.token \in DOMAIN rows => rows'[w.token] \in TokenRows /\ rows'[w.token].uri = w.value
    BY <1>1, <1>2 DEF TokenRows
<1>4. rows' \in [DOMAIN rows' -> TokenRows]
    BY <1>1, <1>2, <1>3
<1>5. \A t \in DOMAIN rows' : rows'[t].uri = NoUri \/ Given(t, rows'[t].uri)
    BY <1>1, <1>2, <1>3
<1>6. RowsOK'
    BY <1>1, <1>2, <1>4, <1>5 DEF RowsOK, chainVars, token_count, Given
<1>7. Written(w)
    BY <1>1, <1>2, <1>3 DEF Written
<1> QED BY <1>6, <1>7

\* A token that the page announces is in the table before the page's URIs are.
LEMMA RowsComeFirst ==
    ASSUME IInv, NEW q \in RunStates, RunOK(q), q.pc = "save", NEW n \in 1..q.upto,
           NEW w \in q.todo, w.op = "setMetadataUri", \A v \in q.todo : ~Before(v, w),
           Announced(w.token, n)
    PROVE  w.token \in DOMAIN rows
<1>1. PICK m \in 1..n : log[m] = Created(w.token)
    BY DEF Announced
<1>2. m \in 1..q.upto /\ log[m].topic = "created" /\ log[m].token = w.token
    BY <1>1 DEF Created, RunStates
<1>3. ~Pending(q, m)
    BY <1>2 DEF Pending, Before
<1> QED BY <1>2, <1>3 DEF RunOK, InTable

\* What a run writes is no longer pending, but in the table.
LEMMA WriteIInv ==
    ASSUME IInv, NEW r \in Runs, Write(r)
    PROVE  IInv'
<1>1. PICK w \in run[r].todo :
        /\ \A v \in run[r].todo : ~Before(v, w)
        /\ \/ /\ w.op = "upsertTokens" /\ Upsert(w)
              /\ run' = [run EXCEPT ![r].todo = run[r].todo \ {w}]
           \/ /\ w.op = "setMetadataUri" /\ SetMetadataUri(w)
              /\ run' = [run EXCEPT ![r].todo = run[r].todo \ {w}]
           \/ run' = [run EXCEPT ![r] = Idle] /\ UNCHANGED rows
    BY DEF Write
<1>2. UNCHANGED <<chainVars, saved, covered>>
    BY DEF Write
<1>3. CASE run' = [run EXCEPT ![r] = Idle] /\ UNCHANGED rows
    BY <1>2, <1>3, IdleOK, LocalStepIInv
<1>4. ASSUME RowsOK', Written(w), run' = [run EXCEPT ![r].todo = run[r].todo \ {w}]
      PROVE  IInv'
    <2>1. /\ run \in [Runs -> RunStates] /\ run[r] \in RunStates /\ RunOK(run[r])
          /\ w \in Writes /\ GenuineWrite(w)
        BY <1>1 DEF IInv, RunsOK, RunStates, RunOK
    <2>2. \A n : InTable(n) => InTable(n)'
        BY <1>2, <1>4 DEF Written, InTable, Announced, chainVars
    <2>3. \A p : RunOK(p) => RunOK(p)'
        BY <1>2, <2>2 DEF chainVars, RunOK, GenuineWrite, Given, token_count, Pending
    <2>4. PICK q : q = [run[r] EXCEPT !.todo = run[r].todo \ {w}]
        OBVIOUS
    <2>5. /\ q \in RunStates
          /\ q.pc = run[r].pc /\ q.cursor = run[r].cursor /\ q.upto = run[r].upto
          /\ q.todo = run[r].todo \ {w}
        BY <2>1, <2>4 DEF RunStates
    <2>6. ASSUME q.pc = "save", NEW n \in 1..q.upto
          PROVE  InTable(n)' \/ Pending(q, n)'
        <3>1. InTable(n) \/ Pending(run[r], n)
            BY <2>1, <2>5, <2>6 DEF RunOK
        <3>2. CASE InTable(n)
            BY <2>2, <3>2
        <3>3. CASE Pending(run[r], n) /\ ~Pending(q, n)
            <4>1. /\ w.token = log[n].token
                  /\ IF log[n].topic = "created" THEN w.op = "upsertTokens"
                     ELSE w.op = "setMetadataUri"
                BY <2>5, <3>3 DEF Pending
            <4>2. CASE log[n].topic = "created"
                BY <1>2, <1>4, <4>1, <4>2 DEF Written, InTable, chainVars
            <4>3. CASE log[n].topic # "created" /\ Announced(w.token, n)
                <5>1. w.token \in DOMAIN rows
                    BY <1>1, <2>1, <2>5, <2>6, <4>1, <4>3, RowsComeFirst
                <5> QED BY <1>2, <1>4, <4>1, <4>3, <5>1 DEF Written, InTable, chainVars
            <4>4. CASE log[n].topic # "created" /\ ~Announced(w.token, n)
                BY <1>2, <4>1, <4>4 DEF InTable, Announced, chainVars
            <4> QED BY <4>2, <4>3, <4>4
        <3>4. CASE Pending(q, n)
            BY <1>2, <3>4 DEF Pending, chainVars
        <3> QED BY <3>1, <3>2, <3>3, <3>4
    <2>7. RunOK(q)'
        BY <1>2, <2>1, <2>5, <2>6 DEF RunOK, GenuineWrite, Given, token_count, chainVars
    <2>8. RunsOK'
        <3>1. run' = [run EXCEPT ![r] = q]
            BY <1>4, <2>4
        <3> QED BY <2>1, <2>3, <2>5, <2>7, <3>1 DEF IInv, RunsOK
    <2>9. FactoryOK' /\ CheckpointsOK' /\ NothingSkipped'
        BY <1>2, <2>2 DEF chainVars, IInv, FactoryOK, CheckpointsOK, NothingSkipped,
                          token_count, GenuineEvent, Given
    <2> QED BY <1>4, <2>8, <2>9 DEF IInv
<1>5. w \in Writes /\ GenuineWrite(w) /\ UNCHANGED chainVars
    BY <1>1, <1>2 DEF IInv, RunsOK, RunStates, RunOK
<1> QED BY <1>1, <1>3, <1>4, <1>5, UpsertWrites, SetMetadataUriWrites

-----------------------------------------------------------------------------

\* Every step keeps the invariant.
LEMMA NextIInv == IInv /\ [Next]_vars => IInv'
<1> SUFFICES ASSUME IInv, [Next]_vars PROVE IInv'
    OBVIOUS
<1>1. CASE UNCHANGED vars
    <2>1. \A q : RunOK(q) => RunOK(q)'
        BY <1>1 DEF vars, chainVars, RunOK, GenuineWrite, Given, token_count, InTable,
                    Announced, Pending
    <2> QED
        BY <1>1, <2>1 DEF vars, chainVars, IInv, FactoryOK, RowsOK, CheckpointsOK, RunsOK,
                          NothingSkipped, token_count, GenuineEvent, Given, InTable, Announced
<1>2. ASSUME NEW r \in Runs, Step(r) PROVE IInv'
    BY <1>2, FirstPhaseIInv, OpenStreamIInv, ReadPageIInv, WriteIInv, SavePageIInv, EndsIInv
       DEF Step
<1> QED
    BY <1>1, <1>2, CreateTokenIInv, SetMetadataIInv, BackfillTokenAddressIInv, PruneIInv,
       EndsIInv DEF Next

\* The table has every event that a checkpoint has passed, and nothing that the
\* factory has not.
THEOREM Invariance == Spec => []IInv
BY InitIInv, NextIInv, PTL DEF Spec

\* Whatever was killed, refused or run twice: no event behind the furthest
\* checkpoint is missing from the table.
THEOREM NothingIsSkipped == Spec => []NothingSkipped
<1>1. IInv => NothingSkipped
    BY DEF IInv
<1> QED BY <1>1, Invariance, PTL
-----------------------------------------------------------------------------
(***************************************************************************)
(* The refinement of TokenCache.  The URIs a token was given are its       *)
(* versions, and what is served is the table's URIs.                       *)
(***************************************************************************)
History    == [t \in 1..token_count |-> [v \in 1..version[t] |-> v]]
ServedUris == [t \in DOMAIN rows |-> rows[t].uri]

\* What TokenCache calls given is what the factory has given.
LEMMA GivenVersions ==
    ASSUME IInv, NEW t \in 1..token_count
    PROVE  /\ version[t] \in 0..METADATA_MAX_UPDATES
           /\ Cache!Given(t) = 1..version[t]
<1>1. version[t] \in 0..METADATA_MAX_UPDATES
    BY ElementOfSeq DEF IInv, FactoryOK, token_count
<1>2. DOMAIN History[t] = 1..version[t] /\ \A v \in 1..version[t] : History[t][v] = v
    BY DEF History
<1> QED BY <1>1, <1>2 DEF Cache!Given, History

\* The first versions of a token, as a sequence of URIs.
LEMMA VersionsAreSeq ==
    ASSUME NEW n \in 0..METADATA_MAX_UPDATES
    PROVE  /\ [v \in 1..n |-> v] \in Seq(Versions)
           /\ Len([v \in 1..n |-> v]) = n
BY BoundsAssumption DEF Versions

\* The table is empty at the start.
LEMMA InitCache == Init => Cache!CacheInit
<1> SUFFICES ASSUME Init PROVE Cache!CacheInit
    OBVIOUS
<1>1. IInv
    BY InitIInv
<1>2. DOMAIN History = 1..token_count /\ 1..token_count \subseteq Tokens
    BY <1>1, BoundsAssumption DEF History, IInv, FactoryOK, token_count, Tokens
<1>3. ASSUME NEW t \in 1..token_count PROVE History[t] \in Seq(Versions)
    BY <1>1, GivenVersions, VersionsAreSeq DEF History
<1>4. DOMAIN ServedUris = {}
    BY DEF Init, ServedUris
<1> QED BY <1>2, <1>3, <1>4 DEF Cache!CacheInit, Cache!CacheTypeOK, History, ServedUris

\* A step of the factory.
LEMMA FactoryCaches ==
    ASSUME IInv, IInv', CreateToken \/ \E t \in Tokens : SetMetadata(t)
    PROVE  Cache!CacheNext
<1>1. /\ version \in Seq(0..METADATA_MAX_UPDATES) /\ token_count \in Nat
      /\ token_count <= LastToken /\ token_count' <= LastToken /\ LastToken \in Nat
    BY BoundsAssumption DEF IInv, FactoryOK, token_count
<1>2. ServedUris' = ServedUris
    BY DEF CreateToken, SetMetadata, ServedUris
<1>3. CASE CreateToken
    <2>0. PICK t : t = token_count + 1
        OBVIOUS
    <2>1. /\ token_count' = t
          /\ \A u \in 1..token_count : version'[u] = version[u]
          /\ version'[t] = 0
        BY <1>1, <1>3, <2>0, BoundsAssumption, AppendProperties DEF CreateToken, token_count
    <2>2. History' = [u \in DOMAIN History \cup {t} |-> IF u = t THEN << >> ELSE History[u]]
        <3>1. DOMAIN History = 1..token_count /\ 1..t = (1..token_count) \cup {t}
            BY <1>1, <2>0 DEF History
        <3>2. [v \in 1..0 |-> v] = << >>
            OBVIOUS
        <3>3. History' = [u \in 1..t |-> [v \in 1..version'[u] |-> v]]
            BY <2>1 DEF History
        <3>4. \A u \in 1..token_count : u # t /\ History[u] = [v \in 1..version'[u] |-> v]
            BY <1>1, <2>0, <2>1 DEF History
        <3> QED BY <2>1, <3>1, <3>2, <3>3, <3>4
    <2>3. t \in Tokens \ DOMAIN History
        BY <1>1, <2>0, <2>1 DEF History, Tokens
    <2>4. Cache!TokenCreated(t)
        BY <1>2, <2>2, <2>3 DEF Cache!TokenCreated, History, ServedUris
    <2> QED BY <2>3, <2>4 DEF Cache!CacheNext
<1>4. ASSUME NEW t \in Tokens, SetMetadata(t) PROVE Cache!CacheNext
    <2>0. PICK w : w = version[t] + 1
        OBVIOUS
    <2>1. t \in 1..token_count /\ version[t] \in Nat /\ w \in 0..METADATA_MAX_UPDATES /\ w \in Versions
        BY <1>1, <1>4, <2>0, BoundsAssumption DEF SetMetadata, Tokens, Versions, token_count
    <2>2. token_count' = token_count /\ version' = [version EXCEPT ![t] = w]
        BY <1>1, <1>4, <2>0, <2>1, ExceptSeq DEF SetMetadata, token_count
    <2>3. [v \in 1..w |-> v] = Append([v \in 1..version[t] |-> v], w)
        BY <2>0, <2>1
    <2>4. History' = [History EXCEPT ![t] = Append(@, w)]
        <3>1. DOMAIN History = 1..token_count /\ DOMAIN History' = 1..token_count
            BY <2>2 DEF History
        <3>2. \A u \in 1..token_count : u # t => version'[u] = version[u]
            BY <1>1, <2>2 DEF token_count
        <3>3. version'[t] = w
            BY <1>1, <2>1, <2>2 DEF token_count
        <3>4. \A u \in 1..token_count : u # t => History'[u] = History[u]
            BY <2>2, <3>2 DEF History
        <3>5. History[t] = [v \in 1..version[t] |-> v] /\ History'[t] = [v \in 1..w |-> v]
            BY <2>1, <2>2, <3>3 DEF History
        <3>6. History = [u \in 1..token_count |-> History[u]]
              /\ History' = [u \in 1..token_count |-> History'[u]]
            BY <2>2 DEF History
        <3> QED BY <2>1, <2>3, <3>1, <3>4, <3>5, <3>6
    <2>5. Cache!UriSet(t, w)
        BY <1>2, <2>1, <2>4 DEF Cache!UriSet, History, ServedUris
    <2> QED BY <2>1, <2>5 DEF Cache!CacheNext
<1> QED BY <1>3, <1>4

\* A statement of a run.
LEMMA WriteCaches ==
    ASSUME IInv, NEW r \in Runs, Write(r)
    PROVE  [Cache!CacheNext]_(Cache!cacheVars)
<1>1. /\ History' = History
      /\ \A t \in DOMAIN rows : t \in 1..token_count /\ t \in Tokens
    BY BoundsAssumption DEF Write, chainVars, History, token_count, IInv, RowsOK, FactoryOK, Tokens
<1>2. PICK w \in run[r].todo :
        \/ w.op = "upsertTokens" /\ Upsert(w)
        \/ w.op = "setMetadataUri" /\ SetMetadataUri(w)
        \/ UNCHANGED rows
    BY DEF Write
<1>3. /\ w.token \in 1..token_count /\ w.token \in Tokens
      /\ w.op = "setMetadataUri" => w.value \in 1..version[w.token]
    BY <1>2, BoundsAssumption
       DEF IInv, RunsOK, RunOK, GenuineWrite, Given, FactoryOK, token_count, Tokens
<1>4. CASE ServedUris' = ServedUris
    BY <1>1, <1>4 DEF Cache!cacheVars, History, ServedUris
<1>5. CASE UNCHANGED rows
    BY <1>4, <1>5 DEF ServedUris
<1>6. CASE Upsert(w)
    <2>1. CASE w.token \in DOMAIN rows
        <3>1. /\ DOMAIN rows' = DOMAIN rows
              /\ \A t \in DOMAIN rows : rows'[t].uri = rows[t].uri
            BY <1>6, <2>1 DEF Upsert, WithRow
        <3> QED BY <1>4, <3>1 DEF ServedUris
    <2>2. CASE w.token \notin DOMAIN rows
        <3>1. /\ DOMAIN rows' = DOMAIN rows \cup {w.token}
              /\ \A t \in DOMAIN rows' :
                   rows'[t].uri = IF t = w.token THEN NoUri ELSE rows[t].uri
            BY <1>6, <2>2 DEF Upsert, WithRow
        <3>2. ServedUris' = [u \in DOMAIN ServedUris \cup {w.token} |->
                               IF u = w.token THEN NoUri ELSE ServedUris[u]]
            BY <3>1 DEF ServedUris
        <3>3. w.token \in DOMAIN History \ DOMAIN ServedUris
            BY <1>3, <2>2 DEF History, ServedUris
        <3>4. Cache!TokenLearned(w.token)
            BY <1>1, <3>2, <3>3 DEF Cache!TokenLearned, History, ServedUris
        <3> QED BY <1>3, <3>4 DEF Cache!CacheNext
    <2> QED BY <2>1, <2>2
<1>7. CASE w.op = "setMetadataUri" /\ SetMetadataUri(w)
    <2>1. /\ DOMAIN rows' = DOMAIN rows
          /\ \A t \in DOMAIN rows : t # w.token => rows'[t] = rows[t]
          /\ w.token \in DOMAIN rows => rows'[w.token] = [rows[w.token] EXCEPT !.uri = w.value]
        BY <1>7 DEF SetMetadataUri
    <2>2. CASE w.token \notin DOMAIN rows
        BY <1>4, <2>1, <2>2 DEF ServedUris
    <2>3. CASE w.token \in DOMAIN rows
        <3>1. rows'[w.token].uri = w.value
            BY <2>1, <2>3 DEF IInv, RowsOK, TokenRows
        <3>2. ServedUris' = [ServedUris EXCEPT ![w.token] = w.value]
            BY <2>1, <2>3, <3>1 DEF ServedUris
        <3>3. w.value \in Cache!Given(w.token) /\ w.value \in Versions
            BY <1>3, <1>7, GivenVersions, BoundsAssumption DEF Versions
        <3>4. w.token \in DOMAIN ServedUris
            BY <2>3 DEF ServedUris
        <3>5. Cache!UriLearned(w.token, w.value)
            BY <1>1, <3>2, <3>3, <3>4 DEF Cache!UriLearned, History, ServedUris
        <3> QED BY <1>3, <3>3, <3>5 DEF Cache!CacheNext
    <2> QED BY <2>2, <2>3
<1> QED BY <1>2, <1>5, <1>6, <1>7

\* Every other step leaves the factory's URIs and the served ones alone.
LEMMA StepCaches == IInv /\ IInv' /\ [Next]_vars => [Cache!CacheNext]_(Cache!cacheVars)
<1> SUFFICES ASSUME IInv, IInv', [Next]_vars PROVE [Cache!CacheNext]_(Cache!cacheVars)
    OBVIOUS
<1>1. ASSUME UNCHANGED <<version, rows>> PROVE UNCHANGED Cache!cacheVars
    <2>1. History' = History /\ ServedUris' = ServedUris
        BY <1>1 DEF History, ServedUris, token_count
    <2> QED BY <2>1 DEF Cache!cacheVars, History, ServedUris
<1>2. CASE CreateToken \/ \E t \in Tokens : SetMetadata(t)
    BY <1>2, FactoryCaches
<1>3. CASE \E r \in Runs : Write(r)
    BY <1>3, WriteCaches
<1>4. CASE UNCHANGED vars \/ Prune \/ \E t \in Tokens : BackfillTokenAddress(t)
    BY <1>1, <1>4 DEF vars, chainVars, Prune, BackfillTokenAddress
<1>5. ASSUME NEW r \in Runs, Step(r) \/ Fail(r), ~Write(r) PROVE UNCHANGED <<version, rows>>
    BY <1>5 DEF Step, Fail, Begin, ReadState, RunBackfill, OpenStream, ReadPage, SavePage,
                Checkpoint, Reconcile, Finish, chainVars
<1> QED BY <1>1, <1>2, <1>3, <1>4, <1>5 DEF Next

\* The runs implement the cache they promise their readers: they never serve a
\* token or a URI the factory has not given, nor lose one they had.
THEOREM CacheImplemented == Spec => ImplementsTokenCache
<1>1. Spec => Cache!CacheInit /\ [][Cache!CacheNext]_(Cache!cacheVars)
    BY InitCache, StepCaches, Invariance, PTL DEF Spec
<1> QED BY <1>1 DEF ImplementsTokenCache, Cache!CacheSpec

=============================================================================
