--------------------------- MODULE MigrationProofs ---------------------------
(***************************************************************************)
(* Proofs about Migration: no TokenInfo is lost, left behind or comes back *)
(* stale, back-filled counters are exact, settings survive migrate, and    *)
(* creators' lists read in full, for any old factory, chunk, page size,    *)
(* caps and order of calls.                                                *)
(***************************************************************************)
EXTENDS Migration, Iteration, SequenceTheorems, TLAPS

CursorOK ==
    /\ sv \in 0..5
    /\ token_count \in Nat
    /\ mig3cur \in 0..token_count

Keys == {InfoKey(i) : i \in 1..token_count} \cup {SupplyKey(i) : i \in Capped}

\* An entry is in one storage only, and there is none of a token to come.
StorageOK ==
    /\ DOMAIN instance \cap DOMAIN persistent = {}
    /\ DOMAIN instance \cup DOMAIN persistent \subseteq Keys

BurnOK == burnEnabled \in Seq(BOOLEAN) /\ Len(burnEnabled) = token_count

\* What the walk has not moved is ahead of its cursor, which is still walking.
LeftAhead ==
    \A i \in 1..token_count :
        InfoKey(i) \in DOMAIN instance => sv < 3 /\ mig3cur < i

\* A supply counter, or the operator's sum, never counts more than was issued.
SuppliesOK ==
    /\ issued \in [Capped -> Nat]
    /\ \A i \in Capped : Read(SupplyKey(i), 0) \in Nat /\ Read(SupplyKey(i), 0) <= issued[i]
    /\ DOMAIN verified \subseteq Capped
    /\ \A i \in DOMAIN verified : verified[i] \in Nat /\ verified[i] <= issued[i]
    /\ bkfld \subseteq Capped /\ missed \in [bkfld -> Nat]

IInv ==
    /\ CursorOK /\ StorageOK /\ BurnOK /\ LeftAhead
    /\ NoEntryLostOrStale /\ SuppliesOK /\ BackfillClosesTheGap

-----------------------------------------------------------------------------
(* Keys and storages *)

\* Two keys are the same only if they are the same entry of the same token.
LEMMA KeysDiffer ==
    /\ \A i, j : InfoKey(i) # SupplyKey(j)
    /\ \A i, j : InfoKey(i) = InfoKey(j) => i = j
    /\ \A i, j : SupplyKey(i) = SupplyKey(j) => i = j
BY DEF InfoKey, SupplyKey

\* What is read does not change by a move (migrate_addr_keyed).
LEMMA MoveReads ==
    ASSUME DOMAIN instance \cap DOMAIN persistent = {}, NEW K,
           persistent' = Moved(K), instance' = LeftBehind(K)
    PROVE  /\ \A k, d : Read(k, d)' = Read(k, d)
           /\ DOMAIN instance' \subseteq DOMAIN instance
           /\ DOMAIN instance' \cap DOMAIN persistent' = {}
           /\ DOMAIN instance' \cup DOMAIN persistent' \subseteq
                DOMAIN instance \cup DOMAIN persistent
BY DEF Moved, LeftBehind, Read

\* A key that is moved and set reads as what it was set to, every other as before.
LEMMA SetReads ==
    ASSUME DOMAIN instance \cap DOMAIN persistent = {}, NEW K, NEW key \in K, NEW val,
           MigrateAndSet(K, key, val)
    PROVE  /\ \A k, d : Read(k, d)' = IF k = key THEN val ELSE Read(k, d)
           /\ DOMAIN instance' \subseteq DOMAIN instance
           /\ DOMAIN instance' \cap DOMAIN persistent' = {}
           /\ DOMAIN instance' \cup DOMAIN persistent' \subseteq
                DOMAIN instance \cup DOMAIN persistent \cup {key}
BY DEF MigrateAndSet, Put, Moved, LeftBehind, Read

\* A call that touches no TokenInfo's value keeps what it says of them.
LEMMA InfosKept ==
    ASSUME IInv, UNCHANGED <<sv, token_count, mig3cur>>,
           DOMAIN instance' \subseteq DOMAIN instance,
           DOMAIN instance' \cap DOMAIN persistent' = {},
           DOMAIN instance' \cup DOMAIN persistent' \subseteq Keys
    PROVE  CursorOK' /\ StorageOK' /\ LeftAhead'
BY DEF IInv, CursorOK, StorageOK, LeftAhead, Keys, InfoKey, SupplyKey

-----------------------------------------------------------------------------

\* An old factory's entries are in one storage, by its schema version.
LEMMA InitIInv == Init => IInv
<1> SUFFICES ASSUME Init PROVE IInv
    OBVIOUS
<1> USE CreatorsAssumption, BoundsAssumption
<1>0. /\ token_count = Len(Legacy) /\ DOMAIN Legacy = 1..token_count /\ token_count \in Nat
      /\ burnEnabled = [i \in 1..token_count |-> TRUE]
      /\ verified = EmptyMap /\ missed = EmptyMap /\ bkfld = {} /\ mig3cur = 0 /\ sv \in 0..4
    BY DEF Init
<1>1. PICK minted \in {0, 1} :
         /\ instance = IF sv < 3 THEN OldEntries(minted) ELSE EmptyMap
         /\ persistent = IF sv < 3 THEN EmptyMap ELSE OldEntries(minted)
         /\ issued = [i \in Capped |-> 1 + minted]
    BY DEF Init
<1>2. /\ DOMAIN OldEntries(minted) \subseteq Keys /\ DOMAIN EmptyMap = {}
      /\ \A i \in 1..token_count : /\ InfoKey(i) \in DOMAIN OldEntries(minted)
                                   /\ OldEntries(minted)[InfoKey(i)] = TRUE
      /\ \A i : SupplyKey(i) \in DOMAIN OldEntries(minted) =>
                    OldEntries(minted)[SupplyKey(i)] = minted
    <2>1. DOMAIN OldEntries(minted) = {InfoKey(i) : i \in 1..token_count}
             \cup {SupplyKey(i) : i \in {j \in Capped : minted > 0}}
        BY <1>0 DEF OldEntries
    <2>2. \A k \in DOMAIN OldEntries(minted) :
             OldEntries(minted)[k] = IF k[1] = "info" THEN TRUE ELSE minted
        BY DEF OldEntries
    <2>3. \A i : InfoKey(i)[1] = "info" /\ SupplyKey(i)[1] = "supply"
        BY DEF InfoKey, SupplyKey
    <2>4. DOMAIN EmptyMap = {}
        BY DEF EmptyMap
    <2> QED
        BY <2>1, <2>2, <2>3, <2>4 DEF Keys
<1>3. CursorOK /\ LeftAhead
    BY <1>0, <1>1, <1>2 DEF CursorOK, LeftAhead
<1>4. StorageOK
    BY <1>1, <1>2 DEF StorageOK
<1>5. BurnOK
    <2>1. burnEnabled \in [1..token_count -> BOOLEAN]
        BY <1>0
    <2>2. burnEnabled \in Seq(BOOLEAN)
        BY <2>1, <1>0, SeqDef
    <2> QED
        BY <2>1, <2>2, <1>0, LenProperties DEF BurnOK
<1>6. NoEntryLostOrStale
    <2> SUFFICES ASSUME NEW i \in 1..token_count
                 PROVE  Read(InfoKey(i), "missing") = TRUE
        BY <1>0 DEF NoEntryLostOrStale
    <2> QED
        BY <1>1, <1>2 DEF Read
<1>7. SuppliesOK
    <2>1. \A i \in Capped : Read(SupplyKey(i), 0) \in {0, minted}
        BY <1>1, <1>2 DEF Read
    <2> QED
        BY <1>0, <1>1, <1>2, <2>1 DEF SuppliesOK
<1>8. BackfillClosesTheGap
    BY DEF Init, BackfillClosesTheGap
<1> QED
    BY <1>3, <1>4, <1>5, <1>6, <1>7, <1>8 DEF IInv

\* New tokens have entries of their own.
LEMMA CreateIInv ==
    ASSUME IInv, NEW c \in Creators, NEW n \in {1, 2}, CreateTokens(c, n)
    PROVE  IInv'
<1> DEFINE new == token_count + 1 .. token_count + n
<1>1. /\ token_count' = token_count + n
      /\ persistent' = [k \in DOMAIN persistent \cup {InfoKey(i) : i \in new} |->
                          IF k \in DOMAIN persistent THEN persistent[k] ELSE TRUE]
      /\ burnEnabled' = burnEnabled \o [k \in 1..n |-> TRUE]
      /\ UNCHANGED <<sv, mig3cur, instance, verified, missed, bkfld, issued>>
    BY DEF CreateTokens, admins, repair
<1>2. token_count \in Nat /\ n \in Nat
    BY DEF IInv, CursorOK
<1>3. \A i \in new : InfoKey(i) \notin Keys
    BY <1>2, KeysDiffer DEF Keys
<1>4. \A k, d : Read(k, d)' = IF k \in {InfoKey(i) : i \in new} THEN TRUE ELSE Read(k, d)
    BY <1>1, <1>3 DEF Read, IInv, StorageOK
<1>5. CursorOK' /\ StorageOK'
    <2>1. Keys' = Keys \cup {InfoKey(i) : i \in new}
        BY <1>1, <1>2 DEF Keys
    <2>2. StorageOK'
        BY <2>1, <1>1, <1>3 DEF IInv, StorageOK
    <2> QED
        BY <2>2, <1>1, <1>2 DEF IInv, CursorOK
<1>6. LeftAhead'
    BY <1>1, <1>2, <1>3 DEF IInv, LeftAhead, StorageOK
<1>7. BurnOK' /\ \A i \in 1..token_count' :
                    burnEnabled'[i] = IF i \in new THEN TRUE ELSE burnEnabled[i]
    <2> DEFINE s == [k \in 1..n |-> TRUE]
    <2>1. s \in [1..n -> BOOLEAN] /\ \A k \in 1..n : s[k] = TRUE
        OBVIOUS
    <2>2. s \in Seq(BOOLEAN)
        BY <2>1, <1>2, SeqDef
    <2> HIDE DEF s
    <2>3. Len(s) = n
        BY <2>1, <2>2, <1>2, LenProperties
    <2>4. /\ burnEnabled \o s \in Seq(BOOLEAN)
          /\ Len(burnEnabled \o s) = token_count + n
          /\ \A i \in 1..token_count + n :
                 (burnEnabled \o s)[i] = IF i <= token_count THEN burnEnabled[i]
                                                            ELSE s[i - token_count]
        BY <2>2, <2>3, ConcatProperties DEF IInv, BurnOK
    <2>5. burnEnabled' = burnEnabled \o s
        BY <1>1 DEF s
    <2>6. BurnOK'
        BY <2>4, <2>5, <1>1 DEF BurnOK
    <2>7. ASSUME NEW i \in 1..token_count'
          PROVE  burnEnabled'[i] = IF i \in new THEN TRUE ELSE burnEnabled[i]
        <3>1. CASE i <= token_count
            <4>1. i \notin new /\ i \in 1..token_count + n
                BY <3>1, <1>1, <1>2
            <4>2. burnEnabled'[i] = (burnEnabled \o s)[i]
                BY <2>5
            <4>3. (burnEnabled \o s)[i] = burnEnabled[i]
                BY <4>1, <3>1, <2>4
            <4> QED
                BY <4>1, <4>2, <4>3
        <3>2. CASE ~(i <= token_count)
            <4>1. i \in new /\ i - token_count \in 1..n /\ i \in 1..token_count + n
                BY <3>2, <1>1, <1>2
            <4> QED
                BY <4>1, <3>2, <2>1, <2>4, <2>5
        <3> QED
            BY <3>1, <3>2
    <2> QED
        BY <2>6, <2>7
<1>8. NoEntryLostOrStale'
    <2> SUFFICES ASSUME NEW i \in 1..token_count'
                 PROVE  Read(InfoKey(i), "missing")' = burnEnabled'[i]
        BY DEF NoEntryLostOrStale
    <2>1. InfoKey(i) \in {InfoKey(j) : j \in new} <=> i \in new
        BY KeysDiffer
    <2>2. i \in new \/ i \in 1..token_count
        BY <1>1, <1>2
    <2> QED
        BY <2>1, <2>2, <1>4, <1>7 DEF IInv, NoEntryLostOrStale
<1>9. \A i : Read(SupplyKey(i), 0)' = Read(SupplyKey(i), 0)
    <2> SUFFICES ASSUME NEW i PROVE Read(SupplyKey(i), 0)' = Read(SupplyKey(i), 0)
        OBVIOUS
    <2>1. SupplyKey(i) \notin {InfoKey(j) : j \in new}
        BY KeysDiffer
    <2> QED
        BY <2>1, <1>4
<1>10. SuppliesOK' /\ BackfillClosesTheGap'
    BY <1>1, <1>9 DEF IInv, SuppliesOK, BackfillClosesTheGap
<1> QED
    BY <1>5, <1>6, <1>7, <1>8, <1>10 DEF IInv

\* A creator's switch.
LEMMA SetBurnIInv ==
    ASSUME IInv, NEW i \in 1..token_count, NEW enabled \in BOOLEAN, SetBurnEnabled(i, enabled)
    PROVE  IInv'
<1>1. /\ MigrateAndSet({InfoKey(i)}, InfoKey(i), enabled)
      /\ burnEnabled' = [burnEnabled EXCEPT ![i] = enabled]
      /\ UNCHANGED <<sv, token_count, mig3cur, verified, missed, bkfld, issued>>
    BY DEF SetBurnEnabled, admins, repair
<1>2. InfoKey(i) \in Keys
    BY DEF Keys
<1>3. CursorOK' /\ StorageOK' /\ LeftAhead'
    BY <1>1, <1>2, SetReads, InfosKept DEF IInv, StorageOK
<1>4. \A k, d : Read(k, d)' = IF k = InfoKey(i) THEN enabled ELSE Read(k, d)
    BY <1>1, SetReads DEF IInv, StorageOK
<1>5. BurnOK'
    BY <1>1, ExceptSeq DEF IInv, BurnOK
<1>6. NoEntryLostOrStale'
    BY <1>1, <1>4, KeysDiffer DEF IInv, NoEntryLostOrStale, BurnOK
<1>7. SuppliesOK' /\ BackfillClosesTheGap'
    BY <1>1, <1>4, KeysDiffer DEF IInv, SuppliesOK, BackfillClosesTheGap
<1> QED
    BY <1>3, <1>5, <1>6, <1>7 DEF IInv

\* A mint counts what it issues, from the entry wherever it is.
LEMMA MintIInv ==
    ASSUME IInv, NEW i \in 1..token_count, MintTokens(i)
    PROVE  IInv'
<1> USE BoundsAssumption
<1>1. /\ i \in Capped
      /\ Read(SupplyKey(i), 0) + 1 <= Cap
      /\ MigrateAndSet({InfoKey(i), SupplyKey(i)}, SupplyKey(i), Read(SupplyKey(i), 0) + 1)
      /\ issued' = [issued EXCEPT ![i] = @ + 1]
      /\ UNCHANGED <<sv, token_count, mig3cur, verified, missed, bkfld, burnEnabled>>
    BY DEF MintTokens, admins, repair
<1>2. SupplyKey(i) \in Keys
    BY <1>1 DEF Keys
<1>3. CursorOK' /\ StorageOK' /\ LeftAhead'
    <2>1. /\ DOMAIN instance' \subseteq DOMAIN instance
          /\ DOMAIN instance' \cap DOMAIN persistent' = {}
          /\ DOMAIN instance' \cup DOMAIN persistent' \subseteq
                DOMAIN instance \cup DOMAIN persistent \cup {SupplyKey(i)}
        BY <1>1, SetReads DEF IInv, StorageOK
    <2> QED
        BY <2>1, <1>1, <1>2, InfosKept DEF IInv, StorageOK
<1>4. \A k, d : Read(k, d)' = IF k = SupplyKey(i) THEN Read(SupplyKey(i), 0) + 1 ELSE Read(k, d)
    BY <1>1, SetReads DEF IInv, StorageOK
<1>5. BurnOK' /\ NoEntryLostOrStale'
    BY <1>1, <1>4, KeysDiffer DEF IInv, BurnOK, NoEntryLostOrStale
<1>6. \A j \in Capped : /\ Read(SupplyKey(j), 0)' = IF j = i THEN Read(SupplyKey(i), 0) + 1
                                                             ELSE Read(SupplyKey(j), 0)
                        /\ issued'[j] = IF j = i THEN issued[i] + 1 ELSE issued[j]
    BY <1>1, <1>4, KeysDiffer DEF IInv, SuppliesOK
<1>7. SuppliesOK'
    BY <1>1, <1>6 DEF IInv, SuppliesOK
<1>8. BackfillClosesTheGap'
    BY <1>1, <1>6 DEF IInv, SuppliesOK, BackfillClosesTheGap
<1> QED
    BY <1>3, <1>5, <1>7, <1>8 DEF IInv

\* The operator sums what was issued by then.
LEMMA ReconstructIInv ==
    ASSUME IInv, NEW i \in 1..token_count, ReconstructSupply(i)
    PROVE  IInv'
<1>1. /\ i \in Capped /\ verified' = Put(verified, i, issued[i])
      /\ UNCHANGED <<sv, token_count, mig3cur, instance, persistent, missed, bkfld, issued, burnEnabled>>
    BY DEF ReconstructSupply, admins, entries, past
<1>2. \A k, d : Read(k, d)' = Read(k, d)
    BY <1>1 DEF Read
<1>3. CursorOK' /\ StorageOK' /\ BurnOK' /\ LeftAhead' /\ NoEntryLostOrStale'
    BY <1>1, <1>2 DEF IInv, CursorOK, StorageOK, BurnOK, LeftAhead, NoEntryLostOrStale, Keys
<1>4. SuppliesOK' /\ BackfillClosesTheGap'
    BY <1>1, <1>2 DEF IInv, SuppliesOK, BackfillClosesTheGap, Put
<1> QED
    BY <1>3, <1>4 DEF IInv

\* The back-fill raises a counter to the sum if it was less: to no more than was
\* issued, and to no less than what the sum has of it.
LEMMA BackfillIInv ==
    ASSUME IInv, NEW i \in 1..token_count, BackfillCappedSupply(i)
    PROVE  IInv'
<1> USE BoundsAssumption
<1> DEFINE K == {InfoKey(i), SupplyKey(i)}
<1>1. /\ i \in Capped /\ i \in DOMAIN verified /\ verified[i] <= Cap
      /\ UNCHANGED <<sv, token_count, mig3cur, verified, issued, burnEnabled>>
    BY DEF BackfillCappedSupply, admins, IInv, SuppliesOK
<1>2. /\ CursorOK' /\ StorageOK' /\ LeftAhead'
      /\ \A k, d : k # SupplyKey(i) => Read(k, d)' = Read(k, d)
      /\ Read(SupplyKey(i), 0)' = IF verified[i] > Read(SupplyKey(i), 0) THEN verified[i]
                                  ELSE Read(SupplyKey(i), 0)
    <2>1. SupplyKey(i) \in Keys /\ DOMAIN instance \cap DOMAIN persistent = {}
        BY <1>1 DEF Keys, IInv, StorageOK
    <2>2. CASE verified[i] > Read(SupplyKey(i), 0)
        <3>1. MigrateAndSet(K, SupplyKey(i), verified[i])
            BY <2>2 DEF BackfillCappedSupply, Backfilled
        <3>2. /\ \A k, d : Read(k, d)' = IF k = SupplyKey(i) THEN verified[i] ELSE Read(k, d)
              /\ DOMAIN instance' \subseteq DOMAIN instance
              /\ DOMAIN instance' \cap DOMAIN persistent' = {}
              /\ DOMAIN instance' \cup DOMAIN persistent' \subseteq
                   DOMAIN instance \cup DOMAIN persistent \cup {SupplyKey(i)}
            BY <3>1, <2>1, SetReads
        <3> QED
            BY <3>2, <2>1, <2>2, <1>1, InfosKept DEF IInv, StorageOK
    <2>3. CASE ~(verified[i] > Read(SupplyKey(i), 0))
        <3>1. persistent' = Moved(K) /\ instance' = LeftBehind(K)
            BY <2>3 DEF BackfillCappedSupply
        <3> QED
            BY <3>1, <2>1, <2>3, <1>1, MoveReads, InfosKept DEF IInv, StorageOK
    <2> QED
        BY <2>2, <2>3
<1>3. BurnOK' /\ NoEntryLostOrStale'
    BY <1>1, <1>2, KeysDiffer DEF IInv, BurnOK, NoEntryLostOrStale
<1>4. /\ i \notin bkfld /\ bkfld' = bkfld \cup {i} /\ bkfld' \subseteq Capped
      /\ missed' \in [bkfld' -> Nat]
      /\ missed'[i] = issued[i] - verified[i]
      /\ \A j \in bkfld : missed'[j] = missed[j]
    <2>1. issued[i] - verified[i] \in Nat
        BY <1>1 DEF IInv, SuppliesOK
    <2>2. /\ i \notin bkfld /\ bkfld' = bkfld \cup {i}
          /\ missed' = Put(missed, i, issued[i] - verified[i])
        BY DEF BackfillCappedSupply
    <2>3. bkfld \subseteq Capped /\ missed \in [bkfld -> Nat]
        BY DEF IInv, SuppliesOK
    <2> QED
        BY <1>1, <2>1, <2>2, <2>3 DEF Put
<1>5. SuppliesOK'
    BY <1>1, <1>2, <1>4, KeysDiffer DEF IInv, SuppliesOK
<1>6. BackfillClosesTheGap'
  <2> SUFFICES ASSUME NEW j \in bkfld'
               PROVE  /\ Read(SupplyKey(j), 0)' \in issued[j] - missed'[j] .. issued[j]
                      /\ issued[j] <= Cap + missed'[j]
    BY <1>1 DEF BackfillClosesTheGap
  <2>1. CASE j = i
    BY <1>1, <1>2, <1>4, <2>1 DEF IInv, SuppliesOK
  <2>2. CASE j # i
    <3>1. j \in bkfld /\ missed'[j] = missed[j] /\ SupplyKey(j) # SupplyKey(i)
      BY <1>4, <2>2, KeysDiffer
    <3>2. Read(SupplyKey(j), 0)' = Read(SupplyKey(j), 0)
      BY <1>2, <3>1
    <3> QED
      BY <3>1, <3>2 DEF IInv, BackfillClosesTheGap
  <2> QED
    BY <2>1, <2>2
<1> QED
    BY <1>2, <1>3, <1>5, <1>6 DEF IInv

\* The walk moves a chunk and is past it, or has nothing left to move.
LEMMA MigrateIInv == IInv /\ Migrate => IInv'
<1> SUFFICES ASSUME IInv, Migrate PROVE IInv'
    OBVIOUS
<1> USE BoundsAssumption
<1> DEFINE K == {InfoKey(i) : i \in mig3cur + 1 .. Target} \cap DOMAIN instance
<1>1. UNCHANGED <<token_count, verified, missed, bkfld, issued, burnEnabled>>
    BY DEF Migrate, repair, past
<1>2. CASE sv < 3
    <2>1. /\ persistent' = [k \in DOMAIN persistent \cup K |->
                              IF k \in K THEN instance[k] ELSE persistent[k]]
          /\ instance' = [k \in DOMAIN instance \ K |-> instance[k]]
          /\ mig3cur' = Target
          /\ sv' = IF Target >= token_count THEN 5 ELSE 2
        BY <1>2 DEF Migrate, Walked, CaughtUp
    <2>2. Target \in 0..token_count /\ mig3cur <= Target
        BY DEF IInv, CursorOK, Target, Lesser
    <2>3. \A k, d : Read(k, d)' = Read(k, d)
        BY <2>1 DEF Read, IInv, StorageOK
    <2>4. CursorOK'
        BY <2>1, <2>2, <1>1 DEF IInv, CursorOK
    <2>5. StorageOK'
        BY <2>1, <1>1 DEF IInv, StorageOK, Keys
    <2>6. LeftAhead'
        <3> SUFFICES ASSUME NEW i \in 1..token_count, InfoKey(i) \in DOMAIN instance'
                     PROVE  sv' < 3 /\ mig3cur' < i
            BY <1>1 DEF LeftAhead
        <3>1. mig3cur < i /\ ~(i \in mig3cur + 1 .. Target)
            BY <2>1 DEF IInv, LeftAhead
        <3>2. Target < i
            BY <3>1, <2>2 DEF IInv, CursorOK
        <3> QED
            BY <3>2, <2>1, <2>2 DEF IInv, CursorOK
    <2> QED
        BY <2>3, <2>4, <2>5, <2>6, <1>1
        DEF IInv, BurnOK, NoEntryLostOrStale, SuppliesOK, BackfillClosesTheGap
<1>3. CASE ~(sv < 3)
    <2>1. sv' = 5 /\ UNCHANGED <<mig3cur, instance, persistent>>
        BY <1>3 DEF Migrate, entries
    <2>2. \A k, d : Read(k, d)' = Read(k, d)
        BY <2>1 DEF Read
    <2>3. CursorOK' /\ StorageOK' /\ LeftAhead'
        BY <1>1, <1>3, <2>1 DEF IInv, CursorOK, StorageOK, LeftAhead, Keys
    <2> QED
        BY <2>2, <2>3, <1>1
        DEF IInv, BurnOK, NoEntryLostOrStale, SuppliesOK, BackfillClosesTheGap
<1> QED
    BY <1>2, <1>3

SettingsOK == settings \subseteq DOMAIN Introduced

\* Only the fields that a schema step introduced are settings.
LEMMA SettingsTyped == Spec => []SettingsOK
<1>1. Init => SettingsOK
    BY DEF Init, SettingsOK
<1>2. SettingsOK /\ [Next]_vars => SettingsOK'
    BY DEF SettingsOK, Next, vars, admins, CreateTokens, SetBurnEnabled, MintTokens,
           ReconstructSupply, BackfillCappedSupply, Migrate, ResetFrom, ChangeSetting
<1> QED
    BY <1>1, <1>2, PTL DEF Spec

\* Every state satisfies the invariant.
LEMMA Invariance == Spec => []IInv
<1>1. IInv /\ [Next]_vars => IInv'
    <2> SUFFICES ASSUME IInv, [Next]_vars PROVE IInv'
        OBVIOUS
    <2>1. ASSUME UNCHANGED <<sv, mig3cur, token_count, entries, verified, missed, bkfld, issued, burnEnabled>>
          PROVE  IInv'
        BY <2>1 DEF entries, IInv, CursorOK, StorageOK, Keys, BurnOK, LeftAhead, SuppliesOK,
                    NoEntryLostOrStale, BackfillClosesTheGap, Read
    <2>2. ASSUME NEW s, ChangeSetting(s) PROVE IInv'
        BY <2>1, <2>2 DEF ChangeSetting, repair, past
    <2>3. CASE UNCHANGED vars
        BY <2>1, <2>3 DEF vars, admins, repair, past
    <2> QED
        BY <2>2, <2>3, CreateIInv, SetBurnIInv, MintIInv, ReconstructIInv, BackfillIInv,
           MigrateIInv DEF Next
<1> QED
    BY <1>1, InitIInv, PTL DEF Spec

-----------------------------------------------------------------------------

\* Every TokenInfo can be read and carries its creator's last set_burn_enabled,
\* however migrate, lazy moves and the creators' calls interleave.
THEOREM EntriesKept == Spec => []NoEntryLostOrStale
<1>1. IInv => NoEntryLostOrStale
    BY DEF IInv
<1> QED
    BY <1>1, Invariance, PTL

\* Past schema 3 migrate has left no TokenInfo in the instance entry.
THEOREM NothingLeftBehind == Spec => []MigratedLeavesNothing
<1>1. IInv => MigratedLeavesNothing
    BY DEF IInv, LeftAhead, CursorOK, MigratedLeavesNothing
<1> QED
    BY <1>1, Invariance, PTL

\* A back-filled token's counter falls short by no more than what the operator's
\* sum had missed, and the token passes its cap by no more; with a current sum the
\* counter is exact and the cap holds.
THEOREM BackfillIsExact == Spec => []BackfillClosesTheGap
<1>1. IInv => BackfillClosesTheGap
    BY DEF IInv
<1> QED
    BY <1>1, Invariance, PTL

-----------------------------------------------------------------------------
(***************************************************************************)
(* Creator lists.                                                          *)
(***************************************************************************)

Size == MAX_TOKENS_BY_CREATOR_PAGE

\* Division by the page size.
LEMMA Division ==
    ASSUME NEW n \in Nat
    PROVE  /\ n \div Size \in Nat /\ n % Size \in 0..Size - 1
           /\ n = Size * (n \div Size) + (n % Size)
<1>1. Size \in Nat \ {0}
    BY BoundsAssumption DEF Size
<1> QED BY <1>1

\* A number lies between two multiples of the page size only.
LEMMA Quotient ==
    ASSUME NEW n \in Nat, NEW q \in Nat, NEW r \in 0..Size - 1, n = Size * q + r
    PROVE  n \div Size = q /\ n % Size = r
<1>1. Size \in Nat \ {0}
    BY BoundsAssumption DEF Size
<1>2. /\ n \div Size \in Nat /\ n % Size \in 0..Size - 1
      /\ n = Size * (n \div Size) + (n % Size)
    BY Division
<1> DEFINE p == n \div Size
<1>3. ~(p < q)
    <2> SUFFICES ASSUME p + 1 <= q PROVE FALSE
        BY <1>2
    <2>1. Size * (p + 1) <= Size * q
        BY <1>1, <1>2
    <2>2. Size * (p + 1) = Size * p + Size
        BY <1>1, <1>2
    <2> QED BY <1>1, <1>2, <2>1, <2>2
<1>4. ~(q < p)
    <2> SUFFICES ASSUME q + 1 <= p PROVE FALSE
        BY <1>2
    <2>1. Size * (q + 1) <= Size * p
        BY <1>1, <1>2
    <2>2. Size * (q + 1) = Size * q + Size
        BY <1>1, <1>2
    <2> QED BY <1>1, <1>2, <2>1, <2>2
<1>5. p = q
    BY <1>2, <1>3, <1>4
<1> HIDE DEF p
<1>6. Size * p = Size * q /\ Size * q \in Int
    BY <1>1, <1>5
<1>7. n % Size = r
    BY <1>1, <1>2, <1>6 DEF p
<1> QED BY <1>5, <1>7 DEF p
-----------------------------------------------------------------------------
(* Slots: place i of a list, counted from 0, is Local(i) of page PageNo(i). *)

\* A place has one slot.
LEMMA Slots ==
    ASSUME NEW i \in Nat
    PROVE  /\ PageNo(i) \in Nat \ {0} /\ Local(i) \in 1..Size
           /\ i = Size * (PageNo(i) - 1) + (Local(i) - 1)
<1> DEFINE q == i \div Size
           r == i % Size
<1>1. q \in Nat /\ r \in 0..Size - 1 /\ i = Size * q + r
    BY Division
<1>2. Size \in Nat \ {0}
    BY BoundsAssumption DEF Size
<1>3. PageNo(i) = q + 1 /\ Local(i) = r + 1
    BY DEF PageNo, Local, Size
<1> HIDE DEF q, r
<1>4. PageNo(i) - 1 = q /\ Local(i) - 1 = r
    BY <1>1, <1>2, <1>3
<1> QED BY <1>1, <1>2, <1>3, <1>4

\* A slot has one place.
LEMMA SlotPlaces ==
    ASSUME NEW t \in Nat \ {0}, NEW j \in 1..Size
    PROVE  /\ Size * (t - 1) + (j - 1) \in Nat
           /\ PageNo(Size * (t - 1) + (j - 1)) = t
           /\ Local(Size * (t - 1) + (j - 1)) = j
<1> DEFINE i == Size * (t - 1) + (j - 1)
<1>1. Size \in Nat \ {0}
    BY BoundsAssumption DEF Size
<1>2. t - 1 \in Nat /\ j - 1 \in 0..Size - 1 /\ i \in Nat
    BY <1>1
<1>3. i \div Size = t - 1 /\ i % Size = j - 1
    <2>1. i = Size * (t - 1) + (j - 1)
        OBVIOUS
    <2> HIDE DEF i
    <2> QED BY <1>2, <2>1, Quotient
<1> HIDE DEF i
<1>4. PageNo(i) = t /\ Local(i) = j
    BY <1>3 DEF PageNo, Local, Size
<1> QED BY <1>2, <1>4 DEF i

\* Different places have different slots.
LEMMA SlotsDiffer ==
    ASSUME NEW i \in Nat, NEW j \in Nat, PageNo(i) = PageNo(j), Local(i) = Local(j)
    PROVE  i = j
BY Slots

InPages(pages, i) == PageNo(i) \in DOMAIN pages /\ Local(i) \in DOMAIN pages[PageNo(i)]

InSlot(pages, i) == pages[PageNo(i)][Local(i)]

\* The pages hold the list s of indices up to m, and nothing else.
Paged(pages, s, m) ==
    /\ pages \in Seq(Seq(1..m))
    /\ \A i \in Nat : InPages(pages, i) <=> i < Len(s)
    /\ \A i \in Nat : i < Len(s) => InSlot(pages, i) = s[i + 1]

\* One more slot has been filled.
FillsSlot(pages, new, n, index) ==
    /\ InPages(new, n) /\ InSlot(new, n) = index
    /\ \A i \in Nat \ {n} : /\ InPages(new, i) <=> InPages(pages, i)
                            /\ InPages(pages, i) => InSlot(new, i) = InSlot(pages, i)
\* Appending an index fills the slot after the last.
LEMMA AppendFills ==
    ASSUME NEW m \in Nat, NEW s \in Seq(1..m), NEW pages, Paged(pages, s, m),
           NEW new, new = AppendIndex(pages, Len(s), m + 1)
    PROVE  new \in Seq(Seq(1..m + 1)) /\ FillsSlot(pages, new, Len(s), m + 1)
<1> DEFINE n == Len(s)
           t == PageNo(n)
           j == Local(n)
<1>1. /\ n \in Nat /\ t \in Nat \ {0} /\ j \in 1..Size
      /\ n = Size * (t - 1) + (j - 1)
    BY LenProperties, Slots
<1>2. Size \in Nat \ {0}
    BY BoundsAssumption DEF Size
<1>3. TailPage(n) = t
    BY DEF TailPage, PageNo
<1>4. Seq(1..m) \subseteq Seq(1..m + 1)
    <2>1. 1..m \subseteq 1..m + 1
        OBVIOUS
    <2> QED BY <2>1, SeqMonotonic
<1>5. pages \in Seq(Seq(1..m)) /\ pages \in Seq(Seq(1..m + 1))
    BY <1>4, SeqMonotonic DEF Paged
<1> HIDE DEF n, t, j
<1>6. /\ \A i \in Nat : InPages(pages, i) <=> i < n
      /\ ~(t \in DOMAIN pages /\ j \in DOMAIN pages[t])
    BY <1>1 DEF Paged, InPages, n, t, j
<1>7. ASSUME NEW l \in 1..j - 1 PROVE t \in DOMAIN pages /\ l \in DOMAIN pages[t]
    <2> DEFINE i == Size * (t - 1) + (l - 1)
    <2>1. l \in 1..Size
        BY <1>1, <1>2
    <2>2. i \in Nat /\ PageNo(i) = t /\ Local(i) = l
        BY <1>1, <2>1, SlotPlaces
    <2>3. i < n
        <3>1. Size * (t - 1) \in Int
            BY <1>1, <1>2
        <3> QED BY <1>1, <3>1
    <2> QED BY <1>6, <2>2, <2>3 DEF InPages
<1>8. CASE t \in DOMAIN pages
    <2> DEFINE p == pages[t]
               q == Append(p, m + 1)
    <2>1. p \in Seq(1..m + 1) /\ Len(p) \in Nat /\ DOMAIN p = 1..Len(p)
        BY <1>5, <1>8, ElementOfSeq, LenProperties
    <2>2. Len(p) = j - 1
        <3>1. ~(j \in 1..Len(p))
            BY <1>6, <1>8, <2>1
        <3>2. j - 1 = 0 \/ j - 1 \in 1..Len(p)
            <4> SUFFICES ASSUME j - 1 # 0 PROVE j - 1 \in 1..Len(p)
                OBVIOUS
            <4>1. j - 1 \in 1..j - 1
                BY <1>1
            <4> QED BY <1>7, <2>1, <4>1
        <3> QED BY <1>1, <2>1, <3>1, <3>2
    <2>3. /\ q \in Seq(1..m + 1) /\ DOMAIN q = 1..j /\ q[j] = m + 1
          /\ \A l \in 1..j - 1 : q[l] = p[l]
        <3>1. /\ q \in Seq(1..m + 1) /\ Len(q) = Len(p) + 1 /\ q[Len(p) + 1] = m + 1
              /\ \A l \in 1..Len(p) : q[l] = p[l]
            BY <2>1, AppendProperties
        <3> QED BY <3>1, <2>1, <2>2, <1>1, LenProperties
    <2>4. new = [pages EXCEPT ![t] = q]
        BY <1>3, <1>8 DEF AppendIndex, n
    <2> HIDE DEF p, q
    <2>5. /\ new \in Seq(Seq(1..m + 1)) /\ DOMAIN new = DOMAIN pages
          /\ new[t] = q /\ \A u \in DOMAIN pages \ {t} : new[u] = pages[u]
        <3>1. t \in 1..Len(pages)
            BY <1>5, <1>8, LenProperties
        <3>2. new \in Seq(Seq(1..m + 1))
            <4> DEFINE S == Seq(1..m + 1)
            <4>1. pages \in Seq(S) /\ q \in S
                BY <1>5, <2>3
            <4> HIDE DEF S
            <4>2. [pages EXCEPT ![t] = q] \in Seq(S)
                BY <3>1, <4>1, ExceptSeq
            <4> QED BY <2>4, <4>2 DEF S
        <3> QED BY <1>8, <2>4, <3>2
    <2>6. ASSUME NEW i \in Nat \ {n}
          PROVE  /\ InPages(new, i) <=> InPages(pages, i)
                 /\ InPages(pages, i) => InSlot(new, i) = InSlot(pages, i)
        <3>1. CASE PageNo(i) = t
            <4>1. Local(i) # j
                BY <1>1, <3>1, SlotsDiffer DEF t, j
            <4>2. Local(i) \in Nat
                BY Slots
            <4> QED BY <1>1, <1>8, <2>1, <2>2, <2>3, <2>5, <3>1, <4>1, <4>2 DEF InPages, InSlot, p
        <3>2. CASE PageNo(i) # t
            BY <2>5, <3>2 DEF InPages, InSlot
        <3> QED BY <3>1, <3>2
    <2>7. InPages(new, n) /\ InSlot(new, n) = m + 1
        BY <1>1, <1>8, <2>3, <2>5 DEF InPages, InSlot, t, j
    <2> QED BY <2>5, <2>6, <2>7 DEF FillsSlot, n
<1>9. CASE t \notin DOMAIN pages
    <2> DEFINE q == <<m + 1>>
    <2>1. j = 1
        BY <1>1, <1>7, <1>9
    <2>2. Len(pages) \in Nat /\ DOMAIN pages = 1..Len(pages)
        BY <1>5, LenProperties
    <2>3. Len(pages) = t - 1
        <3>1. CASE t = 1
            BY <3>1, <2>2, <1>9
        <3>2. CASE t # 1
            <4> DEFINE i == Size * ((t - 1) - 1) + (Size - 1)
            <4>1. i \in Nat /\ PageNo(i) = t - 1
                <5>1. t - 1 \in Nat \ {0} /\ Size \in 1..Size
                    BY <1>1, <1>2, <3>2
                <5> QED BY <5>1, SlotPlaces
            <4>2. i < n
                <5>1. Size * (t - 1) = Size * ((t - 1) - 1) + Size /\ Size * (t - 1) \in Int
                    BY <1>1, <1>2
                <5> QED BY <1>1, <1>2, <2>1, <5>1
            <4>3. t - 1 \in DOMAIN pages
                BY <1>6, <4>1, <4>2 DEF InPages
            <4>4. t - 1 \in 1..Len(pages) /\ ~(t \in 1..Len(pages))
                BY <1>9, <2>2, <4>3
            <4>5. Len(pages) \in Nat /\ t \in Nat /\ t >= 1
                BY <1>1, <2>2
            <4> QED BY <4>4, <4>5
        <3> QED BY <3>1, <3>2
    <2>4. q \in Seq(1..m + 1) /\ DOMAIN q = 1..1 /\ q[1] = m + 1
        <3>1. m + 1 \in 1..m + 1
            OBVIOUS
        <3> QED BY <3>1
    <2>5. new = Append(pages, q)
        BY <1>3, <1>9 DEF AppendIndex, n
    <2> HIDE DEF q
    <2>6. /\ new \in Seq(Seq(1..m + 1)) /\ DOMAIN new = 1..t
          /\ new[t] = q /\ \A u \in DOMAIN pages : new[u] = pages[u]
        <3>1. /\ new \in Seq(Seq(1..m + 1)) /\ Len(new) = Len(pages) + 1
              /\ new[Len(pages) + 1] = q
              /\ \A u \in 1..Len(pages) : new[u] = pages[u]
            <4> DEFINE S == Seq(1..m + 1)
            <4>1. pages \in Seq(S) /\ q \in S
                BY <1>5, <2>4
            <4> HIDE DEF S
            <4>2. /\ Append(pages, q) \in Seq(S) /\ Len(Append(pages, q)) = Len(pages) + 1
                  /\ Append(pages, q)[Len(pages) + 1] = q
                  /\ \A u \in 1..Len(pages) : Append(pages, q)[u] = pages[u]
                BY <4>1, AppendProperties
            <4> QED BY <2>5, <4>2 DEF S
        <3>2. Len(pages) + 1 = t
            BY <1>1, <2>3
        <3> QED BY <2>2, <3>1, <3>2, LenProperties
    <2>7. ASSUME NEW i \in Nat \ {n}
          PROVE  /\ InPages(new, i) <=> InPages(pages, i)
                 /\ InPages(pages, i) => InSlot(new, i) = InSlot(pages, i)
        <3>1. CASE PageNo(i) = t
            <4>1. Local(i) # j
                BY <1>1, <3>1, SlotsDiffer DEF t, j
            <4> QED BY <1>9, <2>1, <2>4, <2>6, <3>1, <4>1 DEF InPages, InSlot
        <3>2. CASE PageNo(i) # t
            <4>1. PageNo(i) \in Nat \ {0} /\ DOMAIN pages = 1..t - 1
                BY <2>2, <2>3, Slots
            <4>2. PageNo(i) \in DOMAIN new <=> PageNo(i) \in DOMAIN pages
                BY <1>1, <2>6, <3>2, <4>1
            <4> QED BY <2>6, <4>2 DEF InPages, InSlot
        <3> QED BY <3>1, <3>2
    <2>8. InPages(new, n) /\ InSlot(new, n) = m + 1
        BY <1>1, <2>1, <2>4, <2>6 DEF InPages, InSlot, t, j
    <2> QED BY <2>6, <2>7, <2>8 DEF FillsSlot, n
<1> QED BY <1>8, <1>9
\* A list that is appended to stays one of indices so far.
LEMMA AppendPaged ==
    ASSUME NEW m \in Nat, NEW s \in Seq(1..m), NEW pages, Paged(pages, s, m)
    PROVE  /\ Append(s, m + 1) \in Seq(1..m + 1)
           /\ Len(Append(s, m + 1)) = Len(s) + 1
           /\ Paged(AppendIndex(pages, Len(s), m + 1), Append(s, m + 1), m + 1)
<1> DEFINE new == AppendIndex(pages, Len(s), m + 1)
           q == Append(s, m + 1)
<1>1. new \in Seq(Seq(1..m + 1)) /\ FillsSlot(pages, new, Len(s), m + 1)
    BY AppendFills
<1>2. s \in Seq(1..m + 1) /\ m + 1 \in 1..m + 1
    <2>1. 1..m \subseteq 1..m + 1
        OBVIOUS
    <2> QED BY <2>1, SeqMonotonic
<1>3. /\ q \in Seq(1..m + 1) /\ Len(q) = Len(s) + 1 /\ q[Len(s) + 1] = m + 1
      /\ \A i \in 1..Len(s) : q[i] = s[i]
    BY <1>2, AppendProperties
<1>4. Len(s) \in Nat
    BY LenProperties
<1> HIDE DEF new, q
<1>5. ASSUME NEW i \in Nat
      PROVE  /\ InPages(new, i) <=> i < Len(q)
             /\ i < Len(q) => InSlot(new, i) = q[i + 1]
    <2>1. CASE i = Len(s)
        BY <2>1, <1>1, <1>3, <1>4 DEF FillsSlot
    <2>2. CASE i # Len(s)
        <3>1. i < Len(q) <=> i < Len(s)
            BY <2>2, <1>3, <1>4
        <3>2. i < Len(s) => q[i + 1] = s[i + 1]
            <4> SUFFICES ASSUME i < Len(s) PROVE q[i + 1] = s[i + 1]
                OBVIOUS
            <4>1. i + 1 \in 1..Len(s)
                BY <1>4
            <4> QED BY <1>3, <4>1
        <3> QED BY <2>2, <3>1, <3>2, <1>1 DEF FillsSlot, Paged
    <2> QED BY <2>1, <2>2
<1>6. Paged(new, q, m + 1)
    BY <1>1, <1>5 DEF Paged
<1> QED BY <1>3, <1>6 DEF new, q

\* Pages stay what they are when other creators' tokens follow.
LEMMA PagedLater ==
    ASSUME NEW m \in Nat, NEW k \in Nat, m <= k, NEW s, NEW pages, Paged(pages, s, m)
    PROVE  Paged(pages, s, k)
<1>1. 1..m \subseteq 1..k
    OBVIOUS
<1>2. Seq(1..m) \subseteq Seq(1..k)
    BY <1>1, SeqMonotonic
<1>3. pages \in Seq(Seq(1..k))
    BY <1>2, SeqMonotonic DEF Paged
<1> QED BY <1>3 DEF Paged

\* The pages that the legacy list is cut into hold it.
LEMMA PagesOfPaged ==
    ASSUME NEW m \in Nat, NEW s \in Seq(1..m)
    PROVE  Paged(PagesOf(s), s, m)
<1> DEFINE n == Len(s)
           K == (n + Size - 1) \div Size
           Piece(k) == SubSeq(s, (k - 1) * Size + 1, Lesser(k * Size, n))
           pages == [k \in 1..K |-> Piece(k)]
<1>1. PagesOf(s) = pages
    BY DEF PagesOf, Size
<1>2. Size \in Nat \ {0} /\ n \in Nat /\ DOMAIN s = 1..n /\ \A i \in 1..n : s[i] \in 1..m
    BY BoundsAssumption, LenProperties, ElementOfSeq DEF Size
<1>3. K \in Nat /\ n <= Size * K /\ Size * K < n + Size
    <2> DEFINE r == (n + Size - 1) % Size
    <2>1. n + Size - 1 \in Nat
        BY <1>2
    <2>2. K \in Nat /\ r \in 0..Size - 1 /\ n + Size - 1 = Size * K + r
        BY <2>1, Division
    <2> HIDE DEF K, r, n
    <2>3. Size * K \in Int
        BY <1>2, <2>2
    <2> QED BY <1>2, <2>2, <2>3
<1> HIDE DEF n, K
<1>4. ASSUME NEW k \in 1..K
      PROVE  /\ Piece(k) \in Seq(1..m)
             /\ DOMAIN Piece(k) = 1..Lesser(k * Size, n) - (k - 1) * Size
             /\ \A l \in DOMAIN Piece(k) : Piece(k)[l] = s[(k - 1) * Size + l]
    <2> DEFINE first == (k - 1) * Size + 1
               last == Lesser(k * Size, n)
    <2>1. /\ (k - 1) * Size \in Nat /\ k * Size = (k - 1) * Size + Size
          /\ (k - 1) * Size + Size <= Size * K
        <3>1. k - 1 \in Nat /\ k \in Nat /\ k <= K
            BY <1>3
        <3>2. \A x \in Nat, y \in Nat : x * y \in Nat /\ (x + 1) * y = x * y + y
            OBVIOUS
        <3>3. \A x \in Nat, y \in Nat, z \in Nat : x <= y => x * z <= z * y
            OBVIOUS
        <3>4. (k - 1) * Size \in Nat /\ ((k - 1) + 1) * Size = (k - 1) * Size + Size
            BY <1>2, <3>1, <3>2
        <3>5. k * Size <= Size * K
            BY <1>2, <1>3, <3>1, <3>3
        <3>6. (k - 1) + 1 = k
            BY <3>1
        <3> QED BY <3>4, <3>5, <3>6
    <2>2. Size * K \in Int
        BY <1>2, <1>3
    <2>3. first \in 1..n /\ last \in first..n /\ last \in Nat
        BY <1>2, <1>3, <2>1, <2>2 DEF Lesser
    <2> HIDE DEF first, last
    <2>4. \A i \in first..last : s[i] \in 1..m
        BY <1>2, <2>3
    <2>5. /\ SubSeq(s, first, last) \in Seq(1..m)
          /\ Len(SubSeq(s, first, last)) = last - first + 1
          /\ \A l \in 1..last - first + 1 : SubSeq(s, first, last)[l] = s[first + l - 1]
        BY <2>3, <2>4, SubSeqProperties
    <2>6. DOMAIN SubSeq(s, first, last) = 1..last - first + 1
        BY <2>5, LenProperties
    <2>7. /\ last - first + 1 = Lesser(k * Size, n) - (k - 1) * Size
          /\ \A l \in Int : first + l - 1 = (k - 1) * Size + l
        BY <2>1, <2>3 DEF first, last
    <2>8. Piece(k) = SubSeq(s, first, last)
        BY DEF first, last
    <2> HIDE DEF Piece
    <2>9. \A l \in DOMAIN Piece(k) : Piece(k)[l] = s[(k - 1) * Size + l]
        <3> SUFFICES ASSUME NEW l \in 1..last - first + 1
                     PROVE  Piece(k)[l] = s[(k - 1) * Size + l]
            BY <2>6, <2>8
        <3>1. Piece(k)[l] = s[first + l - 1] /\ l \in Int
            BY <2>3, <2>5, <2>8
        <3> QED BY <2>7, <3>1
    <2> QED BY <2>5, <2>6, <2>7, <2>8, <2>9
<1> HIDE DEF Piece
<1>5. pages \in Seq(Seq(1..m)) /\ DOMAIN pages = 1..K
    <2> DEFINE S == Seq(1..m)
    <2>1. \A k \in 1..K : Piece(k) \in S
        BY <1>4
    <2> HIDE DEF S
    <2>2. pages \in [1..K -> S]
        BY <2>1
    <2>3. pages \in Seq(S)
        BY <2>2, <1>3, SeqDef
    <2> QED BY <2>3 DEF S
<1>6. ASSUME NEW i \in Nat
      PROVE  /\ InPages(pages, i) <=> i < n
             /\ i < n => InSlot(pages, i) = s[i + 1]
    <2> DEFINE k == PageNo(i)
               l == Local(i)
               z == Size * (k - 1)
    <2>1. k \in Nat \ {0} /\ l \in 1..Size /\ i = z + (l - 1)
        BY Slots
    <2>2. /\ z \in Nat /\ (k - 1) * Size = z /\ k * Size = z + Size
          /\ k > K => z >= Size * K
        <3> HIDE DEF k
        <3>1. k - 1 \in Nat
            BY <2>1
        <3>2. \A x \in Nat, y \in Nat : x * y \in Nat /\ x * y = y * x /\ (x + 1) * y = x * y + y
            OBVIOUS
        <3>3. \A x \in Nat, y \in Nat, w \in Nat : x <= y => w * x <= w * y
            OBVIOUS
        <3>4. z \in Nat /\ (k - 1) * Size = z /\ ((k - 1) + 1) * Size = z + Size
            BY <1>2, <3>1, <3>2
        <3>5. k > K => z >= Size * K
            <4> SUFFICES ASSUME K <= k - 1 PROVE Size * K <= Size * (k - 1)
                BY <2>1, <1>3, <1>2, <3>4
            <4> QED BY <1>2, <1>3, <3>1, <3>3
        <3>6. (k - 1) + 1 = k
            BY <2>1
        <3> QED BY <3>4, <3>5, <3>6
    <2>3. Size * K \in Int
        BY <1>2, <1>3
    <2> HIDE DEF k, l, z
    <2>4. CASE k \in 1..K
        <3>1. pages[k] = Piece(k)
            BY <2>4
        <3>2. /\ DOMAIN pages[k] = 1..Lesser(z + Size, n) - z
              /\ \A j \in DOMAIN pages[k] : pages[k][j] = s[z + j]
            BY <1>4, <2>2, <2>4, <3>1
        <3>3. l \in 1..Lesser(z + Size, n) - z <=> i < n
            BY <1>2, <2>1, <2>2 DEF Lesser
        <3>4. z + l = i + 1
            BY <2>1, <2>2, <1>2
        <3> HIDE DEF pages
        <3> QED BY <1>5, <2>4, <3>2, <3>3, <3>4 DEF InPages, InSlot, k, l
    <2>5. CASE k \notin 1..K
        <3>1. ~(i < n)
            BY <1>2, <1>3, <2>1, <2>2, <2>3, <2>5
        <3> HIDE DEF pages
        <3> QED BY <1>5, <2>5, <3>1 DEF InPages, k
    <2> QED BY <2>4, <2>5
<1>7. Paged(pages, s, m)
    <2> HIDE DEF pages
    <2> QED BY <1>5, <1>6 DEF Paged, n
<1> QED BY <1>1, <1>7
-----------------------------------------------------------------------------
(* The lists in order of creation. *)

OneMore(s, c, n, list) == IF s[n] = c THEN Append(list, n) ELSE list

\* What IndicesOf selects, one token at a time.
LEMMA IndicesSteps ==
    ASSUME NEW s, NEW c
    PROVE  /\ IndicesUpTo(s, c)[0] = <<>>
           /\ \A n \in Nat : IndicesUpTo(s, c)[n] \in Seq(1..n)
           /\ \A n \in Nat :
                IndicesUpTo(s, c)[n + 1] = OneMore(s, c, n + 1, IndicesUpTo(s, c)[n])
<1> USE DEF OneMore
<1> DEFINE Select(n, list) == OneMore(s, c, n, list)
           step == [p \in Nat \X Seq(Nat) |-> Select(p[1] + 1, p[2])]
           body(f) == [n \in Nat |-> IF n = 0 THEN <<>>
                                     ELSE IF s[n] = c THEN Append(f[n - 1], n)
                                     ELSE f[n - 1]]
           t == IndicesUpTo(s, c)
<1>1. step \in [Nat \X Seq(Nat) -> Seq(Nat)]
    <2>1. \A n \in Nat, list \in Seq(Nat) : Select(n, list) \in Seq(Nat)
        BY AppendProperties
    <2>2. \A p \in Nat \X Seq(Nat) : Select(p[1] + 1, p[2]) \in Seq(Nat)
        <3> HIDE DEF Select
        <3> QED BY <2>1
    <2> HIDE DEF Select
    <2> QED BY <2>2
<1>2. PICK h : Iterates(h, Seq(Nat), <<>>, step)
    <2> HIDE DEF step
    <2>1. <<>> \in Seq(Nat)
        BY EmptySeq
    <2> QED BY <1>1, <2>1, Iteration
<1>3. h \in [Nat -> Seq(Nat)] /\ h[0] = <<>> /\ \A n \in Nat : h[n + 1] = Select(n + 1, h[n])
    BY <1>2 DEF Iterates
<1>4. h = body(h)
    <2>1. \A n \in Nat : h[n] = body(h)[n]
        <3> SUFFICES ASSUME NEW n \in Nat, n # 0 PROVE h[n] = body(h)[n]
            BY <1>3
        <3>1. n - 1 \in Nat /\ (n - 1) + 1 = n
            OBVIOUS
        <3> QED BY <3>1, <1>3
    <2> QED BY <2>1, <1>3
<1>5. t = CHOOSE f : f = body(f)
    BY Zenon DEF IndicesUpTo
<1>6. t = body(t)
    <2> HIDE DEF body
    <2> QED BY <1>4, <1>5, Zenon
<1> HIDE DEF t
<1>7. t[0] = <<>> /\ \A n \in Nat : t[n + 1] = Select(n + 1, t[n])
    <2>1. t[0] = <<>>
        BY <1>6
    <2>2. ASSUME NEW n \in Nat PROVE t[n + 1] = Select(n + 1, t[n])
        <3>1. n + 1 \in Nat /\ n + 1 # 0 /\ (n + 1) - 1 = n
            OBVIOUS
        <3>2. t[n + 1] = Select(n + 1, t[(n + 1) - 1])
            BY <1>6, <3>1, Zenon
        <3> QED BY <3>1, <3>2, Zenon
    <2> QED BY <2>1, <2>2
<1> DEFINE T == {n \in Nat : t[n] \in Seq(1..n)}
<1>8. 0 \in T
    BY <1>7, EmptySeq
<1>9. ASSUME NEW n \in Nat, n \in T PROVE n + 1 \in T
    <2>1. 1..n \subseteq 1..n + 1 /\ n + 1 \in 1..n + 1
        OBVIOUS
    <2>2. t[n] \in Seq(1..n + 1)
        BY <1>9, <2>1, SeqMonotonic
    <2>3. Append(t[n], n + 1) \in Seq(1..n + 1)
        BY <2>1, <2>2, AppendProperties
    <2>4. Select(n + 1, t[n]) \in Seq(1..n + 1)
        BY <2>2, <2>3
    <2>5. t[n + 1] \in Seq(1..n + 1)
        <3> HIDE DEF Select
        <3> QED BY <1>7, <2>4
    <2> QED BY <2>5
<1>10. \A n \in Nat : n \in T
    <2> HIDE DEF T
    <2> QED BY <1>8, <1>9, Induction
<1> QED BY <1>7, <1>10 DEF t

SameSoFar(s, u, m) == \A i \in 1..m : s[i] = u[i]

\* They depend on the tokens so far only.
LEMMA IndicesAgree ==
    ASSUME NEW s, NEW u, NEW c, NEW m \in Nat, SameSoFar(s, u, m)
    PROVE  IndicesUpTo(s, c)[m] = IndicesUpTo(u, c)[m]
<1> DEFINE f == IndicesUpTo(s, c)
           h == IndicesUpTo(u, c)
           T == {n \in Nat : n <= m => f[n] = h[n]}
<1>1. f[0] = <<>> /\ h[0] = <<>>
    BY IndicesSteps, Zenon
<1>a. \A n \in Nat : f[n + 1] = OneMore(s, c, n + 1, f[n])
    BY IndicesSteps, Zenon
<1>b. \A n \in Nat : h[n + 1] = OneMore(u, c, n + 1, h[n])
    BY IndicesSteps, Zenon
<1> HIDE DEF f, h
<1>2. ASSUME NEW n \in Nat, n + 1 <= m, f[n] = h[n] PROVE f[n + 1] = h[n + 1]
    <2>1. s[n + 1] = u[n + 1]
        BY <1>2 DEF SameSoFar
    <2> QED BY <1>2, <1>a, <1>b, <2>1 DEF OneMore
<1>3. 0 \in T /\ \A n \in Nat : n \in T => n + 1 \in T
    BY <1>1, <1>2
<1>4. \A n \in Nat : n \in T
    <2> HIDE DEF T
    <2> QED BY <1>3, Induction
<1> QED BY <1>4 DEF f, h

NoneAmong(s, c, m, k) == \A i \in m + 1..k : s[i] # c

\* Other creators' tokens add nothing.
LEMMA OthersIndices ==
    ASSUME NEW s, NEW c, NEW m \in Nat, NEW k \in Nat, m <= k, NoneAmong(s, c, m, k)
    PROVE  IndicesUpTo(s, c)[k] = IndicesUpTo(s, c)[m]
<1> DEFINE f == IndicesUpTo(s, c)
           T == {n \in Nat : m <= n /\ n <= k => f[n] = f[m]}
<1>1. \A n \in Nat : f[n + 1] = OneMore(s, c, n + 1, f[n])
    BY IndicesSteps, Zenon
<1> HIDE DEF f
<1>2. 0 \in T
    OBVIOUS
<1>3. ASSUME NEW n \in Nat, n \in T PROVE n + 1 \in T
    <2> SUFFICES ASSUME m < n + 1, n + 1 <= k PROVE f[n + 1] = f[m]
        OBVIOUS
    <2>1. s[n + 1] # c /\ f[n] = f[m]
        BY <1>3 DEF NoneAmong
    <2> QED BY <1>1, <2>1 DEF OneMore
<1>4. \A n \in Nat : n \in T
    <2> HIDE DEF T
    <2> QED BY <1>2, <1>3, Induction
<1> QED BY <1>4 DEF f

\* The pages after k more tokens of their creator.
LEMMA AppendedSteps ==
    ASSUME NEW c, OldPages(c) \in Seq(Seq(Nat)), OldCount(c) \in Nat, token_count \in Nat
    PROVE  /\ Appended(c)[0] = OldPages(c)
           /\ \A k \in Nat : Appended(c)[k + 1] =
                AppendIndex(Appended(c)[k], OldCount(c) + k, token_count + k + 1)
<1> DEFINE S == Seq(Seq(Nat))
           Next_(k, pages) == AppendIndex(pages, OldCount(c) + k - 1, token_count + k)
           step == [p \in Nat \X S |-> Next_(p[1] + 1, p[2])]
           body(f) == [k \in Nat |-> IF k = 0 THEN OldPages(c)
                                     ELSE AppendIndex(f[k - 1], OldCount(c) + k - 1, token_count + k)]
           t == Appended(c)
<1>1. step \in [Nat \X S -> S]
    <2>1. ASSUME NEW pages \in S, NEW n \in Nat, NEW index \in Nat
          PROVE  AppendIndex(pages, n, index) \in S
        <3> DEFINE u == TailPage(n)
        <3>1. CASE u \in DOMAIN pages
            <4>1. u \in 1..Len(pages) /\ pages[u] \in Seq(Nat)
                BY <3>1, LenProperties, ElementOfSeq
            <4>2. Append(pages[u], index) \in Seq(Nat)
                BY <4>1, AppendProperties
            <4> DEFINE L == Seq(Nat)
                       q == Append(pages[u], index)
            <4>3. AppendIndex(pages, n, index) = [pages EXCEPT ![u] = q]
                BY <3>1 DEF AppendIndex
            <4>4. q \in L /\ pages \in Seq(L)
                BY <4>2
            <4> HIDE DEF L, q, u
            <4>5. [pages EXCEPT ![u] = q] \in Seq(L)
                BY <4>1, <4>4, ExceptSeq
            <4> QED BY <4>3, <4>5 DEF L
        <3>2. CASE u \notin DOMAIN pages
            <4>1. AppendIndex(pages, n, index) = Append(pages, <<index>>)
                BY <3>2 DEF AppendIndex
            <4>2. <<index>> \in Seq(Nat)
                OBVIOUS
            <4> DEFINE L == Seq(Nat)
                       q == <<index>>
            <4>3. q \in L /\ pages \in Seq(L)
                BY <4>2
            <4> HIDE DEF L, q, u
            <4>4. Append(pages, q) \in Seq(L)
                BY <4>3, AppendProperties
            <4> QED BY <4>1, <4>4 DEF L, q
        <3> QED BY <3>1, <3>2
    <2> HIDE DEF S
    <2>2. \A k \in Nat, pages \in S : Next_(k + 1, pages) \in S
        <3> SUFFICES ASSUME NEW k \in Nat, NEW pages \in S PROVE Next_(k + 1, pages) \in S
            OBVIOUS
        <3>1. OldCount(c) + (k + 1) - 1 \in Nat /\ token_count + (k + 1) \in Nat
            OBVIOUS
        <3> QED BY <2>1, <3>1
    <2>3. \A p \in Nat \X S : Next_(p[1] + 1, p[2]) \in S
        <3> HIDE DEF Next_
        <3> QED BY <2>2
    <2> HIDE DEF Next_
    <2> QED BY <2>3
<1>2. PICK h : Iterates(h, S, OldPages(c), step)
    <2> HIDE DEF step
    <2> QED BY <1>1, Iteration
<1> HIDE DEF S
<1>3. h \in [Nat -> S] /\ h[0] = OldPages(c) /\ \A k \in Nat : h[k + 1] = Next_(k + 1, h[k])
    <2> HIDE DEF Next_
    <2> QED BY <1>2 DEF Iterates
<1>4. h = body(h)
    <2>1. \A k \in Nat : h[k] = body(h)[k]
        <3> SUFFICES ASSUME NEW k \in Nat, k # 0 PROVE h[k] = body(h)[k]
            BY <1>3
        <3>1. k - 1 \in Nat /\ (k - 1) + 1 = k
            OBVIOUS
        <3>2. h[k] = Next_(k, h[k - 1])
            <4> HIDE DEF Next_
            <4> QED BY <1>3, <3>1
        <3> QED BY <3>2
    <2> QED BY <2>1, <1>3
<1>5. t = CHOOSE f : f = body(f)
    BY Zenon DEF Appended
<1>6. t = body(t)
    <2> HIDE DEF body
    <2> QED BY <1>4, <1>5, Zenon
<1> HIDE DEF t
<1>7. t[0] = OldPages(c)
    BY <1>6
<1>8. ASSUME NEW k \in Nat
      PROVE  t[k + 1] = AppendIndex(t[k], OldCount(c) + k, token_count + k + 1)
    <2>1. k + 1 \in Nat /\ k + 1 # 0 /\ (k + 1) - 1 = k
        OBVIOUS
    <2>2. t[k + 1] = AppendIndex(t[(k + 1) - 1], OldCount(c) + (k + 1) - 1, token_count + (k + 1))
        BY <1>6, <2>1
    <2>3. OldCount(c) + (k + 1) - 1 = OldCount(c) + k /\ token_count + (k + 1) = token_count + k + 1
        OBVIOUS
    <2> QED BY <2>1, <2>2, <2>3
<1> QED BY <1>7, <1>8 DEF t
-----------------------------------------------------------------------------
(* The lists of a factory. *)

\* Whether a creator's list has been moved or not, it is that of the tokens the
\* creator has created, in order; who has no list has created none.
ListsOK ==
    /\ token_count \in Nat
    /\ creator \in Seq(Creators) /\ Len(creator) = token_count
    /\ DOMAIN count \subseteq Creators /\ DOMAIN legacyList \subseteq Creators
    /\ DOMAIN count \cap DOMAIN legacyList = {}
    /\ page \in [Creators -> Seq(Seq(1..token_count))]
    /\ \A c \in DOMAIN count : /\ count[c] = Len(IndicesOf(c))
                               /\ Paged(page[c], IndicesOf(c), token_count)
    /\ \A c \in DOMAIN legacyList : legacyList[c] = IndicesOf(c)
    /\ \A c \in Creators \ (DOMAIN count \cup DOMAIN legacyList) : IndicesOf(c) = <<>>

\* The list of a creator holds indices of tokens there are.
LEMMA IndicesTyped ==
    ASSUME NEW s, Len(s) \in Nat, NEW c
    PROVE  /\ IndicesUpTo(s, c)[Len(s)] \in Seq(1..Len(s))
           /\ Len(IndicesUpTo(s, c)[Len(s)]) \in Nat
<1>1. \A n \in Nat : IndicesUpTo(s, c)[n] \in Seq(1..n)
    BY IndicesSteps, Zenon
<1> QED BY <1>1, LenProperties

\* An old factory has them in one form or the other.
LEMMA InitLists == Init => ListsOK
<1> SUFFICES ASSUME Init PROVE ListsOK
    OBVIOUS
<1>1. /\ token_count = Len(Legacy) /\ creator = Legacy
      /\ token_count \in Nat /\ creator \in Seq(Creators)
    BY CreatorsAssumption, LenProperties DEF Init
<1>2. OldCreators \subseteq Creators
    BY CreatorsAssumption, ElementOfSeq, LenProperties DEF OldCreators
<1>3. \A c : IndicesOf(c) \in Seq(1..token_count)
    BY <1>1, IndicesTyped DEF IndicesOf
<1>4. ASSUME NEW c, c \notin OldCreators PROVE IndicesOf(c) = <<>>
    <2>1. NoneAmong(creator, c, 0, token_count)
        BY <1>1, <1>4, CreatorsAssumption, LenProperties DEF OldCreators, NoneAmong
    <2>2. IndicesUpTo(creator, c)[token_count] = IndicesUpTo(creator, c)[0]
        BY <1>1, <2>1, OthersIndices
    <2>3. IndicesUpTo(creator, c)[0] = <<>>
        BY IndicesSteps, Zenon
    <2> QED BY <1>1, <2>2, <2>3 DEF IndicesOf
<1>5. CASE sv < 3
    <2>1. /\ legacyList = [c \in OldCreators |-> IndicesOf(c)]
          /\ page = [c \in Creators |-> <<>>] /\ count = EmptyMap
        BY <1>5 DEF Init
    <2>2. <<>> \in Seq(Seq(1..token_count))
        BY EmptySeq
    <2>3. page \in [Creators -> Seq(Seq(1..token_count))]
        BY <2>1, <2>2
    <2>4. DOMAIN count = {} /\ DOMAIN legacyList = OldCreators
        BY <2>1 DEF EmptyMap
    <2>5. \A c \in OldCreators : legacyList[c] = IndicesOf(c)
        BY <2>1
    <2> QED BY <1>1, <1>2, <1>4, <2>3, <2>4, <2>5 DEF ListsOK
<1>6. CASE ~(sv < 3)
    <2>1. /\ legacyList = EmptyMap
          /\ page = [c \in Creators |-> PagesOf(IndicesOf(c))]
          /\ count = [c \in OldCreators |-> Len(IndicesOf(c))]
        BY <1>6 DEF Init
    <2>2. \A c \in Creators : Paged(PagesOf(IndicesOf(c)), IndicesOf(c), token_count)
        BY <1>1, <1>3, PagesOfPaged
    <2>3. page \in [Creators -> Seq(Seq(1..token_count))]
        BY <2>1, <2>2 DEF Paged
    <2>4. DOMAIN count = OldCreators /\ DOMAIN legacyList = {}
        BY <2>1 DEF EmptyMap
    <2>5. \A c \in OldCreators : /\ count[c] = Len(IndicesOf(c))
                                 /\ Paged(page[c], IndicesOf(c), token_count)
        BY <1>2, <2>1, <2>2
    <2> QED BY <1>1, <1>2, <1>4, <2>3, <2>4, <2>5 DEF ListsOK
<1> QED BY <1>5, <1>6

\* What append_creator_token starts from, moved or not yet.
LEMMA OldPagesPaged ==
    ASSUME ListsOK, NEW c \in Creators
    PROVE  /\ Paged(OldPages(c), IndicesOf(c), token_count)
           /\ OldCount(c) = Len(IndicesOf(c)) /\ OldCount(c) \in Nat
<1>1. IndicesOf(c) \in Seq(1..token_count) /\ Len(IndicesOf(c)) \in Nat
    BY IndicesTyped DEF ListsOK, IndicesOf
<1>2. CASE c \in DOMAIN count
    BY <1>1, <1>2 DEF ListsOK, OldPages, OldCount
<1>3. CASE c \notin DOMAIN count /\ c \in DOMAIN legacyList
    <2>1. legacyList[c] = IndicesOf(c) /\ token_count \in Nat
        BY <1>3 DEF ListsOK
    <2> QED BY <1>1, <1>3, <2>1, PagesOfPaged DEF OldPages, OldCount
<1>4. CASE c \notin DOMAIN count /\ c \notin DOMAIN legacyList
    <2>1. IndicesOf(c) = <<>> /\ OldPages(c) = <<>> /\ OldCount(c) = 0
        BY <1>4 DEF ListsOK, OldPages, OldCount
    <2>2. Len(<<>>) = 0 /\ DOMAIN <<>> = {}
        OBVIOUS
    <2>3. <<>> \in Seq(Seq(1..token_count))
        BY EmptySeq
    <2>4. \A i \in Nat : ~InPages(<<>>, i) /\ ~(i < 0)
        BY <2>2 DEF InPages
    <2>5. Paged(<<>>, <<>>, token_count)
        BY <2>2, <2>3, <2>4 DEF Paged
    <2> QED BY <2>1, <2>2, <2>5
<1> QED BY <1>2, <1>3, <1>4

\* n new tokens lengthen their creator's list and nobody else's.
LEMMA CreateLists ==
    ASSUME ListsOK, NEW c \in Creators, NEW n \in Nat, CreateTokens(c, n)
    PROVE  ListsOK'
<1> DEFINE m == token_count
           u == IndicesUpTo(creator', c)
<1>1. /\ m \in Nat /\ creator \in Seq(Creators) /\ Len(creator) = m
      /\ token_count' = m + n /\ creator' = creator \o [k \in 1..n |-> c]
      /\ page' = [page EXCEPT ![c] = Appended(c)[n]]
      /\ count' = Put(count, c, OldCount(c) + n)
      /\ legacyList' = [d \in DOMAIN legacyList \ {c} |-> legacyList[d]]
    BY DEF CreateTokens, ListsOK
<1>2. /\ creator' \in Seq(Creators) /\ Len(creator') = m + n
      /\ \A i \in 1..m : creator'[i] = creator[i]
      /\ \A i \in m + 1..m + n : creator'[i] = c
    <2> DEFINE s == [k \in 1..n |-> c]
    <2>1. s \in [1..n -> Creators] /\ \A k \in 1..n : s[k] = c
        OBVIOUS
    <2>2. s \in Seq(Creators)
        BY <2>1, SeqDef
    <2> HIDE DEF s
    <2>3. Len(s) = n
        BY <2>1, <2>2, LenProperties
    <2>4. /\ creator \o s \in Seq(Creators) /\ Len(creator \o s) = m + n
          /\ \A i \in 1..m + n : (creator \o s)[i] = IF i <= m THEN creator[i] ELSE s[i - m]
        BY <1>1, <2>2, <2>3, ConcatProperties
    <2>5. \A i \in m + 1..m + n : i - m \in 1..n /\ ~(i <= m) /\ i \in 1..m + n
        BY <1>1
    <2>6. \A i \in 1..m : i <= m /\ i \in 1..m + n
        BY <1>1
    <2> QED BY <1>1, <2>1, <2>4, <2>5, <2>6 DEF s
<1>3. ASSUME NEW d PROVE IndicesUpTo(creator', d)[m] = IndicesOf(d)
    <2>1. m \in Nat /\ SameSoFar(creator', creator, m)
        BY <1>1, <1>2 DEF SameSoFar
    <2> HIDE DEF m
    <2>2. IndicesUpTo(creator', d)[m] = IndicesUpTo(creator, d)[m]
        BY <2>1, IndicesAgree
    <2> QED BY <1>1, <2>2 DEF IndicesOf
<1>4. ASSUME NEW d, d # c PROVE IndicesOf(d)' = IndicesOf(d)
    <2>1. \A i \in m + 1..m + n : creator'[i] # d
        BY <1>2, <1>4
    <2>2. m + n \in Nat /\ m <= m + n
        BY <1>1
    <2>3. IndicesUpTo(creator', d)[m + n] = IndicesUpTo(creator', d)[m]
        <3> DEFINE k == m + n
        <3>1. m \in Nat /\ k \in Nat /\ m <= k /\ NoneAmong(creator', d, m, k)
            BY <1>1, <2>1, <2>2 DEF NoneAmong
        <3> HIDE DEF m, k
        <3>2. IndicesUpTo(creator', d)[k] = IndicesUpTo(creator', d)[m]
            BY <3>1, OthersIndices, Zenon
        <3> QED BY <3>2 DEF m, k
    <2> QED BY <1>2, <1>3, <2>3 DEF IndicesOf
<1>5. /\ Paged(OldPages(c), IndicesOf(c), m)
      /\ OldCount(c) = Len(IndicesOf(c)) /\ OldCount(c) \in Nat
    BY OldPagesPaged
<1> DEFINE T == {k \in Nat : k <= n => /\ Paged(Appended(c)[k], u[m + k], m + k)
                                       /\ Len(u[m + k]) = OldCount(c) + k}
<1>6. /\ Appended(c)[0] = OldPages(c)
      /\ \A k \in Nat : Appended(c)[k + 1] =
            AppendIndex(Appended(c)[k], OldCount(c) + k, m + k + 1)
    <2>1. OldPages(c) \in Seq(Seq(Nat))
        <3>1. Seq(1..m) \subseteq Seq(Nat)
            <4>1. 1..m \subseteq Nat
                BY <1>1
            <4> QED BY <4>1, SeqMonotonic
        <3> QED BY <1>5, <3>1, SeqMonotonic DEF Paged
    <2> QED BY <1>1, <1>5, <2>1, AppendedSteps
<1>7. 0 \in T
    <2>1. m + 0 = m /\ OldCount(c) + 0 = OldCount(c)
        BY <1>1, <1>5
    <2>2. u[m] = IndicesOf(c)
        BY <1>3
    <2> HIDE DEF u, m
    <2>3. Paged(Appended(c)[0], u[m + 0], m + 0) /\ Len(u[m + 0]) = OldCount(c) + 0
        BY <1>5, <1>6, <2>1, <2>2
    <2> QED BY <2>3
<1>8. ASSUME NEW k \in Nat, k \in T PROVE k + 1 \in T
    <2> SUFFICES ASSUME k + 1 <= n
                 PROVE  /\ Paged(Appended(c)[k + 1], u[m + (k + 1)], m + (k + 1))
                        /\ Len(u[m + (k + 1)]) = OldCount(c) + (k + 1)
        OBVIOUS
    <2>1. Paged(Appended(c)[k], u[m + k], m + k) /\ Len(u[m + k]) = OldCount(c) + k
        BY <1>8
    <2>2. m + k \in Nat /\ (m + k) + 1 = m + (k + 1) /\ m + k + 1 \in m + 1..m + n
        BY <1>1
    <2>3. u[m + k] \in Seq(1..m + k)
        BY <2>2, IndicesSteps, Zenon
    <2>4. u[(m + k) + 1] = OneMore(creator', c, (m + k) + 1, u[m + k])
        BY <2>2, IndicesSteps, Zenon
    <2>5. u[m + k + 1] = Append(u[m + k], m + k + 1)
        BY <1>2, <2>2, <2>4 DEF OneMore
    <2> HIDE DEF u, m
    <2>6. /\ Len(Append(u[m + k], m + k + 1)) = Len(u[m + k]) + 1
          /\ Paged(AppendIndex(Appended(c)[k], Len(u[m + k]), m + k + 1),
                   Append(u[m + k], m + k + 1), m + k + 1)
        BY <2>1, <2>2, <2>3, AppendPaged
    <2>7. Appended(c)[k + 1] = AppendIndex(Appended(c)[k], Len(u[m + k]), m + k + 1)
        BY <1>6, <2>1
    <2>8. Len(u[m + k + 1]) = OldCount(c) + (k + 1)
        BY <1>5, <2>1, <2>5, <2>6
    <2> QED BY <2>2, <2>5, <2>6, <2>7, <2>8
<1>9. \A k \in Nat : k \in T
    <2> HIDE DEF T
    <2> QED BY <1>7, <1>8, Induction
<1>10. /\ Paged(Appended(c)[n], IndicesOf(c)', m + n)
       /\ Len(IndicesOf(c)') = OldCount(c) + n
    <2>1. n \in T /\ n <= n
        <3> HIDE DEF T
        <3> QED BY <1>9
    <2>2. IndicesOf(c)' = u[m + n]
        BY <1>2 DEF IndicesOf
    <2> HIDE DEF u, m
    <2> QED BY <2>1, <2>2
<1> HIDE DEF T, u
<1>11. page' \in [Creators -> Seq(Seq(1..m + n))]
    <2>1. \A d \in Creators : page[d] \in Seq(Seq(1..m + n))
        <3>1. 1..m \subseteq 1..m + n
            BY <1>1
        <3>2. Seq(1..m) \subseteq Seq(1..m + n)
            BY <3>1, SeqMonotonic
        <3>3. Seq(Seq(1..m)) \subseteq Seq(Seq(1..m + n))
            BY <3>2, SeqMonotonic
        <3> QED BY <3>3 DEF ListsOK
    <2>2. Appended(c)[n] \in Seq(Seq(1..m + n))
        BY <1>10 DEF Paged
    <2> QED BY <1>1, <2>1, <2>2 DEF ListsOK
<1>12. DOMAIN count' = DOMAIN count \cup {c} /\ DOMAIN legacyList' = DOMAIN legacyList \ {c}
    BY <1>1 DEF Put
<1>13. ASSUME NEW d \in DOMAIN count'
       PROVE  /\ count'[d] = Len(IndicesOf(d)')
              /\ Paged(page'[d], IndicesOf(d)', m + n)
    <2>1. CASE d = c
        BY <1>1, <1>10, <2>1 DEF Put, ListsOK
    <2>2. CASE d # c
        <3>1. d \in DOMAIN count /\ d \in Creators
            BY <1>12, <2>2 DEF ListsOK
        <3>2. count[d] = Len(IndicesOf(d)) /\ Paged(page[d], IndicesOf(d), m)
            BY <3>1 DEF ListsOK
        <3>3. m + n \in Nat /\ m <= m + n
            BY <1>1
        <3>4. Paged(page[d], IndicesOf(d), m + n)
            BY <1>1, <3>2, <3>3, PagedLater
        <3>5. count'[d] = count[d] /\ page'[d] = page[d]
            BY <1>1, <2>2, <3>1 DEF Put, ListsOK
        <3> QED BY <1>4, <2>2, <3>2, <3>4, <3>5
    <2> QED BY <2>1, <2>2
<1>14. \A d \in DOMAIN legacyList' : legacyList'[d] = IndicesOf(d)'
    BY <1>1, <1>4, <1>12 DEF ListsOK
<1>15. \A d \in Creators \ (DOMAIN count' \cup DOMAIN legacyList') : IndicesOf(d)' = <<>>
    BY <1>4, <1>12 DEF ListsOK
<1>16. /\ DOMAIN count' \subseteq Creators /\ DOMAIN legacyList' \subseteq Creators
       /\ DOMAIN count' \cap DOMAIN legacyList' = {}
    BY <1>12 DEF ListsOK
<1> QED BY <1>1, <1>2, <1>11, <1>13, <1>14, <1>15, <1>16 DEF ListsOK
\* Every other call leaves the lists alone.
LEMMA ListsKept ==
    ASSUME ListsOK, UNCHANGED <<token_count, legacyList, page, count, creator>>
    PROVE  ListsOK'
BY DEF ListsOK, IndicesOf

LEMMA NextLists == ListsOK /\ [Next]_vars => ListsOK'
<1> SUFFICES ASSUME ListsOK, [Next]_vars PROVE ListsOK'
    OBVIOUS
<1>1. ASSUME NEW c \in Creators, NEW n \in {1, 2}, CreateTokens(c, n) PROVE ListsOK'
    BY <1>1, CreateLists
<1>2. ASSUME UNCHANGED <<token_count, lists, creator>> PROVE ListsOK'
    BY <1>2, ListsKept DEF lists
<1>3. ASSUME NEW i, \/ \E b \in BOOLEAN : SetBurnEnabled(i, b)
                    \/ MintTokens(i)
                    \/ ReconstructSupply(i)
                    \/ BackfillCappedSupply(i)
      PROVE  ListsOK'
    BY <1>2, <1>3 DEF SetBurnEnabled, MintTokens, ReconstructSupply, BackfillCappedSupply, past
<1>4. ASSUME Migrate PROVE ListsOK'
    BY <1>2, <1>4 DEF Migrate, past
<1>5. ASSUME NEW s, ChangeSetting(s) PROVE ListsOK'
    BY <1>2, <1>5 DEF ChangeSetting, past
<1>6. CASE UNCHANGED vars
    BY <1>2, <1>6 DEF vars, past
<1> QED BY <1>1, <1>3, <1>4, <1>5, <1>6 DEF Next

-----------------------------------------------------------------------------
(* Reading them back. *)

\* One call of get_tokens_by_creator returns the piece of the list asked for.
LEMMA GetTokensReturns ==
    ASSUME ListsOK, NEW c \in DOMAIN count, NEW limit \in 1..Size, NEW offset \in Nat,
           NEW s, s = IndicesOf(c)
    PROVE  GetTokensByCreator(c, offset, limit) =
             IF offset < Len(s) THEN SubSeq(s, offset + 1, Lesser(offset + limit, Len(s)))
             ELSE <<>>
<1> DEFINE N == Len(s)
           total == IF c \in DOMAIN count THEN count[c] ELSE 0
           end == Lesser(offset + Lesser(limit, MAX_TOKENS_BY_CREATOR_PAGE), total)
           Stop(i) == /\ \A j \in offset..i - 1 : Filled(c, j)
                      /\ i # end => ~Filled(c, i)
           stop == CHOOSE i \in offset..end : Stop(i)
           got == [k \in 1..stop - offset |-> page[c][PageNo(offset + k - 1)][Local(offset + k - 1)]]
<1>1. /\ s \in Seq(1..token_count) /\ N \in Nat /\ count[c] = N
      /\ Paged(page[c], s, token_count)
      /\ \A i \in 1..N : s[i] \in 1..token_count
    <2>1. s \in Seq(1..token_count)
        BY IndicesTyped DEF ListsOK, IndicesOf
    <2> QED BY <2>1, LenProperties, ElementOfSeq DEF ListsOK
<1>2. Lesser(limit, MAX_TOKENS_BY_CREATOR_PAGE) = limit /\ limit \in Nat \ {0}
    BY BoundsAssumption DEF Lesser, Size
<1>3. GetTokensByCreator(c, offset, limit) = IF offset >= N THEN <<>> ELSE got
    <2>1. GetTokensByCreator(c, offset, limit) =
            IF limit = 0 \/ offset >= total THEN <<>> ELSE got
        BY Zenon DEF GetTokensByCreator
    <2> HIDE DEF got
    <2> QED BY <1>1, <1>2, <2>1
<1>a. end = Lesser(offset + limit, N)
    BY <1>1, <1>2
<1> HIDE DEF total
<1>4. CASE ~(offset < N)
    BY <1>1, <1>3, <1>4
<1>5. CASE offset < N
    <2>1. end \in Nat /\ end \in offset + 1..N
        <3> HIDE DEF end
        <3> QED BY <1>a, <1>1, <1>2, <1>5 DEF Lesser
    <2> HIDE DEF end, N
    <2>2. \A j \in Nat : j < N => Filled(c, j)
        BY <1>1 DEF Paged, InPages, Filled, N
    <2>3. stop = end
        <3>1. end \in offset..end /\ Stop(end)
            BY <1>1, <2>1, <2>2
        <3>2. ASSUME NEW i \in offset..end, Stop(i) PROVE i = end
            BY <1>1, <2>1, <2>2, <3>2
        <3> HIDE DEF Stop
        <3> QED BY <3>1, <3>2
    <2> HIDE DEF stop
    <2> DEFINE q == SubSeq(s, offset + 1, end)
    <2>4. /\ q \in Seq(1..token_count) /\ Len(q) = end - offset
          /\ \A k \in 1..end - offset : q[k] = s[offset + k]
        <3> DEFINE first == offset + 1
        <3>1. \A i \in first..end : s[i] \in 1..token_count
            BY <1>1, <2>1
        <3>2. first \in Int /\ end \in Int /\ end - first + 1 = end - offset /\ first <= end
            BY <2>1
        <3>3. \A k \in Int : first + k - 1 = offset + k
            OBVIOUS
        <3> HIDE DEF first
        <3>4. /\ SubSeq(s, first, end) \in Seq(1..token_count)
              /\ Len(SubSeq(s, first, end)) = end - offset
              /\ \A k \in 1..end - offset : SubSeq(s, first, end)[k] = s[first + k - 1]
            BY <3>1, <3>2, SubSeqProperties
        <3> QED BY <3>3, <3>4 DEF first
    <2>5. ASSUME NEW k \in 1..end - offset
          PROVE  page[c][PageNo(offset + k - 1)][Local(offset + k - 1)] = q[k]
        <3>1. offset + k - 1 \in Nat /\ offset + k - 1 < N /\ (offset + k - 1) + 1 = offset + k
            BY <1>1, <2>1
        <3> HIDE DEF q
        <3>2. InSlot(page[c], offset + k - 1) = s[(offset + k - 1) + 1]
            BY <1>1, <3>1 DEF Paged, N
        <3> QED BY <2>4, <3>1, <3>2 DEF InSlot
    <2> HIDE DEF q
    <2>6. DOMAIN q = 1..end - offset
        BY <2>4, LenProperties
    <2>7. q = [k \in 1..end - offset |-> q[k]]
        BY <2>4, <2>6, LenProperties
    <2>8. got = q
        BY <2>3, <2>5, <2>7
    <2> HIDE DEF got
    <2>9. GetTokensByCreator(c, offset, limit) = q
        BY <1>1, <1>3, <1>5, <2>8
    <2>10. q = SubSeq(s, offset + 1, Lesser(offset + limit, N))
        BY <1>a DEF q
    <2> QED BY <1>5, <2>9, <2>10 DEF N
<1> QED BY <1>4, <1>5

\* A client that pages reads the whole list.
LEMMA PagesReadThrough ==
    ASSUME ListsOK, NEW c \in DOMAIN count, NEW limit \in 1..Size
    PROVE  PagedThrough(c, limit) = IndicesOf(c)
<1> DEFINE s == IndicesOf(c)
           N == Len(s)
           Got(o) == GetTokensByCreator(c, o, limit)
           Rest(f, o) == IF Len(Got(o)) < limit THEN Got(o) ELSE Got(o) \o f[o + limit]
           body(f) == [o \in Nat |-> Rest(f, o)]
           h == [o \in Nat |-> SubSeq(s, o + 1, N)]
           t == CHOOSE f : f = body(f)
<1>1. s \in Seq(1..token_count) /\ N \in Nat /\ \A i \in 1..N : s[i] \in 1..token_count
    <2>1. s \in Seq(1..token_count)
        BY IndicesTyped DEF ListsOK, IndicesOf
    <2> HIDE DEF s
    <2> QED BY <2>1, LenProperties, ElementOfSeq
<1>2. limit \in Nat \ {0}
    BY BoundsAssumption DEF Size
<1>3. ASSUME NEW o \in Nat
      PROVE  Got(o) = IF o < N THEN SubSeq(s, o + 1, Lesser(o + limit, N)) ELSE <<>>
    BY GetTokensReturns
<1>4. PagedThrough(c, limit) = t[0]
    BY Zenon DEF PagedThrough
<1> HIDE DEF s, Got
<1>5. ASSUME NEW o \in Nat
      PROVE  /\ Rest(h, o) = h[o]
             /\ o >= N => Len(Got(o)) < limit
    <2>1. CASE o >= N
        <3>1. Got(o) = <<>> /\ Len(<<>>) = 0
            BY <1>1, <1>3, <2>1
        <3>2. SubSeq(s, o + 1, N) = <<>>
            <4> DEFINE first == o + 1
            <4>1. first \in Int /\ N \in Int /\ N < first
                BY <1>1, <2>1
            <4> HIDE DEF N, first
            <4>2. SubSeq(s, first, N) = <<>>
                BY <4>1, SubSeqEmpty, Zenon
            <4> QED BY <4>2 DEF first
        <3>3. h[o] = <<>>
            BY <3>2
        <3>4. Len(Got(o)) < limit /\ Rest(h, o) = Got(o)
            BY <1>2, <3>1
        <3> HIDE DEF Rest, h
        <3> QED BY <3>1, <3>3, <3>4
    <2>2. CASE o < N
        <3> DEFINE e == Lesser(o + limit, N)
                   first == o + 1
        <3>1. /\ e \in Nat /\ e \in o + 1..N /\ first \in 1..N + 1 /\ e \in first - 1..N
              /\ N \in e..N /\ first <= e
            BY <1>1, <1>2, <2>2 DEF Lesser
        <3>2. Got(o) = SubSeq(s, first, e)
            BY <1>3, <2>2
        <3>3. e - o < limit => e = N
            BY <1>1, <1>2, <2>2 DEF Lesser
        <3>4. ~(e - o < limit) => e = o + limit
            BY <1>1, <1>2, <2>2 DEF Lesser
        <3> HIDE DEF e, N
        <3>5. Len(SubSeq(s, first, e)) = e - o
            <4>1. \A i \in first..e : s[i] \in 1..token_count
                BY <1>1, <3>1
            <4>2. first \in Int /\ e \in Int /\ e - first + 1 = e - o
                BY <3>1
            <4> HIDE DEF first
            <4> QED BY <3>1, <4>1, <4>2, SubSeqProperties
        <3>6. CASE e - o < limit
            BY <3>2, <3>3, <3>5, <3>6, <2>2, <1>1
        <3>7. CASE ~(e - o < limit)
            <4>1. SubSeq(s, first, e) \o SubSeq(s, e + 1, N) = SubSeq(s, first, N)
                <5> HIDE DEF first
                <5> QED BY <1>1, <3>1, ConcatAdjacentSubSeq DEF N
            <4>2. o + limit \in Nat /\ o + limit = e
                BY <3>4, <3>7, <1>2
            <4>3. h[o + limit] = SubSeq(s, e + 1, N)
                BY <4>2
            <4>4. Rest(h, o) = Got(o) \o h[o + limit]
                BY <3>2, <3>5, <3>7
            <4>5. h[o] = SubSeq(s, first, N)
                OBVIOUS
            <4> HIDE DEF h, first, Rest
            <4>6. Rest(h, o) = h[o]
                BY <4>1, <4>3, <4>4, <4>5, <3>2, Zenon
            <4> QED BY <4>6, <2>2, <1>1
        <3> QED BY <3>6, <3>7
    <2> HIDE DEF Rest, h, N
    <2> QED BY <1>1, <2>1, <2>2
<1>6. t = body(t)
    <2>1. h = body(h)
        <3> HIDE DEF Rest
        <3> QED BY <1>5
    <2> HIDE DEF body, h
    <2> QED BY <2>1, Zenon
<1> HIDE DEF t, h
<1>7. \A o \in Nat : t[o] = Rest(t, o)
    <2> HIDE DEF Rest
    <2> QED BY <1>6
<1> DEFINE T == {x \in Nat : \A o \in Nat : N <= o + x => t[o] = h[o]}
<1>8. ASSUME NEW o \in Nat, o >= N PROVE t[o] = h[o]
    BY <1>5, <1>7, <1>8
<1>9. 0 \in T
    BY <1>1, <1>8
<1>10. ASSUME NEW x \in Nat, x \in T PROVE x + 1 \in T
    <2> SUFFICES ASSUME NEW o \in Nat, N <= o + (x + 1) PROVE t[o] = h[o]
        OBVIOUS
    <2>1. o + limit \in Nat /\ N <= (o + limit) + x
        BY <1>1, <1>2
    <2>2. t[o + limit] = h[o + limit]
        BY <1>10, <2>1
    <2>3. Rest(t, o) = Rest(h, o)
        BY <2>2
    <2> QED BY <1>5, <1>7, <2>3
<1>11. \A x \in Nat : x \in T
    <2> HIDE DEF T
    <2> QED BY <1>9, <1>10, Induction
<1>12. t[0] = h[0]
    <2>1. N \in T
        BY <1>1, <1>11
    <2>2. N <= 0 + N
        BY <1>1
    <2> QED BY <2>1, <2>2
<1>13. h[0] = s
    <2>1. h[0] = SubSeq(s, 1, N)
        BY DEF h
    <2>2. SubSeq(s, 1, N) = s
        BY <1>1, SubSeqFull
    <2> QED BY <2>1, <2>2
<1> QED BY <1>4, <1>12, <1>13 DEF s

\* Every state's lists are in order.
LEMMA ListsInvariance == Spec => []ListsOK
BY InitLists, NextLists, PTL DEF Spec

\* A client that pages through get_tokens_by_creator with any limit up to the
\* cap sees every token of the creator once, in order of creation.
THEOREM PagedListsComplete == Spec => []PagedListsExact
<1>1. ListsOK => PagedListsExact
    BY PagesReadThrough DEF PagedListsExact, Size
<1> QED BY <1>1, ListsInvariance, PTL

-----------------------------------------------------------------------------

\* What is left of TypeOK: a token is back-filled with a sum that there is.
RepairOK ==
    /\ token_count \in 0..MaxTokenCount
    /\ bkfld \subseteq DOMAIN verified

LEMMA RepairInvariance == Spec => []RepairOK
<1>1. Init => RepairOK
    BY BoundsAssumption, CreatorsAssumption, LenProperties DEF Init, RepairOK
<1>2. RepairOK /\ [Next]_vars => RepairOK'
    <2> SUFFICES ASSUME RepairOK, [Next]_vars PROVE RepairOK'
        OBVIOUS
    <2>1. ASSUME UNCHANGED <<token_count, bkfld, verified>> PROVE RepairOK'
        BY <2>1 DEF RepairOK
    <2>2. ASSUME NEW c, NEW n \in {1, 2}, CreateTokens(c, n) PROVE RepairOK'
        BY <2>2, BoundsAssumption DEF CreateTokens, repair, RepairOK
    <2>3. ASSUME NEW i, ReconstructSupply(i) PROVE RepairOK'
        BY <2>3 DEF ReconstructSupply, Put, past, RepairOK
    <2>4. ASSUME NEW i, BackfillCappedSupply(i) PROVE RepairOK'
        BY <2>4 DEF BackfillCappedSupply, RepairOK
    <2>5. ASSUME NEW i, (\E b \in BOOLEAN : SetBurnEnabled(i, b)) \/ MintTokens(i)
          PROVE  RepairOK'
        BY <2>1, <2>5 DEF SetBurnEnabled, MintTokens, repair
    <2>6. ASSUME Migrate \/ (\E s : ChangeSetting(s)) PROVE RepairOK'
        BY <2>1, <2>6 DEF Migrate, ChangeSetting, repair, past
    <2>7. CASE UNCHANGED vars
        BY <2>1, <2>7 DEF vars, repair, past
    <2> QED BY <2>2, <2>3, <2>4, <2>5, <2>6, <2>7 DEF Next
<1> QED BY <1>1, <1>2, PTL DEF Spec

\* Every variable has its type; no keyed entry is in both storages, and the
\* cursor never runs past the tokens there are.
THEOREM TypeCorrect == Spec => []TypeOK
<1>1. IInv /\ SettingsOK /\ ListsOK /\ RepairOK => TypeOK
    <2> SUFFICES ASSUME IInv, SettingsOK, ListsOK, RepairOK PROVE TypeOK
        OBVIOUS
    <2>1. creator \in [1..token_count -> Creators]
        BY LenProperties DEF ListsOK
    <2> QED BY <2>1 DEF TypeOK, IInv, CursorOK, StorageOK, Keys, SuppliesOK, SettingsOK,
                        ListsOK, RepairOK
<1> QED BY <1>1, Invariance, SettingsTyped, ListsInvariance, RepairInvariance, PTL

=============================================================================
