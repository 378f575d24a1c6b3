---------------------------- MODULE TokenFactory ----------------------------
(***************************************************************************)
(* The token registry of the factory contract                              *)
(* (src/contracts/token-factory/src/lib.rs): creating tokens one by one or *)
(* in a batch, minting under a supply cap, burning, the metadata URI of a  *)
(* token and its freezing, the pause switch, the whitelist and the fees.   *)
(*                                                                         *)
(* A Soroban invocation is atomic and the host refuses re-entry into a     *)
(* contract that is already on the call stack, so one entrypoint is one    *)
(* action.  An entrypoint that returns an Err or traps reverts everything  *)
(* it wrote: its early returns are the guards of its action.  The flag     *)
(* "locked" is FALSE in every state between two invocations and is left    *)
(* out.  The administrator is fixed here; its rotation is in Governance,   *)
(* how a charged fee is divided is in FeeSplit, and factories written by   *)
(* older binaries are in Migration.                                        *)
(***************************************************************************)
EXTENDS Integers, Sequences, FiniteSets

CONSTANTS
    Accounts,            \* creators and holders
    Salts,               \* deployment salts a creator may choose
    Uris,                \* valid metadata URIs
    NoCap,               \* max_supply = None
    FeeValues,           \* values update_fees may install
    Amounts,             \* amounts callers pass, and caps they ask for
    Funds,               \* fee-token balance every account starts with
    MaxTokenCount,       \* u32::MAX in the code: where checked_add fails
    MaxAmount,           \* i128::MAX in the code: what one token can issue
    MaxBatchSize,        \* MAX_BATCH_SIZE
    MetadataMaxUpdates   \* METADATA_MAX_UPDATES

ASSUME AccountsAssumption == IsFiniteSet(Accounts)
ASSUME NoCapAssumption    == NoCap \notin Int
ASSUME FeesAssumption     == FeeValues \subseteq Nat /\ FeeValues # {}
ASSUME AmountsAssumption  == Amounts \subseteq Nat
ASSUME BoundsAssumption   == /\ Funds \in Nat
                             /\ MaxTokenCount \in Nat
                             /\ MaxAmount \in Nat
                             /\ MaxBatchSize \in Nat \ {0}
                             /\ MetadataMaxUpdates \in Nat \ {0}

VARIABLES
    state,            \* DataKey::State: the FactoryState fields used here
    whitelist,        \* accounts with a "wl" entry
    tokenInfo,        \* DataKey::TokenInfo(index)
    tokenIndex,       \* DataKey::TokenIndex(address)
    tokenAddress,     \* DataKey::TokenAddress(index)
    owner,            \* (address, "owner")
    creatorTokens,    \* the pages of DataKey::CreatorTokens, end to end
    supply,           \* (address, "supply"): the tracked-supply counter
    metadata,         \* DataKey::Metadata(address)
    metadataVersion,  \* DataKey::MetadataVersion(address), absent = 0
    metadataFrozen,   \* addresses with DataKey::MetadataFrozen
    balance,          \* external: holders' balances in each token contract
    issued,           \* history: what each token ever issued through the factory
    feeBalance,       \* external: fee-token balances of the accounts
    quote,            \* the fee_payment an account authorises per token or call
    collected         \* external: fee token received by treasury and recipients

registry  == <<tokenInfo, tokenIndex, tokenAddress, owner, creatorTokens>>
metaVars  == <<metadata, metadataVersion, metadataFrozen>>
tokenVars == <<supply, balance, issued>>
feeVars   == <<feeBalance, quote, collected>>
vars == <<state, whitelist, registry, tokenVars, metaVars, feeVars>>

-----------------------------------------------------------------------------
\* A contract deployed by with_address(creator, salt) has this address: it
\* depends on the two alone, so a salt serves a creator once.
Addresses == Accounts \X Salts

Caps == Amounts \cup {NoCap}

TokenParams == [salt : Salts, initialSupply : Amounts, maxSupply : Caps]

TokenInfo == [creator : Accounts, burnEnabled : BOOLEAN, maxSupply : Caps]

\* storage().set(key, val)
Put(f, key, val) ==
    [k \in DOMAIN f \cup {key} |-> IF k = key THEN val ELSE f[k]]

\* storage().get(key).unwrap_or(default)
Get(f, key, default) == IF key \in DOMAIN f THEN f[key] ELSE default

EmptyMap == [k \in {} |-> k]

\* The maxSupply of a registered token.
CapOf(t) == tokenInfo[tokenIndex[t]].maxSupply

-----------------------------------------------------------------------------
(* A definition named X_<fault> is X with that fault; it stands before X and *)
(* is used only to see that the properties detect the fault.                *)

\* A transaction signed against the fee that was read before it: the account
\* authorises at most feePayment and is charged exactly the fee in force.
Charge_SurplusToo(a, fee, feePayment) ==
    /\ feePayment >= fee
    /\ feeBalance[a] >= feePayment
    /\ feeBalance' = [feeBalance EXCEPT ![a] = @ - feePayment]
    /\ collected' = collected + feePayment
    /\ UNCHANGED quote

Charge(a, fee, feePayment) ==
    /\ feePayment >= fee
    /\ feeBalance[a] >= fee
    /\ feeBalance' = [feeBalance EXCEPT ![a] = @ - fee]
    /\ collected' = collected + fee
    /\ UNCHANGED quote

\* The client reads get_base_fee or get_metadata_fee before it builds a call.
QuoteFee(a, fee) ==
    /\ fee \in {state.baseFee, state.metadataFee}
    /\ quote' = [quote EXCEPT ![a] = fee]
    /\ UNCHANGED <<state, whitelist, registry, tokenVars, metaVars,
                   feeBalance, collected>>

-----------------------------------------------------------------------------
ValidTokenParams(p) ==
    p.maxSupply # NoCap => p.maxSupply > 0 /\ p.initialSupply <= p.maxSupply

RequireWhitelisted(creator) == state.whitelistEnabled => creator \in whitelist

NewAddress(creator, ps, k) == <<creator, ps[k].salt>>

\* The position of the parameters that deployed t.
ParamsOf(t, ps) == ps[CHOOSE k \in 1..Len(ps) : ps[k].salt = t[2]]

\* Deploying to an address that is taken traps.
Undeployed_Unchecked(new) == TRUE

Undeployed(new) == new \cap DOMAIN balance = {}

\* record_token seeds the counter of a capped token with its initial supply.
SeededSupply_Forgotten(new, ps) ==
    [t \in DOMAIN supply \cup {u \in new : ParamsOf(u, ps).maxSupply # NoCap} |->
        IF t \in new THEN 0 ELSE supply[t]]

SeededSupply(new, ps) ==
    [t \in DOMAIN supply \cup {u \in new : ParamsOf(u, ps).maxSupply # NoCap} |->
        IF t \in new THEN ParamsOf(t, ps).initialSupply ELSE supply[t]]

\* register_token's view of where the k-th new token goes.
NewIndex_BeforeBump(k) == state.tokenCount + k - 1

NewIndex(k) == state.tokenCount + k

\* append_creator_token for the n new tokens, in order.
AppendCreatorTokens_FirstOnly(creator, n) ==
    [creatorTokens EXCEPT ![creator] = Append(@, NewIndex(n))]

AppendCreatorTokens(creator, n) ==
    [creatorTokens EXCEPT ![creator] = @ \o [k \in 1..n |-> NewIndex(k)]]

\* record_token for every element of ps, in order: deploy, initialise, mint
\* the initial supply to the creator and write the registry entries.
RecordTokens(creator, ps) ==
    LET K    == 1..Len(ps)
        new  == {NewAddress(creator, ps, k) : k \in K}
        idxs == {NewIndex(k) : k \in K}
    IN
    /\ \A j, k \in K : j # k => ps[j].salt # ps[k].salt
    /\ Undeployed(new)
    /\ state.tokenCount + Len(ps) <= MaxTokenCount
    /\ state' = [state EXCEPT !.tokenCount = @ + Len(ps)]
    /\ tokenInfo' =
         [i \in DOMAIN tokenInfo \cup idxs |->
            IF i \in idxs
            THEN LET k == CHOOSE k \in K : NewIndex(k) = i
                 IN [creator |-> creator, burnEnabled |-> TRUE,
                     maxSupply |-> ps[k].maxSupply]
            ELSE tokenInfo[i]]
    /\ tokenAddress' =
         [i \in DOMAIN tokenAddress \cup idxs |->
            IF i \in idxs
            THEN NewAddress(creator, ps, CHOOSE k \in K : NewIndex(k) = i)
            ELSE tokenAddress[i]]
    /\ tokenIndex' =
         [t \in DOMAIN tokenIndex \cup new |->
            IF t \in new
            THEN NewIndex(CHOOSE k \in K : NewAddress(creator, ps, k) = t)
            ELSE tokenIndex[t]]
    /\ owner' = [t \in DOMAIN owner \cup new |-> IF t \in new THEN creator ELSE owner[t]]
    /\ creatorTokens' = AppendCreatorTokens(creator, Len(ps))
    /\ supply' = SeededSupply(new, ps)
    /\ balance' =
         [t \in DOMAIN balance \cup new |->
            IF t \in new
            THEN [a \in Accounts |-> IF a = creator THEN ParamsOf(t, ps).initialSupply
                                                    ELSE 0]
            ELSE balance[t]]
    /\ issued' =
         [t \in DOMAIN issued \cup new |->
            IF t \in new THEN ParamsOf(t, ps).initialSupply ELSE issued[t]]

CreateToken(creator, p) ==
    /\ ~state.paused
    /\ ValidTokenParams(p)
    /\ RequireWhitelisted(creator)
    /\ Charge(creator, state.baseFee, quote[creator])
    /\ RecordTokens(creator, <<p>>)
    /\ UNCHANGED <<whitelist, metaVars>>

\* The fee of a batch of n tokens.
BatchFee_Once(n) == state.baseFee

BatchFee(n) == state.baseFee * n

CreateTokensBatch(creator, ps) ==
    /\ ~state.paused
    /\ Len(ps) \in 1..MaxBatchSize
    /\ \A k \in 1..Len(ps) : ValidTokenParams(ps[k])
    /\ RequireWhitelisted(creator)
    /\ Charge(creator, BatchFee(Len(ps)), quote[creator] * Len(ps))
    /\ RecordTokens(creator, ps)
    /\ UNCHANGED <<whitelist, metaVars>>

-----------------------------------------------------------------------------
\* The counter of a capped token after issuing n more; the counter of an
\* uncapped token is never written.
CountIssue(t, n) ==
    IF CapOf(t) = NoCap
    THEN UNCHANGED supply
    ELSE /\ Get(supply, t, 0) + n <= CapOf(t)
         /\ supply' = Put(supply, t, Get(supply, t, 0) + n)

MintTokens_WhilePaused(admin, t, to, n) ==
    /\ n > 0
    /\ t \in DOMAIN tokenIndex
    /\ owner[t] = admin
    /\ CountIssue(t, n)
    /\ Charge(admin, state.baseFee, quote[admin])
    /\ issued[t] + n <= MaxAmount
    /\ balance' = [balance EXCEPT ![t][to] = @ + n]
    /\ issued' = [issued EXCEPT ![t] = @ + n]
    /\ UNCHANGED <<state, whitelist, registry, metaVars>>

MintTokens(admin, t, to, n) ==
    /\ ~state.paused
    /\ n > 0
    /\ t \in DOMAIN tokenIndex
    /\ owner[t] = admin
    /\ CountIssue(t, n)
    /\ Charge(admin, state.baseFee, quote[admin])
    /\ issued[t] + n <= MaxAmount
    /\ balance' = [balance EXCEPT ![t][to] = @ + n]
    /\ issued' = [issued EXCEPT ![t] = @ + n]
    /\ UNCHANGED <<state, whitelist, registry, metaVars>>

\* Burning does not lower the tracked-supply counter, and is not stopped by
\* the pause switch.
CounterAfterBurn_Refunded(t, n) ==
    [u \in DOMAIN supply |-> IF u = t THEN supply[u] - n ELSE supply[u]]

CounterAfterBurn(t, n) == supply

Burn(from, t, n) ==
    /\ n > 0
    /\ t \in DOMAIN tokenIndex
    /\ tokenInfo[tokenIndex[t]].burnEnabled
    /\ n <= balance[t][from]
    /\ balance' = [balance EXCEPT ![t][from] = @ - n]
    /\ supply' = CounterAfterBurn(t, n)
    /\ UNCHANGED <<state, whitelist, registry, issued, metaVars, feeVars>>

SetBurnEnabled(admin, t, enabled) ==
    /\ t \in DOMAIN owner
    /\ owner[t] = admin
    /\ tokenInfo' = [tokenInfo EXCEPT ![tokenIndex[t]].burnEnabled = enabled]
    /\ UNCHANGED <<state, whitelist, tokenIndex, tokenAddress, owner, creatorTokens,
                   tokenVars, metaVars, feeVars>>

-----------------------------------------------------------------------------
SetMetadata_DespiteFreeze(admin, t, uri) ==
    /\ ~state.paused
    /\ t \in DOMAIN owner
    /\ owner[t] = admin
    /\ Get(metadataVersion, t, 0) < MetadataMaxUpdates
    /\ Charge(admin, state.metadataFee, quote[admin])
    /\ metadata' = Put(metadata, t, uri)
    /\ metadataVersion' = Put(metadataVersion, t, Get(metadataVersion, t, 0) + 1)
    /\ UNCHANGED <<state, whitelist, registry, tokenVars, metadataFrozen>>

SetMetadata(admin, t, uri) ==
    /\ ~state.paused
    /\ t \in DOMAIN owner
    /\ owner[t] = admin
    /\ t \notin metadataFrozen
    /\ Get(metadataVersion, t, 0) < MetadataMaxUpdates
    /\ Charge(admin, state.metadataFee, quote[admin])
    /\ metadata' = Put(metadata, t, uri)
    /\ metadataVersion' = Put(metadataVersion, t, Get(metadataVersion, t, 0) + 1)
    /\ UNCHANGED <<state, whitelist, registry, tokenVars, metadataFrozen>>

FreezeMetadata(admin, t) ==
    /\ ~state.paused
    /\ t \in DOMAIN owner
    /\ owner[t] = admin
    /\ metadataFrozen' = metadataFrozen \cup {t}
    /\ UNCHANGED <<state, whitelist, registry, tokenVars, metadata,
                   metadataVersion, feeVars>>

-----------------------------------------------------------------------------
\* The administrator's switches.
SetPaused(b) ==
    /\ state' = [state EXCEPT !.paused = b]
    /\ UNCHANGED <<whitelist, registry, tokenVars, metaVars, feeVars>>

UpdateFees(baseFee, metadataFee) ==
    /\ state' = [state EXCEPT !.baseFee = baseFee, !.metadataFee = metadataFee]
    /\ UNCHANGED <<whitelist, registry, tokenVars, metaVars, feeVars>>

SetWhitelistEnabled(b) ==
    /\ state' = [state EXCEPT !.whitelistEnabled = b]
    /\ UNCHANGED <<whitelist, registry, tokenVars, metaVars, feeVars>>

AddToWhitelist(a) ==
    /\ whitelist' = whitelist \cup {a}
    /\ UNCHANGED <<state, registry, tokenVars, metaVars, feeVars>>

RemoveFromWhitelist(a) ==
    /\ whitelist' = whitelist \ {a}
    /\ UNCHANGED <<state, registry, tokenVars, metaVars, feeVars>>

-----------------------------------------------------------------------------
\* The factory as __constructor leaves it.
Init ==
    /\ \E f, g \in FeeValues :
         state = [paused |-> FALSE, whitelistEnabled |-> FALSE, tokenCount |-> 0,
                  baseFee |-> f, metadataFee |-> g]
    /\ whitelist = {}
    /\ tokenInfo = EmptyMap
    /\ tokenIndex = EmptyMap
    /\ tokenAddress = EmptyMap
    /\ owner = EmptyMap
    /\ creatorTokens = [a \in Accounts |-> <<>>]
    /\ supply = EmptyMap
    /\ metadata = EmptyMap
    /\ metadataVersion = EmptyMap
    /\ metadataFrozen = {}
    /\ balance = EmptyMap
    /\ issued = EmptyMap
    /\ feeBalance = [a \in Accounts |-> Funds]
    /\ quote = [a \in Accounts |-> 0]
    /\ collected = 0

Batches == UNION {[1..n -> TokenParams] : n \in 1..MaxBatchSize}

CreationNext(a) ==
    \/ \E p \in TokenParams : CreateToken(a, p)
    \/ \E ps \in Batches : CreateTokensBatch(a, ps)

TokenNext(a) ==
    \E t \in DOMAIN balance :
        \/ \E to \in Accounts, n \in Amounts : MintTokens(a, t, to, n)
        \/ \E n \in Amounts : Burn(a, t, n)
        \/ \E b \in BOOLEAN : SetBurnEnabled(a, t, b)
        \/ \E uri \in Uris : SetMetadata(a, t, uri)
        \/ FreezeMetadata(a, t)

AdminNext ==
    \/ \E b \in BOOLEAN : SetPaused(b) \/ SetWhitelistEnabled(b)
    \/ \E f, g \in FeeValues : UpdateFees(f, g)
    \/ \E a \in Accounts : AddToWhitelist(a) \/ RemoveFromWhitelist(a)

Next ==
    \/ \E a \in Accounts : \/ CreationNext(a)
                           \/ TokenNext(a)
                           \/ \E f \in FeeValues : QuoteFee(a, f)
    \/ AdminNext

Spec == Init /\ [][Next]_vars

-----------------------------------------------------------------------------
(* Properties *)

\* Every variable has its type, and the keyed entries that record_token writes
\* together exist together.
TypeOK ==
    /\ state \in [paused : BOOLEAN, whitelistEnabled : BOOLEAN,
                  tokenCount : 0..MaxTokenCount,
                  baseFee : FeeValues, metadataFee : FeeValues]
    /\ whitelist \subseteq Accounts
    /\ DOMAIN tokenIndex \subseteq Addresses
    /\ tokenInfo \in [1..state.tokenCount -> TokenInfo]
    /\ tokenIndex \in [DOMAIN tokenIndex -> 1..state.tokenCount]
    /\ tokenAddress \in [1..state.tokenCount -> DOMAIN tokenIndex]
    /\ owner \in [DOMAIN tokenIndex -> Accounts]
    /\ creatorTokens \in [Accounts -> Seq(Nat)]
    /\ balance \in [DOMAIN tokenIndex -> [Accounts -> Nat]]
    /\ issued \in [DOMAIN tokenIndex -> Nat]
    /\ supply \in [DOMAIN supply -> Nat]
    /\ metadataVersion \in [DOMAIN metadataVersion -> Nat]
    /\ metadata \in [DOMAIN metadataVersion -> Uris]
    /\ DOMAIN supply \cup DOMAIN metadataVersion \cup metadataFrozen
         \subseteq DOMAIN tokenIndex
    /\ feeBalance \in [Accounts -> Nat]
    /\ quote \in [Accounts -> Nat]
    /\ collected \in Nat

\* A capped token never issues more than its max_supply over its whole life,
\* counting the initial supply and whatever has been burned since: the cap
\* bounds cumulative mints (record_token, mint_tokens and burn together).
CapRespected ==
    \A t \in DOMAIN issued : CapOf(t) # NoCap => issued[t] <= CapOf(t)

\* The counter mint_tokens trusts is there for the capped tokens and only for
\* them, and is exactly what the token has issued.
CounterExact ==
    \A t \in DOMAIN issued :
        /\ t \in DOMAIN supply <=> CapOf(t) # NoCap
        /\ t \in DOMAIN supply => supply[t] = issued[t]

\* get_token_address and get_token_index are inverse bijections between
\* 1..token_count and the registered addresses, and TokenInfo, the owner
\* entry and the deployed address agree on who created the token.
RegistryConsistent ==
    /\ \A i \in 1..state.tokenCount : tokenIndex[tokenAddress[i]] = i
    /\ \A t \in DOMAIN tokenIndex :
         /\ tokenAddress[tokenIndex[t]] = t
         /\ tokenInfo[tokenIndex[t]].creator = owner[t]
         /\ owner[t] = t[1]

\* get_tokens_by_creator enumerates, in creation order and once each, exactly
\* the tokens whose TokenInfo names that creator.
CreatorListsExact ==
    \A a \in Accounts :
        /\ {creatorTokens[a][k] : k \in DOMAIN creatorTokens[a]}
             = {i \in 1..state.tokenCount : tokenInfo[i].creator = a}
        /\ \A j, k \in DOMAIN creatorTokens[a] :
             j < k => creatorTokens[a][j] < creatorTokens[a][k]

\* No token is registered for less than the fee in force: whatever entrypoint
\* raises token_count, what is collected in that call covers base_fee for each
\* token it registers (create_tokens_batch multiplies the fee by its length).
PaidStep ==
    collected' - collected >= state.baseFee * (state'.tokenCount - state.tokenCount)

EveryTokenPaidFor == [][PaidStep]_vars

\* Once freeze_metadata has succeeded, or the version has reached
\* METADATA_MAX_UPDATES, no later call changes the URI; and a URI never
\* changes without its version moving to the next number.
MetadataStep ==
    /\ metadataFrozen \subseteq metadataFrozen'
    /\ \A t \in DOMAIN metadataVersion :
         /\ t \in metadataFrozen \/ metadataVersion[t] = MetadataMaxUpdates
              => metadata'[t] = metadata[t]
         /\ metadata'[t] # metadata[t] => metadataVersion'[t] = metadataVersion[t] + 1

MetadataFinal == [][MetadataStep]_vars

\* While the factory is paused nothing is created, issued or charged and no
\* metadata changes; holders can still burn.
PausedStep ==
    state.paused =>
        UNCHANGED <<tokenIndex, creatorTokens, issued, metaVars, feeBalance, collected>>

PausedQuiet == [][PausedStep]_vars

\* Whatever update_fees did between the moment a client read the fee and the
\* moment its call runs, an account never pays more than it authorised, and
\* never more than the fee in force.
ChargeStep ==
    \A a \in Accounts :
        LET paid    == feeBalance[a] - feeBalance'[a]
            created == state'.tokenCount - state.tokenCount
            calls   == IF created > 1 THEN created ELSE 1
        IN  /\ paid <= quote[a] * calls
            /\ paid \in {0, state.baseFee * calls, state.metadataFee}

ChargeWithinQuote == [][ChargeStep]_vars

-----------------------------------------------------------------------------
(* What the factory implements *)

\* The base units of a token, numbered in the hand of each holder.
HeldUnits(holding) == UNION {{a} \X (1..holding[a]) : a \in Accounts}

Circulating(holding) == Cardinality(HeldUnits(holding))

Promise == INSTANCE CappedIssuance WITH
    Tokens      <- Addresses,
    cap         <- [t \in DOMAIN tokenIndex |-> CapOf(t)],
    minted      <- issued,
    circulating <- [t \in DOMAIN balance |-> Circulating(balance[t])]

\* The factory implements CappedIssuance: whatever the interleaving of
\* creation, batches, minting, burning and pausing, a token's holders see a
\* launch, an issue within the cap, a burn, or nothing.
ImplementsPromise == Promise!Spec

=============================================================================
