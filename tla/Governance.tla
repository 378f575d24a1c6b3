----------------------------- MODULE Governance -----------------------------
(***************************************************************************)
(* Who administers the factory contract and which code it runs             *)
(* (src/contracts/token-factory/src/lib.rs): the two-step rotation of the  *)
(* administrator, whose proposal expires, and the two-step upgrade, whose  *)
(* proposal is not ready before a timelock has run.  One action is one     *)
(* successful invocation, in the ledger of the time; ledgers close between *)
(* invocations.                                                            *)
(***************************************************************************)
EXTENDS Integers

CONSTANTS
    Accounts,                    \* keys that may administer the factory
    Hashes,                      \* WASM hashes of factory binaries
    TokenWasm,                   \* the hash of the token contract's WASM
    None,
    ADMIN_PROPOSAL_TTL_LEDGERS,
    UPGRADE_TIMELOCK_LEDGERS,
    MaxLedger                    \* u32::MAX in the code

ASSUME NoneAssumption ==
    None \notin Accounts /\ None \notin Hashes /\ None \notin Int
ASSUME WindowAssumption ==
    /\ ADMIN_PROPOSAL_TTL_LEDGERS \in Nat
    /\ UPGRADE_TIMELOCK_LEDGERS \in Nat
    /\ MaxLedger \in Nat
ASSUME TokenWasmAssumption == TokenWasm \notin Hashes

VARIABLES
    admin,                     \* state.admin
    pending_admin,
    pending_admin_expiry,
    pending_upgrade_hash,
    pending_upgrade_ready_at,
    token_wasm_hash,           \* what record_token deploys
    factoryWasm,               \* external: the code of the contract instance
    ledger,                    \* external: env.ledger().sequence()
    nominator,                 \* history: who made the pending proposal,
    nominatedAt,               \*   and in which ledger
    announcedAt                \* history: the ledger of the last upg_prop event

rotation == <<pending_admin, pending_admin_expiry, nominator, nominatedAt>>
upgrade  == <<pending_upgrade_hash, pending_upgrade_ready_at, announcedAt>>
code     == <<token_wasm_hash, factoryWasm>>
vars == <<admin, rotation, upgrade, code, ledger>>

Init ==
    /\ admin \in Accounts
    /\ pending_admin = None
    /\ pending_admin_expiry = None
    /\ pending_upgrade_hash = None
    /\ pending_upgrade_ready_at = None
    /\ token_wasm_hash = TokenWasm
    /\ factoryWasm \in Hashes
    /\ ledger = 0
    /\ nominator = None
    /\ nominatedAt = 0
    /\ announcedAt = 0

-----------------------------------------------------------------------------
\* sequence().checked_add(..) must fit in a u32.
FitsU32_Unchecked(n) == TRUE

FitsU32(n) == n <= MaxLedger

(* Rotation.  X_<fault> is X with that fault, to see that it is detected. *)

\* transfer_admin and update_admin delegate here.
ProposeAdmin(current_admin, new_admin) ==
    /\ admin = current_admin
    /\ current_admin # new_admin
    /\ FitsU32(ledger + ADMIN_PROPOSAL_TTL_LEDGERS)
    /\ pending_admin' = new_admin
    /\ pending_admin_expiry' = ledger + ADMIN_PROPOSAL_TTL_LEDGERS
    /\ nominator' = current_admin
    /\ nominatedAt' = ledger
    /\ UNCHANGED <<admin, upgrade, code, ledger>>

AcceptAdmin_KeepsProposal(new_admin) ==
    /\ pending_admin = new_admin
    /\ ledger < pending_admin_expiry
    /\ admin' = new_admin
    /\ UNCHANGED <<rotation, upgrade, code, ledger>>

AcceptAdmin_AtExpiry(new_admin) ==
    /\ pending_admin = new_admin
    /\ ledger <= pending_admin_expiry
    /\ admin' = new_admin
    /\ pending_admin' = None
    /\ pending_admin_expiry' = None
    /\ UNCHANGED <<nominator, nominatedAt, upgrade, code, ledger>>

AcceptAdmin(new_admin) ==
    /\ pending_admin = new_admin
    /\ ledger < pending_admin_expiry
    /\ admin' = new_admin
    /\ pending_admin' = None
    /\ pending_admin_expiry' = None
    /\ UNCHANGED <<nominator, nominatedAt, upgrade, code, ledger>>

CancelAdminProposal(current_admin) ==
    /\ admin = current_admin
    /\ pending_admin' = None
    /\ pending_admin_expiry' = IF pending_admin = None THEN pending_admin_expiry ELSE None
    /\ UNCHANGED <<admin, nominator, nominatedAt, upgrade, code, ledger>>

-----------------------------------------------------------------------------
(* Upgrade *)

\* A second proposal overwrites the first and restarts the clock.
ReadyAt_KeepsClock ==
    IF pending_upgrade_ready_at = None
    THEN ledger + UPGRADE_TIMELOCK_LEDGERS
    ELSE pending_upgrade_ready_at

ReadyAt == ledger + UPGRADE_TIMELOCK_LEDGERS

ProposeUpgrade(a, new_wasm_hash) ==
    /\ admin = a
    /\ FitsU32(ledger + UPGRADE_TIMELOCK_LEDGERS)
    /\ pending_upgrade_hash' = new_wasm_hash
    /\ pending_upgrade_ready_at' = ReadyAt
    /\ announcedAt' = ledger
    /\ UNCHANGED <<admin, rotation, code, ledger>>

\* The new hash becomes the factory's code, and is stored in token_wasm_hash.
ExecuteUpgrade_AnyHash(a, new_wasm_hash) ==
    /\ admin = a
    /\ pending_upgrade_hash # None
    /\ pending_upgrade_ready_at # None
    /\ ledger >= pending_upgrade_ready_at
    /\ pending_upgrade_hash' = None
    /\ pending_upgrade_ready_at' = None
    /\ token_wasm_hash' = new_wasm_hash
    /\ factoryWasm' = new_wasm_hash
    /\ UNCHANGED <<admin, rotation, announcedAt, ledger>>

ExecuteUpgrade(a, new_wasm_hash) ==
    /\ admin = a
    /\ pending_upgrade_hash # None
    /\ pending_upgrade_ready_at # None
    /\ ledger >= pending_upgrade_ready_at
    /\ pending_upgrade_hash = new_wasm_hash
    /\ pending_upgrade_hash' = None
    /\ pending_upgrade_ready_at' = None
    /\ token_wasm_hash' = new_wasm_hash
    /\ factoryWasm' = new_wasm_hash
    /\ UNCHANGED <<admin, rotation, announcedAt, ledger>>

CancelUpgrade(a) ==
    /\ admin = a
    /\ pending_upgrade_hash' = None
    /\ pending_upgrade_ready_at' = IF pending_upgrade_hash = None
                                   THEN pending_upgrade_ready_at ELSE None
    /\ UNCHANGED <<admin, rotation, announcedAt, code, ledger>>

CloseLedger ==
    /\ ledger < MaxLedger
    /\ ledger' = ledger + 1
    /\ UNCHANGED <<admin, rotation, upgrade, code>>

-----------------------------------------------------------------------------
RotationNext ==
    \E a \in Accounts : \/ \E b \in Accounts : ProposeAdmin(a, b)
                        \/ AcceptAdmin(a)
                        \/ CancelAdminProposal(a)

UpgradeNext ==
    \E a \in Accounts : \/ \E h \in Hashes : ProposeUpgrade(a, h) \/ ExecuteUpgrade(a, h)
                        \/ CancelUpgrade(a)

Next == RotationNext \/ UpgradeNext \/ CloseLedger

Spec == Init /\ [][Next]_vars

-----------------------------------------------------------------------------
(* Properties *)

\* Every variable has its type.
TypeOK ==
    /\ admin \in Accounts
    /\ pending_admin \in Accounts \cup {None}
    /\ pending_admin_expiry \in (0..MaxLedger) \cup {None}
    /\ pending_upgrade_hash \in Hashes \cup {None}
    /\ pending_upgrade_ready_at \in (0..MaxLedger) \cup {None}
    /\ token_wasm_hash \in Hashes \cup {TokenWasm}
    /\ factoryWasm \in Hashes
    /\ ledger \in 0..MaxLedger
    /\ nominator \in Accounts \cup {None}
    /\ nominatedAt \in 0..ledger
    /\ announcedAt \in 0..ledger

\* A rotation that can still be accepted was proposed by the administrator in
\* office, names somebody else and lapses with the window that its own
\* proposal opened: no proposal outlives the office of who made it
\* (propose_admin, accept_admin and cancel_admin_proposal in any order).
ProposalIsTheIncumbents ==
    pending_admin # None =>
        /\ nominator = admin
        /\ pending_admin # admin
        /\ pending_admin_expiry = nominatedAt + ADMIN_PROPOSAL_TTL_LEDGERS

\* A pending upgrade is not ready before the whole timelock has run since the
\* proposal of this very hash, the last upg_prop event.
UpgradeWaitsForItself ==
    pending_upgrade_hash # None =>
        pending_upgrade_ready_at = announcedAt + UPGRADE_TIMELOCK_LEDGERS

\* What a watcher of adm_prop and adm_can is promised: the administrator is
\* replaced only by the account last proposed, and only before its expiry.
Rotation == INSTANCE AnnouncedChange WITH
    Values <- Accounts, MinAge <- 0, MaxAge <- ADMIN_PROPOSAL_TTL_LEDGERS,
    current <- admin, announced <- pending_admin, since <- nominatedAt, now <- ledger

RotationIsAnnounced == Rotation!Spec

\* What a watcher of upg_prop and upg_can is promised: the factory's code is
\* replaced only by the hash last proposed, and not before the timelock.
Upgrade == INSTANCE AnnouncedChange WITH
    Values <- Hashes, MinAge <- UPGRADE_TIMELOCK_LEDGERS, MaxAge <- MaxLedger + 1,
    current <- factoryWasm, announced <- pending_upgrade_hash,
    since <- announcedAt, now <- ledger

UpgradeIsAnnounced == Upgrade!Spec

\* The README's description of the stored hash: "the hash of a
\* separately-deployed, audited SEP-41 token contract WASM", never the
\* factory's own.
TokenHashIsTokenCode == token_wasm_hash = TokenWasm

=============================================================================
