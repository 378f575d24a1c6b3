-------------------------- MODULE GovernanceProofs --------------------------
(***************************************************************************)
(* Theorems about Governance, for every set of keys and hashes and every   *)
(* length of the two windows.                                              *)
(***************************************************************************)
EXTENDS Governance, TLAPS

(***************************************************************************)
(* The expiry and the ready-at ledger are the only clocks the code keeps;  *)
(* the invariant ties them to the ledgers in which the proposals were made *)
(* and says that the fields of a proposal are set and cleared together.    *)
(***************************************************************************)
Together ==
    /\ pending_admin = None <=> pending_admin_expiry = None
    /\ pending_upgrade_hash = None <=> pending_upgrade_ready_at = None

IInv == TypeOK /\ Together /\ ProposalIsTheIncumbents /\ UpgradeWaitsForItself

\* The factory that __constructor leaves has no proposal pending.
LEMMA InitIInv == Init => IInv
  BY NoneAssumption, WindowAssumption
  DEF Init, IInv, TypeOK, Together, ProposalIsTheIncumbents, UpgradeWaitsForItself

\* Every call and every ledger preserves the invariant.
LEMMA NextIInv == IInv /\ [Next]_vars => IInv'
<1> SUFFICES ASSUME IInv, [Next]_vars PROVE IInv'
    OBVIOUS
<1> USE NoneAssumption, WindowAssumption
    DEF IInv, TypeOK, Together, ProposalIsTheIncumbents, UpgradeWaitsForItself,
        rotation, upgrade, code, FitsU32
<1>1. ASSUME NEW a \in Accounts, NEW b \in Accounts, ProposeAdmin(a, b) PROVE IInv'
    BY <1>1 DEF ProposeAdmin
<1>2. ASSUME NEW a \in Accounts, AcceptAdmin(a) PROVE IInv'
    BY <1>2 DEF AcceptAdmin
<1>3. ASSUME NEW a \in Accounts, CancelAdminProposal(a) PROVE IInv'
    BY <1>3 DEF CancelAdminProposal
<1>4. ASSUME NEW a \in Accounts, NEW h \in Hashes, ProposeUpgrade(a, h) PROVE IInv'
    BY <1>4 DEF ProposeUpgrade, ReadyAt
<1>5. ASSUME NEW a \in Accounts, NEW h \in Hashes, ExecuteUpgrade(a, h) PROVE IInv'
    BY <1>5 DEF ExecuteUpgrade
<1>6. ASSUME NEW a \in Accounts, CancelUpgrade(a) PROVE IInv'
    BY <1>6 DEF CancelUpgrade
<1>7. CASE CloseLedger
    BY <1>7 DEF CloseLedger
<1>8. CASE UNCHANGED vars
    BY <1>8 DEF vars
<1> QED BY <1>1, <1>2, <1>3, <1>4, <1>5, <1>6, <1>7, <1>8
        DEF Next, RotationNext, UpgradeNext

\* Every reachable state satisfies the inductive invariant.
THEOREM Invariance == Spec => []IInv
<1> QED BY InitIInv, NextIInv, PTL DEF Spec

\* The fields of the two proposals are typed.
THEOREM TypeCorrect == Spec => []TypeOK
<1>1. IInv => TypeOK
    BY DEF IInv
<1> QED BY <1>1, Invariance, PTL

\* No rotation proposal outlives the administrator who made it or its window.
THEOREM ProposalOfIncumbent == Spec => []ProposalIsTheIncumbents
<1>1. IInv => ProposalIsTheIncumbents
    BY DEF IInv
<1> QED BY <1>1, Invariance, PTL

\* A re-proposed upgrade waits for the whole timelock again.
THEOREM UpgradeClock == Spec => []UpgradeWaitsForItself
<1>1. IInv => UpgradeWaitsForItself
    BY DEF IInv
<1> QED BY <1>1, Invariance, PTL

(***************************************************************************)
(* Refinement: every step is an announcement, a withdrawal, a change that  *)
(* was announced in time, the passing of a ledger, or nothing.             *)
(***************************************************************************)
LEMMA RotationStep == IInv /\ [Next]_vars => [Rotation!Next]_(Rotation!vars)
<1> SUFFICES ASSUME IInv, [Next]_vars PROVE [Rotation!Next]_(Rotation!vars)
    OBVIOUS
<1> USE NoneAssumption, WindowAssumption
    DEF Rotation!vars, rotation, upgrade, code
<1>1. ASSUME NEW a \in Accounts, NEW b \in Accounts, ProposeAdmin(a, b)
      PROVE  Rotation!Announce(b)
    BY <1>1 DEF ProposeAdmin, Rotation!Announce
<1>2. ASSUME NEW a \in Accounts, AcceptAdmin(a) PROVE Rotation!TakeEffect
    <2>1. /\ pending_admin # None
          /\ pending_admin_expiry = nominatedAt + ADMIN_PROPOSAL_TTL_LEDGERS
          /\ nominatedAt \in 0..ledger /\ ledger \in 0..MaxLedger
        BY <1>2 DEF AcceptAdmin, IInv, TypeOK, ProposalIsTheIncumbents
    <2> QED BY <1>2, <2>1 DEF AcceptAdmin, Rotation!TakeEffect
<1>3. ASSUME NEW a \in Accounts, CancelAdminProposal(a) PROVE Rotation!Withdraw
    BY <1>3 DEF CancelAdminProposal, Rotation!Withdraw
<1>4. CASE UpgradeNext
    BY <1>4 DEF UpgradeNext, ProposeUpgrade, ExecuteUpgrade, CancelUpgrade
<1>5. CASE CloseLedger
    BY <1>5 DEF CloseLedger, Rotation!Next, Rotation!Pass, IInv, TypeOK
<1>6. CASE UNCHANGED vars
    BY <1>6 DEF vars
<1> QED BY <1>1, <1>2, <1>3, <1>4, <1>5, <1>6 DEF Next, RotationNext, Rotation!Next

\* The rotation implements AnnouncedChange: the administrator is replaced only
\* by the account last proposed and only before the proposal expires.
THEOREM RotationRefines == Spec => RotationIsAnnounced
<1>1. Init => Rotation!Init
    BY DEF Init, Rotation!Init
<1> QED BY <1>1, Invariance, RotationStep, PTL DEF Spec, RotationIsAnnounced, Rotation!Spec

\* A step of the factory is, for its code, an announcement, a withdrawal, a
\* change that was announced, time passing, or nothing.
LEMMA UpgradeStep == IInv /\ [Next]_vars => [Upgrade!Next]_(Upgrade!vars)
<1> SUFFICES ASSUME IInv, [Next]_vars PROVE [Upgrade!Next]_(Upgrade!vars)
    OBVIOUS
<1> USE NoneAssumption, WindowAssumption
    DEF Upgrade!vars, rotation, upgrade, code
<1>1. ASSUME NEW a \in Accounts, NEW h \in Hashes, ProposeUpgrade(a, h)
      PROVE  Upgrade!Announce(h)
    BY <1>1 DEF ProposeUpgrade, Upgrade!Announce
<1>2. ASSUME NEW a \in Accounts, NEW h \in Hashes, ExecuteUpgrade(a, h)
      PROVE  Upgrade!TakeEffect
    <2>1. /\ pending_upgrade_ready_at = announcedAt + UPGRADE_TIMELOCK_LEDGERS
          /\ announcedAt \in 0..ledger /\ ledger \in 0..MaxLedger
        BY <1>2 DEF ExecuteUpgrade, IInv, TypeOK, UpgradeWaitsForItself
    <2> QED BY <1>2, <2>1 DEF ExecuteUpgrade, Upgrade!TakeEffect
<1>3. ASSUME NEW a \in Accounts, CancelUpgrade(a) PROVE Upgrade!Withdraw
    BY <1>3 DEF CancelUpgrade, Upgrade!Withdraw
<1>4. CASE RotationNext
    BY <1>4 DEF RotationNext, ProposeAdmin, AcceptAdmin, CancelAdminProposal
<1>5. CASE CloseLedger
    BY <1>5 DEF CloseLedger, Upgrade!Next, Upgrade!Pass, IInv, TypeOK
<1>6. CASE UNCHANGED vars
    BY <1>6 DEF vars
<1> QED BY <1>1, <1>2, <1>3, <1>4, <1>5, <1>6 DEF Next, UpgradeNext, Upgrade!Next

\* The upgrade implements AnnouncedChange: the factory runs new code only if
\* it is the code last proposed, and only after the timelock.
THEOREM UpgradeRefines == Spec => UpgradeIsAnnounced
<1>1. Init => Upgrade!Init
    BY DEF Init, Upgrade!Init
<1> QED BY <1>1, Invariance, UpgradeStep, PTL DEF Spec, UpgradeIsAnnounced, Upgrade!Spec

=============================================================================
