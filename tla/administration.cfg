SPECIFICATION AdministrationSpec
CONSTANTS
    Accounts = {a, b, c}
    Hashes = {h1, h2, h3}
    TokenWasm = TokenWasm
    None = None
    ADMIN_PROPOSAL_TTL_LEDGERS = 2
    UPGRADE_TIMELOCK_LEDGERS = 2
    MaxLedger = 6
    NumAccounts = 4
    Treasury = 2
    BPS = 5
    BpsValues <- MCBpsValues
    MAX_FEE_SPLIT_RECIPIENTS = 3
    Amounts <- MCAmounts
    MaxI128 = 40
SYMMETRY MCSymmetry
INVARIANTS
    TypeOK
    ProposalIsTheIncumbents
    UpgradeWaitsForItself
    ExactlyCharged
    WithinOneStroop
    LargestRemainderFirst
    BrokenRecipientsIsolated
PROPERTIES
    RotationIsAnnounced
    UpgradeIsAnnounced
