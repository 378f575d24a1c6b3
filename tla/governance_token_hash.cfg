SPECIFICATION Spec
CONSTANTS
    Accounts = {a, b, c}
    Hashes = {h1, h2, h3}
    TokenWasm = TokenWasm
    None = None
    ADMIN_PROPOSAL_TTL_LEDGERS = 2
    UPGRADE_TIMELOCK_LEDGERS = 2
    MaxLedger = 6
SYMMETRY MCSymmetry
INVARIANT
    TokenHashIsTokenCode
