SPECIFICATION ClientSpec
CONSTANTS
    t1 = t1
    t2 = t2
    w1 = w1
    w2 = w2
    Tokens = {t1, t2}
    Wallets = {w1, w2}
    Images = {photo}
    Creator <- MCCreator
    Nobody = Nobody
    NoUri = NoUri
    MaxUpdates = 2
    MaxAttempts = 2
    UNPIN_RATIO_FLOOR = 1
    MAX_UNPIN_PERCENT = 50
    n1 = n1
    Addresses = {A, B}
    Networks = {n1, n2}
    None = None
    MaxInFlight = 2
    Accounts = {G}
    Tabs = {left, right}
    ChallengeLife = 2
    TokenLife = 2
    CacheLife = 1
    MaxDrawn = 3
    MaxTime = 4
    c1 = c1
    Chains = {c1, c2}
    PAGE_SIZE = 2
    MaxCount = 3
    indexerEnabled = FALSE
    IndexedChain = c1
    MaxLate = 1
INVARIANTS
    OnlySelectedAccounts
    BalanceOfShownAccount
    OneTimeUse
    RefusalsExplained
    CachedTokenAccepted
    LatestWins
    WindowsTile
PROPERTIES
    JobSparesUploadsAndReferences
SYMMETRY Symmetry
CHECK_DEADLOCK FALSE
