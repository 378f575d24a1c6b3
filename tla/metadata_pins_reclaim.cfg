SPECIFICATION Spec
CONSTANTS
    t1 = t1
    t2 = t2
    w1 = w1
    w2 = w2
    Tokens = {t1}
    Wallets = {w1}
    Images = {photo, other}
    Creator <- MCCreator
    Nobody = Nobody
    NoUri = NoUri
    MaxUpdates = 2
    MaxAttempts = 2
    UNPIN_RATIO_FLOOR = 1
    MAX_UNPIN_PERCENT = 50
PROPERTIES
    ReclaimIsTheAttemptsOwn
