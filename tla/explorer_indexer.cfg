SPECIFICATION PageSpec
CONSTANTS
    Chains = {c1}
    PAGE_SIZE = 2
    MaxCount = 4
    indexerEnabled = TRUE
    IndexedChain = c1
INVARIANT
    WindowsTile
CHECK_DEADLOCK FALSE
