SPECIFICATION Spec
CONSTANTS
    Runs = {r1, r2}
    LastToken = 2
    LastEvent = 3
    EarlierVersions <- MCEarlierVersions
    METADATA_MAX_UPDATES = 3
    EarlierMapped = {}
    Faults = 1
    EVENT_PAGE_SIZE = 2
    MAX_EVENT_PAGES_PER_RUN = 2
    BACKFILL_BATCH_SIZE = 2
    MAX_BACKFILL_BATCHES_PER_RUN = 2
INVARIANTS
    NothingSkipped
PROPERTIES
    ImplementsTokenCache
    CatchesUp
