SPECIFICATION MCSpec
CONSTANTS
    Accounts = {a, b}
    Salts = {s1, s2}
    Uris = {u1, u2}
    NoCap = NoCap
    FeeValues = {0, 1, 2}
    Amounts = {0, 1, 2}
    Funds = 3
    MaxTokenCount = 3
    MaxAmount = 3
    MaxBatchSize = 2
    MetadataMaxUpdates = 2
SYMMETRY MCSymmetry
INVARIANTS
    TypeOK
    CapRespected
    CounterExact
    RegistryConsistent
    CreatorListsExact
PROPERTIES
    PausedQuiet
    ImplementsPromise
    MetadataFinal
    ChargeWithinQuote
    EveryTokenPaidFor
