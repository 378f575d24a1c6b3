SPECIFICATION FairSpec
CONSTANTS
    MaxEnvelopes = 3
    maxSendAttempts = 3
    maxConsecutiveTransportErrors = 2
    Bound = 2
    MaxLedger = 7
INVARIANTS
    VerdictsStayTrue
    RetryExecutesOnce
PROPERTY
    EverySubmissionEnds
CHECK_DEADLOCK FALSE
