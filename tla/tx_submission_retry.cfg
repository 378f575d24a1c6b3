SPECIFICATION Spec
CONSTANTS
    MaxEnvelopes = 2
    maxSendAttempts = 5
    maxConsecutiveTransportErrors = 5
    Bound = 2
    MaxLedger = 6
INVARIANT
    RetryCannotDoubleExecute
CHECK_DEADLOCK FALSE
