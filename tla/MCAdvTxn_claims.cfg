CONSTANTS
    p1 = p1
    c = c
    d = d
    None = None
    Txns = {p1, c, d}
    Scenarios <- AllKinds
    Original <- OfP
    MaxAttempts = 2
    MaxFailures = 1
    MaxCrashes = 1
    Faults = {"link", "token"}
    IssuerCodes = {"00", "91"}
SPECIFICATION FairSpec
INVARIANTS SentKeepsClaim CompletedOnce FollowedUpOnce
PROPERTIES OutcomeKept EventuallySettled
CHECK_DEADLOCK FALSE
