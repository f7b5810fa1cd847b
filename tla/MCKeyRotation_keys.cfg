CONSTANTS
    None = None
    MaxRotations = 2
    SendAttempts = 2
    MaxFailures = 1
    MaxCrashes = 1
    Declinable = {1}
SPECIFICATION FairSpec
INVARIANTS IssuerKeyKept ResponseVerifies CompletedIsShared
PROPERTY EventuallyDecided
CHECK_DEADLOCK FALSE
