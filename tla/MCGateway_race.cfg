CONSTANTS
    t1 = t1
    t2 = t2
    k1 = k1
    k2 = k2
    None = None
    Txns = {t1}
    Cancels = {k1, k2}
    MaxAttempts = 2
    Duplicates = TRUE
    MaxCrashes = 1
    Faults = {"db", "link", "token"}
    IssuerCodes = {"00", "91"}
SPECIFICATION Spec
INVARIANTS OneReversal OutcomeWasHeard 
PROPERTY OnlyForward
SYMMETRY Symmetry
CHECK_DEADLOCK FALSE
