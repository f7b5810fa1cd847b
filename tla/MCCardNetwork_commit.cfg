CONSTANTS
    t1 = t1
    t2 = t2
    k1 = k1
    s1 = s1
    s2 = s2
    v1 = v1
    None = None
    Kind <- AllDebits
    Amount <- Ones
    Atc <- Chipless
    Txns = {t1}
    Cancels = {}
    MaxAttempts = 2
    Duplicates = FALSE
    MaxCrashes = 0
    GatewayFaults = {}
    Opening = 1
    Overdraft = 0
    PerTxn = 5
    DailyCount = 5
    DailyAmount = 5
    Sessions = {s1}
    RevSessions = {v1}
    IssuerFaults = {"commit"}
SPECIFICATION Spec
INVARIANTS DeclinedHoldsNothing
CHECK_DEADLOCK FALSE
