CONSTANTS
    t1 = t1
    t2 = t2
    k1 = k1
    s1 = s1
    s2 = s2
    v1 = v1
    None = None
    Kind <- AllDebits
    Amount <- Ones
    Atc <- Chipless
    Txns = {t1}
    Cancels = {k1}
    MaxAttempts = 2
    Duplicates = FALSE
    MaxCrashes = 1
    GatewayFaults = {"link"}
    Opening = 1
    Overdraft = 0
    PerTxn = 5
    DailyCount = 5
    DailyAmount = 5
    Sessions = {s1}
    RevSessions = {v1}
    IssuerFaults = {"crash"}
SPECIFICATION FairSpec
CHECK_DEADLOCK FALSE
PROPERTIES EventuallyReconciled ImplementsPurchase
