SPECIFICATION Spec
CONSTANTS
    d1 = d1
    d2 = d2
    d3 = d3
    b1 = b1
    c1 = c1
    q1 = q1
    x1 = x1
    s1 = s1
    s2 = s2
    v1 = v1
    v2 = v2
    Originals = {d1}
    Kind <- KindOf
    Amount <- AmountOf
    Atc <- ChipOf
    Opening = 3
    Overdraft = 0
    PerTxn = 5
    DailyCount = 1
    DailyAmount = 5
    Sessions = {s1, s2}
    RevSessions = {v1, v2}
    Arrivals <- ArrivalsRepeats
    Faults <- AllFaults
SYMMETRY Symmetry
CHECK_DEADLOCK FALSE
INVARIANTS RowDecidesMoney ApprovedAnswerIsPosted AcknowledgedIsSettled
PROPERTIES DecidedRowKept ImplementsHold
