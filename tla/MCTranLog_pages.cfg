SPECIFICATION Spec
CONSTANTS
    r1 = r1
    r2 = r2
    Requests = {r1, r2}
    Modulus = 3
    TicksPerHour = 1
    MaxTime = 1
    PageSize = 1
    MaxDraws = 5
    MaxRows = 3
    MaxRestarts = 1
    None = None
INVARIANTS RRNUnique ListedOnce NoneSkipped
CHECK_DEADLOCK FALSE
SYMMETRY Symmetric
