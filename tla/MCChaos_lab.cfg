CONSTANTS
    None = None
    c1 = c1
    c2 = c2
    k1 = k1
    k2 = k2
    h1 = h1
    h2 = h2
    Cards <- TwoCards
    Keys = {k1, k2}
    Sizes = {1, 2}
    MaxPurchases = 3
    MaxPuts = 3
    Handlers = {h1, h2}
    MaxRestarts = 1
SYMMETRY Interchangeable
SPECIFICATION Spec
INVARIANTS OneRun ScenariosReported
PROPERTIES VerdictSound
CHECK_DEADLOCK FALSE
