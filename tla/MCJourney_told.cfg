SPECIFICATION Spec
CONSTANTS
    Types = {"PURCHASE", "COMPLETION", "BALANCE"}
    Start = 3
    MaxTime = 4
    PerSecond = 2
    Shift = 3
    MaxViews = 2
    None = None
INVARIANTS OffsetsOrdered ReversalTold NothingHidden
PROPERTY StepsGrow
CHECK_DEADLOCK FALSE
