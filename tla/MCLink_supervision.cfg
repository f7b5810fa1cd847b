CONSTANTS
    r1 = r1
    Nobody = Nobody
    Reqs = {r1}
    MaxSends = 2
    EchoFailureLimit = 2
    MaxManual = 1
    MaxBreaks = 1
SPECIFICATION FairLinkSpec
INVARIANTS OneExchange
PROPERTIES DownIsTold SignsOnAgain StuckReaderHeals Reconnects
CHECK_DEADLOCK FALSE
