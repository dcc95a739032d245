SPECIFICATION MCSpec
CONSTANTS
    r1 = r1
    r2 = r2
    Party = {a, b}
    NoParty = NoParty
    Send = {r1, r2}
    Kinds <- MCKinds
    MaxRun = 2
    MaxStop = 1
    Mine = Mine
    TheRoot = TheRoot
    Other = Other
    MaxInstr = 2
    MaxAmount = 2
SYMMETRY Symmetry
INVARIANTS
    EarnedStaysPositive
    SentIsMoved
    HistoryAddsUp
CHECK_DEADLOCK FALSE
