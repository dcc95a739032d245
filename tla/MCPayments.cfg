SPECIFICATION Spec
CONSTANTS
    s1 = s1
    s2 = s2
    o1 = o1
    o2 = o2
    root = root
    u1 = u1
    Source = {s1, s2}
    Kinds <- MCKinds
    PaidTo <- MCPaidTo
    Org = {o1, o2, root}
    User = {u1}
    Root = root
    Minted = {o1, o2}
    Holders <- MCHolders
    Treasury <- MCTreasury
    Amount = 5
    Commission = 20
    Readings = {0, 75}
    BatchSize = 1
    MaxDepth = 1
    MaxMoves = 1
    MaxCrash = 1
INVARIANTS
    SharesFit
    ProfitLostNeedsCause
    SplitIsFunded
CHECK_DEADLOCK FALSE
