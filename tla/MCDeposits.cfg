SPECIFICATION MCSpec
CONSTANTS
    Deposit = {d1}
    Call = {h1, h2}
    NoDeposit = NoDeposit
    NoCredit = NoCredit
    MaxRun = 2
    MaxCrash = 1
    NewUser = {u1, u2}
    Round = {j1, j2}
    Bonus = 1
    MaxRestart = 1
INVARIANTS
    FulfilledIsMinted
    MintedLeavesTrace
PROPERTIES
    FulfilledIsFinal
    Answered
    BonusReturns
CHECK_DEADLOCK FALSE
