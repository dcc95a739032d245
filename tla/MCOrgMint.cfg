SPECIFICATION FairSpec
CONSTANTS
    Ensure = {e1}
    Boot = boot
    InitialJob = initial
    InitialAmount = 100
    MintStatusRetries = 1
    NoMint = NoMint
    MaxSend = 2
    MaxBroadcast = 4
    MaxCrash = 1
INVARIANTS
    RecordedTokenWasCreated
    CountedIsMinted
PROPERTIES
    RecordedTokenIsStable
    WaitEnds
CHECK_DEADLOCK FALSE
