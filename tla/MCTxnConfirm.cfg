SPECIFICATION FairSpec
CONSTANTS
    mintJob = mintJob
    createJob = createJob
    Job <- MCJob
    StrictJob <- MCStrictJob
    MaxSend = 3
INVARIANTS
    ReturnedIsLanded
    NilThrowHidesDuplicate
PROPERTIES
    Ends
CHECK_DEADLOCK FALSE
