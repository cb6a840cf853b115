SPECIFICATION FairSpec
CHECK_DEADLOCK FALSE
CONSTANTS
    a1 = a1
    a2 = a2
    shared = shared
    own1 = own1
    own2 = own2
    Attempts = {a1, a2}
    Paths = {shared, own1, own2}
    PathOf <- MCPathOf
    Plans <- MCPlans
INVARIANTS
    RecordIsHonest
    CompletedIsWhole
    SuccessIsRecorded
    FailureStageAgrees
    DigestMatchesFile
PROPERTIES
    ContractSpec
    StartedRecordSettles
