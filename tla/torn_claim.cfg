SPECIFICATION FairSpec
CONSTANTS
    c1 = c1
    c2 = c2
    v1 = v1
    o1 = o1
    o2 = o2
    t1 = t1
    t2 = t2
    Nobody = Nobody
    NoTx = NoTx
    Txs <- OneTx
    Creators <- OneCreator
    Voters <- OneVoter
    Observers <- OneObserver
    Registered <- OrdinaryOnly
    Decisions <- YesOnly
    NumDReps = 3
    EpochLength = 1
    ActionLifetime = 0
    Window = 2
    MaxSlot = 3
    LastCreateSlot = 1
CHECK_DEADLOCK FALSE
PROPERTIES
    TornClaimReclaimed
