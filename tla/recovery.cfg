SPECIFICATION RecoverySpec
CONSTANTS
    c1 = c1
    v1 = v1
    o1 = o1
    t1 = t1
    t2 = t2
    Nobody = Nobody
    NoTx = NoTx
    Txs <- TwoTxs
    Creators <- OneCreator
    Voters <- OneVoter
    Observers <- OneObserver
    Registered <- Lanes
    Decisions <- YesOrNo
    NumDReps = 2
    EpochLength = 2
    ActionLifetime = 0
    Window = 2
    MaxSlot = 9
    LastTestSlot = 3
    LastCreateSlot = 0
SYMMETRY TxSymmetry
CHECK_DEADLOCK FALSE
INVARIANTS
    ExpiryLaneUnvoted
    GuidedVotesKept
    RecoveryVerdict
PROPERTIES
    ImplementsReceiverPool
