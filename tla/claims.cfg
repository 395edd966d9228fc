SPECIFICATION Spec
CONSTANTS
    c1 = c1
    c2 = c2
    v1 = v1
    o1 = o1
    o2 = o2
    t1 = t1
    t2 = t2
    Nobody = Nobody
    NoTx = NoTx
    Txs <- TwoTxs
    Creators <- TwoCreators
    Voters <- OneVoter
    Observers <- TwoObservers
    Registered <- OrdinaryOnly
    Decisions <- YesOnly
    NumDReps = 3
    EpochLength = 1
    ActionLifetime = 0
    Window = 1
    MaxSlot = 4
    LastCreateSlot = 3
SYMMETRY Symmetry
CHECK_DEADLOCK FALSE
PROPERTIES
    ImplementsReceiverPool
INVARIANTS
    TypeOK
    OneUnsettledPerReceiver
    ObservedClaimIsCurrent
    OutcomeAttributed
    NoFalseOverpay
