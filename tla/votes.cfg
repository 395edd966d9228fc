SPECIFICATION FairSpec
CONSTANTS
    drep1 = drep1
    pool1 = pool1
    c1 = c1
    v1 = v1
    v2 = v2
    Nobody = Nobody
    Actions <- TwoActions
    DReps <- OneDRep
    SPOs <- OnePool
    CC <- NoMember
    Creators <- OneCreator
    VoteDrivers <- TwoVoters
    NumAddrs = 2
    Lifetime = 1
    MaxEpoch = 2
    MaxPending = 1
CHECK_DEADLOCK FALSE
INVARIANTS
    OnlyStraysReplaced
PROPERTIES
    EveryActionVoted
