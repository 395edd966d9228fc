SPECIFICATION FairSpec
CONSTANTS
    Transfers = {f1, f2}
    Fanouts = {x1}
    NoTx = NoTx
    Free = Free
    Unsigned = Unsigned
    SetupReceivers = {1, 2}
    Proposals = {1, 2}
    MaxBatches = 1
CHECK_DEADLOCK FALSE
INVARIANTS
    MarkersTruthful
    OneGuidedProposal
    FaucetUncontended
    OneOpenTransfer
    BatchesIndependent
PROPERTIES
    SetupCompletes
    BatchesKeepComing
