\* Every list of up to 8 transactions, and every set of matches.
SPECIFICATION Spec
CONSTANTS
    Txids <- MCTxids
    MaxLeaves = 8
INVARIANTS
    RootIsTreeRoot
    MutationsDetected
    BranchLeadsToRoot
    StepsLeadToRoot
    PartialTreeRoundTrip
CHECK_DEADLOCK FALSE
