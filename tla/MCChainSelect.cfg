\* Two branches, one ending in a block that cannot be connected, the other holding one that cannot
\* be accepted; invalidateblock at any time, preciousblock once after the chain grew; one thread.
SPECIFICATION FairSpec
CONSTANTS
    Tree <- Fork
    Blocks <- MCBlocks
    Genesis = 0
    Parent <- MCParent
    Chain <- MCChain
    Height <- MCHeight
    Work <- MCWork
    Addr <- MCAddr
    ConnectBad = {5}
    ContextBad = {2}
    Corrupt = {}
    None = None
    Threads = {p1}
    Features = {"invalidate", "precious"}
    MIN_BLOCKS_TO_KEEP = 2
    MaxSeq = 6
    MaxPrecious = 1
INVARIANTS
    BestChainActive
    CandidatesExact
    UnlinkedComplete
    ActiveChainValid
    FailedHasCause
PROPERTIES
    ActivationEnds
