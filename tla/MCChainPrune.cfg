\* Block files are deleted, blocks are fetched again, and the process restarts.
SPECIFICATION Spec
CONSTANTS
    Tree <- Twins
    Blocks <- MCBlocks
    Genesis = 0
    Parent <- MCParent
    Chain <- MCChain
    Height <- MCHeight
    Work <- MCWork
    Addr <- MCAddr
    ConnectBad = {}
    ContextBad = {}
    Corrupt = {}
    None = None
    Threads = {p1}
    Features = {"prune", "crash"}
    MIN_BLOCKS_TO_KEEP = 1
    MaxSeq = 5
    MaxPrecious = 0
INVARIANTS
    BetterAreUnlinked
    NothingBetterForgotten
    LinkedMeansReceived
