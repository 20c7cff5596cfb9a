\* Two threads deliver blocks and activate at the same time; reconsiderblock, flushes and crashes.
SPECIFICATION Spec
CONSTANTS
    Tree <- Twins
    Blocks <- MCBlocks
    Genesis = 0
    Parent <- MCParent
    Chain <- MCChain
    Height <- MCHeight
    Work <- MCWork
    Addr <- MCAddr
    ConnectBad = {4}
    ContextBad = {}
    Corrupt = {}
    None = None
    Threads = {p1, p2}
    Features = {"crash", "reconsider"}
    MIN_BLOCKS_TO_KEEP = 2
    MaxSeq = 5
    MaxPrecious = 0
INVARIANTS
    NoAssertFails
    NothingBetterForgotten
    DiskOrdered
