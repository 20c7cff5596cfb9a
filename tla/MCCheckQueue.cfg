SPECIFICATION FairSpec
CONSTANTS
    Workers = {w1, w2}
    Masters = {m1, m2}
    Group = {m1}
    NoMaster = NoMaster
    Checks = {1, 2, 3, 4}
    Bad = {3}
    nBatchSize = 2
    MaxBlocks = 2
INVARIANT
    CountsExact
PROPERTY
    ImplementsCheckBatch
    WaitEnds
CHECK_DEADLOCK FALSE
