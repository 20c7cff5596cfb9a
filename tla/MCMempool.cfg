SPECIFICATION Spec
CONSTANTS
    t1 = t1
    t2 = t2
    t3 = t3
    t4 = t4
    t5 = t5
    Txs = {t1, t2, t3, t4, t5}
    None = None
    Base = Base
    Vin <- Diamond
    Fee <- Fees
    Replaceable = {t2}
    LimitAncestors = 4
    LimitDescendants = 3
    MaxPool = 3
    incrementalRelayFee = 1
    MaxHeight = 2
    MaxBlockTx = 2
    MaxDelta = 1
INVARIANT
    LinksMatchPackages
    CheckPasses
    InputsAvailable
