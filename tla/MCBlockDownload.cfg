SPECIFICATION FairSpec
CONSTANTS
    Peers = {h, s}
    NoPeer = NoPeer
    Blocks = {1, 2}
    Parent <- Short
    Preferred = {h}
    Whitelisted = {h}
    Honest = {h}
    MaxInTransit = 1
    Window = 1
    MinBlocksToKeep = 1
    DayHeight = 1
    RecentHeight = 1
INVARIANT
    InFlightConsistent
    TransitBounded
    StallerOwes
PROPERTY
    SyncCompletes
CHECK_DEADLOCK FALSE
