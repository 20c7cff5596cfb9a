\* The server is started and stopped while clients come, go and stop reading.
SPECIFICATION FairServerSpec
CONSTANTS
    c1 = c1
    c2 = c2
    Miners = {c1, c2}
    MayFreeze = {c1}
    MaxClients = 2
    MaxStarts = 2
INVARIANTS
    NothingLeft
PROPERTIES
    StopEndsUnlessStuck
CHECK_DEADLOCK FALSE
