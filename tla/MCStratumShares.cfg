\* A miner that submits work in range, out of range and malformed, in two spellings and again
\* and again, while another one connects, the table of jobs turns over and the clock is set back.
SPECIFICATION Spec
CONSTANTS
    c1 = c1
    c2 = c2
    t1 = t1
    t2 = t2
    upper = upper
    lower = lower
    Default = Default
    Torn = Torn
    None = None
    Clients = {c1, c2}
    Tips = {t1, t2}
    FirstTips = {t1}
    Height <- Heights
    Works <- Spellings
    MaxShares <- Submissions
    Frozen = {}
    Users = {}
    MaxConn = 1
    MaxJobs = 2
    MaxDupes = 1
    Base = 2
    Rate = 1
    RateLimit = 1
    Refresh = 1
    Future = 0
    MaxTips = 1
    MaxMempool = 0
    MaxTime = 2
    MaxBack = 1
    Quiet = 2
INVARIANTS
    ConnectionsBounded
    CreditedOnce
    CurrentJobKept
SYMMETRY Symmetry
CHECK_DEADLOCK FALSE
