\* Two miners that connect, subscribe, authorize, leave and stop reading while the tip changes.
SPECIFICATION FairSpec
CONSTANTS
    c1 = c1
    c2 = c2
    t1 = t1
    t2 = t2
    upper = upper
    lower = lower
    Default = Default
    Torn = Torn
    None = None
    Clients = {c1, c2}
    Tips = {t1, t2}
    FirstTips = {t1}
    Height <- Heights
    Works <- NoWork
    MaxShares <- Submissions
    Frozen = {c1}
    Users = {c2}
    MaxConn = 2
    MaxJobs = 2
    MaxDupes = 10
    Base = 2
    Rate = 1
    RateLimit = 1
    Refresh = 2
    Future = 4
    MaxTips = 1
    MaxMempool = 1
    MaxTime = 5
    MaxBack = 0
    Quiet = 1
PROPERTIES
    WorkCatchesUp
    PayoutCatchesUp
CHECK_DEADLOCK FALSE
