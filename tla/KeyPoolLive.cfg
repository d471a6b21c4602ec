SPECIFICATION FairSpec
CONSTANTS
    NoCred = NoCred
    NoKey = NoKey
    Keys = {k1}
    Creds = {c1, c2}
    Txns = {t1}
    Callers = {u1}
    Syncers = {s1}
    Kinds = {"failure", "edit"}
    Scans = {"load"}
    Threshold = 1
    MaxSkip = 2
    MaxTries = 2
    MaxFails = 1
    MaxListed = 3
    Coolable = {}
    RowLock = TRUE
    LockedAt = {"update", "commit"}
    StoreFaults = {}
    Crashes = {"memory", "redis"}
PROPERTY OperationsEnd
PROPERTY LoadServesActive
