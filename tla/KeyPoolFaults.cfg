SPECIFICATION Spec
CONSTANTS
    NoCred = NoCred
    NoKey = NoKey
    Keys = {k1}
    Creds = {c1}
    Txns = {t1}
    Callers = {u1}
    Syncers = {s1}
    Kinds = {"failure", "enable"}
    Scans = {"sync", "load"}
    Threshold = 0
    MaxSkip = 1
    MaxTries = 1
    MaxFails = 1
    MaxListed = 2
    Coolable = {k1}
    RowLock = FALSE
    LockedAt = {}
    StoreFaults = {"txn", "select", "scan"}
    Crashes = {"redis"}
SYMMETRY Symmetry
INVARIANT LendsUsable
