SPECIFICATION Spec
CONSTANTS
    NoCred = NoCred
    NoKey = NoKey
    Keys = {k1}
    Creds = {c1}
    Txns = {t1, t2}
    Callers = {u1}
    Syncers = {}
    Kinds = {"success", "failure", "enable", "disable", "restore", "remove", "add"}
    Scans = {}
    Threshold = 2
    MaxSkip = 1
    MaxTries = 2
    MaxFails = 2
    MaxListed = 3
    Coolable = {}
    RowLock = TRUE
    LockedAt = {"update"}
    StoreFaults = {}
    Crashes = {}
SYMMETRY Symmetry
INVARIANT TypeOK
INVARIANT OnlyActiveListed
INVARIANT ListedOnce
INVARIANT StoreFollows
INVARIANT CountNeverAhead
PROPERTY NoPrematureBlacklist
