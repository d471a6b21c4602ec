SPECIFICATION FairSpec
CONSTANTS
    NoWorker = NoWorker
    NoTask = NoTask
    Tasks = {v1, v2}
    Workers = {w1, w2}
    Slots = 1
    Lease = 3
    CreateMax = 1
    PollGap = 1
    MaxDuration = 2
    MaxFaults = 1
    Punctual = TRUE
INVARIANT TypeOK
INVARIANT SingleExecutor
PROPERTY OwnerFinishes
PROPERTY ImplementsLife
PROPERTY EveryTaskEnds
