\* More requests than connections, with two of them waiting in vain.
SPECIFICATION FairSpec
CONSTANTS
    i1 = i1
    i2 = i2
    e = e
    b = b
    Investigation <- MCInvestigation
    Event <- MCEvent
    Batch <- MCBatch
    Capacity = 2
    MaxRounds = 2
    MaxTools = 2
    MaxTimeouts = 2
INVARIANTS
    PoolSpared
    StoredAsTold
    RunningExplained
PROPERTY
    AllEnd
CHECK_DEADLOCK FALSE
