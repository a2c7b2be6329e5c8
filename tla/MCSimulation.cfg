\* Two runs at any times; a minute of three ticks, an hour of one minute.
SPECIFICATION FairSimSpec
CONSTANTS
    RowId <- MCRowId
    Pid = {4242}
    Name = {"python3"}
    Dest = {"old", "new", "spread"}
    Stamp <- MCStamp
    Minute = 3
    MaxNow = 8
    Thresholds = {2}
    Spans = {1}
    Limits = {1}
    Run <- MCRun
    Hour = 1
    Second = 1
    Gap = 1
    BaselineEvents = 1
    BurstEvents = 3
    MostEvents = 2
    BurstThreshold = 2
    Spread <- MCSpread
    BaselineDestination = "old"
    NewDestination = "new"
    SIMULATED_PID = 4242
    ProcessName = "python3"
    MaxCrashes = 1
INVARIANTS
    BurstReported
    IncidentUnusual
PROPERTY
    SimulatorEnds
CHECK_DEADLOCK FALSE
