\* Two connections, on hosts of either byte order, with a clock that is set.
SPECIFICATION Spec
CONSTANTS
    Base = 2
    Endpoint <- MCEndpoint
    Micro = 2
    MaxTime = 4
    MaxConnections = 2
    StepSize = 3
    MaxSteps = 1
INVARIANTS
    DestinationTrue
    TimestampsOrdered
    ErrorExplained
CHECK_DEADLOCK FALSE
