\* Good, refused and filtered events, one fault, Ctrl+C at any point.
SPECIFICATION MCFairSpec
CONSTANTS
    e1 = e1
    e2 = e2
    bad = bad
    heavy = heavy
    port8000 = port8000
    Traffic <- MCTraffic
    PostEvent = post
    DatabaseEvent = database
    Malformed = {}
    ApiPorts <- MCApiPorts
    Invalid <- MCInvalid
    Unstorable <- MCUnstorable
    s1 = s1
    s2 = s2
    Slot <- MCSlot
    RingSize = 1
    BatchSize = 2
    SliceSize = 2
    MaxLength = 2
    MaxFaults = 1
INVARIANTS
    TypeOK
    Accounting
    AckedIsStored
    DuplicatesExplained
    InFlight
PROPERTIES
    EventuallyStored
    InterruptEnds
    FallsSilent
    DeliversAtLeastOnce
CHECK_DEADLOCK FALSE
