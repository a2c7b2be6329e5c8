\* Liveness with an event the schema refuses among the first of a batch.
SPECIFICATION FairSpec
CONSTANTS
    e1 = e1
    e2 = e2
    bad = bad
    heavy = heavy
    port8000 = port8000
    Traffic = {e1, bad}
    PostEvent = post
    DatabaseEvent = database
    Malformed = {}
    ApiPorts = {}
    Invalid = {bad}
    Unstorable = {}
    s1 = s1
    s2 = s2
    Slot <- MCSlot
    RingSize = 2
    BatchSize = 2
    SliceSize = 2
    MaxLength = 2
    MaxFaults = 0
PROPERTIES
    NoneHeldBack
CHECK_DEADLOCK FALSE
