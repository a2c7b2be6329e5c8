\* Every kind of request, two faults at any await, a debug call.
SPECIFICATION FairSpec
CONSTANTS
    e1 = e1
    e2 = e2
    invented = invented
    misshapen = misshapen
    illegible = illegible
    Id = {i1}
    EventId <- MCEventId
    Citation <- MCCitation
    Shapeless <- MCShapeless
    Unstorable <- MCUnstorable
    Asked = {"approved", "raising", "unknown", "invalid", "unstorable"}
    LLM_PROVIDER = "gemini"
    MaximumRounds = 2
    MaxRequests = 2
    MaxFaults = 2
    MaxDebug = 1
INVARIANTS
    TypeOK
    EvidenceBacked
    EvidenceCited
    ReplyAgrees
    SettledUnlessBroken
    ExecutionsRecorded
PROPERTIES
    Finality
    RunningEnds
CHECK_DEADLOCK FALSE
