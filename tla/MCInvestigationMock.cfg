\* The mock provider of the demo.
SPECIFICATION Spec
CONSTANTS
    e1 = e1
    e2 = e2
    invented = invented
    misshapen = misshapen
    illegible = illegible
    Id = {i1}
    EventId = {e1}
    Citation = {e1, invented}
    Shapeless = {}
    Unstorable = {}
    Asked = {"approved", "unknown", "invalid"}
    LLM_PROVIDER = "mock"
    MaximumRounds = 2
    MaxRequests = 2
    MaxFaults = 0
    MaxDebug = 0
INVARIANT
    DemoCompletes
CHECK_DEADLOCK FALSE
