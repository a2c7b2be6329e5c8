\* The model asks for a tool whose audit record PostgreSQL refuses.
SPECIFICATION Spec
CONSTANTS
    e1 = e1
    e2 = e2
    invented = invented
    misshapen = misshapen
    illegible = illegible
    Id = {i1}
    EventId = {e1}
    Citation = {e1, invented}
    Shapeless = {}
    Unstorable = {}
    Asked = {"approved", "unstorable"}
    LLM_PROVIDER = "gemini"
    MaximumRounds = 2
    MaxRequests = 2
    MaxFaults = 0
    MaxDebug = 0
INVARIANT
    SettledWhenReplied
CHECK_DEADLOCK FALSE
