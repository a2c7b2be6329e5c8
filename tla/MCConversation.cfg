\* Parallel calls, calls without ids, arguments that are not JSON.
SPECIFICATION Spec
CONSTANTS
    t1 = t1
    t2 = t2
    c1 = c1
    c2 = c2
    c3 = c3
    c4 = c4
    Providers = {"openai", "gemini"}
    Tool = {t1, t2}
    CallId = {c1, c2, c3, c4}
    NoId = NoId
    MaxParts = 2
    maximum_rounds = 2
SYMMETRY MCSymmetry
INVARIANT
    CallsAnswered
CHECK_DEADLOCK FALSE
