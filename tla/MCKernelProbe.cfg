\* Two threads, two destinations, maps of one entry, two unseen returns.
SPECIFICATION Spec
CONSTANTS
    t1 = t1
    t2 = t2
    p1 = p1
    Thread = {t1, t2}
    Owner <- MCOwner
    Dest = {d1, d2}
    NoEntry = NoEntry
    MaxEntries = 1
    MaxGaps = 2
INVARIANTS
    PendingMatches
    SamplesTrue
    LeaksExplained
