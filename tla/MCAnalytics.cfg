\* The rules over every table of up to three rows.
SPECIFICATION Spec
CONSTANTS
    RowId = {r1, r2, r3}
    Pid = {p1, p2}
    Name = {a, b}
    Dest = {d1, d2}
    Stamp = {0, 1, 2, 3, 4}
    Minute = 2
    MaxNow = 4
    Thresholds = {1}
    Spans = {1}
    Limits = {1}
SYMMETRY OpaqueSymmetry
INVARIANTS
    BurstsTrue
    EvidenceSuffices
PROPERTIES
    BurstsPersist
    NothingMissed
    AlarmsExplained
CHECK_DEADLOCK FALSE
