\* One demonstration while up to three events are stored.
SPECIFICATION DemoSpec
CONSTANTS
    RowId = {r1, r2, r3}
    Pid = {p1, p2}
    Name = {a}
    Dest = {d1, d2}
    Stamp <- MCStamp
    Keys <- MCKeys
    Texts <- MCTexts
    Depth = 4
    Minute = 1
    MaxNow = 1
    Thresholds = {1}
    Spans = {1}
    Limits = {1}
    Hour = 1
    Day = 2
    MaxEvents = 2
    BurstThreshold = 1
    MaxCited = 2
SYMMETRY OpaqueSymmetry
INVARIANTS
    AllIdsExtracted
    TruncationTold
    ReportAccepted
    CitesTimeline
CHECK_DEADLOCK FALSE
