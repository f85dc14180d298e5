SPECIFICATION MCSpec
CONSTANTS
    Content = {x, y, z}
    Unreadable = {z}
    Proc = {p1, p2}
    Slots = 2
    MaxCommits = 3
    MaxFaults = 1
    None = None
INVARIANTS
    TypeOK
    DoneIsIndexed
PROPERTIES
    JobsEnd
CHECK_DEADLOCK FALSE
