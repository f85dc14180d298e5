SPECIFICATION Spec
CONSTANTS
    Content = {x}
    Unreadable = {}
    Proc = {p1}
    Slots = 2
    MaxCommits = 1
    MaxFaults = 1
    None = None
PROPERTIES
    LateMarksNothing
CHECK_DEADLOCK FALSE
