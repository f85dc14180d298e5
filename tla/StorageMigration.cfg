SPECIFICATION Spec
CONSTANTS
    Node = {n1}
    Content = {x, y, z}
    Short = {z}
    MaxFaults = 1
    MaxRuns = 3
    MaxRestarts = 2
    None = None
INVARIANTS
    TypeOK
    ServesAcknowledged
PROPERTIES
    ResumesWhereItLeft
CHECK_DEADLOCK FALSE
