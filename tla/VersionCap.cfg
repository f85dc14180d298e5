SPECIFICATION Spec
CONSTANTS
    Node = {n1}
    Key = {k1, k2}
    Req = {r1}
    Cap = 1
    Ops = {"upload", "overwrite"}
    None = None
INVARIANTS
    VersionsWithinCap
CHECK_DEADLOCK FALSE
