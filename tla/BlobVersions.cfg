SPECIFICATION Spec
CONSTANTS
    Node = {n1}
    Key = {k1, k2, k3, k4}
    Req = {r1}
    Cap = 2
    Ops = {"upload", "overwrite", "restoreVersion", "trash", "gc", "crash"}
    None = None
SYMMETRY Symmetry
CHECK_DEADLOCK FALSE
INVARIANTS
    AcknowledgedReadable
    StuckKeepsAcknowledged
    VersionsBounded
    AtMostOneActive
