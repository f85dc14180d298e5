SPECIFICATION Spec
CONSTANTS
    Node = {n1, n2, n3}
    Key = {k1, k2, k3, k4}
    Req = {r1}
    Cap = 1
    Ops = {"upload", "overwrite", "copy", "trash", "fault", "crash"}
    None = None
SYMMETRY Symmetry
CHECK_DEADLOCK FALSE
INVARIANTS
    AcknowledgedReadable
    SharersBounded
PROPERTIES
    CopiesIsolated
