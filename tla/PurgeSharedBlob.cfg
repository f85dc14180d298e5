SPECIFICATION Spec
CONSTANTS
    Node = {n1, n2}
    Key = {k1, k2}
    Req = {r1}
    Cap = 1
    Ops = {"upload", "copy", "trash", "purge"}
    None = None
SYMMETRY Symmetry
CHECK_DEADLOCK FALSE
INVARIANTS
    AcknowledgedReadable
