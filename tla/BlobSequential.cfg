SPECIFICATION Spec
CONSTANTS
    Node = {n1}
    Key = {k1, k2, k3}
    Req = {r1}
    Cap = 1
    Ops = {"upload", "overwrite", "repair", "trash", "purge", "gc", "fault", "crash"}
    None = None
SYMMETRY Symmetry
CHECK_DEADLOCK FALSE
INVARIANTS
    TypeOK
    AcknowledgedReadable
    LastGoodKept
    VersionsHaveBlobs
