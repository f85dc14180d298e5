SPECIFICATION Spec
CONSTANTS
    Node = {n1}
    Key = {k1}
    Req = {r1}
    Cap = 2
    Ops = {"upload", "trash", "purge"}
    None = None
PROPERTIES
    PurgesTrashed
CHECK_DEADLOCK FALSE
