SPECIFICATION FairSpec
CONSTANTS
    Node = {n1, n2}
    Key = {k1, k2, k3}
    Req = {r1, r2}
    Cap = 0
    Ops = {"upload", "trash", "purge"}
    None = None
CHECK_DEADLOCK FALSE
PROPERTIES
    ListedPurged
