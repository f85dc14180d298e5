SPECIFICATION FairSpec
CONSTANTS
    Node = {n1}
    Key = {k1, k2, k3}
    Req = {r1, r2}
    Cap = 1
    Ops = {"upload", "overwrite", "gc"}
    None = None
CHECK_DEADLOCK FALSE
INVARIANTS
    VersionsUnique
PROPERTIES
    UntrackedReclaimed
    CollectableReclaimed
