SPECIFICATION Spec
CONSTANTS
    Node = {n1}
    Key = {k1, k2, k3}
    Req = {r1, r2}
    Cap = 2
    Ops = {"upload", "overwrite"}
    None = None
INVARIANTS
    AtMostOneActive
CHECK_DEADLOCK FALSE
