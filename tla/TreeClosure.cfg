SPECIFICATION Spec
SYMMETRY Symmetry
CONSTANTS
    Node = {n1, n2, n3, n4}
    Purger = {p1, p2}
    Top = Top
    TrashOps = {"under"}
INVARIANTS
    TypeOK
    ClosureExact
    MovesEnd
PROPERTIES
    TrashedWhole
    DeletesSubtreeOnly
    PurgesWhole
