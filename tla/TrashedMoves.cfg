SPECIFICATION Spec
SYMMETRY Symmetry
CONSTANTS
    Node = {n1, n2, n3}
    Purger = {p1}
    Top = Top
    TrashOps = {"move"}
INVARIANTS
    MovesEnd
