SPECIFICATION MCSpec
CONSTANTS
    c1 = c1
    c2 = c2
    c3 = c3
    name1 = name1
    name2 = name2
    name3 = name3
    Coll = {c1, c2, c3}
    Name = {name1, name2, name3}
    Node = {n1}
    User = {u1}
    Req = {r1, r2}
    Dialect = "sqlite"
    MaxActs = 3
    None = None
    Gone = Gone
SYMMETRY Symmetry
INVARIANTS
    UndoPossible
CHECK_DEADLOCK FALSE
