SPECIFICATION Spec
CONSTANTS
    Subject = {s1}
    Req = {r1, r2}
    Ttl = 2
    Wait = 2
    Dialect = "sqlite"
    None = None
    Orphan = Orphan
PROPERTIES
    OnlyOvertakenGiveUp
CHECK_DEADLOCK FALSE
