SPECIFICATION FairSpec
CONSTANTS
    Subject = {s1, s2, s3}
    Req = {r1, r2}
    Ttl = 2
    Wait = 2
    Dialect = "postgresql"
    None = None
    Orphan = Orphan
INVARIANTS
    TypeOK
PROPERTIES
    MutualExclusion
    OnlyOvertakenGiveUp
    RequestsEnd
CHECK_DEADLOCK FALSE
