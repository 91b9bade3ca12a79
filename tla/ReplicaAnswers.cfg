CONSTANTS
    c1 = c1
    c2 = c2
    c3 = c3
    Calls = {c1, c2, c3}
    Kinds = {"upload", "health", "ping"}
    None = None
    Ttl = 1
    MaxTime = 1
    MaxChanges = 2
SPECIFICATION MCSpec
INVARIANTS
    ReplicaTypeOK
    VerdictIsOwn
    HealthIsTrue
PROPERTIES
    AllAnswered
CHECK_DEADLOCK FALSE
