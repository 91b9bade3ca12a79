CONSTANTS
    d1 = d1
    d2 = d2
    w = w
    k1 = k1
    k2 = k2
    k3 = k3
    i1 = i1
    Keys = {k1, k2, k3}
    StartsWith <- MCStartsWith
    PageSize = 4
    Versioned = TRUE
    NoFile = NoFile
    Requests = {d1, d2, w}
    RequestIds = {i1}
    StoredBefore <- MCStoredBefore
    FirstVid <- MCFirstVid
    MaxFiles = 2
    Deleters = {d1, d2}
    DeleteAsks <- MCDeleteK1K2
SPECIFICATION DeleteSpec
SYMMETRY MCSymmetry
INVARIANTS
    DeletedIsGone
    DeleteAuditIsTrue
PROPERTIES
    DeletesOnlyListed
CHECK_DEADLOCK FALSE
