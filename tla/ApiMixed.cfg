CONSTANTS
    u1 = u1
    u2 = u2
    d1 = d1
    g1 = g1
    w = w
    k1 = k1
    k2 = k2
    i1 = i1
    i2 = i2
    Keys = {k1, k2}
    StartsWith <- MCStartsWith
    PageSize = 1
    Versioned = TRUE
    NoFile = NoFile
    Requests = {u1, u2, d1, g1, w}
    RequestIds = {i1}
    StoredBefore <- MCStoredBefore
    FirstVid <- MCFirstVid
    MaxFiles = 2
    MaxAttempts = 1
    Uploaders = {u1}
    Deleters = {d1}
    Readers = {g1}
    Asks <- MCFewAsks
    DeleteAsks <- MCTwiceDeletes
SPECIFICATION ApiSpec
SYMMETRY MCSymmetry
INVARIANTS
    ApiTypeOK
    DetailsHideNothing
    ConfirmedSurvives
    ReportIsTrue
PROPERTIES
    ImplementsAuditedStore
CHECK_DEADLOCK FALSE
