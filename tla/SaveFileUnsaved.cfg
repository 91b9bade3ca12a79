CONSTANTS
    r1 = r1
    r2 = r2
    r3 = r3
    k1 = k1
    k2 = k2
    i1 = i1
    i2 = i2
    Keys = {k1}
    StartsWith <- MCStartsWith
    PageSize = 1000
    Versioned = TRUE
    NoFile = NoFile
    Requests = {r1, r2, r3}
    RequestIds = {i1}
    StoredBefore <- MCStoredBefore
    FirstVid <- MCFirstVid
    MaxFiles = 1
    Uploaders = {r1, r2}
    Asks <- MCSingleAsks
    MaxAttempts = 1
SPECIFICATION UploadSpec
INVARIANTS
    NotCreatedMeansNotSaved
CHECK_DEADLOCK FALSE
