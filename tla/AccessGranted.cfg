CONSTANTS
    c1 = c1
    get = get
    del = del
    bucket = bucket
    key1 = key1
    key2 = key2
    uri1 = uri1
    uri2 = uri2
    Paths = {p1, p2}
    Rules <- MCRules
    Bad = Bad
    Contents <- MCContents
    Calls = {r1}
    Credentials <- MCCredentials
    SigningKeys = {key1, key2}
    Uris = {uri1, uri2}
    FirstUri = uri1
    FirstKeys <- MCFirstKeys
    Ttl = 1
    LocalAuth = TRUE
    Clients = {c1}
    TestUser = TestUser
    Anonymous = Anonymous
    MaxTime = 1
    Routes = {get, del}
    DeleteRoute = del
    Buckets = {bucket}
    Configurations <- MCConfigurations
    None = None
    misfit = misfit
    Misfit = misfit
    MaxChanges = 2
SPECIFICATION AccessSpec
SYMMETRY MCSymmetry
INVARIANTS
    AccessTypeOK
    RevokedIsGone
    GrantedIsKept
    ServedWasAllowed
PROPERTIES
    KeyIsCurrent
CHECK_DEADLOCK FALSE
