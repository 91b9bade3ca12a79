CONSTANTS
    c1 = c1
    c2 = c2
    alice = alice
    bob = bob
    anonymous = anonymous
    b1 = b1
    b2 = b2
    x = x
    y = y
    Users = {alice, bob, anonymous}
    Anonymous = anonymous
    Ids = {alice, bob}
    Buckets = {b1, b2}
    Configurations <- MCConfigurations
    FilesBefore <- MCFilesBefore
    Dirs = {x, y}
    Invalid = Invalid
    None = None
    Sources = {"file", "env"}
    EnvUser = alice
    EnvBucket = b2
    Ttl = 1
    Calls = {c1, c2}
    MaxTime = 2
    MaxEdits = 1
SPECIFICATION ConfigSpec
SYMMETRY MCSymmetry
INVARIANTS
    ConfigTypeOK
    ConfigIsFresh
    
    OneBucketPerClientId
    BucketWasConfigured
CHECK_DEADLOCK FALSE
