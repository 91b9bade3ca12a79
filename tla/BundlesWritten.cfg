CONSTANTS
    short = short
    long = long
    Dirs = {d1, d2}
    Ids = {short, long}
    StartsWith <- MCStartsWith
    Buckets = {b1, b2}
    Routes = {route}
    Absent = Absent
    Unreadable = Unreadable
    MaxCommands = 2
    MaxHandEdits = 1
SPECIFICATION BundleSpec
SYMMETRY MCSymmetry
INVARIANTS
    BundleTypeOK
    DoneIsWritten
    BrokenByWriter
PROPERTIES
    AddOverwritesNothing
    GrantNeedsConfig
CHECK_DEADLOCK FALSE
