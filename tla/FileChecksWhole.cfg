CONSTANTS
    size = size
    type = type
    sql = sql
    tag = tag
    Rules = {size, type}
    Scans = {sql, tag}
    Undecodable = Undecodable
    Files <- MCFiles
    Configs <- MCConfigs
SPECIFICATION ChecksSpec
INVARIANTS
    ChecksTypeOK
    SavedIsWhole
    StoredPassedChecks
    ReportIsComplete
CHECK_DEADLOCK FALSE
