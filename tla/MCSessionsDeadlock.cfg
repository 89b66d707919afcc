SPECIFICATION MCSpec
CONSTANTS
    None = None
    Nothing = Nothing
    Parts = {"locks"}
    s1 = s1
    s2 = s2
    s3 = s3
    t1 = t1
    t2 = t2
    c1 = c1
    c2 = c2
    Sess = {s1, s2, s3}
    CreatesIndex = TRUE
    LockCases <- MCLockCases
    Tx = {t1, t2}
    Caller = {c1, c2}
    Cases <- MCMultiCases
    Workers = 2
    Session = {s1, s2}
    Absent = Absent
    NoEntry = NoEntry
    CallsCases <- MCCallsCases
    Reg = {t1, t2}
    Asker = {s1, s2}
    Settings <- MCRuleSettings
    MaxPosts = 2
    MaxId = 2
    Capacity = 1
    MaxQueries = 6
    MaxHits = 1
CHECK_DEADLOCK FALSE
PROPERTY ReadersReturn
