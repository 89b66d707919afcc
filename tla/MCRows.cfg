SPECIFICATION Spec
CONSTANTS
    None = None
    Parts = {"mutation", "versions", "keys", "search", "moves", "vectors", "duplicates", "spill"}
    Key = {1, 2}
    Val = {1, 2}
    MaxTuples = 2
    MaxStmts = 2
    MaxTs = 3
    Untouched = Untouched
    Refused = Refused
    Bad = Bad
    MaxOps = 2
CHECK_DEADLOCK FALSE
INVARIANT ChangesExact
INVARIANT AttachedAgree
INVARIANT FullTextExact
INVARIANT TransferExact
INVARIANT ProximityExact
INVARIANT ScansExact
PROPERTY ScanEnds
