SPECIFICATION Spec
CONSTANTS
    None = None
    Null = Null
    Infinity = 99
    Rounds = 8
    Parts = {"meet"}
    Ops = {"or"}
    MaxEdges = 2
    MaxRow = 3
    Limits = {None, 1, 2, 3}
    Offsets = {None, 0, 1, 2}
    Recursive = FALSE
    RuleSets = 3
    MaxRefs = 4
CHECK_DEADLOCK FALSE
INVARIANT MeetFixpoint
