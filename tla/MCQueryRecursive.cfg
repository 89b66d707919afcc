SPECIFICATION Spec
CONSTANTS
    None = None
    Null = Null
    Infinity = 99
    Rounds = 8
    Parts = {"limit"}
    Ops = {"min", "max", "union", "intersection", "min_cost", "shortest", "choice"}
    MaxEdges = 2
    MaxRow = 3
    Limits = {None, 1, 2, 3}
    Offsets = {None, 0, 1, 2}
    Recursive = TRUE
    RuleSets = 3
    MaxRefs = 4
CHECK_DEADLOCK FALSE
INVARIANT AtMostLimit
