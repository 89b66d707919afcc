SPECIFICATION Spec
CONSTANTS
    None = None
    Null = Null
    Infinity = 99
    Rounds = 8
    Parts = {"stratify", "meet", "limit", "form", "magic", "plan"}
    Ops = {"min", "max", "union", "intersection", "min_cost", "shortest", "choice"}
    MaxEdges = 2
    MaxRow = 3
    Limits = {None, 1, 2, 3}
    Offsets = {None, 0, 1, 2}
    Recursive = FALSE
    RuleSets = 3
    MaxRefs = 4
CHECK_DEADLOCK FALSE
INVARIANT Stratification
INVARIANT StoresExact
INVARIANT MeetLeastFixpoint
INVARIANT LimitExact
INVARIANT NormalExact
INVARIANT MagicExact
INVARIANT PlanExact
PROPERTY Ends
