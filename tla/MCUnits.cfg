CONSTANTS
    Name = {A, B}
    Idx = {i}
    RowKey = {k}
    MaxId = 4
    None = None
    Infinity = 99
    NaN = 77
    NullVal = NullVal
    Bad = Bad
    Refused = Refused
SPECIFICATION UnitsSpec
SYMMETRY Sym
CONSTRAINT IdsKept
INVARIANT Inv
INVARIANT RulesExact
INVARIANT DataExact
PROPERTY OthersKept
