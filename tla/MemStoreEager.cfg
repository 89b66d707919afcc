CONSTANTS
    Tx = {t1, t2}
    Key = {1, 2}
    Val = {a, b}
    NoVal = NoVal
    Refused = Refused
    NoEntry = NoEntry
    EagerRangeDel = TRUE
SPECIFICATION Spec
PROPERTY AbortRestores
