CONSTANTS
    Tx = {t1, t2}
    Key = {1, 2}
    Val = {a, b}
    NoVal = NoVal
    Refused = Refused
    NoEntry = NoEntry
    EagerRangeDel = FALSE
    Symb <- MCSymb
    Fact <- MCFact
    Given <- MCGiven
    Rule <- MCRule
    HeadOf <- MCHeadOf
    Body <- MCBody
    Negates <- MCNegates
    Inst <- MCInst
    Model <- MCModel
SPECIFICATION CoreSpec
INVARIANT IInv
INVARIANT Isolated
INVARIANT Complete
INVARIANT Minimal
INVARIANT NaiveAgrees
PROPERTY AbortRestores
PROPERTY ImplementsStoreTx
PROPERTY Terminates
CHECK_DEADLOCK FALSE
