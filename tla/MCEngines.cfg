CONSTANTS
    Tx = {t1, t2, t3}
    SqlTx = {u1, u2}
    Key = {1}
    Val = {a}
    NoVal = NoVal
    Refused = Refused
    NoEntry = NoEntry
    Nobody = Nobody
    NoSnap = NoSnap
    None = None
SPECIFICATION EnginesSpec
INVARIANT IInv
INVARIANT EnginesSound
PROPERTY ForUpdateHolds
PROPERTY NoLostUpdate
PROPERTY ImplementsReadCommitted
PROPERTY SqliteImplementsStoreTx
PROPERTY FirstCommitterWins
SYMMETRY Symmetry
