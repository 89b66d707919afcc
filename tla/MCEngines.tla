------------------------------ MODULE MCEngines ------------------------------
(***************************************************************************)
(* Concurrent transactions on one key, for TLC: three of the RocksDB       *)
(* engine or of the optimistic one, two of the SQLite engine (`part` says  *)
(* which; the first one rests in its initial state otherwise).             *)
(***************************************************************************)
EXTENDS RocksStore, Sequences, TLC

CONSTANTS
    SqlTx,   \* the transactions of the SQLite engine
    NoSnap, None

ASSUME TxAssumption == IsFiniteSet(SqlTx)
ASSUME NoSnapAssumption == NoSnap \notin Map

VARIABLES
    part,
    table, state, for_update,                                         \* of both others
    conn, pool, opened, snap, stale, active, dirty, began, returned,  \* sqlite
    writes, overtaken, others, found                                  \* newrocksdb

Sqlite ==
    INSTANCE SqliteStore WITH Tx <- SqlTx, Wal <- FALSE, db <- table, mode <- state,
                              asked <- for_update, base <- began, ret <- returned
NewRocks ==
    INSTANCE NewRocksStore WITH db <- table, mode <- state, asked <- for_update,
                                batch <- writes, foreign <- others

bothVars == <<table, state, for_update>>
sqliteVars == <<conn, pool, opened, snap, stale, active, dirty, began, returned>>
newRocksVars == <<writes, overtaken, others, found>>
allVars == <<part, vars, bothVars, sqliteVars, newRocksVars>>

NoBoth == table = None /\ state = None /\ for_update = None
NoSqlite ==
    /\ conn = None /\ pool = None /\ opened = None /\ snap = None /\ stale = None
    /\ active = None /\ dirty = None /\ began = None /\ returned = None
NoNewRocks == writes = None /\ overtaken = None /\ others = None /\ found = None

EnginesInit ==
    \/ part = "rocksdb" /\ Init /\ NoBoth /\ NoSqlite /\ NoNewRocks
    \/ /\ \/ part = "sqlite" /\ Sqlite!Init /\ NoNewRocks
          \/ part = "newrocksdb" /\ NewRocks!Init /\ NoSqlite
       /\ Init /\ db = Unset

EnginesNext ==
    /\ UNCHANGED part
    /\ \/ part = "rocksdb" /\ Next /\ UNCHANGED <<bothVars, sqliteVars, newRocksVars>>
       \/ part = "sqlite" /\ Sqlite!Next /\ UNCHANGED <<vars, newRocksVars>>
       \/ part = "newrocksdb" /\ NewRocks!Next /\ UNCHANGED <<vars, sqliteVars>>

EnginesSpec == EnginesInit /\ [][EnginesNext]_allVars

Symmetry == Permutations(Tx) \cup Permutations(SqlTx)

-----------------------------------------------------------------------------
\* SQLite: no connection serves two live transactions and none is lost, and a
\* reader's scans agree with the table of the moment it got its guard.  Optimistic
\* RocksDB: a key that a transaction wrote is as it found it, or the transaction
\* has been overtaken.
EnginesSound ==
    /\ part = "sqlite" => Sqlite!IInv /\ Sqlite!ReadsAgree
    /\ part = "newrocksdb" => NewRocks!IInv

\* SQLite: every behaviour of the engine is one the StoreTx trait promises.
SqliteImplementsStoreTx ==
    /\ part = "sqlite" => Sqlite!Contract!Init
    /\ [][part = "sqlite" =>
             Sqlite!Contract!Next \/ UNCHANGED Sqlite!Contract!vars]_allVars

\* Optimistic RocksDB: a commit never overwrites what another transaction
\* committed after this one first wrote the key.
FirstCommitterWins == [][part = "newrocksdb" => NewRocks!FirstCommitterWins]_allVars
=============================================================================
