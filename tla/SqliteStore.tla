----------------------------- MODULE SqliteStore -----------------------------
(***************************************************************************)
(* The SQLite engine, retia-core/src/storage/sqlite.rs.                    *)
(*                                                                         *)
(* A transaction takes a connection from the pool (or opens one) and then  *)
(* the read or the write guard of a process-wide lock.  A writer runs one  *)
(* SQL transaction; a reader runs single statements and relies on the      *)
(* guard.  The statements of get and exists are cached in the transaction  *)
(* and stay active after a row was found.  When the object is dropped,     *)
(* Drop::drop rolls back and returns the connection to the pool; after it  *)
(* the fields go in the order of their declaration: the guard, then the    *)
(* cached statements.                                                      *)
(*                                                                         *)
(* SQLite is external and used so: the first statement on a connection     *)
(* fixes the snapshot its statements read until none is active and no SQL  *)
(* transaction is open; with the default journal nobody commits while      *)
(* another connection has a snapshot, with journal_mode=WAL (the features  *)
(* `flash` and `rotating`) a snapshot just gets old, and a write on an old *)
(* snapshot fails.                                                         *)
(***************************************************************************)
EXTENDS Naturals, FiniteSets, Sequences

CONSTANTS Tx, Key, Val, NoVal, Refused,
    Wal,       \* journal_mode = WAL
    NoSnap     \* a connection without a snapshot, a transaction without one

VARIABLES
    db,      \* the committed table
    mode,    \* where each transaction is (see Mode)
    conn,    \* the connection of each transaction, 0 without one
    pool,    \* the idle connections, last in first out
    opened,  \* how many connections have been opened
    snap,    \* the snapshot of each connection, with the writer's changes
    stale,   \* connections whose snapshot is older than the table
    active,  \* cached statements left on a row: <<transaction, statement>>
    dirty,   \* keys written by the open SQL transaction
    asked,   \* history: keys each transaction read with for_update
    base,    \* history: the table when each transaction got its guard
    ret      \* what the last operation of each transaction returned

vars == <<db, mode, conn, pool, opened, snap, stale, active, dirty, asked, base, ret>>

\* "idle"; "conn": has a connection, waits for the lock; "read", "write";
\* "done": a writer after commit(), "ended": a reader after it; "pushed":
\* Drop::drop has run; "unguarded": the guard is gone, the statements are not.
Mode == {"idle", "conn", "read", "write", "done", "ended", "rpushed", "wpushed", "unguarded"}

Slot == Val \cup {NoVal}
Map == [Key -> Slot]
Conn == 1..Cardinality(Tx)
KeyRange == {<<lo, hi + 1>> : lo, hi \in Key}
InRange(r) == {k \in Key : r[1] <= k /\ k < r[2]}
Contents(m, r) == {<<k, m[k]>> : k \in {j \in InRange(r) : m[j] # NoVal}}
Unset == [k \in Key |-> NoVal]

\* The transactions that hold the read guard, the write guard.
Readers == {t \in Tx : mode[t] \in {"read", "ended", "rpushed"}}
Writers == {t \in Tx : mode[t] \in {"write", "done", "wpushed"}}

Init ==
    /\ db \in Map
    /\ mode = [t \in Tx |-> "idle"]
    /\ conn = [t \in Tx |-> 0]
    /\ pool = <<>>
    /\ opened = 0
    /\ snap = [c \in Conn |-> NoSnap]
    /\ stale = {}
    /\ active = {}
    /\ dirty = {}
    /\ asked = [t \in Tx |-> {}]
    /\ base = [t \in Tx |-> Unset]
    /\ ret = [t \in Tx |-> NoVal]

\* What a statement on connection c reads.
View(c) == IF snap[c] = NoSnap THEN db ELSE snap[c]

\* Whether something keeps the snapshot of c open, given the statements that
\* are active: one of them is on c, or c has a SQL transaction.
Pinned(c, act, sql) == sql \/ \E a \in act : conn[a[1]] = c

\* The first half of transact(): pool.pop(), or a new connection.
take_conn(t) ==
    /\ mode[t] = "idle"
    /\ mode' = [mode EXCEPT ![t] = "conn"]
    /\ IF pool = <<>>
         THEN /\ opened' = opened + 1
              /\ conn' = [conn EXCEPT ![t] = opened + 1]
              /\ UNCHANGED pool
         ELSE /\ conn' = [conn EXCEPT ![t] = pool[Len(pool)]]
              /\ pool' = SubSeq(pool, 1, Len(pool) - 1)
              /\ UNCHANGED opened
    /\ UNCHANGED <<db, snap, stale, active, dirty, asked, base, ret>>

\* Mutant of take_guard: a writer takes the read guard.
take_guard_shared(t, write) ==
    /\ mode[t] = "conn"
    /\ mode' = [mode EXCEPT ![t] = IF write THEN "write" ELSE "read"]
    /\ base' = [base EXCEPT ![t] = db]
    /\ UNCHANGED <<db, conn, pool, opened, snap, stale, active, dirty, asked, ret>>

\* The second half: the guard, and `begin;` for a writer.
take_guard(t, write) ==
    /\ mode[t] = "conn"
    /\ Writers = {}
    /\ write => Readers = {}
    /\ mode' = [mode EXCEPT ![t] = IF write THEN "write" ELSE "read"]
    /\ base' = [base EXCEPT ![t] = db]
    /\ UNCHANGED <<db, conn, pool, opened, snap, stale, active, dirty, asked, ret>>

\* The snapshot of c after a statement that leaves `act` active.
Settle(c, act, sql) ==
    /\ snap' = [snap EXCEPT ![c] = IF Pinned(c, act, sql) THEN View(c) ELSE NoSnap]
    /\ stale' = IF Pinned(c, act, sql) THEN stale ELSE stale \ {c}

\* The statements that are prepared once and cached, of those that read.
Stmt == {"get", "exists"}

\* get() and exists(): reset() the cached statement, bind, step once.  A row
\* leaves the statement active, no row ends it.
get(t, s, k, for_update) ==
    LET act == IF View(conn[t])[k] # NoVal THEN active \cup {<<t, s>>}
                                           ELSE active \ {<<t, s>>}
    IN  /\ mode[t] \in {"read", "write"}
        /\ for_update => mode[t] = "write"
        /\ ret' = [ret EXCEPT ![t] = View(conn[t])[k]]
        /\ asked' = [asked EXCEPT ![t] = IF for_update THEN @ \cup {k} ELSE @]
        /\ active' = act
        /\ Settle(conn[t], act, mode[t] = "write")
        /\ UNCHANGED <<db, mode, conn, pool, opened, dirty, base>>

\* A scan has a statement of its own, finalized with the iterator.
range_scan(t, r) ==
    /\ mode[t] \in {"read", "write"}
    /\ ret' = [ret EXCEPT ![t] = Contents(View(conn[t]), r)]
    /\ Settle(conn[t], active, mode[t] = "write")
    /\ UNCHANGED <<db, mode, conn, pool, opened, active, dirty, asked, base>>

\* put() with a value, del() with NoVal; on an old snapshot SQLite refuses.
put(t, k, v) ==
    /\ mode[t] = "write"
    /\ IF conn[t] \in stale
         THEN /\ ret' = [ret EXCEPT ![t] = Refused]
              /\ UNCHANGED <<snap, dirty>>
         ELSE /\ snap' = [snap EXCEPT ![conn[t]] = [View(conn[t]) EXCEPT ![k] = v]]
              /\ dirty' = dirty \cup {k}
              /\ ret' = [ret EXCEPT ![t] = NoVal]
    /\ UNCHANGED <<db, mode, conn, pool, opened, stale, active, asked, base>>

\* One delete statement, over what the transaction sees; an error panics here
\* (unwrap), so an old snapshot is only modelled for put().
del_range_from_persisted(t, r) ==
    LET gone == {k \in InRange(r) : View(conn[t])[k] # NoVal}
    IN  /\ mode[t] = "write"
        /\ conn[t] \notin stale
        /\ snap' = [snap EXCEPT ![conn[t]] =
                      [k \in Key |-> IF k \in gone THEN NoVal ELSE View(conn[t])[k]]]
        /\ dirty' = dirty \cup gone
        /\ ret' = [ret EXCEPT ![t] = NoVal]
        /\ UNCHANGED <<db, mode, conn, pool, opened, stale, active, asked, base>>

\* commit() of a writer: `commit;`.  With the default journal it waits for the
\* snapshots of the other connections.
commit(t) ==
    LET c == conn[t]
    IN  /\ mode[t] \in {"read", "write"}
        /\ ret' = [ret EXCEPT ![t] = NoVal]
        /\ IF mode[t] = "read"
             THEN /\ mode' = [mode EXCEPT ![t] = "ended"]
                  /\ UNCHANGED <<db, snap, stale, dirty>>
             ELSE /\ mode' = [mode EXCEPT ![t] = "done"]
                  /\ ~Wal /\ dirty # {} => \A o \in Conn \ {c} : snap[o] = NoSnap
                  /\ db' = IF dirty = {} THEN db ELSE snap[c]
                  /\ dirty' = {}
                  /\ snap' = [snap EXCEPT ![c] = IF Pinned(c, active, FALSE)
                                                   THEN View(c) ELSE NoSnap]
                  /\ stale' = (IF dirty = {} THEN stale
                               ELSE {o \in Conn \ {c} : snap[o] # NoSnap})
                               \ (IF Pinned(c, active, FALSE) THEN {} ELSE {c})
        /\ UNCHANGED <<conn, pool, opened, active, asked, base>>

\* Mutant of drop: a committed transaction forgets its connection.
drop_leaks(t) ==
    /\ mode[t] \in {"read", "write", "done", "ended"}
    /\ mode' = [mode EXCEPT ![t] = IF t \in Readers THEN "rpushed" ELSE "wpushed"]
    /\ asked' = [asked EXCEPT ![t] = {}]
    /\ base' = [base EXCEPT ![t] = Unset]
    /\ ret' = [ret EXCEPT ![t] = NoVal]
    /\ UNCHANGED <<db, pool, conn, opened, snap, stale, active, dirty>>

\* Mutant of drop: no rollback before the connection goes back.
drop_no_rollback(t) ==
    /\ mode[t] \in {"read", "write", "done", "ended"}
    /\ mode' = [mode EXCEPT ![t] = IF t \in Readers THEN "rpushed" ELSE "wpushed"]
    /\ pool' = Append(pool, conn[t])
    /\ asked' = [asked EXCEPT ![t] = {}]
    /\ base' = [base EXCEPT ![t] = Unset]
    /\ ret' = [ret EXCEPT ![t] = NoVal]
    /\ UNCHANGED <<db, conn, opened, snap, stale, active, dirty>>

\* Drop::drop: `rollback;` for a writer that has not committed, then the
\* connection goes back to the pool.
drop(t) ==
    LET c == conn[t]
    IN  /\ mode[t] \in {"read", "write", "done", "ended"}
        /\ mode' = [mode EXCEPT ![t] = IF t \in Readers THEN "rpushed" ELSE "wpushed"]
        /\ pool' = Append(pool, c)
        /\ IF mode[t] = "write"
             THEN /\ snap' = [snap EXCEPT ![c] =
                                IF ~Pinned(c, active, FALSE) THEN NoSnap
                                ELSE IF dirty = {} THEN snap[c] ELSE db]
                  /\ stale' = IF Pinned(c, active, FALSE) THEN stale ELSE stale \ {c}
                  /\ dirty' = {}
             ELSE UNCHANGED <<snap, stale, dirty>>
        /\ asked' = [asked EXCEPT ![t] = {}]
        /\ base' = [base EXCEPT ![t] = Unset]
        /\ ret' = [ret EXCEPT ![t] = NoVal]
        /\ UNCHANGED <<db, conn, opened, active>>

\* The field `lock`.
drop_guard(t) ==
    /\ mode[t] \in {"rpushed", "wpushed"}
    /\ mode' = [mode EXCEPT ![t] = "unguarded"]
    /\ UNCHANGED <<db, conn, pool, opened, snap, stale, active, dirty, asked, base, ret>>

\* The connection of t is in the hands of a writer.
InSql(c) == \E u \in Tx : conn[u] = c /\ mode[u] = "write"

\* The field `stmts`: the cached statements are finalized.
drop_stmts(t) ==
    LET c == conn[t]
        act == {a \in active : a[1] # t}
    IN  /\ mode[t] = "unguarded"
        /\ mode' = [mode EXCEPT ![t] = "idle"]
        /\ active' = act
        /\ snap' = [snap EXCEPT ![c] = IF Pinned(c, act, InSql(c)) THEN @ ELSE NoSnap]
        /\ stale' = IF Pinned(c, act, InSql(c)) THEN stale ELSE stale \ {c}
        /\ conn' = [conn EXCEPT ![t] = 0]
        /\ UNCHANGED <<db, pool, opened, dirty, asked, base, ret>>

Step(t) ==
    \/ take_conn(t)
    \/ \E write \in BOOLEAN : take_guard(t, write)
    \/ \E s \in Stmt, k \in Key, for_update \in BOOLEAN : get(t, s, k, for_update)
    \/ \E r \in KeyRange : range_scan(t, r)
    \/ \E k \in Key, v \in Slot : put(t, k, v)
    \/ \E r \in KeyRange : del_range_from_persisted(t, r)
    \/ commit(t)
    \/ drop(t)
    \/ drop_guard(t)
    \/ drop_stmts(t)

Next == \E t \in Tx : Step(t)

Spec == Init /\ [][Next]_vars

-----------------------------------------------------------------------------
(* Properties.                                                             *)

TypeOK ==
    /\ db \in Map
    /\ mode \in [Tx -> Mode]
    /\ conn \in [Tx -> 0..Cardinality(Tx)]
    /\ pool \in Seq(Conn)
    /\ opened \in 0..Cardinality(Tx)
    /\ snap \in [Conn -> Map \cup {NoSnap}]
    /\ stale \subseteq Conn
    /\ active \subseteq Tx \X Stmt
    /\ dirty \subseteq Key
    /\ asked \in [Tx -> SUBSET Key]
    /\ base \in [Tx -> Map]
    /\ ret \in [Tx -> Slot \cup {Refused} \cup SUBSET (Key \X Val)]

\* The transactions that have not been dropped, and the connections in the pool.
Live == {t \in Tx : mode[t] \in {"conn", "read", "write", "done", "ended"}}
Idle == {pool[i] : i \in 1..Len(pool)}

\* No connection serves two live transactions, and none is lost: each open
\* connection is in the pool once or belongs to one transaction (pool.pop,
\* pool.push).
PoolInv ==
    /\ \A t, u \in Live : t # u => conn[t] # conn[u]
    /\ \A i, j \in 1..Len(pool) : pool[i] = pool[j] => i = j
    /\ Idle \cup {conn[t] : t \in Live} = 1..opened
    /\ Idle \cap {conn[t] : t \in Live} = {}

\* A writer has the lock for itself.
GuardInv == \A t \in Writers : Writers = {t} /\ Readers = {}

\* With the default journal a snapshot never gets old: only the open SQL
\* transaction is ahead of the table, by the keys it has written.
SnapInv ==
    /\ stale = {}
    /\ \A c \in Conn : (\A t \in Tx : mode[t] = "write" => conn[t] # c) => snap[c] \in {NoSnap, db}
    /\ \A t \in Tx : mode[t] = "write" =>
         /\ \A k \in Key \ dirty : View(conn[t])[k] = db[k]
         /\ dirty # {} => snap[conn[t]] # NoSnap
    /\ dirty # {} => \E t \in Tx : mode[t] = "write"

\* The table stays as a reader found it.
BaseInv == \A t \in Tx : mode[t] = "read" => base[t] = db

\* The inductive invariant, without WAL.
IInv == TypeOK /\ PoolInv /\ GuardInv /\ SnapInv /\ BaseInv

-----------------------------------------------------------------------------
(* Comparison with the contract.                                           *)

modeBar == [t \in Tx |-> IF mode[t] \in {"conn", "rpushed", "wpushed", "unguarded"} THEN "idle"
                         ELSE IF mode[t] = "ended" THEN "done" ELSE mode[t]]
\* A writer sees the snapshot with its changes, a reader the table.
viewBar == [t \in Tx |-> IF modeBar[t] = "idle" THEN Unset
                         ELSE IF mode[t] = "write" THEN View(conn[t]) ELSE db]
writtenBar == [t \in Tx |-> IF mode[t] = "write" THEN dirty ELSE {}]
foreignBar == [t \in Tx |-> {}]

Contract == INSTANCE StoreTx WITH mode <- modeBar, view <- viewBar, written <- writtenBar,
                                  foreign <- foreignBar, SnapshotReads <- TRUE

\* Every behaviour of the engine is one the StoreTx trait promises: readers
\* see one state of the table, writers are alone, a dropped writer leaves
\* nothing behind.
ImplementsStoreTx == Contract!Spec

\* Everything a transaction is told is what the table held when it got its
\* guard ("MVCC semantics for all operations"): a scan of a reader agrees with
\* the table of that moment.
ReadsAgree ==
    \A t \in Tx : mode[t] = "read" => View(conn[t]) = base[t]
=============================================================================
