--------------------------- MODULE SqliteStoreProofs ---------------------------
(***************************************************************************)
(* Proofs about the SQLite engine, for any number of transactions, keys    *)
(* and values.                                                             *)
(***************************************************************************)
EXTENDS SqliteStore, Integers, TLAPS

\* The provers of every step that does not name its own.
USE SMTT(30), ZenonT(20)

\* A set of transactions that is not all of them covers less numbers than there
\* are transactions: so it is when they are finitely many.
Room ==
    \A S \in SUBSET Tx, n \in Nat :
       S # Tx /\ (\E f \in [S -> 1..n] : \A i \in 1..n : \E u \in S : f[u] = i)
          => n < Cardinality(Tx)

\* What the constants are like: keys are numbers, transactions can be counted,
\* NoVal is no value, NoSnap no table, and the journal is the default one.
Standing ==
    /\ Key \subseteq Nat /\ NoVal \notin Val /\ NoSnap \notin Map /\ ~Wal
    /\ Cardinality(Tx) \in Nat /\ Room

-----------------------------------------------------------------------------
(* The SQLite engine: the inductive invariant.                             *)

\* Connections are numbered up to the number of transactions.
LEMMA Connections ==
    ASSUME Standing PROVE Cardinality(Tx) \in Nat /\ Conn = 1..Cardinality(Tx)
BY DEF Standing, Conn

\* A new engine has no connections and no transactions.
LEMMA SqliteInit ==
    ASSUME Standing PROVE Init => IInv
<1> SUFFICES ASSUME Init PROVE IInv
  OBVIOUS
<1>1. TypeOK
  BY Connections DEF Init, TypeOK, Mode, Map, Slot, Unset
<1>2. Live = {} /\ Idle = {} /\ Writers = {}
  BY DEF Init, Live, Idle, Writers
<1>3. PoolInv
  BY <1>2 DEF Init, PoolInv
<1> QED BY <1>1, <1>2, <1>3 DEF Init, IInv, GuardInv, SnapInv, BaseInv

\* A live transaction has an open connection, and sees a map through it.
LEMMA LiveConn ==
    ASSUME Standing, IInv, NEW t \in Live
    PROVE  conn[t] \in 1..opened /\ conn[t] \in Conn /\ View(conn[t]) \in Map
<1>1. conn[t] \in 1..opened
  BY DEF IInv, PoolInv
<1>2. conn[t] \in Conn
  BY <1>1, Connections DEF IInv, TypeOK
<1> QED BY <1>1, <1>2 DEF IInv, TypeOK, View

\* A scan of a map returns pairs of a key and a value.
LEMMA SqliteContents ==
    ASSUME Standing, NEW m \in Map, NEW r
    PROVE  Contents(m, r) \in SUBSET (Key \X Val)
BY DEF Contents, Map, Slot, InRange

\* As long as the pool is not touched nor the set of live transactions, nothing
\* happens to the connections.
LEMMA PoolKept ==
    ASSUME Standing, PoolInv, pool' = pool, opened' = opened, Live' = Live,
           \A t \in Live : conn'[t] = conn[t]
    PROVE  PoolInv'
BY DEF PoolInv, Idle

\* A connection is opened only while there are fewer than transactions: the
\* pool is empty, so all the others serve one live transaction each.
LEMMA RoomToOpen ==
    ASSUME Standing, IInv, NEW t \in Tx, mode[t] = "idle", pool = <<>>
    PROVE  opened < Cardinality(Tx)
<1> DEFINE f == [u \in Live |-> conn[u]]
<1>1. Live \in SUBSET Tx /\ Live # Tx
  BY DEF Live
<1>2. {conn[u] : u \in Live} = 1..opened /\ opened \in Nat
  BY Connections DEF IInv, PoolInv, TypeOK, Idle
<1>3. f \in [Live -> 1..opened] /\ \A i \in 1..opened : \E u \in Live : f[u] = i
  BY <1>2
<1> HIDE DEF f
<1> QED BY <1>1, <1>2, <1>3, Zenon DEF Standing, Room

\* The first n elements of a sequence.
LEMMA Prefix ==
    ASSUME NEW S, NEW s \in Seq(S), NEW n \in Nat, n <= Len(s)
    PROVE  /\ SubSeq(s, 1, n) \in Seq(S)
           /\ Len(SubSeq(s, 1, n)) = n
           /\ \A i \in 1..n : SubSeq(s, 1, n)[i] = s[i]
<1>1. \A i \in 1..n : s[i] \in S
  OBVIOUS
<1>2. SubSeq(s, 1, n) \in Seq(S)
  BY <1>1
<1>3. Len(SubSeq(s, 1, n)) = n /\ \A i \in 1..n : SubSeq(s, 1, n)[i] = s[i]
  BY <1>1
<1> QED BY <1>2, <1>3

\* pool.pop(), or a new connection.
LEMMA PoolTaken ==
    ASSUME Standing, IInv, NEW t \in Tx, take_conn(t)
    PROVE  /\ conn' \in [Tx -> 0..Cardinality(Tx)]
           /\ pool' \in Seq(Conn)
           /\ opened' \in 0..Cardinality(Tx)
           /\ PoolInv'
<1> USE Connections
<1>0. /\ mode[t] = "idle" /\ mode' = [mode EXCEPT ![t] = "conn"]
      /\ conn \in [Tx -> 0..Cardinality(Tx)]
      /\ pool \in Seq(Conn)
      /\ opened \in 0..Cardinality(Tx)
      /\ mode \in [Tx -> Mode]
  BY DEF take_conn, IInv, TypeOK
<1>1. Live' = Live \cup {t} /\ t \notin Live
  BY <1>0 DEF Live
<1>2. \A u \in Live : conn[u] \in 1..opened
  BY DEF IInv, PoolInv
<1>3. CASE pool = <<>>
  <2>1. opened' = opened + 1 /\ conn' = [conn EXCEPT ![t] = opened + 1] /\ pool' = pool
    BY <1>3 DEF take_conn
  <2>2. opened < Cardinality(Tx)
    BY <1>0, <1>3, RoomToOpen
  <2>3. {conn'[u] : u \in Live'} = {conn[u] : u \in Live} \cup {opened + 1}
    BY <1>0, <1>1, <2>1
  <2>4. Idle = {} /\ Idle' = {}
    BY <1>3, <2>1 DEF Idle
  <2>5. {conn[u] : u \in Live} = 1..opened
    BY <2>4 DEF IInv, PoolInv
  <2>6. \A u, v \in Live' : u # v => conn'[u] # conn'[v]
    BY <1>0, <1>1, <1>2, <2>1 DEF IInv, PoolInv
  <2>7. {conn'[u] : u \in Live'} = 1..opened'
    <3>1. (1..opened) \cup {opened + 1} = 1..(opened + 1)
      BY <1>0
    <3> QED BY <2>1, <2>3, <2>5, <3>1, Zenon
  <2>8. PoolInv'
    BY <1>3, <2>1, <2>4, <2>6, <2>7 DEF PoolInv
  <2> QED BY <1>0, <2>1, <2>2, <2>8
<1>4. CASE pool # <<>>
  <2> DEFINE c == pool[Len(pool)]
  <2>1. /\ conn' = [conn EXCEPT ![t] = c] /\ opened' = opened
        /\ pool' = SubSeq(pool, 1, Len(pool) - 1)
    BY <1>4 DEF take_conn
  <2>2. /\ Len(pool) \in Nat \ {0} /\ Len(pool') = Len(pool) - 1
        /\ pool' \in Seq(Conn)
        /\ \A i \in 1..Len(pool') : pool'[i] = pool[i]
    <3>1. Len(pool) \in Nat \ {0}
      BY <1>0, <1>4
    <3>2. Len(pool) - 1 \in Nat /\ Len(pool) - 1 <= Len(pool)
      BY <3>1
    <3>3. /\ pool' \in Seq(Conn) /\ Len(pool') = Len(pool) - 1
          /\ \A i \in 1..(Len(pool) - 1) : pool'[i] = pool[i]
      BY <1>0, <2>1, <3>2, Prefix, Zenon
    <3> QED BY <3>1, <3>3
  <2>3. c \in Idle /\ c \in Conn
    BY <1>0, <2>2 DEF Idle
  <2>4. \A i \in 1..Len(pool') : i \in 1..Len(pool) /\ pool[i] # c
    BY <2>2 DEF IInv, PoolInv
  <2>5. Idle' = Idle \ {c}
    <3>1. \A i \in 1..Len(pool) : pool[i] # c => i \in 1..Len(pool')
      BY <2>2
    <3> QED BY <2>2, <2>4, <3>1, Zenon DEF Idle
  <2>6. {conn'[u] : u \in Live'} = {conn[u] : u \in Live} \cup {c}
    BY <1>0, <1>1, <2>1
  <2>7. \A u \in Live : conn[u] # c
    BY <2>3 DEF IInv, PoolInv
  <2>8. \A u, v \in Live' : u # v => conn'[u] # conn'[v]
    BY <1>0, <1>1, <2>1, <2>7 DEF IInv, PoolInv
  <2>9. \A i, j \in 1..Len(pool') : pool'[i] = pool'[j] => i = j
    BY <2>2, <2>4, Zenon DEF IInv, PoolInv
  <2> HIDE DEF c
  <2>10. /\ Idle' \cup {conn'[u] : u \in Live'} = 1..opened'
         /\ Idle' \cap {conn'[u] : u \in Live'} = {}
    <3> DEFINE S == {conn[u] : u \in Live}
    <3>1. Idle \cup S = 1..opened /\ Idle \cap S = {}
      BY DEF IInv, PoolInv
    <3> HIDE DEF S
    <3>2. {conn'[u] : u \in Live'} = S \cup {c}
      BY <2>6, Zenon DEF S
    <3> QED BY <2>1, <2>3, <2>5, <3>1, <3>2
  <2>11. PoolInv'
    BY <2>8, <2>9, <2>10 DEF PoolInv
  <2> QED BY <1>0, <2>1, <2>2, <2>3, <2>11
<1> QED BY <1>3, <1>4

\* pool.push() of the connection of a transaction that goes.
LEMMA PoolReturned ==
    ASSUME Standing, IInv, NEW t \in Live,
           pool' = Append(pool, conn[t]), Live' = Live \ {t},
           conn' = conn, opened' = opened
    PROVE  pool' \in Seq(Conn) /\ PoolInv'
<1>1. conn[t] \in Conn
  BY LiveConn
<1>2. pool \in Seq(Conn)
  BY DEF IInv, TypeOK
<1>3. /\ pool' \in Seq(Conn) /\ Len(pool) \in Nat /\ Len(pool') = Len(pool) + 1
      /\ \A i \in 1..Len(pool) : pool'[i] = pool[i]
      /\ pool'[Len(pool) + 1] = conn[t]
  BY <1>1, <1>2
<1>4. Idle' = Idle \cup {conn[t]}
  BY <1>3 DEF Idle
<1>5. \A i \in 1..Len(pool) : pool[i] # conn[t]
  <2>1. \A i \in 1..Len(pool) : pool[i] \in Idle
    BY DEF Idle
  <2>2. conn[t] \notin Idle
    BY DEF IInv, PoolInv
  <2> QED BY <2>1, <2>2
<1>6. \A i, j \in 1..Len(pool') : pool'[i] = pool'[j] => i = j
  BY <1>3, <1>5 DEF IInv, PoolInv
<1>7. {conn[u] : u \in Live'} = {conn[u] : u \in Live} \ {conn[t]}
  BY DEF IInv, PoolInv
<1>8. /\ Idle' \cup {conn'[u] : u \in Live'} = 1..opened'
      /\ Idle' \cap {conn'[u] : u \in Live'} = {}
  BY <1>4, <1>7 DEF IInv, PoolInv
<1> QED BY <1>3, <1>6, <1>8 DEF IInv, PoolInv

\* A statement of t leaves its snapshot, or drops it when t does not write.
LEMMA SnapSettled ==
    ASSUME Standing, IInv, NEW t \in Tx, mode[t] \in {"read", "write"}, NEW act, NEW sql,
           mode[t] = "write" => sql,
           Settle(conn[t], act, sql), UNCHANGED <<db, mode, conn, dirty>>
    PROVE  /\ snap' \in [Conn -> Map \cup {NoSnap}]
           /\ SnapInv'
           /\ mode[t] = "write" => View(conn[t])' = View(conn[t])
           /\ \A c \in Conn \ {conn[t]} : snap'[c] = snap[c]
<1>1. t \in Live /\ conn[t] \in Conn /\ View(conn[t]) \in Map
  BY LiveConn DEF Live
<1>2. PICK x \in {NoSnap, View(conn[t])} :
        /\ snap' = [snap EXCEPT ![conn[t]] = x]
        /\ mode[t] = "write" => x = View(conn[t])
  BY Zenon DEF Settle, Pinned
<1>3. snap \in [Conn -> Map \cup {NoSnap}] /\ stale = {} /\ stale' = {}
  BY DEF IInv, TypeOK, SnapInv, Settle
<1>4. NoSnap \notin Map
  BY DEF Standing, Map, Slot
<1>5. mode[t] = "write" => View(conn[t])' = View(conn[t])
  BY <1>1, <1>2, <1>3, <1>4 DEF View
<1>6. \A c \in Conn \ {conn[t]} : snap'[c] = snap[c]
  BY <1>2, <1>3
<1>7. snap' \in [Conn -> Map \cup {NoSnap}]
  BY <1>1, <1>2, <1>3
<1>8. \A u \in Tx : mode[u] = "write" => conn[u] \in Conn /\ (u # t => conn[u] # conn[t])
  <2> SUFFICES ASSUME NEW u \in Tx, mode[u] = "write"
               PROVE  conn[u] \in Conn /\ (u # t => conn[u] # conn[t])
    OBVIOUS
  <2>1. u \in Live
    BY DEF Live
  <2> QED BY <1>1, <2>1, LiveConn DEF IInv, PoolInv
<1>9. ASSUME NEW c \in Conn, \A u \in Tx : mode[u] = "write" => conn[u] # c
      PROVE  snap'[c] \in {NoSnap, db}
  <2>1. snap[c] \in {NoSnap, db}
    BY <1>9 DEF IInv, SnapInv
  <2> QED BY <1>2, <1>3, <2>1 DEF View
<1>10. ASSUME NEW u \in Tx, mode[u] = "write"
       PROVE  /\ \A k \in Key \ dirty : View(conn[u])'[k] = db[k]
              /\ dirty # {} => snap'[conn[u]] # NoSnap
  <2>1. CASE u = t
    BY <1>1, <1>2, <1>3, <1>4, <1>5, <1>10, <2>1 DEF IInv, SnapInv
  <2>2. CASE u # t
    <3>1. snap'[conn[u]] = snap[conn[u]]
      BY <1>6, <1>8, <1>10, <2>2, Zenon
    <3> QED BY <1>10, <3>1 DEF IInv, SnapInv, View
  <2> QED BY <2>1, <2>2
<1>11. SnapInv'
  BY <1>3, <1>9, <1>10 DEF IInv, SnapInv
<1> QED BY <1>5, <1>6, <1>7, <1>11

\* The writer changes its snapshot at keys that are dirty afterwards.
LEMMA SnapWritten ==
    ASSUME Standing, IInv, NEW t \in Tx, mode[t] = "write", NEW m \in Map,
           snap' = [snap EXCEPT ![conn[t]] = m], dirty \subseteq dirty', dirty' \subseteq Key,
           \A k \in Key \ dirty' : m[k] = db[k],
           UNCHANGED <<db, mode, conn, stale>>
    PROVE  snap' \in [Conn -> Map \cup {NoSnap}] /\ SnapInv'
<1>1. t \in Live /\ conn[t] \in Conn
  BY LiveConn DEF Live
<1>2. snap \in [Conn -> Map \cup {NoSnap}] /\ stale = {}
  BY DEF IInv, TypeOK, SnapInv
<1>3. m # NoSnap
  BY DEF Standing, Map, Slot
<1>4. \A u \in Tx : mode[u] = "write" => u = t
  BY DEF IInv, GuardInv, Writers
<1>5. snap'[conn[t]] = m /\ View(conn[t])' = m
  BY <1>1, <1>2, <1>3 DEF View
<1>6. \A c \in Conn : c # conn[t] => snap'[c] = snap[c]
  BY <1>2
<1>7. ASSUME NEW c \in Conn, \A u \in Tx : mode[u] = "write" => conn[u] # c
      PROVE  snap'[c] \in {NoSnap, db}
  BY <1>6, <1>7 DEF IInv, SnapInv
<1>8. SnapInv'
  BY <1>2, <1>3, <1>4, <1>5, <1>7 DEF SnapInv
<1> QED BY <1>1, <1>2, <1>8

\* Two maps that agree on every key are one.
LEMMA SameMap ==
    ASSUME NEW m \in Map, NEW n \in Map, \A k \in Key : m[k] = n[k]
    PROVE  m = n
BY DEF Map

\* A writer that commits makes what it sees the table.
LEMMA CommitWrites ==
    ASSUME Standing, IInv, NEW t \in Tx, commit(t), mode[t] = "write"
    PROVE  db' = View(conn[t])
<1>1. db' = IF dirty = {} THEN db ELSE snap[conn[t]]
  BY DEF commit
<1>2. CASE dirty = {}
  <2>1. \A k \in Key : View(conn[t])[k] = db[k]
    BY <1>2 DEF IInv, SnapInv
  <2>2. db \in Map /\ View(conn[t]) \in Map
    BY LiveConn DEF IInv, TypeOK, Live
  <2>3. View(conn[t]) = db
    BY <2>1, <2>2, SameMap
  <2> QED BY <1>1, <1>2, <2>3, Zenon
<1>3. CASE dirty # {}
  BY <1>1, <1>3 DEF IInv, SnapInv, View
<1> QED BY <1>2, <1>3

\* Every operation keeps the inductive invariant.
LEMMA SqliteNext ==
    ASSUME Standing PROVE IInv /\ [Next]_vars => IInv'
<1> SUFFICES ASSUME IInv, [Next]_vars PROVE IInv'
  OBVIOUS
<1> USE Connections
<1>0. /\ TypeOK /\ PoolInv /\ GuardInv /\ SnapInv /\ BaseInv
      /\ mode \in [Tx -> Mode]
  BY Zenon DEF IInv, TypeOK
<1>1. CASE UNCHANGED vars
  <2>1. Live' = Live /\ Writers' = Writers /\ Readers' = Readers
    BY <1>1 DEF vars, Live, Writers, Readers
  <2>2. PoolInv'
    BY <1>0, <1>1, <2>1, PoolKept DEF vars
  <2> QED BY <1>0, <1>1, <2>1, <2>2
             DEF vars, IInv, TypeOK, GuardInv, SnapInv,
                 BaseInv, View
<1>2. ASSUME NEW t \in Tx, take_conn(t) PROVE IInv'
  <2>1. /\ mode[t] = "idle" /\ mode' = [mode EXCEPT ![t] = "conn"]
        /\ UNCHANGED <<db, snap, stale, active, dirty, asked, base, ret>>
        /\ \A u \in Tx \ {t} : conn'[u] = conn[u]
    BY <1>2 DEF take_conn, IInv, TypeOK
  <2>2. TypeOK' /\ PoolInv'
    BY <1>0, <1>2, <2>1, PoolTaken, Zenon DEF TypeOK, Mode
  <2>3. GuardInv'
    BY <1>0, <2>1, Zenon DEF GuardInv, Writers, Readers
  <2>4. \A u \in Tx : mode'[u] = "write" <=> mode[u] = "write"
    BY <1>0, <2>1
  <2>5. \A u \in Tx : mode[u] = "write" => conn'[u] = conn[u]
    BY <2>1, Zenon
  <2>6. SnapInv'
    BY <1>0, <2>1, <2>4, <2>5 DEF SnapInv, View
  <2>7. BaseInv'
    BY <1>0, <2>1 DEF BaseInv
  <2> QED BY <2>2, <2>3, <2>6, <2>7 DEF IInv
<1>3. ASSUME NEW t \in Tx, NEW write \in BOOLEAN, take_guard(t, write) PROVE IInv'
  <2>1. /\ mode[t] = "conn" /\ Writers = {} /\ (write => Readers = {})
        /\ mode' = [mode EXCEPT ![t] = IF write THEN "write" ELSE "read"]
        /\ base' = [base EXCEPT ![t] = db]
        /\ UNCHANGED <<db, conn, pool, opened, snap, stale, active, dirty, asked, ret>>
    BY <1>3 DEF take_guard
  <2>2. TypeOK'
    BY <1>0, <2>1 DEF TypeOK, Mode
  <2>3. Live' = Live
    BY <1>0, <2>1 DEF Live
  <2>4. PoolInv'
    BY <1>0, <2>1, <2>3, PoolKept
  <2>5. GuardInv'
    BY <1>0, <2>1, Zenon DEF GuardInv, Writers, Readers
  <2>6. dirty = {} /\ \A u \in Tx : mode[u] # "write"
    BY <1>0, <2>1, Zenon DEF SnapInv, Writers
  <2>7. SnapInv'
    <3>1. conn[t] \in Conn
      BY <2>1, LiveConn, Zenon DEF Live
    <3>2. \A c \in Conn : snap[c] \in {NoSnap, db}
      BY <1>0, <2>6 DEF SnapInv
    <3>3. View(conn[t])' = db
      BY <2>1, <3>1, <3>2 DEF View
    <3>4. \A u \in Tx : mode'[u] = "write" => u = t
      BY <1>0, <2>1, <2>6, Zenon
    <3> QED BY <1>0, <2>1, <2>6, <3>2, <3>3, <3>4, Zenon DEF SnapInv
  <2>8. BaseInv'
    BY <1>0, <2>1 DEF BaseInv, TypeOK
  <2> QED BY <2>2, <2>4, <2>5, <2>7, <2>8 DEF IInv
<1>4. ASSUME NEW t \in Tx, NEW s \in Stmt, NEW k \in Key, NEW fu \in BOOLEAN,
             get(t, s, k, fu)
      PROVE  IInv'
  <2> DEFINE act == IF View(conn[t])[k] # NoVal THEN active \cup {<<t, s>>}
                                                       ELSE active \ {<<t, s>>}
  <2>1. /\ mode[t] \in {"read", "write"}
        /\ ret' = [ret EXCEPT ![t] = View(conn[t])[k]]
        /\ asked' = [asked EXCEPT ![t] = IF fu THEN @ \cup {k} ELSE @]
        /\ active' = act
        /\ Settle(conn[t], act, mode[t] = "write")
        /\ UNCHANGED <<db, mode, conn, pool, opened, dirty, base>>
    BY <1>4, Zenon DEF get
  <2>2. View(conn[t])[k] \in Slot
    BY <2>1, LiveConn DEF Live, Map
  <2>3. act \subseteq Tx \X Stmt
    BY <1>0 DEF TypeOK
  <2>4. snap' \in [Conn -> Map \cup {NoSnap}] /\ SnapInv'
    BY <2>1, SnapSettled, Zenon
  <2>5. stale' \subseteq Conn
    BY <2>4 DEF SnapInv
  <2> HIDE DEF act
  <2>6. TypeOK'
    BY <1>0, <2>1, <2>2, <2>3, <2>4, <2>5, Zenon DEF TypeOK
  <2>7. PoolInv'
    BY <1>0, <2>1, PoolKept DEF Live
  <2>8. GuardInv' /\ BaseInv'
    BY <1>0, <2>1 DEF GuardInv, Writers, Readers, BaseInv
  <2> QED BY <2>4, <2>6, <2>7, <2>8, Zenon DEF IInv
<1>5. ASSUME NEW t \in Tx, NEW r \in KeyRange, range_scan(t, r) PROVE IInv'
  <2>1. /\ mode[t] \in {"read", "write"}
        /\ ret' = [ret EXCEPT ![t] = Contents(View(conn[t]), r)]
        /\ Settle(conn[t], active, mode[t] = "write")
        /\ UNCHANGED <<db, mode, conn, pool, opened, active, dirty, asked, base>>
    BY <1>5, Zenon DEF range_scan
  <2>2. Contents(View(conn[t]), r) \in SUBSET (Key \X Val)
    BY <2>1, LiveConn, SqliteContents DEF Live
  <2>3. snap' \in [Conn -> Map \cup {NoSnap}] /\ SnapInv'
    BY <2>1, SnapSettled, Zenon
  <2>4. stale' \subseteq Conn
    BY <2>3 DEF SnapInv
  <2>5. TypeOK'
    BY <1>0, <2>1, <2>2, <2>3, <2>4, Zenon DEF TypeOK
  <2>6. PoolInv'
    BY <1>0, <2>1, PoolKept, Zenon DEF Live
  <2>7. GuardInv' /\ BaseInv'
    BY <1>0, <2>1 DEF GuardInv, Writers, Readers, BaseInv
  <2> QED BY <2>3, <2>5, <2>6, <2>7, Zenon DEF IInv
<1>6. ASSUME NEW t \in Tx, NEW m \in Map, NEW D \in SUBSET Key, mode[t] = "write",
             snap' = [snap EXCEPT ![conn[t]] = m], dirty' = dirty \cup D,
             \A k \in Key \ (dirty \cup D) : m[k] = View(conn[t])[k],
             ret' = [ret EXCEPT ![t] = NoVal],
             UNCHANGED <<db, mode, conn, pool, opened, stale, active, asked, base>>
      PROVE  IInv'
  <2>1. \A k \in Key \ dirty' : m[k] = db[k]
    BY <1>0, <1>6, Zenon DEF SnapInv
  <2>2. dirty' \subseteq Key
    BY <1>0, <1>6 DEF TypeOK
  <2>3. snap' \in [Conn -> Map \cup {NoSnap}] /\ SnapInv'
    BY <1>6, <2>1, <2>2, SnapWritten, Zenon
  <2>4. TypeOK'
    BY <1>0, <1>6, <2>2, <2>3, Zenon DEF TypeOK, Slot
  <2>5. PoolInv'
    BY <1>0, <1>6, PoolKept, Zenon DEF Live
  <2>6. GuardInv' /\ BaseInv'
    BY <1>0, <1>6 DEF GuardInv, Writers, Readers, BaseInv
  <2> QED BY <2>3, <2>4, <2>5, <2>6, Zenon DEF IInv
<1>7. ASSUME NEW t \in Tx, NEW k \in Key, NEW v \in Slot, put(t, k, v)
      PROVE  IInv'
  <2> DEFINE m == [View(conn[t]) EXCEPT ![k] = v]
  <2>1. /\ mode[t] = "write" /\ snap' = [snap EXCEPT ![conn[t]] = m]
        /\ dirty' = dirty \cup {k} /\ ret' = [ret EXCEPT ![t] = NoVal]
        /\ UNCHANGED <<db, mode, conn, pool, opened, stale, active, asked, base>>
    BY <1>0, <1>7, Zenon DEF put, SnapInv
  <2>2. View(conn[t]) \in Map
    BY <2>1, LiveConn DEF Live
  <2>3. m \in Map /\ \A j \in Key \ (dirty \cup {k}) : m[j] = View(conn[t])[j]
    BY <2>2 DEF Map
  <2>4. {k} \in SUBSET Key
    OBVIOUS
  <2> HIDE DEF m
  <2> QED BY <1>6, <2>1, <2>3, <2>4, Zenon
<1>8. ASSUME NEW t \in Tx, NEW r \in KeyRange, del_range_from_persisted(t, r)
      PROVE  IInv'
  <2> DEFINE gone == {k \in InRange(r) : View(conn[t])[k] # NoVal}
             m == [k \in Key |-> IF k \in gone THEN NoVal ELSE View(conn[t])[k]]
  <2>1. /\ mode[t] = "write" /\ snap' = [snap EXCEPT ![conn[t]] = m]
        /\ dirty' = dirty \cup gone /\ ret' = [ret EXCEPT ![t] = NoVal]
        /\ UNCHANGED <<db, mode, conn, pool, opened, stale, active, asked, base>>
    BY <1>8, Zenon DEF del_range_from_persisted
  <2>2. View(conn[t]) \in Map
    BY <2>1, LiveConn DEF Live
  <2>3. gone \in SUBSET Key
    BY DEF InRange
  <2> HIDE DEF gone
  <2>4. m \in Map /\ \A j \in Key \ (dirty \cup gone) : m[j] = View(conn[t])[j]
    BY <2>2 DEF Map, Slot
  <2> HIDE DEF m
  <2> QED BY <1>6, <2>1, <2>3, <2>4, Zenon
<1>9. ASSUME NEW t \in Tx, commit(t), mode[t] = "read" PROVE IInv'
  <2>1. /\ mode' = [mode EXCEPT ![t] = "ended"] /\ ret' = [ret EXCEPT ![t] = NoVal]
        /\ UNCHANGED <<db, snap, stale, dirty, conn, pool, opened, active, asked, base>>
    BY <1>9, Zenon DEF commit
  <2>2. TypeOK'
    BY <1>0, <2>1 DEF TypeOK, Mode, Slot
  <2>3. Live' = Live /\ Writers' = Writers /\ Readers' = Readers
    BY <1>0, <1>9, <2>1 DEF Live, Writers, Readers
  <2>4. PoolInv'
    BY <1>0, <2>1, <2>3, PoolKept
  <2>5. GuardInv'
    BY <1>0, <2>3 DEF GuardInv
  <2>6. \A u \in Tx : mode'[u] = "write" <=> mode[u] = "write"
    BY <1>0, <1>9, <2>1, Zenon
  <2>7. SnapInv'
    BY <1>0, <2>1, <2>6 DEF SnapInv, View
  <2>8. BaseInv'
    BY <1>0, <2>1 DEF BaseInv
  <2> QED BY <2>2, <2>4, <2>5, <2>7, <2>8, Zenon DEF IInv
<1>10. ASSUME NEW t \in Tx, commit(t), mode[t] = "write" PROVE IInv'
  <2> DEFINE c == conn[t]
  <2>1. /\ mode' = [mode EXCEPT ![t] = "done"] /\ ret' = [ret EXCEPT ![t] = NoVal]
        /\ dirty # {} => \A o \in Conn \ {c} : snap[o] = NoSnap
        /\ db' = IF dirty = {} THEN db ELSE snap[c]
        /\ dirty' = {}
        /\ \E x \in {NoSnap, View(c)} : snap' = [snap EXCEPT ![c] = x]
        /\ stale' \subseteq stale \cup {o \in Conn \ {c} : dirty # {} /\ snap[o] # NoSnap}
        /\ UNCHANGED <<conn, pool, opened, active, asked, base>>
    BY <1>10, Zenon DEF Standing, commit
  <2>2. stale' = {}
    BY <1>0, <2>1, Zenon DEF SnapInv
  <2>3. t \in Live /\ c \in Conn /\ View(c) \in Map
    BY <1>10, LiveConn DEF Live
  <2>4. db' = View(c)
    BY <1>10, CommitWrites, Zenon
  <2> HIDE DEF c
  <2>5. TypeOK'
    BY <1>0, <2>1, <2>2, <2>3, <2>4 DEF TypeOK, Mode, Slot
  <2>6. Live' = Live /\ Writers' = Writers /\ Readers' = Readers
    BY <1>0, <1>10, <2>1 DEF Live, Writers, Readers
  <2>7. PoolInv'
    BY <1>0, <2>1, <2>6, PoolKept
  <2>8. GuardInv'
    BY <1>0, <2>6 DEF GuardInv
  <2>9. \A u \in Tx : mode[u] = "write" => u = t
    BY <1>0, <1>10 DEF GuardInv, Writers
  <2>10. \A u \in Tx : mode'[u] # "write" /\ mode'[u] # "read"
    BY <1>0, <1>10, <2>1, <2>9 DEF GuardInv, Writers, Readers
  <2>11. \A o \in Conn : snap'[o] \in {NoSnap, db'}
    <3> SUFFICES ASSUME NEW o \in Conn PROVE snap'[o] \in {NoSnap, db'}
      BY Zenon
    <3>1. CASE o = c
      BY <1>0, <2>1, <2>3, <2>4, <3>1, Zenon DEF TypeOK
    <3>2. CASE o # c
      <4>1. snap'[o] = snap[o]
        BY <1>0, <2>1, <3>2, Zenon DEF TypeOK
      <4>2. snap[o] \in {NoSnap, db}
        BY <1>0, <2>9, <3>2, Zenon DEF SnapInv, c
      <4> QED BY <2>1, <3>2, <4>1, <4>2, Zenon
    <3> QED BY <3>1, <3>2
  <2>12. SnapInv' /\ BaseInv'
    BY <2>1, <2>2, <2>10, <2>11 DEF SnapInv, BaseInv
  <2> QED BY <2>5, <2>7, <2>8, <2>12 DEF IInv
<1>11. ASSUME NEW t \in Tx, drop(t) PROVE IInv'
  <2> DEFINE c == conn[t]
  <2>1. /\ mode[t] \in {"read", "write", "done", "ended"}
        /\ mode' = [mode EXCEPT ![t] = IF t \in Readers THEN "rpushed" ELSE "wpushed"]
        /\ pool' = Append(pool, c)
        /\ asked' = [asked EXCEPT ![t] = {}]
        /\ base' = [base EXCEPT ![t] = Unset]
        /\ ret' = [ret EXCEPT ![t] = NoVal]
        /\ UNCHANGED <<db, conn, opened, active>>
    BY <1>11 DEF drop
  <2>2. /\ mode[t] # "write" => UNCHANGED <<snap, stale, dirty>>
        /\ mode[t] = "write" =>
             /\ \E x \in {NoSnap, db, IF dirty = {} THEN snap[c] ELSE db} :
                  snap' = [snap EXCEPT ![c] = x]
             /\ stale' \subseteq stale /\ dirty' = {}
    BY <1>11, Zenon DEF drop
  <2>3. t \in Live /\ c \in Conn /\ View(c) \in Map
    BY <2>1, LiveConn, Zenon DEF Live
  <2>4. PoolInv' /\ pool' \in Seq(Conn)
    <3>1. Live' = Live \ {t}
      BY <1>0, <2>1, Zenon DEF Live
    <3> QED BY <2>1, <2>3, <3>1, PoolReturned
  <2>5. db \in Map /\ NoSnap \notin Map
    BY <1>0, Zenon DEF Standing, TypeOK, Map, Slot
  <2>6. stale' = {}
    BY <1>0, <2>2, Zenon DEF SnapInv
  <2>7. mode[t] = "write" /\ dirty = {} => snap[c] \in {NoSnap, db}
    <3> SUFFICES ASSUME mode[t] = "write", dirty = {}, snap[c] # NoSnap PROVE snap[c] = db
      BY Zenon
    <3>1. \A k \in Key : View(c)[k] = db[k]
      BY <1>0, Zenon DEF SnapInv
    <3>2. View(c) = db
      BY <2>3, <2>5, <3>1, SameMap
    <3> QED BY <3>2 DEF View
  <2>8. \A u \in Tx : mode'[u] = "write" <=> u # t /\ mode[u] = "write"
    BY <1>0, <2>1
  <2>9. mode[t] = "write" => \A u \in Tx : mode[u] = "write" => u = t
    BY <1>0, Zenon DEF GuardInv, Writers
  <2>10. \A u \in Tx : mode[u] = "write" => (u # t => conn[u] # c)
    <3> SUFFICES ASSUME NEW u \in Tx, mode[u] = "write", u # t PROVE conn[u] # c
      OBVIOUS
    <3>1. u \in Live
      BY DEF Live
    <3> QED BY <1>0, <2>3, <3>1 DEF PoolInv
  <2> HIDE DEF c
  <2>11. \A o \in Conn : (\A u \in Tx : mode'[u] = "write" => conn[u] # o)
                                 => snap'[o] \in {NoSnap, db}
    <3> SUFFICES ASSUME NEW o \in Conn, \A u \in Tx : mode'[u] = "write" => conn[u] # o
                 PROVE  snap'[o] \in {NoSnap, db}
      OBVIOUS
    <3>0. snap \in [Conn -> Map \cup {NoSnap}]
      BY <1>0, Zenon DEF TypeOK
    <3>1. CASE mode[t] = "write" /\ o = c
      BY <2>2, <2>3, <2>7, <3>0, <3>1, Zenon
    <3>2. CASE mode[t] = "write" /\ o # c
      <4>1. snap'[o] = snap[o]
        BY <2>2, <3>0, <3>2, Zenon
      <4>2. \A u \in Tx : mode[u] = "write" => conn[u] # o
        BY <2>9, <3>2, Zenon DEF c
      <4> QED BY <1>0, <4>1, <4>2, Zenon DEF SnapInv
    <3>3. CASE mode[t] # "write"
      <4>1. \A u \in Tx : mode[u] = "write" => conn[u] # o
        BY <2>8, <3>3, Zenon
      <4> QED BY <1>0, <2>2, <3>3, <4>1, Zenon DEF SnapInv
    <3> QED BY <3>1, <3>2, <3>3
  <2>12. \A u \in Tx : mode'[u] = "write" => snap' = snap /\ dirty' = dirty /\ mode[u] = "write"
    BY <2>2, <2>8, <2>9, Zenon
  <2>13. dirty' # {} => \E u \in Tx : mode'[u] = "write"
    BY <1>0, <2>2, <2>8, Zenon DEF SnapInv
  <2>14. SnapInv'
    BY <1>0, <2>1, <2>6, <2>11, <2>12, <2>13 DEF SnapInv, View
  <2>15. snap' \in [Conn -> Map \cup {NoSnap}] /\ dirty' \subseteq Key
    BY <1>0, <2>2, <2>3, <2>5, <2>7, Zenon DEF TypeOK
  <2>16. TypeOK'
    BY <1>0, <2>1, <2>4, <2>6, <2>15, Zenon
       DEF TypeOK, Mode, Unset, Map, Slot
  <2>17. GuardInv'
    BY <1>0, <2>1, Zenon DEF GuardInv, Writers, Readers
  <2>18. BaseInv'
    BY <1>0, <2>1, Zenon DEF BaseInv, TypeOK
  <2> QED BY <2>4, <2>14, <2>16, <2>17, <2>18, Zenon DEF IInv
<1>12. ASSUME NEW t \in Tx, drop_guard(t) PROVE IInv'
  <2>1. /\ mode[t] \in {"rpushed", "wpushed"} /\ mode' = [mode EXCEPT ![t] = "unguarded"]
        /\ UNCHANGED <<db, conn, pool, opened, snap, stale, active, dirty, asked, base,
                       ret>>
    BY <1>12, Zenon DEF drop_guard
  <2>2. TypeOK'
    BY <1>0, <2>1 DEF TypeOK, Mode
  <2>3. Live' = Live
    BY <1>0, <2>1 DEF Live
  <2>4. PoolInv'
    BY <1>0, <2>1, <2>3, PoolKept, Zenon
  <2>5. GuardInv'
    BY <1>0, <2>1 DEF GuardInv, Writers, Readers
  <2>6. \A u \in Tx : mode'[u] = "write" <=> mode[u] = "write"
    BY <1>0, <2>1, Zenon
  <2>7. SnapInv'
    BY <1>0, <2>1, <2>6 DEF SnapInv, View
  <2>8. BaseInv'
    BY <1>0, <2>1, Zenon DEF BaseInv
  <2> QED BY <2>2, <2>4, <2>5, <2>7, <2>8 DEF IInv
<1>13. ASSUME NEW t \in Tx, drop_stmts(t) PROVE IInv'
  <2> DEFINE c == conn[t]
  <2>1. /\ mode[t] = "unguarded" /\ mode' = [mode EXCEPT ![t] = "idle"]
        /\ active' \subseteq active /\ stale' \subseteq stale
        /\ conn' = [conn EXCEPT ![t] = 0]
        /\ UNCHANGED <<db, pool, opened, dirty, asked, base, ret>>
    BY <1>13 DEF drop_stmts
  <2>2. /\ \E x \in {snap[c], NoSnap} : snap' = [snap EXCEPT ![c] = x]
        /\ InSql(c) => snap' = [snap EXCEPT ![c] = snap[c]]
    BY <1>13, Zenon DEF drop_stmts, Pinned
  <2> HIDE DEF c
  <2>3. snap \in [Conn -> Map \cup {NoSnap}]
    BY <1>0 DEF TypeOK
  <2>4. /\ snap' \in [Conn -> Map \cup {NoSnap}]
        /\ \A o \in Conn : snap'[o] \in {snap[o], NoSnap}
        /\ \A o \in Conn : InSql(o) => snap'[o] = snap[o]
    BY <2>2, <2>3, Zenon
  <2>5. conn' \in [Tx -> 0..Cardinality(Tx)]
    BY <1>0, <2>1 DEF TypeOK, Cardinality, Cardinality
  <2>6. TypeOK'
    BY <1>0, <2>1, <2>4, <2>5, Zenon DEF TypeOK, Mode
  <2>7. /\ Live' = Live /\ Writers' = Writers
        /\ Readers' = Readers
    BY <1>0, <2>1, Zenon DEF Live, Writers, Readers
  <2>8. \A u \in Tx : u # t => conn'[u] = conn[u]
    BY <1>0, <2>1 DEF TypeOK
  <2>9. PoolInv'
    <3>1. \A u \in Live : conn'[u] = conn[u]
      BY <2>1, <2>8 DEF Live
    <3>2. {conn'[u] : u \in Live'} = {conn[u] : u \in Live}
      BY <2>7, <3>1
    <3>3. Idle' = Idle /\ opened' = opened /\ pool' = pool
      BY <2>1 DEF Idle
    <3>4. \A u, v \in Live' : u # v => conn'[u] # conn'[v]
      BY <1>0, <2>7, <3>1 DEF PoolInv
    <3> QED BY <1>0, <3>2, <3>3, <3>4, Zenon DEF PoolInv
  <2>10. GuardInv'
    BY <1>0, <2>7 DEF GuardInv
  <2>11. \A u \in Tx : mode'[u] = "write" <=> mode[u] = "write"
    BY <1>0, <2>1, Zenon
  <2>12. ASSUME NEW u \in Tx, mode[u] = "write"
         PROVE  conn'[u] = conn[u] /\ snap'[conn[u]] = snap[conn[u]]
    <3>1. u \in Live /\ u # t
      BY <2>1, <2>12, Zenon DEF Live
    <3>2. conn[u] \in Conn /\ InSql(conn[u])
      BY <2>12, <3>1, LiveConn, Zenon DEF InSql
    <3> QED BY <2>4, <2>8, <3>1, <3>2
  <2>13. stale' = {} /\ (dirty' # {} => \E u \in Tx : mode'[u] = "write")
    BY <1>0, <2>1, <2>11 DEF SnapInv
  <2>14. ASSUME NEW o \in Conn, \A u \in Tx : mode'[u] = "write" => conn'[u] # o
         PROVE  snap'[o] \in {NoSnap, db'}
    <3>1. snap[o] \in {NoSnap, db}
      BY <1>0, <2>11, <2>12, <2>14 DEF SnapInv
    <3> QED BY <2>1, <2>4, <3>1, Zenon
  <2>15. ASSUME NEW u \in Tx, mode'[u] = "write"
         PROVE  /\ \A k \in Key \ dirty' : View(conn[u])'[k] = db'[k]
                /\ dirty' # {} => snap'[conn'[u]] # NoSnap
    BY <1>0, <2>1, <2>11, <2>12, <2>15 DEF SnapInv, View
  <2>16. SnapInv'
    BY <2>13, <2>14, <2>15, Zenon DEF SnapInv
  <2>17. BaseInv'
    BY <1>0, <2>1, Zenon DEF BaseInv
  <2> QED BY <2>6, <2>9, <2>10, <2>16, <2>17 DEF IInv
<1>14. CASE Next
  <2>1. PICK t \in Tx : Step(t)
    BY <1>14, Zenon DEF Next
  <2>2. commit(t) => mode[t] \in {"read", "write"}
    BY Zenon DEF commit
  <2> QED BY <1>2, <1>3, <1>4, <1>5, <1>7, <1>8, <1>9, <1>10, <1>11, <1>12, <1>13, <2>1, <2>2
             DEF Step
<1> QED BY <1>1, <1>14

\* What a reader sees is what the table held when it got its guard.
LEMMA SqliteReads ==
    ASSUME Standing PROVE IInv => ReadsAgree
<1> SUFFICES ASSUME IInv, NEW t \in Tx, mode[t] = "read"
             PROVE  View(conn[t]) = base[t]
  BY DEF ReadsAgree
<1>1. t \in Live /\ conn[t] \in Conn
  BY LiveConn DEF Live
<1>2. \A u \in Tx : mode[u] # "write"
  BY Zenon DEF IInv, GuardInv, Writers, Readers
<1> QED BY <1>1, <1>2, Zenon DEF IInv, SnapInv, BaseInv, View

-----------------------------------------------------------------------------
(* SQLite implements the contract.                                         *)

\* The engine starts as its contract does.
LEMMA SqliteRefinesInit ==
    ASSUME Standing PROVE Init => Contract!Init
BY DEF Init, Contract!Init, modeBar, viewBar, writtenBar,
       foreignBar, Unset, Contract!Unset, Map, Contract!Map,
       Slot, Contract!Slot

\* A function that differs from f at t only is f updated at t.
LEMMA Updated ==
    ASSUME NEW t \in Tx, NEW f, NEW g, f = [u \in Tx |-> f[u]], g = [u \in Tx |-> g[u]],
           \A u \in Tx \ {t} : g[u] = f[u]
    PROVE  g = [f EXCEPT ![t] = g[t]]
OBVIOUS

\* An update with the value there was changes nothing.
LEMMA NotUpdated ==
    ASSUME NEW t \in Tx, NEW f, NEW g, f = [u \in Tx |-> f[u]], g = [f EXCEPT ![t] = g[t]],
           g[t] = f[t]
    PROVE  g = f
BY Zenon

\* A step of t changes what the contract says of t only.
LEMMA BarsStep ==
    ASSUME Standing, NEW t \in Tx,
           \A u \in Tx \ {t} : mode'[u] = mode[u] /\ conn'[u] = conn[u],
           db' = db \/ \A u \in Tx \ {t} : modeBar[u] = "idle",
           \A u \in Tx \ {t} : mode[u] = "write" =>
              dirty' = dirty /\ View(conn[u])' = View(conn[u])
    PROVE  /\ modeBar' = [modeBar EXCEPT ![t] = modeBar'[t]]
           /\ viewBar' = [viewBar EXCEPT ![t] = viewBar'[t]]
           /\ writtenBar' = [writtenBar EXCEPT ![t] = writtenBar'[t]]
<1>1. ASSUME NEW u \in Tx \ {t}
      PROVE  /\ modeBar'[u] = modeBar[u]
             /\ viewBar'[u] = viewBar[u]
             /\ writtenBar'[u] = writtenBar[u]
  <2>1. modeBar'[u] = modeBar[u]
    BY Zenon DEF modeBar
  <2>2. writtenBar'[u] = writtenBar[u]
    BY Zenon DEF writtenBar
  <2>3. viewBar'[u] = viewBar[u]
    BY <2>1, Zenon DEF viewBar, modeBar, Unset
  <2> QED BY <2>1, <2>2, <2>3, Zenon
<1>2. modeBar' = [modeBar EXCEPT ![t] = modeBar'[t]]
  <2>1. modeBar = [u \in Tx |-> modeBar[u]]
    BY Zenon DEF modeBar
  <2>2. modeBar' = [u \in Tx |-> modeBar'[u]]
    BY DEF modeBar
  <2> QED BY <1>1, <2>1, <2>2, Updated, Zenon
<1>3. viewBar' = [viewBar EXCEPT ![t] = viewBar'[t]]
  <2>1. viewBar = [u \in Tx |-> viewBar[u]]
    BY Zenon DEF viewBar
  <2>2. viewBar' = [u \in Tx |-> viewBar'[u]]
    BY Zenon DEF viewBar
  <2> QED BY <1>1, <2>1, <2>2, Updated, Zenon
<1>4. writtenBar' = [writtenBar EXCEPT ![t] = writtenBar'[t]]
  <2>1. writtenBar = [u \in Tx |-> writtenBar[u]]
    BY Zenon DEF writtenBar
  <2>2. writtenBar' = [u \in Tx |-> writtenBar'[u]]
    BY Zenon DEF writtenBar
  <2> QED BY <1>1, <2>1, <2>2, Updated, Zenon
<1> QED BY <1>2, <1>3, <1>4, Zenon

\* What the contract says of t, by its state.
LEMMA BarsOf ==
    ASSUME Standing, NEW t \in Tx
    PROVE  /\ mode[t] \in {"idle", "conn", "rpushed", "wpushed", "unguarded"} =>
                /\ modeBar[t] = "idle"
                /\ viewBar[t] = Unset /\ writtenBar[t] = {}
           /\ mode[t] \in {"read", "done", "ended"} =>
                /\ modeBar[t] = IF mode[t] = "ended" THEN "done" ELSE mode[t]
                /\ viewBar[t] = db /\ writtenBar[t] = {}
           /\ mode[t] = "write" =>
                /\ modeBar[t] = "write"
                /\ viewBar[t] = View(conn[t]) /\ writtenBar[t] = dirty
BY Zenon DEF modeBar, viewBar, writtenBar

\* The same after a step.
LEMMA BarsOfNext ==
    ASSUME Standing, NEW t \in Tx
    PROVE  /\ mode'[t] \in {"idle", "conn", "rpushed", "wpushed", "unguarded"} =>
                /\ modeBar'[t] = "idle"
                /\ viewBar'[t] = Unset /\ writtenBar'[t] = {}
           /\ mode'[t] \in {"read", "done", "ended"} =>
                /\ modeBar'[t] = IF mode'[t] = "ended" THEN "done" ELSE mode'[t]
                /\ viewBar'[t] = db' /\ writtenBar'[t] = {}
           /\ mode'[t] = "write" =>
                /\ modeBar'[t] = "write"
                /\ viewBar'[t] = View(conn[t])' /\ writtenBar'[t] = dirty'
BY DEF modeBar, viewBar, writtenBar

\* While t holds the guard nobody else writes, and when t writes the contract
\* has nobody else under way.
LEMMA GuardAlone ==
    ASSUME Standing, IInv, NEW t \in Tx, mode[t] \in {"read", "write", "done", "ended"},
           NEW u \in Tx \ {t}
    PROVE  /\ mode[u] # "write"
           /\ mode[t] = "write" => modeBar[u] = "idle"
<1>1. mode[u] \in Mode
  BY DEF IInv, TypeOK
<1>2. mode[u] # "write"
  BY DEF IInv, GuardInv, Writers, Readers
<1>3. mode[t] = "write" => mode[u] \in {"idle", "conn", "unguarded"}
  BY <1>1 DEF IInv, GuardInv, Writers, Readers, Mode
<1> QED BY <1>2, <1>3, BarsOf, Zenon

\* Every step of the engine is one of the contract, or none.
LEMMA SqliteRefinesNext ==
    ASSUME Standing, IInv, Next
    PROVE  Contract!Next \/ UNCHANGED Contract!vars
<1> DEFINE m == modeBar
           v == viewBar
           w == writtenBar
<1>0. /\ mode \in [Tx -> Mode] /\ conn = [u \in Tx |-> conn[u]]
      /\ asked = [u \in Tx |-> asked[u]]
      /\ ret = [u \in Tx |-> ret[u]]
  BY DEF IInv, TypeOK
<1>m. /\ m = [u \in Tx |-> m[u]] /\ v = [u \in Tx |-> v[u]] /\ w = [u \in Tx |-> w[u]]
      /\ m' = [u \in Tx |-> m'[u]] /\ v' = [u \in Tx |-> v'[u]] /\ w' = [u \in Tx |-> w'[u]]
  BY Zenon DEF modeBar, viewBar, writtenBar
<1>1. foreignBar' = foreignBar
  BY Zenon DEF foreignBar
<1>2. ASSUME NEW t \in Tx,
             \A u \in Tx \ {t} : mode'[u] = mode[u] /\ conn'[u] = conn[u],
             \A u \in Tx \ {t} : mode[u] = "write" =>
                dirty' = dirty /\ View(conn[u])' = View(conn[u]),
             UNCHANGED <<db, asked, ret>>,
             mode[t] \in {"idle", "conn", "rpushed", "wpushed", "unguarded"},
             mode'[t] \in {"idle", "conn", "rpushed", "wpushed", "unguarded"}
      PROVE  UNCHANGED Contract!vars
  <2>1. m'[t] = m[t] /\ v'[t] = v[t] /\ w'[t] = w[t]
    BY <1>2, BarsOf, BarsOfNext, Zenon
  <2>2. m' = [m EXCEPT ![t] = m'[t]] /\ v' = [v EXCEPT ![t] = v'[t]] /\ w' = [w EXCEPT ![t] = w'[t]]
    BY <1>2, BarsStep, Zenon
  <2>3. m' = m /\ v' = v /\ w' = w
    BY <1>m, <2>1, <2>2, NotUpdated
  <2> QED BY <1>1, <1>2, <2>3 DEF Contract!vars
\* A statement that reads changes nothing the contract sees but the answer.
<1>3. ASSUME NEW t \in Tx, mode[t] \in {"read", "write"}, UNCHANGED <<db, mode, conn, dirty>>,
             mode[t] = "write" => View(conn[t])' = View(conn[t])
      PROVE  m' = m /\ v' = v /\ w' = w
  <2>1. m'[t] = m[t] /\ v'[t] = v[t] /\ w'[t] = w[t]
    BY <1>3, BarsOf, BarsOfNext, Zenon
  <2>2. \A u \in Tx \ {t} : mode[u] # "write"
    BY <1>3, GuardAlone
  <2>3. m' = [m EXCEPT ![t] = m'[t]] /\ v' = [v EXCEPT ![t] = v'[t]] /\ w' = [w EXCEPT ![t] = w'[t]]
    BY <1>3, <2>2, BarsStep
  <2> QED BY <1>m, <2>1, <2>3, NotUpdated, Zenon
\* A step of the holder of the guard changes what the contract says of it.
<1>4. ASSUME NEW t \in Tx, mode[t] \in {"read", "write", "done", "ended"},
             \A u \in Tx \ {t} : mode'[u] = mode[u] /\ conn'[u] = conn[u],
             mode[t] # "write" => db' = db
      PROVE  /\ m' = [m EXCEPT ![t] = m'[t]]
             /\ v' = [v EXCEPT ![t] = v'[t]]
             /\ w' = [w EXCEPT ![t] = w'[t]]
  <2>1. \A u \in Tx \ {t} : mode[u] # "write" /\ (mode[t] = "write" => m[u] = "idle")
    BY <1>4, GuardAlone, Zenon
  <2> QED BY <1>4, <2>1, BarsStep, Zenon
\* A reader sees the table.
<1>5. ASSUME NEW t \in Tx, mode[t] \in {"read", "write"} PROVE View(conn[t]) = v[t]
  BY <1>5, BarsOf, SqliteReads, Zenon DEF ReadsAgree, IInv, BaseInv
<1>6. ASSUME NEW t \in Tx, take_conn(t) PROVE UNCHANGED Contract!vars
  <2>1. /\ mode[t] = "idle" /\ mode' = [mode EXCEPT ![t] = "conn"]
        /\ \A u \in Tx \ {t} : conn'[u] = conn[u]
        /\ UNCHANGED <<db, snap, dirty, asked, ret>>
    BY <1>0, <1>6, Zenon DEF take_conn
  <2>2. \A u \in Tx \ {t} : View(conn[u])' = View(conn[u])
    BY <2>1, Zenon DEF View
  <2> QED BY <1>0, <1>2, <2>1, <2>2, Zenon
<1>7. ASSUME NEW t \in Tx, drop_guard(t) PROVE UNCHANGED Contract!vars
  <2>1. /\ mode[t] \in {"rpushed", "wpushed"} /\ mode' = [mode EXCEPT ![t] = "unguarded"]
        /\ UNCHANGED <<db, conn, snap, dirty, asked, ret>>
    BY <1>7, Zenon DEF drop_guard
  <2>2. \A u \in Tx \ {t} : View(conn[u])' = View(conn[u])
    BY <2>1 DEF View
  <2> QED BY <1>0, <1>2, <2>1, <2>2
<1>8. ASSUME NEW t \in Tx, drop_stmts(t) PROVE UNCHANGED Contract!vars
  <2>1. /\ mode[t] = "unguarded" /\ mode' = [mode EXCEPT ![t] = "idle"]
        /\ conn' = [conn EXCEPT ![t] = 0]
        /\ UNCHANGED <<db, dirty, asked, ret>>
    BY <1>8, Zenon DEF drop_stmts
  <2>2. ASSUME NEW u \in Tx \ {t}, mode[u] = "write"
        PROVE  View(conn[u])' = View(conn[u])
    <3>1. conn[u] \in Conn /\ conn'[u] = conn[u]
      BY <1>0, <2>1, <2>2, LiveConn DEF Live
    <3>2. snap \in [Conn -> Map \cup {NoSnap}]
      BY Zenon DEF IInv, TypeOK
    <3>3. conn[t] = conn[u] => InSql(conn[t])
      BY <2>2, Zenon DEF InSql
    <3>4. snap'[conn[u]] = snap[conn[u]]
      BY <1>8, <3>1, <3>2, <3>3, Zenon DEF drop_stmts, Pinned
    <3> QED BY <2>1, <3>1, <3>4, Zenon DEF View
  <2> QED BY <1>0, <1>2, <2>1, <2>2, Zenon
<1>9. ASSUME NEW t \in Tx, NEW write \in BOOLEAN, take_guard(t, write)
      PROVE  Contract!Begin(t, write)
  <2>1. /\ mode[t] = "conn" /\ Writers = {}
        /\ mode' = [mode EXCEPT ![t] = IF write THEN "write" ELSE "read"]
        /\ UNCHANGED <<db, conn, snap, dirty, asked, ret>>
    BY <1>9 DEF take_guard
  <2>2. \A u \in Tx : mode[u] # "write"
    BY <2>1, Zenon DEF Writers
  <2>3. m' = [m EXCEPT ![t] = m'[t]] /\ v' = [v EXCEPT ![t] = v'[t]] /\ w' = [w EXCEPT ![t] = w'[t]]
    BY <1>0, <2>1, <2>2, BarsStep, Zenon
  <2>4. dirty = {} /\ View(conn[t])' = db
    <3>1. conn[t] \in Conn
      BY <2>1, LiveConn, Zenon DEF Live
    <3> QED BY <2>1, <2>2, <3>1, Zenon DEF IInv, SnapInv, View
  <2>5. m[t] = "idle" /\ w[t] = {}
    BY <2>1, BarsOf, Zenon
  <2>6. m'[t] = (IF write THEN "write" ELSE "read") /\ v'[t] = db /\ w'[t] = {}
    BY <1>0, <2>1, <2>4, BarsOfNext
  <2>7. w' = w
    BY <1>m, <2>3, <2>5, <2>6, NotUpdated, Zenon
  <2> HIDE DEF m, v, w
  <2> QED BY <1>1, <2>1, <2>3, <2>5, <2>6, <2>7, Zenon DEF Contract!Begin, m, v, w
<1>10. ASSUME NEW t \in Tx, NEW s \in Stmt, NEW k \in Key, NEW fu \in BOOLEAN,
              get(t, s, k, fu)
       PROVE  Contract!Get(t, k, fu)
  <2> DEFINE act == IF View(conn[t])[k] # NoVal THEN active \cup {<<t, s>>}
                                                       ELSE active \ {<<t, s>>}
  <2>1. /\ mode[t] \in {"read", "write"} /\ (fu => mode[t] = "write")
        /\ ret' = [ret EXCEPT ![t] = View(conn[t])[k]]
        /\ asked' = [asked EXCEPT ![t] = IF fu THEN @ \cup {k} ELSE @]
        /\ Settle(conn[t], act, mode[t] = "write")
        /\ UNCHANGED <<db, mode, conn, dirty>>
    BY <1>10, Zenon DEF get
  <2> HIDE DEF act
  <2>2. mode[t] = "write" => View(conn[t])' = View(conn[t])
    BY <2>1, SnapSettled, Zenon
  <2>3. m' = m /\ v' = v /\ w' = w
    BY <1>3, <2>1, <2>2, Zenon
  <2>4. View(conn[t]) = v[t] /\ m[t] = mode[t]
    BY <1>5, <2>1, BarsOf
  <2>5. v[t] \in Contract!Sees(t, fu)
    BY DEF Contract!Sees
  <2> QED BY <1>1, <2>1, <2>3, <2>4, <2>5, Zenon DEF Contract!Get
<1>11. ASSUME NEW t \in Tx, NEW r \in KeyRange, range_scan(t, r)
       PROVE  Contract!RangeScan(t, r)
  <2>1. /\ mode[t] \in {"read", "write"}
        /\ ret' = [ret EXCEPT ![t] = Contents(View(conn[t]), r)]
        /\ Settle(conn[t], active, mode[t] = "write")
        /\ UNCHANGED <<db, mode, conn, dirty, asked>>
    BY <1>11, Zenon DEF range_scan
  <2>2. mode[t] = "write" => View(conn[t])' = View(conn[t])
    BY <2>1, SnapSettled, Zenon
  <2>3. m' = m /\ v' = v /\ w' = w
    BY <1>3, <2>1, <2>2, Zenon
  <2>4. View(conn[t]) = v[t] /\ m[t] = mode[t]
    BY <1>5, <2>1, BarsOf, Zenon
  <2>5. v[t] \in Contract!Sees(t, FALSE)
    BY Zenon DEF Contract!Sees
  <2>6. Contents(v[t], r) = Contract!Contents(v[t], r)
    BY Zenon DEF Contents, Contract!Contents, InRange, Contract!InRange
  <2> QED BY <1>1, <2>1, <2>3, <2>4, <2>5, <2>6, Zenon DEF Contract!RangeScan
\* The writer's snapshot becomes n.
<1>12. ASSUME NEW t \in Tx, mode[t] = "write", NEW n \in Map,
              snap' = [snap EXCEPT ![conn[t]] = n],
              UNCHANGED <<db, mode, conn>>
       PROVE  /\ m' = m /\ v' = [v EXCEPT ![t] = n] /\ w' = [w EXCEPT ![t] = dirty']
              /\ m[t] = "write" /\ v[t] = View(conn[t]) /\ w[t] = dirty
  <2>1. m' = [m EXCEPT ![t] = m'[t]] /\ v' = [v EXCEPT ![t] = v'[t]] /\ w' = [w EXCEPT ![t] = w'[t]]
    BY <1>4, <1>12, Zenon
  <2>2. View(conn[t])' = n
    <3>1. conn[t] \in Conn /\ snap \in [Conn -> Map \cup {NoSnap}]
      BY <1>12, LiveConn DEF Live, IInv, TypeOK
    <3>2. n # NoSnap
      BY Zenon DEF Standing, Map, Slot
    <3> QED BY <1>12, <3>1, <3>2, Zenon DEF View
  <2>3. m[t] = "write" /\ v[t] = View(conn[t]) /\ w[t] = dirty
    BY <1>12, BarsOf, Zenon
  <2>4. m'[t] = "write" /\ v'[t] = n /\ w'[t] = dirty'
    BY <1>12, <2>2, BarsOfNext, Zenon
  <2>5. m' = m
    BY <1>m, <2>1, <2>3, <2>4, NotUpdated
  <2> HIDE DEF m, v, w
  <2> QED BY <2>1, <2>3, <2>4, <2>5, Zenon
<1>13. ASSUME NEW t \in Tx, NEW k \in Key, NEW x \in Slot, put(t, k, x)
       PROVE  Contract!Write(t, k, x)
  <2> DEFINE n == [View(conn[t]) EXCEPT ![k] = x]
  <2>1. /\ mode[t] = "write" /\ snap' = [snap EXCEPT ![conn[t]] = n]
        /\ dirty' = dirty \cup {k} /\ ret' = [ret EXCEPT ![t] = NoVal]
        /\ UNCHANGED <<db, mode, conn, asked>>
    BY <1>13, Zenon DEF put, IInv, SnapInv
  <2>2. n \in Map
    BY <2>1, LiveConn DEF Live, Map
  <2>3. /\ m' = m /\ v' = [v EXCEPT ![t] = n] /\ w' = [w EXCEPT ![t] = dirty']
        /\ m[t] = "write" /\ v[t] = View(conn[t]) /\ w[t] = dirty
    BY <1>12, <2>1, <2>2, Zenon
  <2>4. v' = [v EXCEPT ![t][k] = x] /\ w' = [w EXCEPT ![t] = @ \cup {k}]
    <3> HIDE DEF m, v, w
    <3> QED BY <1>m, <2>1, <2>3
  <2> QED BY <1>1, <2>1, <2>3, <2>4, Zenon DEF Contract!Write
<1>14. ASSUME NEW t \in Tx, NEW r \in KeyRange, del_range_from_persisted(t, r)
       PROVE  Contract!DelRange(t, r)
  <2> DEFINE gone == {k \in InRange(r) : View(conn[t])[k] # NoVal}
             n == [k \in Key |-> IF k \in gone THEN NoVal ELSE View(conn[t])[k]]
  <2>1. /\ mode[t] = "write" /\ snap' = [snap EXCEPT ![conn[t]] = n]
        /\ dirty' = dirty \cup gone /\ ret' = [ret EXCEPT ![t] = NoVal]
        /\ UNCHANGED <<db, mode, conn, asked>>
    BY <1>14, Zenon DEF del_range_from_persisted
  <2>2. View(conn[t]) \in Map
    BY <2>1, LiveConn DEF Live
  <2>3. n \in Map
    BY <2>2 DEF Map, Slot
  <2>4. /\ m' = m /\ v' = [v EXCEPT ![t] = n] /\ w' = [w EXCEPT ![t] = dirty']
        /\ m[t] = "write" /\ v[t] = View(conn[t]) /\ w[t] = dirty
    <3> HIDE DEF n
    <3> QED BY <1>12, <2>1, <2>3, Zenon
  <2>5. gone = {k \in Contract!InRange(r) : v[t][k] # NoVal}
    BY <2>4, Zenon DEF InRange, Contract!InRange
  <2>6. /\ v' = [v EXCEPT ![t] = [k \in Key |-> IF k \in gone THEN NoVal ELSE @[k]]]
        /\ w' = [w EXCEPT ![t] = @ \cup gone]
    <3> HIDE DEF m, v, w, gone
    <3> QED BY <1>m, <2>1, <2>4, Zenon
  <2> HIDE DEF gone
  <2> QED BY <1>1, <2>1, <2>4, <2>5, <2>6, Zenon DEF Contract!DelRange
<1>15. ASSUME NEW t \in Tx, commit(t), mode[t] = "read" PROVE Contract!Commit(t)
  <2>1. /\ mode' = [mode EXCEPT ![t] = "ended"] /\ ret' = [ret EXCEPT ![t] = NoVal]
        /\ UNCHANGED <<db, snap, dirty, conn, asked>>
    BY <1>15, Zenon DEF commit
  <2>2. m' = [m EXCEPT ![t] = m'[t]] /\ v' = [v EXCEPT ![t] = v'[t]] /\ w' = [w EXCEPT ![t] = w'[t]]
    BY <1>0, <1>4, <1>15, <2>1
  <2>3. m[t] = "read" /\ v[t] = db
    BY <1>15, BarsOf, Zenon
  <2>4. m'[t] = "done" /\ v'[t] = db /\ w'[t] = {}
    BY <1>0, <2>1, BarsOfNext, Zenon
  <2>5. v' = v
    BY <1>m, <2>2, <2>3, <2>4, NotUpdated
  <2> HIDE DEF m, v, w
  <2> QED BY <1>1, <2>1, <2>2, <2>3, <2>4, <2>5, Zenon DEF Contract!Commit, m, v, w
<1>16. ASSUME NEW t \in Tx, commit(t), mode[t] = "write" PROVE Contract!Commit(t)
  <2>1. /\ mode' = [mode EXCEPT ![t] = "done"] /\ ret' = [ret EXCEPT ![t] = NoVal]
        /\ UNCHANGED <<conn, asked>>
    BY <1>16, Zenon DEF commit
  <2>2. db' = View(conn[t]) /\ View(conn[t]) \in Map
    BY <1>16, CommitWrites, LiveConn, Zenon DEF Live
  <2>3. m' = [m EXCEPT ![t] = m'[t]] /\ v' = [v EXCEPT ![t] = v'[t]] /\ w' = [w EXCEPT ![t] = w'[t]]
    BY <1>0, <1>4, <1>16, <2>1
  <2>4. m[t] = "write" /\ v[t] = View(conn[t]) /\ w[t] = dirty
    BY <1>16, BarsOf, Zenon
  <2>5. m'[t] = "done" /\ v'[t] = db' /\ w'[t] = {}
    BY <1>0, <2>1, BarsOfNext, Zenon
  <2>6. v' = v
    BY <1>m, <2>2, <2>3, <2>4, <2>5, NotUpdated
  <2>7. db' = [k \in Key |-> IF k \in w[t] THEN v[t][k] ELSE db[k]]
    <3>1. \A k \in Key \ dirty : View(conn[t])[k] = db[k]
      BY <1>16 DEF IInv, SnapInv
    <3> HIDE DEF m, v, w
    <3> QED BY <2>2, <2>4, <3>1, Zenon DEF Map
  <2>8. foreignBar[t] = {}
    BY DEF foreignBar
  <2>9. foreignBar' = [u \in Tx |-> IF u = t \/ m[u] = "idle" THEN foreignBar[u]
                                           ELSE foreignBar[u] \cup w[t]]
    <3>1. \A u \in Tx : u = t \/ m[u] = "idle"
      BY <1>16, GuardAlone, Zenon
    <3> HIDE DEF m, v, w
    <3> QED BY <3>1, Zenon DEF foreignBar
  <2> HIDE DEF m, v, w
  <2> QED BY <2>1, <2>3, <2>4, <2>5, <2>6, <2>7, <2>8, <2>9, Zenon DEF Contract!Commit, m, v, w
<1>17. ASSUME NEW t \in Tx, drop(t) PROVE Contract!Drop(t)
  <2>1. /\ mode[t] \in {"read", "write", "done", "ended"}
        /\ mode' = [mode EXCEPT ![t] = IF t \in Readers THEN "rpushed" ELSE "wpushed"]
        /\ asked' = [asked EXCEPT ![t] = {}]
        /\ ret' = [ret EXCEPT ![t] = NoVal]
        /\ UNCHANGED <<db, conn>>
    BY <1>17, Zenon DEF drop
  <2>2. m' = [m EXCEPT ![t] = m'[t]] /\ v' = [v EXCEPT ![t] = v'[t]] /\ w' = [w EXCEPT ![t] = w'[t]]
    BY <1>0, <1>4, <2>1
  <2>3. m[t] # "idle"
    BY <2>1, BarsOf, Zenon
  <2>4. m'[t] = "idle" /\ v'[t] = Unset /\ w'[t] = {}
    BY <1>0, <2>1, BarsOfNext
  <2>5. Contract!Unset = Unset
    BY DEF Contract!Unset, Unset
  <2>6. foreignBar' = [foreignBar EXCEPT ![t] = {}]
    BY DEF foreignBar
  <2> HIDE DEF m, v, w
  <2> QED BY <2>1, <2>2, <2>3, <2>4, <2>5, <2>6 DEF Contract!Drop, m, v, w
<1>18. KeyRange = Contract!KeyRange /\ Slot = Contract!Slot
  BY DEF KeyRange, Contract!KeyRange, Slot, Contract!Slot
<1>19. PICK t \in Tx : Step(t)
  BY DEF Next
<1>20. commit(t) => mode[t] \in {"read", "write"}
  BY Zenon DEF commit
<1>21. Contract!Step(t) \/ UNCHANGED Contract!vars
  BY <1>6, <1>7, <1>8, <1>9, <1>10, <1>11, <1>13, <1>14, <1>15, <1>16, <1>17, <1>18, <1>19, <1>20, Zenon
     DEF Step, Contract!Step
<1> QED BY <1>21, Zenon DEF Contract!Next
=============================================================================
