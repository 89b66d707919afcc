--------------------------- MODULE EnginesProofs ---------------------------
(***************************************************************************)
(* Proofs about the RocksDB engine, the optimistic RocksDB engine and the  *)
(* SQLite engine, for any number of transactions, keys and values.         *)
(*                                                                         *)
(* The first two are proved here.  What is proved of SQLite is in          *)
(* SqliteStoreProofs; MCEngines has that engine under the name Sqlite, so  *)
(* that each of its definitions has to be shown to be the proved one       *)
(* (SameInit ... SameContractVars) before the results can be used.         *)
(***************************************************************************)
EXTENDS MCEngines, TLAPS

\* The provers of every step that does not name its own.
USE SMTT(30), ZenonT(20)

USE KeyAssumption, NoValAssumption, NoEntryAssumption, NobodyAssumption

-----------------------------------------------------------------------------
(* The RocksDB engine.                                                     *)

\* Before the first transaction nothing is locked and nothing is buffered.
LEMMA InitIInv == Init => IInv
  BY DEF Init, IInv, TypeOK, LockInv, BaseInv, IdleInv, Unset, EmptyBatch, Slot, Map

\* The view of a transaction is a map.
LEMMA ViewType == ASSUME TypeOK, NEW t \in Tx PROVE View(t) \in Map /\ BaseView(t) \in Map
  BY DEF TypeOK, View, BaseView, Map, Slot

\* A scan of a map returns pairs of a key and a value.
LEMMA ContentsType ==
    ASSUME NEW m \in Map, NEW r PROVE Contents(m, r) \in SUBSET (Key \X Val)
BY DEF Contents, Map, Slot, InRange

\* Locking a free or own key that nobody has committed keeps the lock
\* invariant: the common part of put, del, del_range and get(for_update).
LEMMA Locked ==
    ASSUME IInv, NEW t \in Tx, NEW k \in Key, mode[t] = "write", Lockable(t, k),
           lock' = [lock EXCEPT ![k] = t],
           mode' = mode, foreign' = foreign, db' = db, base' = base,
           \A u \in Tx : u # t => batch'[u] = batch[u] /\ asked'[u] = asked[u]
                                  /\ todo'[u] = todo[u] /\ ret'[u] = ret[u],
           \A j \in Key : j # k => batch'[t][j] = batch[t][j],
           asked'[t] \subseteq asked[t] \cup {k}
    PROVE  LockInv' /\ BaseInv' /\ IdleInv'
<1>1. LockInv'
  <2> SUFFICES ASSUME NEW u \in Tx, NEW j \in Key,
                      j \in asked'[u] \/ batch'[u][j] # NoEntry, mode[u] = "write"
               PROVE  lock'[j] = u /\ j \notin foreign[u]
    BY DEF LockInv
  <2>1. CASE u = t
    BY <2>1 DEF IInv, LockInv, TypeOK, Lockable
  <2>2. CASE u # t
    BY <2>2 DEF IInv, LockInv, TypeOK, Lockable
  <2> QED BY <2>1, <2>2
<1>2. BaseInv'
  BY DEF IInv, BaseInv
<1>3. IdleInv'
  BY DEF IInv, IdleInv, TypeOK
<1> QED BY <1>1, <1>2, <1>3

\* Every operation keeps the inductive invariant.
LEMMA NextIInv == IInv /\ [Next]_vars => IInv'
<1> SUFFICES ASSUME IInv, [Next]_vars PROVE IInv'
  OBVIOUS
<1>1. CASE UNCHANGED vars
  BY <1>1 DEF vars, IInv, TypeOK, LockInv, BaseInv, IdleInv, Map
<1>2. ASSUME NEW t \in Tx, transact(t) PROVE IInv'
  <2>1. TypeOK' BY <1>2 DEF transact, IInv, TypeOK
  <2>2. LockInv' BY <1>2 DEF transact, IInv, TypeOK, LockInv, IdleInv, EmptyBatch
  <2>3. BaseInv' BY <1>2 DEF transact, IInv, TypeOK, BaseInv
  <2>4. IdleInv' BY <1>2 DEF transact, IInv, TypeOK, IdleInv
  <2> QED BY <2>1, <2>2, <2>3, <2>4, Zenon DEF IInv
<1>3. ASSUME NEW t \in Tx, NEW k \in Key, get(t, k) PROVE IInv'
  <2>1. View(t)[k] \in Slot BY ViewType DEF IInv, Map
  <2>2. TypeOK' BY <1>3, <2>1, Zenon DEF get, IInv, TypeOK
  <2>3. LockInv' /\ BaseInv' BY <1>3 DEF get, IInv, LockInv, BaseInv
  <2>4. IdleInv' BY <1>3 DEF get, IInv, TypeOK, IdleInv, Ready
  <2> QED BY <2>2, <2>3, <2>4 DEF IInv
<1>4. ASSUME NEW t \in Tx, NEW k \in Key, get_for_update(t, k) PROVE IInv'
  <2>1. View(t)[k] \in Slot BY ViewType DEF IInv, Map
  <2>2. TypeOK' BY <1>4, <2>1 DEF get_for_update, IInv, TypeOK
  <2>3. LockInv' /\ BaseInv' /\ IdleInv'
    BY <1>4, Locked, Zenon DEF get_for_update, Ready, IInv, TypeOK
  <2> QED BY <2>2, <2>3, Zenon DEF IInv
<1>5. ASSUME NEW t \in Tx, NEW r \in KeyRange, range_scan(t, r) PROVE IInv'
  <2>1. Contents(View(t), r) \in SUBSET (Key \X Val)
    BY ViewType, ContentsType, Zenon DEF IInv
  <2>2. TypeOK' BY <1>5, <2>1, Zenon DEF range_scan, IInv, TypeOK
  <2>3. LockInv' /\ BaseInv' BY <1>5, Zenon DEF range_scan, IInv, LockInv, BaseInv
  <2>4. IdleInv' BY <1>5 DEF range_scan, IInv, TypeOK, IdleInv, Ready
  <2> QED BY <2>2, <2>3, <2>4, Zenon DEF IInv
<1>6. ASSUME NEW t \in Tx, NEW r \in KeyRange, del_range_from_persisted(t, r) PROVE IInv'
  <2>2. TypeOK' BY <1>6 DEF del_range_from_persisted, IInv, TypeOK, InRange, Slot
  <2>3. LockInv' /\ BaseInv' BY <1>6, Zenon DEF del_range_from_persisted, IInv, LockInv, BaseInv
  <2>4. IdleInv' BY <1>6 DEF del_range_from_persisted, IInv, TypeOK, IdleInv, Ready
  <2> QED BY <2>2, <2>3, <2>4 DEF IInv
<1>7. ASSUME NEW t \in Tx, NEW k \in Key, NEW v \in Slot, put(t, k, v) PROVE IInv'
  <2>2. TypeOK' BY <1>7 DEF put, IInv, TypeOK, Slot
  <2>3. LockInv' /\ BaseInv' /\ IdleInv'
    BY <1>7, Locked, Zenon DEF put, Ready, IInv, TypeOK
  <2> QED BY <2>2, <2>3, Zenon DEF IInv
<1>8. ASSUME NEW t \in Tx, del_next(t) PROVE IInv'
  <2>1. PICK k \in todo[t] : /\ Lockable(t, k)
                             /\ lock' = [lock EXCEPT ![k] = t]
                             /\ batch' = [batch EXCEPT ![t][k] = NoVal]
                             /\ todo' = [todo EXCEPT ![t] = @ \ {k}]
                             /\ ret' = [ret EXCEPT ![t] = NoVal]
                             /\ UNCHANGED <<db, mode, foreign, asked, base>>
    BY <1>8, Zenon DEF del_next
  <2>2. k \in Key /\ mode[t] = "write"
    BY <2>1 DEF IInv, TypeOK, IdleInv
  <2>3. TypeOK' BY <2>1, <2>2 DEF IInv, TypeOK, Slot
  <2>4. LockInv' /\ BaseInv' /\ IdleInv'
    BY <2>1, <2>2, Locked, Zenon DEF IInv, TypeOK
  <2> QED BY <2>3, <2>4 DEF IInv
<1>9. ASSUME NEW t \in Tx, conflict(t) PROVE IInv'
  <2>2. TypeOK' BY <1>9, Zenon DEF conflict, IInv, TypeOK
  <2>3. LockInv' /\ BaseInv' BY <1>9, Zenon DEF conflict, IInv, LockInv, BaseInv
  <2>4. IdleInv' BY <1>9 DEF conflict, IInv, TypeOK, IdleInv
  <2> QED BY <2>2, <2>3, <2>4, Zenon DEF IInv
<1>10. ASSUME NEW t \in Tx, commit(t) PROVE IInv'
  <2>1. TypeOK'
    BY <1>10, ViewType, Zenon DEF commit, IInv, TypeOK, Written, EmptyBatch, Slot
  <2>2. LockInv'
    <3> SUFFICES ASSUME NEW u \in Tx, NEW j \in Key, u # t,
                        j \in asked[u] \/ batch[u][j] # NoEntry, mode[u] = "write"
                 PROVE  lock'[j] = u /\ j \notin foreign'[u]
      BY <1>10 DEF commit, LockInv, IInv, TypeOK
    <3>1. lock[j] = u /\ j \notin foreign[u]
      BY Zenon DEF IInv, LockInv
    <3>2. j \notin Written(t)
      BY <1>10, <3>1, Zenon DEF commit, Ready, Written, IInv, LockInv
    <3> QED BY <1>10, <3>1, <3>2, Zenon DEF commit, IInv, TypeOK
  <2>3. BaseInv'
    <3> SUFFICES ASSUME NEW u \in Tx, u # t, mode[u] = "write", NEW j \in Key \ foreign'[u]
                 PROVE  db'[j] = base[u][j]
      BY <1>10 DEF commit, BaseInv, IInv, TypeOK
    <3>1. j \notin foreign[u] /\ j \notin Written(t)
      BY <1>10, Zenon DEF commit, IInv, TypeOK
    <3> QED BY <1>10, <3>1, Zenon DEF commit, View, Written, IInv, BaseInv
  <2>4. IdleInv'
    BY <1>10 DEF commit, IInv, TypeOK, IdleInv, Ready
  <2> QED BY <2>1, <2>2, <2>3, <2>4 DEF IInv
<1>11. ASSUME NEW t \in Tx, drop(t) PROVE IInv'
  <2>1. TypeOK' BY <1>11, Zenon DEF drop, IInv, TypeOK, EmptyBatch, Unset, Map, Slot
  <2>2. LockInv' BY <1>11, Zenon DEF drop, IInv, TypeOK, LockInv, EmptyBatch
  <2>3. BaseInv' BY <1>11 DEF drop, IInv, TypeOK, BaseInv
  <2>4. IdleInv' BY <1>11 DEF drop, IInv, TypeOK, IdleInv
  <2> QED BY <2>1, <2>2, <2>3, <2>4 DEF IInv
<1> QED
  BY <1>1, <1>2, <1>3, <1>4, <1>5, <1>6, <1>7, <1>8, <1>9, <1>10, <1>11, Zenon DEF Next, Step

\* The inductive invariant of the RocksDB engine holds in every behaviour.
THEOREM Invariance == Spec => []IInv
<1> QED BY InitIInv, NextIInv, PTL DEF Spec

-----------------------------------------------------------------------------

\* Only commit() takes a transaction from "write" to "done".
LEMMA OnlyCommit ==
    ASSUME IInv, [Next]_vars, NEW t \in Tx, mode[t] = "write", mode'[t] = "done"
    PROVE  commit(t)
<1>1. CASE UNCHANGED vars BY <1>1, Zenon DEF vars
<1>2. ASSUME NEW u \in Tx, Step(u) PROVE commit(t)
  <2>1. CASE commit(u) BY <2>1, Zenon DEF commit, IInv, TypeOK
  <2>2. CASE drop(u) \/ transact(u) BY <2>2, Zenon DEF drop, transact, IInv, TypeOK
  <2>3. CASE mode' = mode BY <2>3
  <2> QED BY <1>2, <2>1, <2>2, <2>3 DEF Step, get, get_for_update, range_scan,
             del_range_from_persisted, put, del_next, conflict
<1> QED BY <1>1, <1>2 DEF Next

\* commit() succeeds only if no key read with for_update was modified outside
\* of the transaction, on the RocksDB engine.
THEOREM ForUpdateTheorem == Spec => ForUpdateHolds
<1>1. IInv /\ [Next]_vars =>
        [\A t \in Tx : mode[t] = "write" /\ mode'[t] = "done" =>
            \A k \in asked[t] : db[k] = base[t][k] /\ k \notin foreign[t]]_vars
  BY DEF IInv, TypeOK, LockInv, BaseInv
<1> QED BY <1>1, Invariance, PTL DEF Spec, ForUpdateHolds

\* A commit never overwrites what others have committed since the transaction
\* began: no lost updates on the RocksDB engine.
THEOREM LostUpdateTheorem == Spec => NoLostUpdate
<1>1. ASSUME IInv, [Next]_vars, NEW t \in Tx, mode[t] = "write", mode'[t] = "done",
             NEW k \in Key, db'[k] # db[k]
      PROVE  db[k] = base[t][k]
  <2>1. db' = View(t) BY <1>1, OnlyCommit, Zenon DEF commit
  <2>2. batch[t][k] # NoEntry BY <1>1, <2>1 DEF View
  <2> QED BY <1>1, <2>2, Zenon DEF IInv, LockInv, BaseInv
<1>2. IInv /\ [Next]_vars =>
        [\A t \in Tx : mode[t] = "write" /\ mode'[t] = "done" =>
            \A k \in Key : db'[k] # db[k] => db[k] = base[t][k]]_vars
  BY <1>1
<1> QED BY <1>2, Invariance, PTL DEF Spec, NoLostUpdate

-----------------------------------------------------------------------------
(* The engine implements the contract with read-committed plain reads.     *)

\* The engine starts as the contract of committed reads does.
LEMMA RefinesInit == Init => ReadCommitted!Init
  BY DEF Init, ReadCommitted!Init, viewBar, BaseView, writtenBar, Written, EmptyBatch,
         Unset, ReadCommitted!Unset, Map, Slot, ReadCommitted!Map, ReadCommitted!Slot

\* What a plain read sees is what the weaker contract calls Current.
LEMMA CurrentView ==
    ASSUME NEW t \in Tx PROVE ReadCommitted!Current(t) = View(t)
  BY DEF ReadCommitted!Current, View, viewBar, BaseView, writtenBar, Written

\* A key that is locked for the transaction still has the value it began with.
LEMMA LockedView ==
    ASSUME IInv, NEW t \in Tx, NEW k \in Key, mode[t] = "write", k \notin foreign[t]
    PROVE  View(t)[k] = viewBar[t][k]
  BY DEF View, viewBar, BaseView, IInv, BaseInv

\* Writing v into the batch is the contract's Write.
LEMMA BatchWrite ==
    ASSUME IInv, NEW t \in Tx, NEW k \in Key, NEW v \in Slot, mode[t] = "write",
           batch' = [batch EXCEPT ![t][k] = v], ret' = [ret EXCEPT ![t] = NoVal],
           UNCHANGED <<db, mode, foreign, asked, base>>
    PROVE  ReadCommitted!Write(t, k, v)
<1>0. v # NoEntry BY DEF Slot
<1>1. viewBar' = [viewBar EXCEPT ![t][k] = v]
  <2>1. \A u \in Tx : u # t => viewBar'[u] = viewBar[u]
    BY DEF viewBar, BaseView, IInv, TypeOK
  <2>2. viewBar'[t] = [viewBar[t] EXCEPT ![k] = v]
    BY <1>0, Zenon DEF viewBar, BaseView, IInv, TypeOK
  <2> QED BY <2>1, <2>2, Zenon DEF viewBar
<1>2. writtenBar' = [writtenBar EXCEPT ![t] = @ \cup {k}]
  <2>1. \A u \in Tx : u # t => writtenBar'[u] = writtenBar[u]
    BY Zenon DEF writtenBar, Written, IInv, TypeOK
  <2>2. writtenBar'[t] = writtenBar[t] \cup {k}
    BY <1>0 DEF writtenBar, Written, IInv, TypeOK
  <2> QED BY <2>1, <2>2, Zenon DEF writtenBar
<1> QED BY <1>1, <1>2 DEF ReadCommitted!Write

\* Every operation is one of the contract, or changes nothing that it speaks of.
LEMMA RefinesNext ==
    ASSUME IInv, [Next]_vars PROVE [ReadCommitted!Next]_(ReadCommitted!vars)
<1>1. CASE UNCHANGED vars
  BY <1>1 DEF vars, ReadCommitted!vars, viewBar, BaseView, writtenBar, Written
<1>2. ASSUME NEW t \in Tx, transact(t) PROVE ReadCommitted!Begin(t, TRUE)
  <2>1. batch[t] = EmptyBatch BY <1>2 DEF transact, IInv, IdleInv
  <2>2. viewBar' = [viewBar EXCEPT ![t] = db]
    <3>1. \A u \in Tx : u # t => viewBar'[u] = viewBar[u]
      BY <1>2, Zenon DEF transact, viewBar, BaseView, IInv, TypeOK
    <3>2. viewBar'[t] = db
      BY <1>2, <2>1 DEF transact, viewBar, BaseView, EmptyBatch, IInv, TypeOK, Map
    <3> QED BY <3>1, <3>2, Zenon DEF viewBar
  <2>3. writtenBar' = writtenBar BY <1>2 DEF transact, writtenBar, Written
  <2> QED BY <1>2, <2>2, <2>3, Zenon DEF transact, ReadCommitted!Begin
<1>3. ASSUME NEW t \in Tx, NEW k \in Key, get(t, k)
      PROVE  ReadCommitted!Get(t, k, FALSE)
  <2>1. viewBar' = viewBar /\ writtenBar' = writtenBar
    BY <1>3 DEF get, viewBar, BaseView, writtenBar, Written
  <2>2. View(t) \in ReadCommitted!Sees(t, FALSE)
    BY CurrentView, Zenon DEF ReadCommitted!Sees
  <2>3. asked' = [asked EXCEPT ![t] = IF FALSE THEN @ \cup {k} ELSE @]
    BY <1>3 DEF get, IInv, TypeOK
  <2> QED BY <1>3, <2>1, <2>2, <2>3, Zenon DEF get, Ready, ReadCommitted!Get
<1>4. ASSUME NEW t \in Tx, NEW k \in Key, get_for_update(t, k)
      PROVE  ReadCommitted!Get(t, k, TRUE)
  <2>1. viewBar' = viewBar /\ writtenBar' = writtenBar
    BY <1>4, Zenon DEF get_for_update, viewBar, BaseView, writtenBar, Written
  <2>2. View(t)[k] = viewBar[t][k]
    BY <1>4, LockedView DEF get_for_update, Ready, Lockable
  <2>3. viewBar[t] \in ReadCommitted!Sees(t, TRUE)
    BY DEF ReadCommitted!Sees
  <2> QED BY <1>4, <2>1, <2>2, <2>3, Zenon DEF get_for_update, Ready, ReadCommitted!Get
<1>5. ASSUME NEW t \in Tx, NEW r \in KeyRange, range_scan(t, r)
      PROVE  ReadCommitted!RangeScan(t, r)
  <2>1. viewBar' = viewBar /\ writtenBar' = writtenBar
    BY <1>5 DEF range_scan, viewBar, BaseView, writtenBar, Written
  <2>2. View(t) \in ReadCommitted!Sees(t, FALSE)
    BY CurrentView DEF ReadCommitted!Sees
  <2>3. Contents(View(t), r) = ReadCommitted!Contents(View(t), r)
    BY Zenon DEF Contents, InRange, ReadCommitted!Contents, ReadCommitted!InRange
  <2> QED BY <1>5, <2>1, <2>2, <2>3, Zenon DEF range_scan, Ready, ReadCommitted!RangeScan
<1>6. ASSUME NEW t \in Tx, NEW r \in KeyRange, del_range_from_persisted(t, r)
      PROVE  UNCHANGED ReadCommitted!vars
  BY <1>6 DEF del_range_from_persisted, ReadCommitted!vars, viewBar, BaseView, writtenBar,
              Written
<1>7. ASSUME NEW t \in Tx, NEW k \in Key, NEW v \in Slot, put(t, k, v)
      PROVE  ReadCommitted!Write(t, k, v)
  BY <1>7, BatchWrite, Zenon DEF put, Ready
<1>8. ASSUME NEW t \in Tx, del_next(t)
      PROVE  \E k \in Key : ReadCommitted!Write(t, k, NoVal)
  <2>1. PICK k \in todo[t] : /\ batch' = [batch EXCEPT ![t][k] = NoVal]
                             /\ ret' = [ret EXCEPT ![t] = NoVal]
                             /\ UNCHANGED <<db, mode, foreign, asked, base>>
    BY <1>8, Zenon DEF del_next
  <2>2. k \in Key /\ mode[t] = "write" /\ NoVal \in Slot
    BY Zenon DEF IInv, TypeOK, IdleInv, Slot
  <2> QED BY <2>1, <2>2, BatchWrite, Zenon
<1>9. ASSUME NEW t \in Tx, conflict(t) PROVE ReadCommitted!Refuse(t)
  BY <1>9 DEF conflict, ReadCommitted!Refuse, viewBar, BaseView, writtenBar, Written
<1>10. ASSUME NEW t \in Tx, commit(t) PROVE ReadCommitted!Commit(t)
  <2>1. (writtenBar[t] \cup asked[t]) \cap foreign[t] = {}
    BY <1>10, Zenon DEF commit, Ready, writtenBar, Written, IInv, LockInv, TypeOK
  <2>2. db' = [k \in Key |-> IF k \in writtenBar[t] THEN viewBar[t][k] ELSE db[k]]
    BY <1>10, Zenon DEF commit, View, writtenBar, Written, viewBar, BaseView
  <2>3. viewBar' = viewBar
    <3>1. \A u \in Tx : u # t => viewBar'[u] = viewBar[u]
      BY <1>10, Zenon DEF commit, viewBar, BaseView, IInv, TypeOK
    <3>2. viewBar'[t] = viewBar[t]
      BY <1>10, ViewType DEF commit, viewBar, BaseView, EmptyBatch, IInv, TypeOK, Map
    <3> QED BY <3>1, <3>2, Zenon DEF viewBar
  <2>4. writtenBar' = [writtenBar EXCEPT ![t] = {}]
    <3>1. \A u \in Tx : u # t => writtenBar'[u] = writtenBar[u]
      BY <1>10, Zenon DEF commit, writtenBar, Written, IInv, TypeOK
    <3>2. writtenBar'[t] = {}
      BY <1>10, Zenon DEF commit, writtenBar, Written, EmptyBatch, IInv, TypeOK
    <3> QED BY <3>1, <3>2, Zenon DEF writtenBar
  <2>5. foreign' = [u \in Tx |-> IF u = t \/ mode[u] = "idle" THEN foreign[u]
                                 ELSE foreign[u] \cup writtenBar[t]]
    BY <1>10, Zenon DEF commit, writtenBar
  <2> QED BY <1>10, <2>1, <2>2, <2>3, <2>4, <2>5, Zenon DEF commit, Ready, ReadCommitted!Commit
<1>11. ASSUME NEW t \in Tx, drop(t) PROVE ReadCommitted!Drop(t)
  <2>1. viewBar' = [viewBar EXCEPT ![t] = Unset]
    <3>1. \A u \in Tx : u # t => viewBar'[u] = viewBar[u]
      BY <1>11, Zenon DEF drop, viewBar, BaseView, IInv, TypeOK
    <3>2. viewBar'[t] = Unset
      BY <1>11, Zenon DEF drop, viewBar, BaseView, EmptyBatch, Unset, IInv, TypeOK
    <3> QED BY <3>1, <3>2, Zenon DEF viewBar
  <2>2. writtenBar' = [writtenBar EXCEPT ![t] = {}]
    <3>1. \A u \in Tx : u # t => writtenBar'[u] = writtenBar[u]
      BY <1>11, Zenon DEF drop, writtenBar, Written, IInv, TypeOK
    <3>2. writtenBar'[t] = {}
      BY <1>11 DEF drop, writtenBar, Written, EmptyBatch, IInv, TypeOK
    <3> QED BY <3>1, <3>2, Zenon DEF writtenBar
  <2> QED BY <1>11, <2>1, <2>2, Zenon DEF drop, ReadCommitted!Drop, ReadCommitted!Unset, Unset
<1>12. ASSUME NEW t \in Tx, Step(t)
       PROVE  ReadCommitted!Step(t) \/ UNCHANGED ReadCommitted!vars
  <2>1. NoVal \in ReadCommitted!Slot /\ Slot = ReadCommitted!Slot
    BY DEF ReadCommitted!Slot, Slot
  <2>2. KeyRange = ReadCommitted!KeyRange BY DEF KeyRange, ReadCommitted!KeyRange
  <2> QED BY <1>2, <1>3, <1>4, <1>5, <1>6, <1>7, <1>8, <1>9, <1>10, <1>11, <1>12, <2>1, <2>2, Zenon
          DEF Step, ReadCommitted!Step
<1> QED BY <1>1, <1>12, Zenon DEF Next, ReadCommitted!Next

\* The RocksDB engine implements the StoreTx contract with plain reads at the
\* read-committed level, for every instance.
THEOREM RefinementTheorem == Spec => ImplementsReadCommitted
<1>1. IInv /\ [Next]_vars => [ReadCommitted!Next]_(ReadCommitted!vars)
  BY RefinesNext
<1> QED BY Invariance, RefinesInit, <1>1, PTL DEF Spec, ImplementsReadCommitted,
           ReadCommitted!Spec

-----------------------------------------------------------------------------
(* The optimistic RocksDB engine.                                          *)

\* Nothing is tracked in a new optimistic engine.
LEMMA NewRocksInit == NewRocks!Init => NewRocks!IInv
BY DEF NewRocks!Init, NewRocks!IInv, NewRocks!TypeOK, NewRocks!TrackInv, NewRocks!EmptyBatch,
       NewRocks!Slot, NewRocks!Written

\* What Tracks does to the invariant, whatever the new write batch is: the keys
\* that are new in it are found as they are now.
LEMMA NewRocksTracks ==
    ASSUME NewRocks!IInv, NEW t \in Tx, NEW b \in [Key -> Slot \cup {NoEntry}],
           \A k \in Key : writes[t][k] # NoEntry => b[k] # NoEntry,
           NewRocks!Tracks(t, b), UNCHANGED <<table, state, overtaken, for_update, others>>
    PROVE  NewRocks!IInv'
<1> DEFINE new == [k \in Key |-> IF found[t][k] = NoEntry /\ b[k] # NoEntry
                                   THEN table[k] ELSE found[t][k]]
<1>1. /\ writes' = [writes EXCEPT ![t] = b]
      /\ found' = [found EXCEPT ![t] = new]
  BY DEF NewRocks!Tracks
<1>2. new \in [Key -> Slot \cup {NoEntry}]
  BY DEF NewRocks!IInv, NewRocks!TypeOK, NewRocks!Slot, Slot
<1>3. NewRocks!TypeOK'
  BY <1>1, <1>2, Zenon DEF NewRocks!IInv, NewRocks!TypeOK, NewRocks!Slot, Slot
<1>4. \A k \in Key : b[k] = NoEntry <=> new[k] = NoEntry
  BY DEF NewRocks!IInv, NewRocks!TypeOK, NewRocks!TrackInv, NewRocks!Slot
<1>5. \A k \in Key : b[k] # NoEntry /\ k \notin overtaken[t] => table[k] = new[k]
  BY Zenon DEF NewRocks!IInv, NewRocks!TypeOK, NewRocks!TrackInv, NewRocks!Written
<1>6. NewRocks!TrackInv'
  <2> HIDE DEF new
  <2> QED BY <1>1, <1>2, <1>4, <1>5
             DEF NewRocks!IInv, NewRocks!TypeOK, NewRocks!TrackInv, NewRocks!Written
<1> QED BY <1>3, <1>6, Zenon DEF NewRocks!IInv

\* Every operation of the optimistic engine keeps its invariant.
LEMMA NewRocksNext == NewRocks!IInv /\ [NewRocks!Next]_(NewRocks!vars) => NewRocks!IInv'
<1> SUFFICES ASSUME NewRocks!IInv, [NewRocks!Next]_(NewRocks!vars) PROVE NewRocks!IInv'
  OBVIOUS
<1> USE DEF NewRocks!IInv
<1>1. CASE UNCHANGED NewRocks!vars
  BY <1>1, Zenon DEF NewRocks!vars, NewRocks!TypeOK, NewRocks!TrackInv, NewRocks!Written
<1>2. ASSUME NEW t \in Tx, NewRocks!transact(t) PROVE NewRocks!IInv'
  BY <1>2 DEF NewRocks!transact, NewRocks!TypeOK, NewRocks!TrackInv, NewRocks!Written
<1>3. ASSUME NEW t \in Tx, NEW k \in Key, NEW fu \in BOOLEAN, NewRocks!get(t, k, fu)
      PROVE  NewRocks!IInv'
  BY <1>3 DEF NewRocks!get, NewRocks!TypeOK, NewRocks!TrackInv, NewRocks!Written
<1>4. ASSUME NEW t \in Tx, NEW k \in Key, NEW v \in Slot, NewRocks!put(t, k, v)
      PROVE  NewRocks!IInv'
  <2> DEFINE b == [writes[t] EXCEPT ![k] = v]
  <2>1. /\ b \in [Key -> Slot \cup {NoEntry}]
        /\ \A j \in Key : writes[t][j] # NoEntry => b[j] # NoEntry
    BY Zenon DEF NewRocks!TypeOK, NewRocks!Slot, Slot
  <2>2. NewRocks!Tracks(t, b) /\ UNCHANGED <<table, state, overtaken, for_update, others>>
    BY <1>4, Zenon DEF NewRocks!put
  <2> QED BY <2>1, <2>2, NewRocksTracks, Zenon
<1>5. ASSUME NEW t \in Tx, NEW r \in NewRocks!KeyRange, NewRocks!del_range_from_persisted(t, r)
      PROVE  NewRocks!IInv'
  <2> DEFINE b == [k \in Key |-> IF r[1] <= k /\ k < r[2] /\ NewRocks!View(t)[k] # NoVal
                                   THEN NoVal ELSE writes[t][k]]
  <2>1. /\ b \in [Key -> Slot \cup {NoEntry}]
        /\ \A j \in Key : writes[t][j] # NoEntry => b[j] # NoEntry
    BY DEF NewRocks!TypeOK, NewRocks!Slot, Slot
  <2>2. NewRocks!Tracks(t, b) /\ UNCHANGED <<table, state, overtaken, for_update, others>>
    BY <1>5 DEF NewRocks!del_range_from_persisted
  <2> QED BY <2>1, <2>2, NewRocksTracks, Zenon
<1>6. ASSUME NEW t \in Tx, NewRocks!commit(t) PROVE NewRocks!IInv'
  <2>1. NewRocks!View(t) \in [Key -> Slot]
    BY DEF NewRocks!View, NewRocks!TypeOK, NewRocks!Slot, Slot
  <2>2. NewRocks!TypeOK'
    <3> HIDE DEF NewRocks!IInv
    <3>1. NewRocks!TypeOK /\ NewRocks!Written(t) \subseteq Key
      BY Zenon DEF NewRocks!IInv, NewRocks!Written
    <3>2. writes' \in [Tx -> [Key -> NewRocks!Slot \cup {NoEntry}]]
      BY <1>6, <3>1, Zenon DEF NewRocks!commit, NewRocks!TypeOK, NewRocks!EmptyBatch
    <3>3. found' \in [Tx -> [Key -> NewRocks!Slot \cup {NoEntry}]]
      BY <1>6, <3>1, Zenon DEF NewRocks!commit, NewRocks!TypeOK, NewRocks!EmptyBatch
    <3>4. overtaken' \in [Tx -> SUBSET Key] /\ others' \in [Tx -> SUBSET Key]
      BY <1>6, <3>1 DEF NewRocks!commit, NewRocks!TypeOK
    <3>5. table' \in [Key -> NewRocks!Slot]
      BY <1>6, <2>1, <3>1, Zenon DEF NewRocks!commit, NewRocks!TypeOK, NewRocks!Slot, Slot
    <3>6. /\ state' \in [Tx -> {"idle", "open", "done", "failed"}]
          /\ for_update' \in [Tx -> SUBSET Key]
      BY <1>6, <3>1, Zenon DEF NewRocks!commit, NewRocks!TypeOK
    <3> QED BY <3>2, <3>3, <3>4, <3>5, <3>6, Zenon DEF NewRocks!TypeOK
  <2>3. \A k \in Key : k \notin NewRocks!Written(t) => table'[k] = table[k]
    BY <1>6 DEF NewRocks!commit, NewRocks!View, NewRocks!Written, NewRocks!TypeOK
  <2>4. NewRocks!TrackInv'
    <3> SUFFICES ASSUME NEW u \in Tx
                 PROVE  /\ \A k \in Key : writes'[u][k] = NoEntry <=> found'[u][k] = NoEntry
                        /\ \A k \in Key : writes'[u][k] # NoEntry /\ k \notin overtaken'[u]
                                             => table'[k] = found'[u][k]
      BY Zenon DEF NewRocks!TrackInv, NewRocks!Written
    <3>1. CASE u = t
      BY <1>6, <3>1, Zenon DEF NewRocks!commit, NewRocks!TypeOK, NewRocks!EmptyBatch
    <3>2. CASE u # t
      <4>1. writes'[u] = writes[u] /\ found'[u] = found[u]
        BY <1>6, <3>2, Zenon DEF NewRocks!commit, NewRocks!TypeOK
      <4>2. CASE overtaken[t] = {}
        BY <1>6, <2>3, <3>2, <4>1, <4>2 DEF NewRocks!commit, NewRocks!TrackInv, NewRocks!Written
      <4>3. CASE overtaken[t] # {}
        BY <1>6, <3>2, <4>1, <4>3 DEF NewRocks!commit, NewRocks!TrackInv, NewRocks!Written
      <4> QED BY <4>2, <4>3, Zenon
    <3> QED BY <3>1, <3>2, Zenon
  <2> QED BY <2>2, <2>4, Zenon
<1>7. ASSUME NEW t \in Tx, NewRocks!drop(t) PROVE NewRocks!IInv'
  <2>1. NewRocks!TypeOK'
    BY <1>7, Zenon DEF NewRocks!drop, NewRocks!TypeOK, NewRocks!EmptyBatch
  <2>2. NewRocks!TrackInv'
    BY <1>7 DEF NewRocks!drop, NewRocks!TypeOK, NewRocks!TrackInv, NewRocks!EmptyBatch,
                NewRocks!Written
  <2> QED BY <2>1, <2>2
<1> QED
  BY <1>1, <1>2, <1>3, <1>4, <1>5, <1>6, <1>7, Zenon DEF NewRocks!Next, NewRocks!Step, NewRocks!Slot, Slot

\* Only commit() commits, and only if nobody has overtaken the transaction.
LEMMA NewRocksCommits ==
    ASSUME NewRocks!IInv, NewRocks!Next PROVE NewRocks!FirstCommitterWins
<1> SUFFICES ASSUME NEW t \in Tx, state[t] = "open", state'[t] = "done",
                    NEW k \in NewRocks!Written(t)
             PROVE  table[k] = found[t][k]
  BY Zenon DEF NewRocks!FirstCommitterWins, NewRocks!Commits
<1>1. PICK u \in Tx : NewRocks!Step(u)
  BY Zenon DEF NewRocks!Next
<1>2. state \in [Tx -> {"idle", "open", "done", "failed"}]
  BY DEF NewRocks!IInv, NewRocks!TypeOK
<1>3. NewRocks!commit(t) /\ overtaken[t] = {}
  <2>1. \/ state' = state \/ state' = [state EXCEPT ![u] = "open"]
        \/ state' = [state EXCEPT ![u] = "idle"] \/ NewRocks!commit(u)
    BY <1>1, Zenon DEF NewRocks!Step, NewRocks!transact, NewRocks!get, NewRocks!put,
                       NewRocks!del_range_from_persisted, NewRocks!drop
  <2>2. NewRocks!commit(u)
    BY <1>2, <2>1, Zenon
  <2>3. state' = [state EXCEPT ![u] = IF overtaken[u] = {} THEN "done" ELSE "failed"]
    BY <2>2, Zenon DEF NewRocks!commit
  <2>4. u = t /\ overtaken[t] = {}
    BY <1>2, <2>3, Zenon
  <2> QED BY <2>2, <2>4, Zenon
<1> QED BY <1>3, Zenon DEF NewRocks!IInv, NewRocks!TrackInv, NewRocks!Written

-----------------------------------------------------------------------------
(* The SQLite engine.  SqliteStoreProofs states its results by the names of *)
(* SqliteStore alone; here they are of the engine called Sqlite.           *)

Proved ==
    INSTANCE SqliteStoreProofs WITH Tx <- SqlTx, Wal <- FALSE, db <- table, mode <- state, asked <- for_update,
                                    base <- began, ret <- returned

\* The engine called Sqlite starts as the proved one does.
LEMMA SameInit == Sqlite!Init <=> Proved!Init
BY DEF Sqlite!Init, Proved!Init, Sqlite!Map, Proved!Map, Sqlite!Slot, Proved!Slot,
       Sqlite!Unset, Proved!Unset, Sqlite!Conn, Proved!Conn, Sqlite!Cardinality,
       Proved!Cardinality

\* Its operations are those of the proved one.
LEMMA SameNext == Sqlite!Next <=> Proved!Next
<1>1. \A t \in SqlTx : Sqlite!take_conn(t) <=> Proved!take_conn(t)
  BY Zenon DEF Sqlite!take_conn, Proved!take_conn
<1>2. \A t \in SqlTx, w \in BOOLEAN : Sqlite!take_guard(t, w) <=> Proved!take_guard(t, w)
  BY Zenon DEF Sqlite!take_guard, Proved!take_guard, Sqlite!Readers, Proved!Readers,
         Sqlite!Writers, Proved!Writers
<1>3. \A t \in SqlTx, s \in Proved!Stmt, k \in Key, w \in BOOLEAN :
         Sqlite!get(t, s, k, w) <=> Proved!get(t, s, k, w)
  BY SMTT(20) DEF Sqlite!get, Proved!get, Sqlite!View, Proved!View, Sqlite!Settle,
         Proved!Settle, Sqlite!Pinned, Proved!Pinned
<1>4. \A t \in SqlTx, r \in Proved!KeyRange : Sqlite!range_scan(t, r) <=> Proved!range_scan(t, r)
  BY Zenon DEF Sqlite!range_scan, Proved!range_scan, Sqlite!View, Proved!View,
         Sqlite!Settle, Proved!Settle, Sqlite!Pinned, Proved!Pinned, Sqlite!Contents,
         Proved!Contents, Sqlite!InRange, Proved!InRange
<1>5. \A t \in SqlTx, k \in Key, v \in Proved!Slot : Sqlite!put(t, k, v) <=> Proved!put(t, k, v)
  BY Zenon DEF Sqlite!put, Proved!put, Sqlite!View, Proved!View
<1>6. \A t \in SqlTx, r \in Proved!KeyRange :
         Sqlite!del_range_from_persisted(t, r) <=> Proved!del_range_from_persisted(t, r)
  BY Zenon DEF Sqlite!del_range_from_persisted, Proved!del_range_from_persisted,
         Sqlite!View, Proved!View, Sqlite!InRange, Proved!InRange
<1>7. \A t \in SqlTx : Sqlite!commit(t) <=> Proved!commit(t)
  BY Zenon DEF Sqlite!commit, Proved!commit, Sqlite!View, Proved!View, Sqlite!Pinned,
         Proved!Pinned, Sqlite!Conn, Proved!Conn, Sqlite!Cardinality,
         Proved!Cardinality
<1>8. \A t \in SqlTx : Sqlite!drop(t) <=> Proved!drop(t)
  BY Zenon DEF Sqlite!drop, Proved!drop, Sqlite!Pinned, Proved!Pinned, Sqlite!Readers,
         Proved!Readers, Sqlite!Unset, Proved!Unset
<1>9. \A t \in SqlTx : Sqlite!drop_guard(t) <=> Proved!drop_guard(t)
  BY Zenon DEF Sqlite!drop_guard, Proved!drop_guard
<1>10. \A t \in SqlTx : Sqlite!drop_stmts(t) <=> Proved!drop_stmts(t)
  BY Zenon DEF Sqlite!drop_stmts, Proved!drop_stmts, Sqlite!Pinned, Proved!Pinned,
         Sqlite!InSql, Proved!InSql
<1>11. Sqlite!KeyRange = Proved!KeyRange /\ Sqlite!Slot = Proved!Slot /\ Sqlite!Stmt = Proved!Stmt
  BY DEF Sqlite!KeyRange, Proved!KeyRange, Sqlite!Slot, Proved!Slot, Sqlite!Stmt, Proved!Stmt
<1>12. \A t \in SqlTx : Sqlite!Step(t) <=> Proved!Step(t)
  BY <1>1, <1>2, <1>3, <1>4, <1>5, <1>6, <1>7, <1>8, <1>9, <1>10, <1>11
     DEF Sqlite!Step, Proved!Step
<1> QED BY <1>12 DEF Sqlite!Next, Proved!Next

\* It stutters with the proved one.
LEMMA SameVars == UNCHANGED Sqlite!vars <=> UNCHANGED Proved!vars
BY Zenon DEF Sqlite!vars, Proved!vars

\* It has the same invariant.
LEMMA SameInv == (Sqlite!IInv <=> Proved!IInv) /\ (Sqlite!ReadsAgree <=> Proved!ReadsAgree)
BY Zenon DEF Sqlite!IInv, Proved!IInv, Sqlite!TypeOK, Proved!TypeOK, Sqlite!PoolInv,
       Proved!PoolInv, Sqlite!GuardInv, Proved!GuardInv, Sqlite!SnapInv,
       Proved!SnapInv, Sqlite!BaseInv, Proved!BaseInv, Sqlite!Live, Proved!Live,
       Sqlite!Idle, Proved!Idle, Sqlite!Mode, Proved!Mode, Sqlite!Slot,
       Proved!Slot, Sqlite!Map, Proved!Map, Sqlite!Conn, Proved!Conn,
       Sqlite!Cardinality, Proved!Cardinality, Sqlite!View, Proved!View,
       Sqlite!Readers, Proved!Readers, Sqlite!Writers, Proved!Writers,
       Sqlite!Stmt, Proved!Stmt, Sqlite!ReadsAgree, Proved!ReadsAgree

\* The same after a step.
LEMMA SameInvNext == Sqlite!IInv' <=> Proved!IInv'
BY Zenon DEF Sqlite!IInv, Proved!IInv, Sqlite!TypeOK, Proved!TypeOK, Sqlite!PoolInv,
       Proved!PoolInv, Sqlite!GuardInv, Proved!GuardInv, Sqlite!SnapInv,
       Proved!SnapInv, Sqlite!BaseInv, Proved!BaseInv, Sqlite!Live, Proved!Live,
       Sqlite!Idle, Proved!Idle, Sqlite!Mode, Proved!Mode, Sqlite!Slot,
       Proved!Slot, Sqlite!Map, Proved!Map, Sqlite!Conn, Proved!Conn,
       Sqlite!Cardinality, Proved!Cardinality, Sqlite!View, Proved!View,
       Sqlite!Readers, Proved!Readers, Sqlite!Writers, Proved!Writers,
       Sqlite!Stmt, Proved!Stmt

\* Its contract starts as that of the proved one does.
LEMMA SameContractInit == Sqlite!Contract!Init <=> Proved!Contract!Init
BY Zenon DEF Sqlite!modeBar, Proved!modeBar, Sqlite!viewBar, Proved!viewBar,
       Sqlite!writtenBar, Proved!writtenBar, Sqlite!foreignBar, Proved!foreignBar,
       Sqlite!Unset, Proved!Unset, Sqlite!View, Proved!View, Sqlite!Contract!Init,
       Proved!Contract!Init, Sqlite!Contract!Slot, Proved!Contract!Slot,
       Sqlite!Contract!Map, Proved!Contract!Map, Sqlite!Contract!Unset,
       Proved!Contract!Unset, Sqlite!Contract!KeyRange, Proved!Contract!KeyRange

\* The steps of the contract are the same.
LEMMA SameContractNext == Sqlite!Contract!Next <=> Proved!Contract!Next
<1> USE DEF Sqlite!modeBar, Proved!modeBar, Sqlite!viewBar, Proved!viewBar, Sqlite!writtenBar,
            Proved!writtenBar, Sqlite!foreignBar, Proved!foreignBar, Sqlite!Unset, Proved!Unset,
            Sqlite!View, Proved!View
<1>1. \A t \in SqlTx, w \in BOOLEAN :
         Sqlite!Contract!Begin(t, w) <=> Proved!Contract!Begin(t, w)
  BY Zenon DEF Sqlite!Contract!Begin, Proved!Contract!Begin, Sqlite!Contract!Map,
               Proved!Contract!Map
<1>2. \A t \in SqlTx, k \in Key, w \in BOOLEAN :
         Sqlite!Contract!Get(t, k, w) <=> Proved!Contract!Get(t, k, w)
  BY Zenon DEF Sqlite!Contract!Get, Proved!Contract!Get, Sqlite!Contract!Current,
               Proved!Contract!Current, Sqlite!Contract!Sees, Proved!Contract!Sees
<1>3. \A t \in SqlTx, r \in Proved!Contract!KeyRange :
         Sqlite!Contract!RangeScan(t, r) <=> Proved!Contract!RangeScan(t, r)
  BY Zenon DEF Sqlite!Contract!RangeScan, Proved!Contract!RangeScan, Sqlite!Contract!Current,
               Proved!Contract!Current, Sqlite!Contract!Sees, Proved!Contract!Sees,
               Sqlite!Contract!InRange, Proved!Contract!InRange, Sqlite!Contract!Contents,
               Proved!Contract!Contents
<1>4. \A t \in SqlTx, k \in Key, v \in Proved!Contract!Slot :
         Sqlite!Contract!Write(t, k, v) <=> Proved!Contract!Write(t, k, v)
  BY Zenon DEF Sqlite!Contract!Write, Proved!Contract!Write
<1>5. \A t \in SqlTx, r \in Proved!Contract!KeyRange :
         Sqlite!Contract!DelRange(t, r) <=> Proved!Contract!DelRange(t, r)
  BY Zenon DEF Sqlite!Contract!DelRange, Proved!Contract!DelRange, Sqlite!Contract!InRange,
               Proved!Contract!InRange
<1>6. \A t \in SqlTx :
         Sqlite!Contract!Refuse(t) <=> Proved!Contract!Refuse(t)
  BY Zenon DEF Sqlite!Contract!Refuse, Proved!Contract!Refuse
<1>7. \A t \in SqlTx :
         Sqlite!Contract!Commit(t) <=> Proved!Contract!Commit(t)
  BY Zenon DEF Sqlite!Contract!Commit, Proved!Contract!Commit, Sqlite!Contract!Current,
               Proved!Contract!Current
<1>8. \A t \in SqlTx :
         Sqlite!Contract!Drop(t) <=> Proved!Contract!Drop(t)
  BY Zenon DEF Sqlite!Contract!Drop, Proved!Contract!Drop, Sqlite!Contract!Unset,
               Proved!Contract!Unset
<1>9. /\ Sqlite!Contract!KeyRange = Proved!Contract!KeyRange
      /\ Sqlite!Contract!Slot = Proved!Contract!Slot
  BY DEF Sqlite!Contract!KeyRange, Proved!Contract!KeyRange, Sqlite!Contract!Slot,
         Proved!Contract!Slot
<1> HIDE DEF Sqlite!modeBar, Proved!modeBar, Sqlite!viewBar, Proved!viewBar, Sqlite!writtenBar,
            Proved!writtenBar, Sqlite!foreignBar, Proved!foreignBar
<1>10. \A t \in SqlTx : Sqlite!Contract!Step(t) <=> Proved!Contract!Step(t)
  BY <1>1, <1>2, <1>3, <1>4, <1>5, <1>6, <1>7, <1>8, <1>9
     DEF Sqlite!Contract!Step, Proved!Contract!Step
<1> QED BY <1>10 DEF Sqlite!Contract!Next, Proved!Contract!Next

\* The contract stutters with that of the proved one.
LEMMA SameContractVars ==
    UNCHANGED Sqlite!Contract!vars <=> UNCHANGED Proved!Contract!vars
BY Zenon DEF Sqlite!modeBar, Proved!modeBar, Sqlite!viewBar, Proved!viewBar,
       Sqlite!writtenBar, Proved!writtenBar, Sqlite!foreignBar, Proved!foreignBar,
       Sqlite!Unset, Proved!Unset, Sqlite!View, Proved!View, Sqlite!Contract!vars,
       Proved!Contract!vars

\* The SQLite engine starts with its invariant, as its contract allows.
LEMMA SqliteInit ==
    ASSUME Proved!Standing PROVE Sqlite!Init => Sqlite!IInv /\ Sqlite!Contract!Init
BY SameInit, SameInv, SameContractInit, Proved!SqliteInit, Proved!SqliteRefinesInit

\* The scans of a reader agree with the table of the moment it got its guard.
LEMMA SqliteReads ==
    ASSUME Proved!Standing PROVE Sqlite!IInv => Sqlite!ReadsAgree
BY SameInv, Proved!SqliteReads, Zenon

\* Every operation of the SQLite engine keeps its invariant.
LEMMA SqliteNext ==
    ASSUME Proved!Standing
    PROVE  Sqlite!IInv /\ [Sqlite!Next]_(Sqlite!vars) => Sqlite!IInv'
BY SameNext, SameVars, SameInv, SameInvNext, Proved!SqliteNext

\* Every operation of the SQLite engine is one of the contract, or hidden.
LEMMA SqliteRefinesNext ==
    ASSUME Proved!Standing, Sqlite!IInv, Sqlite!Next
    PROVE  Sqlite!Contract!Next \/ UNCHANGED Sqlite!Contract!vars
BY SameNext, SameInv, SameContractNext, SameContractVars,
   Proved!SqliteRefinesNext

-----------------------------------------------------------------------------
(* The theorems.                                                           *)

\* The inductive invariant of whichever engine is at work.
EnginesInv ==
    /\ part = "sqlite" => Sqlite!IInv
    /\ part = "newrocksdb" => NewRocks!IInv

\* A step of the engine at work.
LEMMA EnginesStep ==
    ASSUME [EnginesNext]_allVars
    PROVE  /\ part' = part
           /\ part = "sqlite" => [Sqlite!Next]_(Sqlite!vars)
           /\ part = "newrocksdb" => [NewRocks!Next]_(NewRocks!vars)
BY Zenon DEF EnginesNext, allVars, bothVars, sqliteVars, newRocksVars, Sqlite!vars, NewRocks!vars

Counting == INSTANCE FiniteSetTheorems

\* What SqliteStoreProofs expects of the constants.
LEMMA SqliteStanding == Proved!Standing
<1>1. Proved!Cardinality(SqlTx) = Counting!Cardinality(SqlTx) /\ Counting!IsFiniteSet(SqlTx)
  BY TxAssumption, Zenon DEF Proved!Cardinality, Counting!Cardinality, IsFiniteSet, Counting!IsFiniteSet
<1>2. Counting!Cardinality(SqlTx) \in Nat
  BY <1>1, Counting!FS_CardinalityType
<1>3. ASSUME NEW S \in SUBSET SqlTx, NEW n \in Nat, S # SqlTx,
             NEW f \in [S -> 1..n], \A i \in 1..n : \E u \in S : f[u] = i
      PROVE  n < Counting!Cardinality(SqlTx)
  <2>1. PICK t \in SqlTx : t \notin S
    BY <1>3, Zenon
  <2>2. /\ Counting!IsFiniteSet(SqlTx \ {t})
        /\ Counting!Cardinality(SqlTx \ {t}) = Counting!Cardinality(SqlTx) - 1
    BY <1>1, Counting!FS_RemoveElement
  <2>3. S \in SUBSET (SqlTx \ {t})
    BY <2>1, Zenon
  <2>4. Counting!IsFiniteSet(S) /\ Counting!Cardinality(S) <= Counting!Cardinality(SqlTx) - 1
    BY <2>2, <2>3, Counting!FS_Subset
  <2>5. f \in Counting!Surjection(S, 1..n)
    BY <1>3, Zenon DEF Counting!Surjection
  <2>6. Counting!Cardinality(1..n) <= Counting!Cardinality(S)
    BY <2>4, <2>5, Counting!FS_Surjection
  <2>7. Counting!Cardinality(1..n) = n
    BY Counting!FS_Interval
  <2>8. Counting!Cardinality(S) \in Nat
    BY <2>4, Counting!FS_CardinalityType, Zenon
  <2> QED BY <1>2, <2>4, <2>6, <2>7, <2>8
<1>4. Proved!Room
  BY <1>1, <1>3 DEF Proved!Room
<1>5. Proved!Map = Map
  BY Zenon DEF Proved!Map, Map, Proved!Slot, Slot
<1> QED BY <1>1, <1>2, <1>4, <1>5, NoSnapAssumption, KeyAssumption, NoValAssumption
           DEF Proved!Standing

\* The invariant of the engine at work holds in every behaviour.
LEMMA EnginesInvariance == EnginesSpec => []EnginesInv
<1>1. EnginesInit => EnginesInv
  BY SqliteStanding, SqliteInit, NewRocksInit DEF EnginesInit, EnginesInv
<1>2. EnginesInv /\ [EnginesNext]_allVars => EnginesInv'
  BY EnginesStep, SqliteStanding, SqliteNext, NewRocksNext DEF EnginesInv
<1> QED BY <1>1, <1>2, PTL DEF EnginesSpec

\* SQLite (pool.pop, pool.push, the process-wide lock, the cached statements):
\* in every state no connection serves two live transactions and none is lost,
\* a writer is alone, and a reader sees the table as it was when it got its
\* guard.  Optimistic RocksDB: a key is tracked from its first write on.
THEOREM EnginesSoundTheorem == EnginesSpec => []EnginesSound
<1>1. EnginesInv => EnginesSound
  BY SqliteStanding, SqliteReads DEF EnginesInv, EnginesSound
<1> QED BY <1>1, EnginesInvariance, PTL

\* SQLite: every behaviour of the engine is one the StoreTx trait promises.
THEOREM SqliteRefinement == EnginesSpec => SqliteImplementsStoreTx
<1>1. EnginesInit => (part = "sqlite" => Sqlite!Contract!Init)
  BY SqliteStanding, SqliteInit DEF EnginesInit
<1>2. EnginesInv /\ [EnginesNext]_allVars =>
        [part = "sqlite" => Sqlite!Contract!Next \/ UNCHANGED Sqlite!Contract!vars]_allVars
  <2> SUFFICES ASSUME EnginesInv, EnginesNext, part = "sqlite"
               PROVE  Sqlite!Contract!Next \/ UNCHANGED Sqlite!Contract!vars
    BY Zenon
  <2>1. Sqlite!IInv /\ Sqlite!Next
    BY DEF EnginesInv, EnginesNext
  <2> QED BY <2>1, SqliteStanding, SqliteRefinesNext
<1> QED BY <1>1, <1>2, EnginesInvariance, PTL DEF EnginesSpec, SqliteImplementsStoreTx

\* Optimistic RocksDB: a commit never overwrites what another transaction
\* committed after this one first wrote the key.
THEOREM FirstCommitterTheorem == EnginesSpec => FirstCommitterWins
<1>1. EnginesInv /\ [EnginesNext]_allVars =>
        [part = "newrocksdb" => NewRocks!FirstCommitterWins]_allVars
  <2> SUFFICES ASSUME EnginesInv, EnginesNext, part = "newrocksdb"
               PROVE  NewRocks!FirstCommitterWins
    BY Zenon
  <2>1. NewRocks!IInv /\ NewRocks!Next
    BY DEF EnginesInv, EnginesNext
  <2> QED BY <2>1, NewRocksCommits
<1> QED BY <1>1, EnginesInvariance, PTL DEF EnginesSpec, FirstCommitterWins
=============================================================================
