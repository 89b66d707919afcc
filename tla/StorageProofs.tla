--------------------------- MODULE StorageProofs ----------------------------
(***************************************************************************)
(* The memory engine, and the catalog of the relations that are stored.    *)
(*                                                                         *)
(* Transactions of the memory engine are isolated, and what is not         *)
(* committed is undone, for every set of transactions, keys and values, as *)
(* long as range deletions come last in a transaction (~EagerRangeDel).    *)
(*                                                                         *)
(* The catalog stays consistent, for any number of relations, indices and  *)
(* rows, as long as a restore is followed by a restart and relations with  *)
(* indices are not renamed.  Inv is inductive as it stands: the backup has *)
(* to be part of it, because a restore makes it the database.              *)
(***************************************************************************)
EXTENDS MemStore, Catalog, TLAPS

\* The provers of every step that does not name its own.
USE SMTT(30), ZenonT(20)

-----------------------------------------------------------------------------
(* The memory engine                                                       *)

\* The map a transaction sees is a map: the cache never leaks NoEntry.
LEMMA ViewType ==
    ASSUME TypeOK, NEW t \in Tx
    PROVE  View(t) \in Map
BY DEF TypeOK, View, Map, Slot

\* A scan of a map returns pairs of a key and a value.
LEMMA ContentsType ==
    ASSUME NEW m \in Map, NEW r \in KeyRange
    PROVE  Contents(m, r) \in SUBSET (Key \X Val)
BY DEF Contents, Map, Slot, InRange

\* The initial states satisfy the inductive invariant.
LEMMA InitIInv == Init => IInv
BY NoEntryAssumption
   DEF Init, IInv, TypeOK, LockInv, CacheInv, CleanInv, Isolated, Map, Slot, Unset,
       EmptyCache, Writing

\* Every step of every transaction preserves the inductive invariant.
LEMMA StepIInv ==
    ASSUME ~EagerRangeDel, IInv, [Next]_vars
    PROVE  IInv'
<1> USE DEF Slot, Map, EmptyCache, Unset, Writing
<1>1. CASE UNCHANGED vars
  BY <1>1 DEF vars, IInv, TypeOK, LockInv, CacheInv, CleanInv, Isolated, View
<1>2. ASSUME NEW t \in Tx, NEW write \in BOOLEAN, transact(t, write)
      PROVE  IInv'
  <2>1. TypeOK' /\ LockInv'
    BY <1>2, Zenon DEF transact, IInv, TypeOK, LockInv
  <2>2. CacheInv' /\ CleanInv' /\ Isolated'
    BY <1>2 DEF transact, IInv, TypeOK, LockInv, CacheInv, CleanInv, Isolated
  <2> QED BY <2>1, <2>2 DEF IInv
<1>3. ASSUME NEW t \in Tx, NEW k \in Key, NEW for_update \in BOOLEAN,
             get(t, k, for_update)
      PROVE  IInv'
  <2>1. View(t)[k] \in Slot
    BY ViewType DEF IInv
  <2> HIDE DEF Slot
  <2> QED
    BY <1>3, <2>1 DEF get, IInv, TypeOK, LockInv, CacheInv, CleanInv, Isolated
<1>4. ASSUME NEW t \in Tx, NEW r \in KeyRange, range_scan(t, r)
      PROVE  IInv'
  <2>1. Contents(View(t), r) \in SUBSET (Key \X Val)
    BY ViewType, ContentsType DEF IInv
  <2> QED
    BY <1>4, <2>1 DEF range_scan, IInv, TypeOK, LockInv, CacheInv, CleanInv, Isolated
<1>5. ASSUME NEW t \in Tx, refuse_write(t)
      PROVE  IInv'
  BY <1>5 DEF refuse_write, IInv, TypeOK, LockInv, CacheInv, CleanInv, Isolated
<1>6. ASSUME NEW t \in Tx, NEW k \in Key, NEW v \in Val, put(t, k, v)
      PROVE  IInv'
  BY <1>6 DEF put, IInv, TypeOK, LockInv, CacheInv, CleanInv, Isolated
<1>7. ASSUME NEW t \in Tx, NEW k \in Key, del(t, k)
      PROVE  IInv'
  BY <1>7 DEF del, IInv, TypeOK, LockInv, CacheInv, CleanInv, Isolated
<1>8. ASSUME NEW t \in Tx, NEW r \in KeyRange, del_range_from_persisted(t, r)
      PROVE  IInv'
  <2>1. TypeOK' /\ LockInv'
    BY <1>8 DEF del_range_from_persisted, IInv, TypeOK, LockInv
  <2>2. CacheInv' /\ CleanInv'
    BY <1>8 DEF del_range_from_persisted, IInv, TypeOK, LockInv, CacheInv,
                CleanInv, Isolated
  <2>3. Isolated'
    BY <1>8 DEF del_range_from_persisted, IInv, TypeOK, LockInv, Isolated
  <2> QED BY <2>1, <2>2, <2>3 DEF IInv
<1>9. ASSUME NEW t \in Tx, commit(t)
      PROVE  IInv'
  <2>1. View(t) \in Map
    BY ViewType DEF IInv
  <2>2. TypeOK' /\ LockInv'
    BY <1>9, <2>1 DEF commit, IInv, TypeOK, LockInv
  <2>3. CacheInv' /\ CleanInv' /\ Isolated'
    BY <1>9 DEF commit, IInv, TypeOK, LockInv, CacheInv, CleanInv, Isolated
  <2> QED BY <2>2, <2>3 DEF IInv
<1>10. ASSUME NEW t \in Tx, drop(t)
       PROVE  IInv'
  <2>1. TypeOK' /\ LockInv'
    BY <1>10 DEF drop, IInv, TypeOK, LockInv
  <2>2. CacheInv' /\ CleanInv' /\ Isolated'
    BY <1>10 DEF drop, IInv, TypeOK, LockInv, CacheInv, CleanInv, Isolated
  <2> QED BY <2>1, <2>2 DEF IInv
<1> QED
  BY <1>1, <1>2, <1>3, <1>4, <1>5, <1>6, <1>7, <1>8, <1>9, <1>10 DEF Next, Step

\* The inductive invariant holds in every reachable state.
THEOREM Invariance == ~EagerRangeDel => (Spec => []IInv)
<1> SUFFICES ASSUME ~EagerRangeDel PROVE Spec => []IInv
  OBVIOUS
<1>1. IInv /\ [Next]_vars => IInv'
  BY StepIInv
<1> QED
  BY InitIInv, <1>1, PTL DEF Spec

\* Isolation, for every instance: while a transaction is open, the map under it
\* is the one it began with (the guard that MemTx holds for its whole life).
THEOREM IsolationTheorem == ~EagerRangeDel => (Spec => []Isolated)
<1>1. IInv => Isolated
  BY DEF IInv
<1> QED
  BY Invariance, <1>1, PTL

\* A transaction that ends without commit() leaves the map as it found it:
\* drop() leaves the map alone, and until then it is the map of the beginning.
THEOREM AbortTheorem == ~EagerRangeDel => (Spec => AbortRestores)
<1> SUFFICES ASSUME ~EagerRangeDel PROVE Spec => AbortRestores
  OBVIOUS
<1> DEFINE Restores == \A t \in Tx :
      mode[t] \in {"read", "write"} /\ mode'[t] = "idle" => store' = base[t]
<1>1. IInv /\ [Next]_vars => [Restores]_vars
  <2> SUFFICES ASSUME IInv, Next, NEW t \in Tx,
                      mode[t] \in {"read", "write"}, mode'[t] = "idle"
               PROVE  store' = base[t]
    BY DEF Restores
  <2>1. PICK u \in Tx : Step(u)
    BY DEF Next
  <2>2. mode \in [Tx -> {"idle", "read", "write", "cleanup", "done", "ended"}]
    BY DEF IInv, TypeOK
  <2>3. drop(t)
    BY <2>1, <2>2 DEF Step, transact, get, range_scan, refuse_write, put, del,
                      del_range_from_persisted, commit, drop
  <2> QED
    BY <2>3 DEF drop, IInv, Isolated
<1>2. Spec => [][Restores]_vars
  BY Invariance, <1>1, PTL DEF Spec
<1> QED
  BY <1>2 DEF AbortRestores, Restores

-----------------------------------------------------------------------------
(* The refinement of StoreTx.                                              *)

\* Outside a cleanup the committed database is the map.
LEMMA DbBarMap ==
    ASSUME \A t \in Tx : mode[t] # "cleanup"
    PROVE  dbBar = store
BY DEF dbBar, Cleaning

\* During a cleanup it is the map the (only) writer began with.
LEMMA DbBarCleanup ==
    ASSUME IInv, NEW t \in Tx, mode[t] = "cleanup"
    PROVE  dbBar = base[t]
<1>1. Cleaning = {t}
  BY DEF Cleaning, IInv, LockInv, Writing
<1> QED
  BY <1>1 DEF dbBar

\* Initial states map to initial states.
LEMMA RefinesInit == Init => Contract!Init
<1> SUFFICES ASSUME Init PROVE Contract!Init
  OBVIOUS
<1>1. dbBar = store
  BY DbBarMap DEF Init
<1> QED
  BY <1>1 DEF Init, Contract!Init, modeBar, viewBar, writtenBar, foreignBar, Unset,
              Contract!Unset, Contract!Map, Contract!Slot, Map, Slot, EmptyCache

\* Every step maps to the contract's step of the same operation.
LEMMA RefinesStep ==
    ASSUME ~EagerRangeDel, IInv, IInv', [Next]_vars
    PROVE  [Contract!Next]_(Contract!vars)
<1> USE DEF modeBar, foreignBar
<1>1. CASE UNCHANGED vars
  BY <1>1 DEF vars, Contract!vars, dbBar, Cleaning, viewBar, writtenBar, View
<1>2. ASSUME NEW t \in Tx, NEW write \in BOOLEAN, transact(t, write)
      PROVE  Contract!Begin(t, write)
  <2>1. dbBar = store /\ dbBar' = store
    BY <1>2 DEF dbBar, Cleaning, transact, IInv, TypeOK
  <2>2. View(t) = store /\ \A u \in Tx : View(u)' = View(u)
    BY <1>2 DEF transact, IInv, TypeOK, CacheInv, View, EmptyCache, Writing, Map
  <2>3. viewBar' = [viewBar EXCEPT ![t] = store]
    BY <1>2, <2>2, Zenon DEF transact, viewBar, IInv, TypeOK
  <2>4. writtenBar' = writtenBar
    BY <1>2 DEF transact, writtenBar, IInv, TypeOK
  <2> QED
    BY <1>2, <2>1, <2>3, <2>4, Zenon DEF transact, Contract!Begin, IInv, TypeOK
<1>3. ASSUME NEW t \in Tx, NEW k \in Key, NEW for_update \in BOOLEAN,
             get(t, k, for_update)
      PROVE  Contract!Get(t, k, for_update)
  <2>1. dbBar' = dbBar /\ viewBar' = viewBar /\ writtenBar' = writtenBar
    BY <1>3 DEF get, dbBar, Cleaning, viewBar, writtenBar, View
  <2> QED
    BY <1>3, <2>1, Zenon DEF get, Contract!Get, Contract!Sees, viewBar, IInv, TypeOK
<1>4. ASSUME NEW t \in Tx, NEW r \in KeyRange, range_scan(t, r)
      PROVE  Contract!RangeScan(t, r)
  <2>1. dbBar' = dbBar /\ viewBar' = viewBar /\ writtenBar' = writtenBar
    BY <1>4 DEF range_scan, dbBar, Cleaning, viewBar, writtenBar, View
  <2>2. Contents(View(t), r) = Contract!Contents(viewBar[t], r)
    BY <1>4 DEF range_scan, Contents, Contract!Contents, viewBar, InRange,
                Contract!InRange
  <2> QED
    BY <1>4, <2>1, <2>2 DEF range_scan, Contract!RangeScan, Contract!Sees, IInv, TypeOK
<1>5. ASSUME NEW t \in Tx, refuse_write(t)
      PROVE  Contract!Refuse(t)
  <2>1. dbBar' = dbBar /\ viewBar' = viewBar /\ writtenBar' = writtenBar
    BY <1>5 DEF refuse_write, dbBar, Cleaning, viewBar, writtenBar, View
  <2> QED
    BY <1>5, <2>1 DEF refuse_write, Contract!Refuse, IInv, TypeOK
<1>6. ASSUME NEW t \in Tx, NEW k \in Key, NEW v \in Slot,
             mode[t] = "write", cache' = [cache EXCEPT ![t][k] = v],
             ret' = [ret EXCEPT ![t] = NoVal],
             UNCHANGED <<store, mode, asked, base>>
      PROVE  Contract!Write(t, k, v)
  <2>1. dbBar' = dbBar
    BY <1>6 DEF dbBar, Cleaning
  <2>2. v # NoEntry
    BY NoEntryAssumption DEF Slot
  <2>3. viewBar' = [viewBar EXCEPT ![t][k] = v]
    <3>1. \A u \in Tx : u # t => viewBar'[u] = viewBar[u]
      BY <1>6 DEF viewBar, View, IInv, TypeOK
    <3>2. viewBar'[t] = [viewBar[t] EXCEPT ![k] = v]
      BY <1>6, <2>2, Zenon DEF viewBar, View, IInv, TypeOK
    <3> QED BY <3>1, <3>2, Zenon DEF viewBar
  <2>4. writtenBar' = [writtenBar EXCEPT ![t] = @ \cup {k}]
    <3>1. \A u \in Tx : u # t => writtenBar'[u] = writtenBar[u]
      BY <1>6 DEF writtenBar, IInv, TypeOK
    <3>2. writtenBar'[t] = writtenBar[t] \cup {k}
      BY <1>6, <2>2 DEF writtenBar, IInv, TypeOK
    <3> QED BY <3>1, <3>2, Zenon DEF writtenBar
  <2> QED
    BY <1>6, <2>1, <2>3, <2>4 DEF Contract!Write
<1>7. ASSUME NEW t \in Tx, NEW r \in KeyRange, del_range_from_persisted(t, r)
      PROVE  Contract!DelRange(t, r)
  <2> DEFINE Gone == {k \in InRange(r) : View(t)[k] # NoVal /\ cache[t][k] = NoEntry}
  <2>1. \A u \in Tx : u # t => mode[u] = "idle" /\ cache[u] = EmptyCache
    BY <1>7 DEF del_range_from_persisted, IInv, LockInv, CacheInv, Writing
  <2>2. dbBar = base[t] /\ dbBar' = base[t]
    <3>1. Cleaning' = {t}
      BY <1>7, <2>1 DEF del_range_from_persisted, Cleaning, IInv, TypeOK, Writing
    <3>2. dbBar' = base[t]
      BY <1>7, <3>1 DEF del_range_from_persisted, dbBar
    <3>3. CASE mode[t] = "cleanup"
      BY <3>2, <3>3, DbBarCleanup
    <3>4. CASE mode[t] = "write"
      BY <2>1, <3>2, <3>4, DbBarMap DEF IInv, Isolated
    <3> QED BY <1>7, <3>3, <3>4 DEF del_range_from_persisted, Writing
  <2>3. viewBar' = [viewBar EXCEPT ![t] = [k \in Key |-> IF k \in Gone THEN NoVal ELSE @[k]]]
    <3>1. \A u \in Tx : u # t => viewBar'[u] = viewBar[u]
      BY <1>7, <2>1 DEF del_range_from_persisted, viewBar, IInv, TypeOK
    <3>2. View(t)' = [k \in Key |-> IF k \in Gone THEN NoVal ELSE View(t)[k]]
      BY <1>7 DEF del_range_from_persisted, View, InRange
    <3>3. viewBar[t] = View(t) /\ viewBar'[t] = View(t)'
      BY <1>7 DEF del_range_from_persisted, viewBar, IInv, TypeOK, Writing
    <3> HIDE DEF Gone
    <3> QED BY <3>1, <3>2, <3>3, Zenon DEF viewBar
  <2>4. writtenBar' = [writtenBar EXCEPT ![t] = @ \cup Gone]
    <3>1. \A u \in Tx : u # t => writtenBar'[u] = writtenBar[u]
      BY <1>7, <2>1 DEF del_range_from_persisted, writtenBar, IInv, TypeOK
    <3>2. writtenBar'[t] = writtenBar[t] \cup Gone
      BY <1>7 DEF del_range_from_persisted, writtenBar, View, InRange, IInv, TypeOK,
                  CleanInv, Isolated, Writing, Map
    <3> QED BY <3>1, <3>2, Zenon DEF writtenBar
  <2>5. /\ Gone \subseteq {k \in InRange(r) : viewBar[t][k] # NoVal}
        /\ {k \in InRange(r) : viewBar[t][k] # NoVal} \ writtenBar[t] \subseteq Gone
    BY <1>7 DEF del_range_from_persisted, viewBar, writtenBar, Writing, InRange
  <2> QED
    BY <1>7, <2>2, <2>3, <2>4, <2>5, Zenon
       DEF del_range_from_persisted, Contract!DelRange, Contract!InRange, InRange, Writing,
           IInv, TypeOK
<1>8. ASSUME NEW t \in Tx, commit(t)
      PROVE  Contract!Commit(t)
  <2>1. CASE mode[t] = "read"
    <3>0. cache[t] = EmptyCache /\ cache' = cache
      BY <1>8, <2>1, Zenon DEF commit, IInv, TypeOK, CacheInv, Writing
    <3>1. dbBar' = dbBar
      <4>1. Cleaning' = Cleaning
        BY <1>8, <2>1 DEF commit, Cleaning, IInv, TypeOK
      <4> QED BY <1>8, <2>1, <4>1 DEF commit, dbBar
    <3>2. viewBar' = viewBar
      BY <1>8, <2>1, <3>0 DEF commit, viewBar, View, IInv, TypeOK
    <3>3. writtenBar' = [writtenBar EXCEPT ![t] = {}]
      <4>1. \A u \in Tx : writtenBar'[u] = writtenBar[u]
        BY <1>8, <2>1, <3>0 DEF commit, writtenBar, IInv, TypeOK
      <4>2. writtenBar[t] = {}
        BY <2>1, <3>0 DEF writtenBar, EmptyCache
      <4> QED BY <4>1, <4>2, Zenon DEF writtenBar
    <3> QED
      BY <1>8, <2>1, <3>1, <3>2, <3>3, Zenon DEF commit, Contract!Commit, IInv, TypeOK
  <2>2. CASE mode[t] \in Writing
    <3>1. \A u \in Tx : u # t => mode[u] = "idle" /\ cache[u] = EmptyCache
      BY <2>2 DEF IInv, LockInv, CacheInv, Writing
    <3>2. dbBar' = View(t)
      BY <1>8, <2>2, <3>1 DEF commit, dbBar, Cleaning, IInv, TypeOK, Writing
    <3>3. dbBar = base[t]
      <4>1. CASE mode[t] = "cleanup"
        BY <4>1, DbBarCleanup
      <4>2. CASE mode[t] = "write"
        BY <3>1, <4>2, DbBarMap DEF IInv, Isolated
      <4> QED BY <2>2, <4>1, <4>2 DEF Writing
    <3>4. View(t) = [k \in Key |-> IF k \in writtenBar[t] THEN viewBar[t][k] ELSE dbBar[k]]
      BY <2>2, <3>3, Zenon DEF View, writtenBar, viewBar, IInv, TypeOK, Isolated, Writing, Map
    <3>5. viewBar' = viewBar
      BY <1>8, <2>2, <3>1 DEF commit, viewBar, View, IInv, TypeOK, Writing, EmptyCache
    <3>6. writtenBar' = [writtenBar EXCEPT ![t] = {}]
      <4>1. \A u \in Tx : u # t => writtenBar'[u] = writtenBar[u]
        BY <1>8, <3>1 DEF commit, writtenBar, IInv, TypeOK
      <4>2. writtenBar'[t] = {}
        BY <1>8, <2>2 DEF commit, writtenBar, IInv, TypeOK, Writing, EmptyCache
      <4> QED BY <4>1, <4>2, Zenon DEF writtenBar
    <3>7. modeBar[t] = "write" /\ modeBar' = [modeBar EXCEPT ![t] = "done"]
      BY <1>8, <2>2, Zenon DEF commit, IInv, TypeOK, Writing
    <3>8. \A u \in Tx : u # t => modeBar[u] = "idle"
      BY <3>1
    <3>9. foreignBar' = [u \in Tx |-> IF u = t \/ modeBar[u] = "idle" THEN foreignBar[u]
                                      ELSE foreignBar[u] \cup writtenBar[t]]
      BY <3>8
    <3>10. foreignBar[t] = {}
      OBVIOUS
    <3> HIDE DEF modeBar, foreignBar
    <3> QED
      BY <1>8, <3>2, <3>4, <3>5, <3>6, <3>7, <3>9, <3>10, Zenon DEF commit, Contract!Commit
  <2> QED BY <1>8, <2>1, <2>2 DEF commit
<1>9. ASSUME NEW t \in Tx, drop(t)
      PROVE  Contract!Drop(t)
  <2>1. dbBar' = dbBar
    <3>1. CASE \A u \in Tx : mode[u] # "cleanup"
      BY <1>9, <3>1 DEF drop, dbBar, Cleaning, IInv, TypeOK
    <3>2. CASE \E u \in Tx : mode[u] = "cleanup"
      BY <1>9, <3>2 DEF drop, IInv, LockInv, Writing
    <3> QED BY <3>1, <3>2
  <2>2. viewBar' = [viewBar EXCEPT ![t] = Unset]
    <3>1. \A u \in Tx : u # t => viewBar'[u] = viewBar[u]
      BY <1>9 DEF drop, viewBar, View, IInv, TypeOK
    <3>2. viewBar'[t] = Unset
      BY <1>9 DEF drop, viewBar, IInv, TypeOK
    <3> QED BY <3>1, <3>2, Zenon DEF viewBar
  <2>3. writtenBar' = [writtenBar EXCEPT ![t] = {}]
    <3>1. \A u \in Tx : u # t => writtenBar'[u] = writtenBar[u]
      BY <1>9 DEF drop, writtenBar, IInv, TypeOK
    <3>2. writtenBar'[t] = {}
      BY <1>9 DEF drop, writtenBar, IInv, TypeOK, EmptyCache
    <3> QED BY <3>1, <3>2, Zenon DEF writtenBar
  <2> QED
    BY <1>9, <2>1, <2>2, <2>3, Zenon DEF drop, Contract!Drop, Contract!Unset, Unset, IInv, TypeOK
<1>10. Next => Contract!Next
  <2> SUFFICES ASSUME NEW t \in Tx, Step(t) PROVE Contract!Step(t)
    BY DEF Next, Contract!Next
  <2>1. ASSUME NEW k \in Key, NEW v \in Val, put(t, k, v) PROVE Contract!Step(t)
    <3>1. v \in Contract!Slot
      BY DEF Contract!Slot
    <3>2. Contract!Write(t, k, v)
      BY <1>6, <2>1, <3>1, Zenon DEF put, Slot
    <3> QED BY <3>1, <3>2, Zenon DEF Contract!Step
  <2>2. ASSUME NEW k \in Key, del(t, k) PROVE Contract!Step(t)
    <3>1. NoVal \in Contract!Slot
      BY DEF Contract!Slot
    <3>2. Contract!Write(t, k, NoVal)
      BY <1>6, <2>2, <3>1, Zenon DEF del, Slot
    <3> QED BY <3>1, <3>2, Zenon DEF Contract!Step
  <2>3. KeyRange = Contract!KeyRange
    BY DEF KeyRange, Contract!KeyRange
  <2> QED
    BY <1>2, <1>3, <1>4, <1>5, <1>7, <1>8, <1>9, <2>1, <2>2, <2>3, Zenon DEF Step, Contract!Step
<1> QED BY <1>1, <1>10 DEF vars

\* The memory engine implements the StoreTx contract: isolated, atomic,
\* invisible before commit() and gone without it, for every instance.
THEOREM RefinementTheorem == ~EagerRangeDel => (Spec => ImplementsStoreTx)
<1> SUFFICES ASSUME ~EagerRangeDel PROVE Spec => ImplementsStoreTx
  OBVIOUS
<1>1. IInv /\ IInv' /\ [Next]_vars => [Contract!Next]_(Contract!vars)
  BY RefinesStep, Zenon
<1> QED
  BY Invariance, RefinesInit, <1>1, PTL DEF Spec, ImplementsStoreTx, Contract!Spec

-----------------------------------------------------------------------------
(* The catalog                                                             *)

\* A new database has no ids, no rows and nothing to be inconsistent.
LEMMA InitInv == CatalogInit => Inv
  <1> SUFFICES ASSUME CatalogInit PROVE Inv
    OBVIOUS
  <1> DEFINE none == [n \in Name |-> 0]
             noIndices == [n \in Name |-> [i \in Idx |-> 0]]
  <1>1. EmptyDb = [relation |-> none, indices |-> noIndices, entry |-> noIndices, rows |-> {}, last |-> 0]
    BY DEF EmptyDb, NoIndices, NoId
  <1>2. /\ relation = none /\ indices = noIndices /\ entry = noIndices /\ rows = {} /\ last = 0
        /\ relation_store_id = 0 /\ backup = EmptyDb /\ restored = FALSE /\ mishaps = {}
    BY <1>1 DEF CatalogInit
  <1>3. CatalogTypeOK
    BY <1>1, <1>2, Zenon DEF CatalogTypeOK
  <1>4. UniqueIds(none, noIndices, noIndices) /\ IdsGiven(none, noIndices, noIndices, 0)
    BY DEF UniqueIds, IdsGiven, NoId
  <1>5. Consistent(none, noIndices, noIndices, {})
    BY DEF Consistent, RowsOwned, IndexAgreesIn, NoId
  <1> HIDE DEF none, noIndices
  <1> QED
    BY <1>1, <1>2, <1>3, <1>4, <1>5 DEF Inv

\* The database has the types of CatalogTypeOK, its backup and history apart.
Typed ==
    /\ relation \in [Name -> Nat] /\ indices \in [Name -> [Idx -> Nat]] /\ entry \in [Name -> [Idx -> Nat]]
    /\ rows \subseteq Nat \X RowKey /\ last \in Nat /\ relation_store_id \in Nat

\* What the invariant says of the ids of the database, and of the database
\* while nothing has broken it.
Apart ==
    /\ UniqueIds(relation, indices, entry) /\ IdsGiven(relation, indices, entry, last)
    /\ restored \/ last <= relation_store_id
Sound == Consistent(relation, indices, entry, rows)

\* What the invariant says of the database, and not of its backup.
LEMMA Parts ==
  ASSUME Inv
  PROVE  Typed /\ (IdsKept => Apart) /\ (mishaps = {} => IdsKept /\ Sound)
  BY Zenon DEF Inv, CatalogTypeOK, Typed, Apart, Sound, IdsKept

\* A step that keeps the backup keeps the invariant if it keeps those parts.
LEMMA Whole ==
  ASSUME Inv, backup' = backup, Typed', restored' \in BOOLEAN,
         mishaps \subseteq mishaps', mishaps' \subseteq Mishap,
         IdsKept' => Apart', mishaps' = {} => Sound'
  PROVE  Inv'
  <1>1. (IdsKept' => IdsKept) /\ (mishaps' = {} => mishaps = {})
    BY DEF IdsKept
  <1>2. CatalogTypeOK'
    BY Zenon DEF Inv, CatalogTypeOK, Typed
  <1> QED
    BY <1>1, <1>2, Zenon DEF Inv, Apart, Sound

\* The history only grows, and grows when the event happens.
LEMMA Noted ==
  ASSUME Inv, NEW event \in Mishap, NEW happens \in BOOLEAN, Note(event, happens)
  PROVE  /\ mishaps \subseteq mishaps' /\ mishaps' \subseteq Mishap
         /\ IdsKept' => IdsKept /\ (event # "indexed_rename" => ~happens)
         /\ mishaps' = {} => mishaps = {} /\ ~happens
  BY DEF Note, IdsKept, Mishap, Inv, CatalogTypeOK

\* A creation takes an id beyond all others, unless it is a mishap.
LEMMA Fresh ==
  ASSUME Inv, Creating
  PROVE  /\ mishaps \subseteq mishaps' /\ mishaps' \subseteq Mishap
         /\ mishaps' = {} => mishaps = {} /\ IdsKept'
         /\ IdsKept' => /\ Apart /\ NewId > last
                        /\ \A n \in Name : relation[n] < NewId
                        /\ \A n \in Name, i \in Idx : indices[n][i] < NewId /\ entry[n][i] < NewId
  <1>1. Typed /\ restored \in BOOLEAN
    BY Parts DEF Inv, CatalogTypeOK
  <1>2. "stale_id" \in Mishap /\ (restored /\ NewId <= last) \in BOOLEAN
    BY DEF Mishap
  <1>3. /\ mishaps \subseteq mishaps' /\ mishaps' \subseteq Mishap
        /\ IdsKept' => IdsKept /\ ~(restored /\ NewId <= last)
        /\ mishaps' = {} => mishaps = {}
    BY <1>2, Noted, Zenon DEF Creating
  <1>4. IdsKept' => Apart
    BY <1>3, Parts
  <1>5. IdsKept' => NewId > last
    BY <1>1, <1>3, <1>4 DEF Apart, NewId, Typed
  <1>6. IdsKept' => /\ \A n \in Name : relation[n] < NewId
                    /\ \A n \in Name, i \in Idx : indices[n][i] < NewId /\ entry[n][i] < NewId
    BY <1>1, <1>4, <1>5 DEF Apart, IdsGiven, Typed, NewId
  <1> QED
    BY <1>3, <1>4, <1>5, <1>6 DEF IdsKept

\* create_relation keeps the invariant: the new id is beyond all others.
LEMMA CreateInv ==
  ASSUME Inv, NEW n \in Name, create_relation(n)
  PROVE  Inv'
  <1> USE Parts, Fresh DEF NoId, create_relation
  <1>1. Typed'
    BY DEF Typed, NewId, NoIndices
  <1>2. ASSUME IdsKept' PROVE Apart'
    BY <1>2, <1>1 DEF Apart, UniqueIds, IdsGiven, Typed, NoIndices
  <1>3. ASSUME mishaps' = {} PROVE Sound'
    <2> USE DEF Sound, Consistent, Typed
    <2>0. mishaps = {} /\ Sound
      BY <1>3
    <2>1. indices[n] = NoIndices
      BY <2>0 DEF IndexAgreesIn, NoIndices
    <2>2. indices' = indices
      BY <2>1
    <2>3. \A m \in Name : relation[m] # NoId => relation'[m] = relation[m]
      OBVIOUS
    <2>4. ASSUME NEW r \in rows
          PROVE  r[1] # NoId /\ \E m \in Name : relation'[m] = r[1] \/ \E i \in Idx : indices[m][i] = r[1]
      <3>1. PICK m \in Name : relation[m] = r[1] \/ \E i \in Idx : indices[m][i] = r[1]
        BY <2>0 DEF RowsOwned
      <3>2. r[1] # NoId
        BY <2>0 DEF RowsOwned
      <3>3. CASE relation[m] = r[1]
        BY <2>3, <3>2, <3>3
      <3> QED
        BY <3>1, <3>2, <3>3
    <2>5. RowsOwned(relation, indices, rows)'
      BY <2>2, <2>4 DEF RowsOwned
    <2>6. IndexAgreesIn(relation, indices, rows)'
      BY <2>0, <2>1, <2>2, <2>3 DEF IndexAgreesIn, RowsIn, NoIndices
    <2> QED
      BY <2>0, <2>2, <2>5, <2>6
  <1> QED
    BY <1>1, <1>2, <1>3, Whole DEF Inv, CatalogTypeOK

\* abort_create and initialize change the counter in memory only.
LEMMA CounterInv ==
  ASSUME Inv, abort_create \/ initialize
  PROVE  Inv'
  <1> USE Parts
  <1>1. UNCHANGED <<relation, indices, entry, rows, last, backup, mishaps>>
    BY DEF abort_create, initialize
  <1>2. Typed'
    BY <1>1 DEF abort_create, initialize, Typed, NewId
  <1>3. IdsKept' => Apart'
    BY <1>1 DEF abort_create, initialize, Typed, NewId, Apart, IdsKept
  <1>4. mishaps' = {} => Sound'
    BY <1>1 DEF Sound
  <1>5. restored \in BOOLEAN /\ mishaps \subseteq Mishap
    BY Zenon DEF Inv, CatalogTypeOK
  <1>6. restored' = restored \/ restored' = FALSE
    BY Zenon DEF abort_create, initialize
  <1> QED
    BY <1>1, <1>2, <1>3, <1>4, <1>5, <1>6, Whole, Zenon

\* replace gives the relation a new id and deletes the rows of the old one.
LEMMA ReplaceInv ==
  ASSUME Inv, NEW n \in Name, replace(n)
  PROVE  Inv'
  <1> USE Parts, Fresh DEF NoId, replace
  <1>1. Typed'
    BY DEF Typed, NewId, Without
  <1>2. ASSUME IdsKept' PROVE Apart'
    BY <1>2, <1>1 DEF Apart, UniqueIds, IdsGiven, Typed
  <1>3. ASSUME mishaps' = {} PROVE Sound'
    <2> USE DEF Typed
    <2>0. /\ RowsOwned(relation, indices, rows) /\ IndexAgreesIn(relation, indices, rows) /\ entry = indices
          /\ UniqueIds(relation, indices, entry)
      BY <1>3 DEF Sound, Consistent, Apart
    <2>1. \A i \in Idx : indices[n][i] = NoId
      BY DEF Indexed, NoIndices
    <2>2. rows' = {p \in rows : p[1] # relation[n]}
      BY DEF Without
    <2>3. RowsOwned(relation, indices, rows)'
      BY <2>0, <2>2 DEF RowsOwned
    <2>4. ASSUME NEW m \in Name, NEW i \in Idx, indices[m][i] # NoId
          PROVE  relation'[m] # NoId /\ RowsIn(rows', indices[m][i]) = RowsIn(rows', relation'[m])
      <3>1. m # n /\ relation'[m] = relation[m]
        BY <2>1, <2>4, Zenon
      <3>2. relation[m] # relation[n] /\ indices[m][i] # relation[n]
        BY <2>0, <2>4, <3>1, Zenon DEF UniqueIds
      <3>3. relation[m] # NoId /\ RowsIn(rows, indices[m][i]) = RowsIn(rows, relation[m])
        BY <2>0, <2>4 DEF IndexAgreesIn
      <3>4. \A id : id # relation[n] => RowsIn(rows', id) = RowsIn(rows, id)
        BY <2>2 DEF RowsIn
      <3> QED
        BY <3>1, <3>2, <3>3, <3>4
    <2>5. IndexAgreesIn(relation, indices, rows)'
      BY <2>4, Zenon DEF IndexAgreesIn
    <2> QED
      BY <2>0, <2>3, <2>5 DEF Sound, Consistent
  <1> QED
    BY <1>1, <1>2, <1>3, Whole DEF Inv, CatalogTypeOK

\* destroy_relation takes the rows with the entry.
LEMMA DestroyInv ==
  ASSUME Inv, NEW n \in Name, destroy_relation(n)
  PROVE  Inv'
  <1> USE Parts DEF NoId, destroy_relation
  <1>1. Typed'
    BY DEF Typed, Without
  <1>2. ASSUME IdsKept' PROVE Apart'
    BY <1>2 DEF Apart, UniqueIds, IdsGiven, Typed, IdsKept
  <1>3. ASSUME mishaps' = {} PROVE Sound'
    <2> USE DEF Typed
    <2>0. /\ RowsOwned(relation, indices, rows) /\ IndexAgreesIn(relation, indices, rows) /\ entry = indices
          /\ UniqueIds(relation, indices, entry)
      BY <1>3 DEF Sound, Consistent, Apart
    <2>1. \A i \in Idx : indices[n][i] = NoId
      BY DEF Indexed, NoIndices
    <2>2. rows' = {p \in rows : p[1] # relation[n]}
      BY DEF Without
    <2>3. RowsOwned(relation, indices, rows)'
      BY <2>0, <2>2, Zenon DEF RowsOwned
    <2>4. ASSUME NEW m \in Name, NEW i \in Idx, indices[m][i] # NoId
          PROVE  relation'[m] # NoId /\ RowsIn(rows', indices[m][i]) = RowsIn(rows', relation'[m])
      <3>1. m # n /\ relation'[m] = relation[m]
        BY <2>1, <2>4, Zenon
      <3>2. relation[m] # relation[n] /\ indices[m][i] # relation[n]
        BY <2>0, <2>4, <3>1 DEF UniqueIds
      <3>3. relation[m] # NoId /\ RowsIn(rows, indices[m][i]) = RowsIn(rows, relation[m])
        BY <2>0, <2>4 DEF IndexAgreesIn
      <3>4. \A id : id # relation[n] => RowsIn(rows', id) = RowsIn(rows, id)
        BY <2>2, Zenon DEF RowsIn
      <3> QED
        BY <3>1, <3>2, <3>3, <3>4
    <2>5. IndexAgreesIn(relation, indices, rows)'
      BY <2>4, Zenon DEF IndexAgreesIn
    <2> QED
      BY <2>0, <2>3, <2>5 DEF Sound, Consistent
  <1> QED
    BY <1>1, <1>2, <1>3, Whole DEF Inv, CatalogTypeOK

\* rename_relation moves an id with the ids of its indices; without indices it
\* leaves nothing behind.
LEMMA RenameInv ==
  ASSUME Inv, NEW old \in Name, NEW new \in Name, rename_relation(old, new)
  PROVE  Inv'
  <1>0. /\ mishaps \subseteq mishaps' /\ mishaps' \subseteq Mishap
        /\ IdsKept' => IdsKept
        /\ mishaps' = {} => mishaps = {} /\ ~Indexed(old)
    <2>1. "indexed_rename" \in Mishap /\ Indexed(old) \in BOOLEAN
      BY DEF Mishap, Indexed
    <2> QED
      BY <2>1, Noted, Zenon DEF rename_relation
  <1>1. /\ UNCHANGED <<entry, rows, last, relation_store_id, backup, restored>>
        /\ relation' = [relation EXCEPT ![old] = NoId, ![new] = relation[old]]
        /\ indices' = [indices EXCEPT ![old] = NoIndices, ![new] = indices[old]]
        /\ relation[old] # NoId /\ relation[new] = NoId
    BY Zenon DEF rename_relation
  <1>2. Typed
    BY Parts
  <1>3. /\ old # new /\ relation'[old] = NoId /\ relation'[new] = relation[old]
        /\ \A m \in Name \ {old, new} : relation'[m] = relation[m]
        /\ indices'[new] = indices[old] /\ indices'[old] = NoIndices
        /\ \A m \in Name \ {old, new} : indices'[m] = indices[m]
    BY <1>1, <1>2 DEF Typed
  <1>4. Typed'
    <2>1. NoIndices \in [Idx -> Nat] /\ NoId \in Nat
      BY DEF NoIndices, NoId
    <2>2. relation' \in [Name -> Nat]
      BY <1>1, <1>2, <2>1, Zenon DEF Typed
    <2>3. indices' \in [Name -> [Idx -> Nat]]
      BY <1>1, <1>2, <2>1, Zenon DEF Typed
    <2> QED
      BY <1>1, <1>2, <2>2, <2>3, Zenon DEF Typed
  <1>5. ASSUME IdsKept' PROVE Apart'
    <2>0. UniqueIds(relation, indices, entry) /\ IdsGiven(relation, indices, entry, last)
          /\ (restored \/ last <= relation_store_id)
      BY <1>0, <1>5, Parts, Zenon DEF Apart
    <2> DEFINE Back(m) == IF m = new THEN old ELSE m
    <2>1. \A m \in Name : Back(m) \in Name /\ (relation'[m] # NoId => m # old /\ relation'[m] = relation[Back(m)])
      BY <1>3
    <2>2. \A m \in Name, i \in Idx :
             indices'[m][i] # NoId => m # old /\ indices'[m][i] = indices[Back(m)][i]
      <3>1. \A i \in Idx : indices'[old][i] = NoId
        BY <1>3 DEF NoIndices
      <3>2. \A m \in Name \ {old} : indices'[m] = indices[Back(m)]
        BY <1>3
      <3> HIDE DEF Back
      <3> QED
        BY <3>1, <3>2, Zenon
    <2>3. \A m, p \in Name : Back(m) = Back(p) /\ m # old /\ p # old => m = p
      BY <1>3
    <2> HIDE DEF Back
    <2>4. \A m, p \in Name : relation'[m] # NoId /\ relation'[m] = relation'[p] => m = p
      <3> SUFFICES ASSUME NEW m \in Name, NEW p \in Name, relation'[m] # NoId, relation'[m] = relation'[p]
                   PROVE  m = p
        BY Zenon
      <3>1. relation[Back(m)] # NoId /\ relation[Back(m)] = relation[Back(p)] /\ m # old /\ p # old
        BY <2>1, Zenon
      <3>2. Back(m) = Back(p)
        BY <2>0, <2>1, <3>1, Zenon DEF UniqueIds
      <3> QED
        BY <2>3, <3>1, <3>2, Zenon
    <2>5. \A m, p \in Name, i, j \in Idx :
             indices'[m][i] # NoId /\ indices'[m][i] = indices'[p][j] => m = p /\ i = j
      <3> SUFFICES ASSUME NEW m \in Name, NEW p \in Name, NEW i \in Idx, NEW j \in Idx,
                          indices'[m][i] # NoId, indices'[m][i] = indices'[p][j]
                   PROVE  m = p /\ i = j
        OBVIOUS
      <3>1. /\ indices[Back(m)][i] # NoId /\ indices[Back(m)][i] = indices[Back(p)][j]
            /\ m # old /\ p # old
        BY <2>2, Zenon
      <3>2. Back(m) \in Name /\ Back(p) \in Name
        BY <2>1, Zenon
      <3>3. Back(m) = Back(p) /\ i = j
        BY ONLY <2>0, <3>1, <3>2, i \in Idx, j \in Idx DEF UniqueIds
      <3> QED
        BY <2>3, <3>1, <3>3, Zenon
    <2>6. \A m, p \in Name, i \in Idx :
             relation'[m] # NoId => relation'[m] # indices'[p][i] /\ relation'[m] # entry'[p][i]
      <3> SUFFICES ASSUME NEW m \in Name, NEW p \in Name, NEW i \in Idx, relation'[m] # NoId
                   PROVE  relation'[m] # indices'[p][i] /\ relation'[m] # entry[p][i]
        BY <1>1, Zenon
      <3>1. relation'[m] = relation[Back(m)] /\ Back(m) \in Name /\ Back(p) \in Name
        BY <2>1, Zenon
      <3>2. indices'[p][i] = NoId \/ indices'[p][i] = indices[Back(p)][i]
        BY <2>2, Zenon
      <3> QED
        BY <2>0, <3>1, <3>2 DEF UniqueIds
    <2>7. UniqueIds(relation, indices, entry)'
      BY ONLY <2>4, <2>5, <2>6 DEF UniqueIds
    <2>8. IdsGiven(relation, indices, entry, last)'
      <3>1. \A m \in Name : relation'[m] <= last /\ \A i \in Idx : indices'[m][i] <= last
        BY <1>2, <1>3, <2>0 DEF IdsGiven, NoIndices, Typed, NoId
      <3> QED
        BY <1>1, <2>0, <3>1, Zenon DEF IdsGiven
    <2> QED
      BY <1>1, <2>0, <2>7, <2>8, Zenon DEF Apart
  <1>6. ASSUME mishaps' = {} PROVE Sound'
    <2>0. /\ RowsOwned(relation, indices, rows) /\ IndexAgreesIn(relation, indices, rows) /\ entry = indices
          /\ ~Indexed(old)
      BY <1>0, <1>6, Parts, Zenon DEF Sound, Consistent
    <2>1. indices[old] = NoIndices /\ indices[new] = NoIndices
      BY <1>1, <1>2, <2>0 DEF Indexed, NoIndices, IndexAgreesIn, Typed, NoId
    <2>2. indices' = indices
      BY <1>1, <1>2, <2>1 DEF Typed
    <2>3. \A m \in Name \ {old} : relation[m] # NoId => relation'[m] = relation[m]
      BY <1>1, <1>3, Zenon
    <2>4. ASSUME NEW r \in rows
          PROVE  r[1] # NoId /\ \E m \in Name : relation'[m] = r[1] \/ \E i \in Idx : indices[m][i] = r[1]
      <3>1. PICK m \in Name : relation[m] = r[1] \/ \E i \in Idx : indices[m][i] = r[1]
        BY <2>0 DEF RowsOwned
      <3>2. r[1] # NoId
        BY <2>0 DEF RowsOwned
      <3>3. CASE relation[m] = r[1] /\ m = old
        BY <1>3, <3>2, <3>3, Zenon
      <3>4. CASE relation[m] = r[1] /\ m # old
        BY <2>3, <3>2, <3>4, Zenon
      <3> QED
        BY <3>1, <3>2, <3>3, <3>4, Zenon
    <2>5. RowsOwned(relation, indices, rows)'
      <3>1. rows' = rows
        BY <1>1
      <3> QED
        BY ONLY <2>2, <2>4, <3>1 DEF RowsOwned
    <2>6. IndexAgreesIn(relation, indices, rows)'
      <3>1. \A m \in Name, i \in Idx : indices[m][i] # NoId => m # old /\ relation[m] # NoId
        BY <2>0, <2>1, Zenon DEF NoIndices, IndexAgreesIn
      <3>2. \A m \in Name, i \in Idx : indices[m][i] # NoId => relation'[m] = relation[m]
        BY <2>3, <3>1, Zenon
      <3>3. rows' = rows /\ IndexAgreesIn(relation, indices, rows)
        BY <1>1, <2>0
      <3> QED
        BY ONLY <2>2, <3>2, <3>3 DEF IndexAgreesIn
    <2> QED
      BY <1>1, <2>0, <2>2, <2>5, <2>6, Zenon DEF Sound, Consistent
  <1>7. restored \in BOOLEAN
    BY Zenon DEF Inv, CatalogTypeOK
  <1> QED
    BY <1>0, <1>1, <1>4, <1>5, <1>6, <1>7, Whole, Zenon

\* create_index copies the rows of the relation under a new id.
LEMMA CreateIndexInv ==
  ASSUME Inv, NEW n \in Name, NEW j \in Idx, create_index(n, j)
  PROVE  Inv'
  <1> USE Parts, Fresh DEF NoId, create_index
  <1>0. NewId \in Nat
    BY DEF Typed, NewId
  <1>1. /\ indices'[n][j] = NewId /\ entry'[n][j] = NewId
        /\ \A m \in Name, i \in Idx : <<m, i>> # <<n, j>> =>
              indices'[m][i] = indices[m][i] /\ entry'[m][i] = entry[m][i]
    BY DEF Typed
  <1>2. Typed'
    <2>1. {<<NewId, k>> : k \in RowsOf(relation[n])} \subseteq Nat \X RowKey
      <3>1. RowsOf(relation[n]) \subseteq RowKey
        BY DEF RowsOf, RowsIn
      <3> QED
        BY <1>0, <3>1
    <2>2. indices' \in [Name -> [Idx -> Nat]] /\ entry' \in [Name -> [Idx -> Nat]]
      BY <1>0 DEF Typed
    <2> QED
      BY <1>0, <2>1, <2>2 DEF Typed
  <1>3. ASSUME IdsKept' PROVE Apart'
    <2>0. /\ UniqueIds(relation, indices, entry)
          /\ \A m \in Name : relation[m] # NewId /\ \A i \in Idx : indices[m][i] # NewId
      BY <1>0, <1>3 DEF Apart, Typed
    <2>1. UniqueIds(relation, indices, entry)'
      <3>1. \A m, p \in Name, i, k \in Idx :
               indices'[m][i] # NoId /\ indices'[m][i] = indices'[p][k] => m = p /\ i = k
        <4> SUFFICES ASSUME NEW m \in Name, NEW p \in Name, NEW i \in Idx, NEW k \in Idx,
                            indices'[m][i] # NoId, indices'[m][i] = indices'[p][k]
                     PROVE  <<m, i>> = <<p, k>>
          OBVIOUS
        <4>1. CASE <<m, i>> = <<n, j>> \/ <<p, k>> = <<n, j>>
          BY <1>1, <2>0, <4>1
        <4>2. CASE <<m, i>> # <<n, j>> /\ <<p, k>> # <<n, j>>
          <5>1. indices[m][i] # NoId /\ indices[m][i] = indices[p][k]
            BY <1>1, <4>2, Zenon
          <5> QED
            BY <2>0, <5>1 DEF UniqueIds
        <4> QED
          BY <4>1, <4>2, Zenon
      <3>2. \A m, p \in Name, i \in Idx :
               relation[m] # NoId => relation[m] # indices'[p][i] /\ relation[m] # entry'[p][i]
        BY <1>1, <2>0 DEF UniqueIds
      <3>3. relation' = relation
        BY Zenon
      <3>4. \A m, p \in Name : relation[m] # NoId /\ relation[m] = relation[p] => m = p
        BY <2>0 DEF UniqueIds
      <3> QED
        BY ONLY <3>1, <3>2, <3>3, <3>4 DEF UniqueIds, NoId
    <2>2. IdsGiven(relation, indices, entry, last)'
      BY <1>0, <1>1, <1>3 DEF IdsGiven, Typed
    <2> QED
      BY <1>0, <2>1, <2>2 DEF Apart
  <1>4. ASSUME mishaps' = {} PROVE Sound'
    <2>0. /\ RowsOwned(relation, indices, rows) /\ IndexAgreesIn(relation, indices, rows) /\ entry = indices
          /\ \A m \in Name : relation[m] < NewId /\ \A i \in Idx : indices[m][i] < NewId
      BY <1>4 DEF Sound, Consistent
    <2>1. ASSUME NEW r \in rows'
          PROVE  r[1] # NoId /\ \E m \in Name : relation[m] = r[1] \/ \E i \in Idx : indices'[m][i] = r[1]
      <3>1. CASE r \in rows
        <4>1. r[1] # NoId
          BY <2>0, <3>1 DEF RowsOwned
        <4>2. PICK m \in Name : relation[m] = r[1] \/ \E i \in Idx : indices[m][i] = r[1]
          BY <2>0, <3>1 DEF RowsOwned
        <4>3. CASE \E i \in Idx : indices[m][i] = r[1]
          <5>1. PICK i \in Idx : indices[m][i] = r[1]
            BY <4>3
          <5>2. <<m, i>> # <<n, j>>
            BY <4>1, <5>1
          <5> QED
            BY <1>1, <4>1, <5>1, <5>2
        <4> QED
          BY <4>1, <4>2, <4>3
      <3>2. CASE r \notin rows
        BY <1>1, <3>2 DEF NewId, Typed
      <3> QED
        BY <3>1, <3>2, Zenon
    <2>2. RowsOwned(relation, indices, rows)'
      BY <2>1 DEF RowsOwned
    <2>3. \A id \in Nat : id # NewId => RowsIn(rows', id) = RowsIn(rows, id)
      BY DEF RowsIn
    <2>4. RowsIn(rows', NewId) = RowsIn(rows, relation[n])
      <3>1. \A k \in RowKey : <<NewId, k>> \notin rows
        <4> SUFFICES ASSUME NEW k \in RowKey, <<NewId, k>> \in rows
                     PROVE  FALSE
          BY Zenon
        <4>1. <<NewId, k>>[1] = NewId
          OBVIOUS
        <4>2. PICK m \in Name : relation[m] = NewId \/ \E i \in Idx : indices[m][i] = NewId
          BY <2>0, <4>1, Zenon DEF RowsOwned
        <4> QED
          BY <2>0, <4>2 DEF Typed
      <3> QED
        BY <3>1, Zenon DEF RowsOf, RowsIn
    <2>5. ASSUME NEW m \in Name, NEW i \in Idx, indices'[m][i] # NoId
          PROVE  relation[m] # NoId /\ RowsIn(rows', indices'[m][i]) = RowsIn(rows', relation[m])
      <3>1. relation[m] \in Nat /\ relation[m] # NewId
        BY <2>0 DEF Typed
      <3>2. CASE <<m, i>> = <<n, j>>
        BY <1>1, <2>3, <2>4, <3>1, <3>2
      <3>3. CASE <<m, i>> # <<n, j>>
        <4>1. indices'[m][i] = indices[m][i] /\ indices[m][i] \in Nat /\ indices[m][i] # NewId
          BY <1>1, <2>0, <3>3 DEF Typed
        <4>2. relation[m] # NoId /\ RowsIn(rows, indices[m][i]) = RowsIn(rows, relation[m])
          BY <2>0, <2>5, <4>1, Zenon DEF IndexAgreesIn
        <4> QED
          BY <2>3, <3>1, <4>1, <4>2, Zenon
      <3> QED
        BY <3>2, <3>3
    <2>6. IndexAgreesIn(relation, indices, rows)'
      BY <2>5 DEF IndexAgreesIn
    <2>7. (entry = indices)'
      BY <2>0, Zenon
    <2> QED
      BY <2>2, <2>6, <2>7, Zenon DEF Sound, Consistent
  <1>5. restored \in BOOLEAN
    BY Zenon DEF Inv, CatalogTypeOK
  <1>6. backup' = backup /\ restored' = restored /\ Creating
    BY Zenon
  <1>7. mishaps \subseteq mishaps' /\ mishaps' \subseteq Mishap
    BY <1>6, Fresh, Zenon
  <1> QED
    BY ONLY Inv, <1>2, <1>3, <1>4, <1>5, <1>6, <1>7, Whole, Zenon

\* remove_index finds the entry of the index and deletes its rows.
LEMMA RemoveIndexInv ==
  ASSUME Inv, NEW n \in Name, NEW j \in Idx, remove_index(n, j)
  PROVE  Inv'
  <1> USE Parts DEF NoId, remove_index
  <1>1. /\ indices'[n][j] = NoId /\ entry'[n][j] = NoId
        /\ \A m \in Name, i \in Idx : <<m, i>> # <<n, j>> =>
              indices'[m][i] = indices[m][i] /\ entry'[m][i] = entry[m][i]
    BY DEF Typed
  <1>2. Typed'
    BY DEF Typed, Without
  <1>3. ASSUME IdsKept' PROVE Apart'
    <2>0. UniqueIds(relation, indices, entry) /\ IdsGiven(relation, indices, entry, last)
      BY <1>3 DEF Apart, IdsKept
    <2>1. UniqueIds(relation, indices, entry)'
      BY <1>1, <2>0 DEF UniqueIds
    <2>2. IdsGiven(relation, indices, entry, last)'
      BY <1>1, <2>0 DEF IdsGiven, Typed
    <2> QED
      BY <1>3, <2>1, <2>2 DEF Apart, IdsKept
  <1>4. ASSUME mishaps' = {} PROVE Sound'
    <2>0. /\ RowsOwned(relation, indices, rows) /\ IndexAgreesIn(relation, indices, rows) /\ entry = indices
          /\ UniqueIds(relation, indices, entry)
      BY <1>4 DEF Sound, Consistent, Apart
    <2>1. rows' = {p \in rows : p[1] # indices[n][j]}
      BY <2>0 DEF Without
    <2>2. ASSUME NEW r \in rows'
          PROVE  r[1] # NoId /\ \E m \in Name : relation[m] = r[1] \/ \E i \in Idx : indices'[m][i] = r[1]
      <3>1. r \in rows /\ r[1] # NoId /\ r[1] # indices[n][j]
        BY <2>0, <2>1, <2>2 DEF RowsOwned
      <3>2. PICK m \in Name : relation[m] = r[1] \/ \E i \in Idx : indices[m][i] = r[1]
        BY <2>0, <3>1 DEF RowsOwned
      <3> QED
        BY <1>1, <3>1, <3>2
    <2>3. RowsOwned(relation, indices, rows)'
      BY <2>2 DEF RowsOwned
    <2>4. \A id : id # indices[n][j] => RowsIn(rows', id) = RowsIn(rows, id)
      BY <2>1, Zenon DEF RowsIn
    <2>5. ASSUME NEW m \in Name, NEW i \in Idx, indices'[m][i] # NoId
          PROVE  relation[m] # NoId /\ RowsIn(rows', indices'[m][i]) = RowsIn(rows', relation[m])
      <3>1. <<m, i>> # <<n, j>> /\ indices'[m][i] = indices[m][i]
        BY <1>1, <2>5, Zenon
      <3>2. relation[m] # NoId /\ RowsIn(rows, indices[m][i]) = RowsIn(rows, relation[m])
        BY <2>0, <2>5, <3>1, Zenon DEF IndexAgreesIn
      <3>3. indices[m][i] # indices[n][j] /\ relation[m] # indices[n][j]
        BY <2>0, <2>5, <3>1, <3>2 DEF UniqueIds
      <3> QED
        BY <2>4, <3>1, <3>2, <3>3, Zenon
    <2>6. IndexAgreesIn(relation, indices, rows)'
      BY <2>5 DEF IndexAgreesIn
    <2>7. (entry = indices)'
      BY <2>0, Zenon
    <2> QED
      BY <2>3, <2>6, <2>7, Zenon DEF Sound, Consistent
  <1> QED
    BY <1>2, <1>3, <1>4, Whole DEF Inv, CatalogTypeOK

\* What put and rm do to the rows of an id.
LEMMA StoreContents ==
  ASSUME NEW n \in Name, NEW k \in RowKey, NEW id
  PROVE  /\ put_row(n, k) => RowsIn(rows', id)
                          = IF id \in Stores(n) THEN RowsIn(rows, id) \cup {k}
                                                ELSE RowsIn(rows, id)
         /\ rm(n, k) => RowsIn(rows', id)
                         = IF id \in Stores(n) THEN RowsIn(rows, id) \ {k}
                                               ELSE RowsIn(rows, id)
  BY Zenon DEF put_row, rm, RowsIn

\* An id of the catalog is among the stores of n exactly if it is n's.
LEMMA StoresOf ==
  ASSUME Inv, IdsKept, NEW n \in Name, relation[n] # NoId, NEW m \in Name
  PROVE  /\ relation[m] # NoId => (relation[m] \in Stores(n) <=> m = n)
         /\ \A i \in Idx : indices[m][i] # NoId => (indices[m][i] \in Stores(n) <=> m = n)
  BY Parts DEF Apart, UniqueIds, Stores, NoId

\* put and rm write a relation and its indices alike.
LEMMA PutRmInv ==
  ASSUME Inv, NEW n \in Name, NEW k \in RowKey, put_row(n, k) \/ rm(n, k)
  PROVE  Inv'
  <1> USE Parts DEF NoId
  <1>1. /\ UNCHANGED <<relation, indices, entry, last, relation_store_id, backup, restored, mishaps>>
        /\ relation[n] # NoId
    BY Zenon DEF put_row, rm
  <1>2. Stores(n) \subseteq Nat /\ NoId \notin Stores(n)
    BY <1>1 DEF Stores, Typed
  <1>3. rows' \subseteq rows \cup {<<id, k>> : id \in Stores(n)}
    BY Zenon DEF put_row, rm
  <1>4. Typed'
    <2>1. rows' \subseteq Nat \X RowKey
      BY <1>2, <1>3 DEF Typed
    <2> QED
      BY <1>1, <2>1 DEF Typed
  <1>5. IdsKept' => Apart'
    BY <1>1 DEF IdsKept, Apart
  <1>6. ASSUME mishaps' = {} PROVE Sound'
    <2>0. /\ RowsOwned(relation, indices, rows) /\ IndexAgreesIn(relation, indices, rows) /\ entry = indices
          /\ IdsKept
      BY <1>1, <1>6 DEF Sound, Consistent
    <2>1. RowsOwned(relation, indices, rows')
      <3> SUFFICES ASSUME NEW r \in rows'
                   PROVE  r[1] # NoId /\ \E m \in Name : relation[m] = r[1] \/ \E i \in Idx : indices[m][i] = r[1]
        BY DEF RowsOwned
      <3>1. CASE r \in rows
        BY <2>0, <3>1, Zenon DEF RowsOwned
      <3>2. CASE r \notin rows
        <4>1. PICK id \in Stores(n) : r = <<id, k>>
          BY <1>3, <3>2
        <4> QED
          BY <1>2, <4>1, Zenon DEF Stores
      <3> QED
        BY <3>1, <3>2
    <2>2. ASSUME NEW m \in Name, NEW i \in Idx, indices[m][i] # NoId
          PROVE  relation[m] # NoId /\ RowsIn(rows', indices[m][i]) = RowsIn(rows', relation[m])
      <3>1. relation[m] # NoId /\ RowsIn(rows, indices[m][i]) = RowsIn(rows, relation[m])
        BY <2>0, <2>2 DEF IndexAgreesIn
      <3>2. relation[m] \in Stores(n) <=> indices[m][i] \in Stores(n)
        BY <1>1, <2>0, <2>2, <3>1, StoresOf
      <3> QED
        BY <3>1, <3>2, StoreContents, Zenon
    <2>3. IndexAgreesIn(relation, indices, rows')
      BY <2>2, Zenon DEF IndexAgreesIn
    <2> QED
      BY <1>1, <2>0, <2>1, <2>3, Zenon DEF Sound, Consistent
  <1> QED
    BY <1>1, <1>4, <1>5, <1>6, Whole DEF Inv, CatalogTypeOK

\* backup_db copies the database.
LEMMA BackupInv ==
  ASSUME Inv, backup_db
  PROVE  Inv'
  BY DEF Inv, CatalogTypeOK, backup_db, IdsKept

\* new_db: an empty database, beside the backup that there is.
LEMMA NewDbInv ==
  ASSUME Inv, new_db
  PROVE  Inv'
  <1>1. /\ relation' = [n \in Name |-> 0] /\ indices' = [n \in Name |-> [i \in Idx |-> 0]]
        /\ entry' = indices' /\ rows' = {} /\ last' = 0 /\ relation_store_id' = 0
        /\ UNCHANGED <<backup, mishaps>> /\ restored' \in BOOLEAN
    BY Zenon DEF new_db, EmptyDb, NoIndices, NoId
  <1>2. Typed'
    BY <1>1 DEF Typed
  <1>3. Apart'
    BY <1>1 DEF Apart, UniqueIds, IdsGiven, NoId
  <1>4. Sound'
    BY <1>1 DEF Sound, Consistent, RowsOwned, IndexAgreesIn, NoId
  <1> QED
    BY <1>1, <1>2, <1>3, <1>4, Whole DEF Inv, CatalogTypeOK

\* restore_backup into a new database makes it the backup; otherwise it is a
\* mishap.
LEMMA RestoreInv ==
  ASSUME Inv, restore_backup
  PROVE  Inv'
  <1> USE DEF NoId
  <1>0. /\ mishaps \subseteq mishaps' /\ mishaps' \subseteq Mishap
        /\ IdsKept' => IdsKept /\ last = 0
        /\ mishaps' = {} => mishaps = {} /\ last = 0
    <2>1. "second_restore" \in Mishap /\ (last # 0) \in BOOLEAN /\ Note("second_restore", last # 0)
      BY DEF Mishap, restore_backup
    <2>2. "second_restore" # "indexed_rename"
      OBVIOUS
    <2> QED
      BY <2>1, <2>2, Noted, Zenon
  <1>1. /\ backup.relation \in [Name -> Nat] /\ backup.indices \in [Name -> [Idx -> Nat]]
        /\ backup.entry \in [Name -> [Idx -> Nat]] /\ backup.rows \subseteq Nat \X RowKey /\ backup.last \in Nat
    BY DEF Inv, CatalogTypeOK
  <1>2. Typed'
    BY <1>1, Parts DEF Typed, restore_backup, Over
  <1>3. ASSUME last = 0, IdsKept
        PROVE  /\ \A n \in Name : relation[n] = NoId /\ \A i \in Idx : indices[n][i] = NoId /\ entry[n][i] = NoId
    BY <1>3, Parts DEF Typed, Apart, IdsGiven
  <1>4. ASSUME last = 0, IdsKept
        PROVE  /\ relation' = backup.relation /\ entry' = backup.entry /\ last' = backup.last
               /\ \A n \in Name, i \in Idx : indices'[n][i] \in {backup.indices[n][i], NoId}
    <2>1. /\ relation' = [n \in Name |-> backup.relation[n]]
          /\ entry' = [n \in Name |-> [i \in Idx |-> backup.entry[n][i]]]
          /\ last' = backup.last
      BY <1>3, <1>4 DEF restore_backup, Over
    <2>2. \A n \in Name : indices'[n] = backup.indices[n] \/ indices'[n] = indices[n]
      BY Zenon DEF restore_backup
    <2>3. \A n \in Name, i \in Idx : indices[n][i] = NoId
      BY <1>3, <1>4
    <2>4. \A n \in Name, i \in Idx : indices'[n][i] = backup.indices[n][i] \/ indices'[n][i] = NoId
      BY <2>2, <2>3, Zenon
    <2> QED
      BY <1>1, <2>1, <2>4
  <1>5. ASSUME IdsKept' PROVE Apart'
    <2>0. /\ UniqueIds(backup.relation, backup.indices, backup.entry)
          /\ IdsGiven(backup.relation, backup.indices, backup.entry, backup.last)
      BY <1>0, <1>5, Zenon DEF Inv
    <2>1. /\ relation' = backup.relation /\ entry' = backup.entry /\ last' = backup.last
          /\ \A n \in Name, i \in Idx : indices'[n][i] \in {backup.indices[n][i], NoId}
      BY <1>0, <1>4, <1>5
    <2>2. UniqueIds(relation, indices, entry)'
      BY <2>0, <2>1 DEF UniqueIds
    <2>3. IdsGiven(relation, indices, entry, last)'
      BY <1>1, <2>0, <2>1 DEF IdsGiven
    <2> QED
      BY <2>2, <2>3 DEF Apart, restore_backup
  <1>6. ASSUME mishaps' = {} PROVE Sound'
    <2>0. /\ Consistent(backup.relation, backup.indices, backup.entry, backup.rows)
          /\ RowsOwned(relation, indices, rows) /\ last = 0 /\ IdsKept
      BY <1>0, <1>6, Parts, Zenon DEF Inv, Sound, Consistent
    <2>1. relation' = backup.relation /\ entry' = backup.entry
      BY <1>4, <2>0
    <2>2. indices' = backup.indices
      <3>1. \A n \in Name : indices'[n] = backup.indices[n]
        <4> SUFFICES ASSUME NEW n \in Name, backup.relation[n] = NoId
                     PROVE  indices[n] = backup.indices[n]
          BY Zenon DEF restore_backup
        <4>1. \A i \in Idx : backup.indices[n][i] = NoId
          BY <2>0, Zenon DEF Consistent, IndexAgreesIn
        <4> QED
          BY <1>1, <1>3, <2>0, <4>1, Parts DEF Typed
      <3> QED
        BY <1>1, <3>1, Zenon DEF restore_backup
    <2>3. rows = {}
      <3>1. ASSUME NEW r \in rows
            PROVE  FALSE
        BY <1>3, <2>0, Zenon DEF RowsOwned
      <3> QED
        BY <3>1
    <2>4. rows' = backup.rows
      BY <2>3 DEF restore_backup
    <2> QED
      BY <2>0, <2>1, <2>2, <2>4, Zenon DEF Sound
  <1> QED
    BY <1>0, <1>2, <1>5, <1>6, Whole DEF restore_backup

\* For all sequences of catalog operations, restarts, backups and restores:
\* until a relation is created with a counter that a restore left behind, or a
\* backup is restored over data, relations and indices never share an id; until
\* a relation with indices is renamed as well, every row has an owner, an index
\* has the rows of its relation, and all this is so in the backup too.
THEOREM CatalogConsistent == CatalogSpec => []Inv
  <1>1. ASSUME Inv, [CatalogNext]_catalogVars
        PROVE  Inv'
    <2>1. CASE UNCHANGED catalogVars
      BY <1>1, <2>1 DEF catalogVars, Inv, CatalogTypeOK, IdsKept
    <2>2. CASE abort_create \/ initialize \/ backup_db \/ new_db \/ restore_backup
      BY <1>1, <2>2, CounterInv, BackupInv, NewDbInv, RestoreInv
    <2>3. CASE \E n \in Name : create_relation(n) \/ replace(n) \/ destroy_relation(n)
      BY <1>1, <2>3, CreateInv, ReplaceInv, DestroyInv
    <2>4. CASE \E n, m \in Name : rename_relation(n, m)
      BY <1>1, <2>4, RenameInv
    <2>5. CASE \E n \in Name, i \in Idx : create_index(n, i) \/ remove_index(n, i)
      BY <1>1, <2>5, CreateIndexInv, RemoveIndexInv
    <2>6. CASE \E n \in Name, k \in RowKey : put_row(n, k) \/ rm(n, k)
      BY <1>1, <2>6, PutRmInv, Zenon
    <2> QED
      BY <1>1, <2>1, <2>2, <2>3, <2>4, <2>5, <2>6, Zenon DEF CatalogNext
  <1> QED
    BY <1>1, InitInv, PTL DEF CatalogSpec

\* The contents of m can only change in a step that works on m itself.
OnlyOf(n) ==
    \A m \in Name :
       m # n /\ relation[m] # NoId /\ relation'[m] = relation[m]
         => RowsIn(rows', relation[m]) = RowsIn(rows, relation[m])

\* Each step that keeps ids apart changes the rows of one relation at most.
LEMMA OneChanged ==
  ASSUME Inv, Inv', CatalogNext, IdsKept'
  PROVE  (\E n \in Name : OnlyOf(n)) \/ (\A n \in Name : OnlyOf(n))
         \/ \A m \in Name : relation'[m] = relation[m] => relation[m] = NoId
  <1> USE Parts DEF NoId
  <1>1. CASE abort_create \/ initialize \/ backup_db
    BY <1>1, Zenon DEF abort_create, initialize, backup_db, OnlyOf
  <1>2. CASE new_db
    BY <1>2, Zenon DEF new_db, EmptyDb
  <1>3. CASE restore_backup
    <2>1. "second_restore" \in Mishap /\ (last # 0) \in BOOLEAN /\ Note("second_restore", last # 0)
          /\ "second_restore" # "indexed_rename"
      BY <1>3 DEF Mishap, restore_backup
    <2>2. IdsKept /\ last = 0
      BY <2>1, Noted, Zenon
    <2>3. \A m \in Name : relation[m] = NoId
      BY <2>2 DEF Apart, IdsGiven, Typed
    <2> QED
      BY <2>3, Zenon
  <1>4. ASSUME NEW n \in Name, create_relation(n) \/ replace(n) \/ destroy_relation(n)
        PROVE  OnlyOf(n)
    <2>0. CASE create_relation(n)
      BY <2>0, Zenon DEF create_relation, OnlyOf
    <2>1. CASE replace(n)
      <3>1. Apart
        BY <2>1, Fresh DEF replace
      <3>2. \A m \in Name : m # n /\ relation[m] # NoId => relation[m] # relation[n]
        BY <2>1, <3>1, Zenon DEF Apart, UniqueIds
      <3> QED
        BY <2>1, <3>2, Zenon DEF replace, Without, RowsIn, OnlyOf
    <2>2. CASE destroy_relation(n)
      <3>1. Apart
        BY <2>2 DEF destroy_relation, IdsKept
      <3>2. \A m \in Name : m # n /\ relation[m] # NoId => relation[m] # relation[n]
        BY <2>2, <3>1, Zenon DEF Apart, UniqueIds
      <3> QED
        BY <2>2, <3>2, Zenon DEF destroy_relation, Without, RowsIn, OnlyOf
    <2> QED
      BY <1>4, <2>0, <2>1, <2>2
  <1>5. ASSUME NEW n \in Name, NEW m \in Name, rename_relation(n, m)
        PROVE  OnlyOf(n)
    BY <1>5 DEF rename_relation, OnlyOf
  <1>6. ASSUME NEW n \in Name, NEW i \in Idx, create_index(n, i)
        PROVE  OnlyOf(n)
    <2>1. \A m \in Name : relation[m] < NewId
      BY <1>6, Fresh DEF create_index
    <2>2. \A m \in Name : relation[m] # NewId
      BY <2>1 DEF Typed, NewId
    <2> QED
      BY <1>6, <2>2 DEF create_index, RowsIn, OnlyOf
  <1>7. ASSUME NEW n \in Name, NEW i \in Idx, remove_index(n, i)
        PROVE  OnlyOf(n)
    <2>1. \A m \in Name : relation[m] # NoId => relation[m] # entry[n][i]
      BY <1>7 DEF Apart, UniqueIds, IdsKept, remove_index
    <2> QED
      BY <1>7, <2>1 DEF remove_index, Without, RowsIn, OnlyOf
  <1>8. ASSUME NEW n \in Name, NEW k \in RowKey, put_row(n, k) \/ rm(n, k)
        PROVE  OnlyOf(n)
    <2>1. relation[n] # NoId /\ IdsKept
      BY <1>8, Zenon DEF put_row, rm, IdsKept
    <2>2. \A m \in Name : m # n /\ relation[m] # NoId => relation[m] \notin Stores(n)
      BY <2>1, StoresOf
    <2> QED
      BY <1>8, <2>2, StoreContents, Zenon DEF OnlyOf
  <1> QED
    BY <1>1, <1>2, <1>3, <1>4, <1>5, <1>6, <1>7, <1>8, Zenon DEF CatalogNext

\* No operation changes the rows of two relations: what one relation holds is
\* not touched through another one, indexed relations that are renamed included,
\* until a restore without a restart or over data has made them share an id.
THEOREM RelationsApart == CatalogSpec => OthersKept
  <1> DEFINE Kept ==
        IdsKept' =>
          \A n, m \in Name :
            /\ relation[n] # NoId /\ relation'[n] = relation[n]
            /\ relation[m] # NoId /\ relation'[m] = relation[m]
            /\ RowsOf(relation[n])' # RowsOf(relation[n])
            /\ RowsOf(relation[m])' # RowsOf(relation[m])
            => n = m
  <1>1. Inv /\ Inv' /\ [CatalogNext]_catalogVars => [Kept]_catalogVars
    <2> SUFFICES ASSUME Inv, Inv', CatalogNext, IdsKept', NEW n \in Name, NEW m \in Name, n # m,
                        relation[n] # NoId, relation'[n] = relation[n],
                        relation[m] # NoId, relation'[m] = relation[m],
                        RowsIn(rows', relation'[n]) # RowsIn(rows, relation[n]),
                        RowsIn(rows', relation'[m]) # RowsIn(rows, relation[m])
                 PROVE  FALSE
      BY Zenon DEF RowsOf
    <2>1. CASE \E p \in Name : OnlyOf(p)
      BY <2>1 DEF OnlyOf
    <2> QED
      BY <2>1, OneChanged, Zenon
  <1> QED
    BY <1>1, CatalogConsistent, PTL DEF CatalogSpec, OthersKept
=============================================================================
