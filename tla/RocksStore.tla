----------------------------- MODULE RocksStore -----------------------------
(***************************************************************************)
(* The RocksDB engine, retia-core/src/storage/rocks.rs over the bridge in  *)
(* retia-rocks: a pessimistic TransactionDB, every transaction started     *)
(* with set_snapshot(true).                                                *)
(*                                                                         *)
(* RocksDB itself is external.  The engine uses it so:                     *)
(*  - put, del and get(for_update) lock the key and then validate that     *)
(*    nobody has committed it since the transaction's snapshot (`foreign`  *)
(*    is the set of keys for which that fails); a lock that stays taken    *)
(*    times out;                                                           *)
(*  - plain get and the iterators pass no snapshot in their ReadOptions:   *)
(*    they see what is committed when they run, and the own write batch;   *)
(*  - del_range_from_persisted is a loop of del over an iterator, in which *)
(*    other transactions run between two keys.                             *)
(***************************************************************************)
EXTENDS Naturals, FiniteSets

CONSTANTS Tx, Key, Val, NoVal, Refused,
    NoEntry,   \* no entry for the key in the write batch
    Nobody     \* the holder of a free lock

ASSUME KeyAssumption == Key \subseteq Nat
ASSUME NoValAssumption == NoVal \notin Val
ASSUME NoEntryAssumption == NoEntry \notin Val \cup {NoVal}
ASSUME NobodyAssumption == Nobody \notin Tx

VARIABLES
    db,       \* the committed data
    mode,     \* "idle" | "write" | "done" (committed, not yet dropped)
    batch,    \* the write batch of each transaction
    lock,     \* who holds the lock of each key
    foreign,  \* keys others have committed since the transaction's snapshot
    todo,     \* keys the del_range loop of a transaction has still to visit
    asked,    \* history: keys each transaction read with for_update
    base,     \* history: the data when each transaction began,
              \* after commit() with its writes
    ret       \* what the last operation of each transaction returned

vars == <<db, mode, batch, lock, foreign, todo, asked, base, ret>>

Slot == Val \cup {NoVal}
Map == [Key -> Slot]
KeyRange == {<<lo, hi + 1>> : lo, hi \in Key}
InRange(r) == {k \in Key : r[1] <= k /\ k < r[2]}
Contents(m, r) == {<<k, m[k]>> : k \in {j \in InRange(r) : m[j] # NoVal}}
Unset == [k \in Key |-> NoVal]
EmptyBatch == [k \in Key |-> NoEntry]

\* What a read without a snapshot sees: the batch over the committed data.
View(t) == [k \in Key |-> IF batch[t][k] = NoEntry THEN db[k] ELSE batch[t][k]]

Init ==
    /\ db \in Map
    /\ mode = [t \in Tx |-> "idle"]
    /\ batch = [t \in Tx |-> EmptyBatch]
    /\ lock = [k \in Key |-> Nobody]
    /\ foreign = [t \in Tx |-> {}]
    /\ todo = [t \in Tx |-> {}]
    /\ asked = [t \in Tx |-> {}]
    /\ base = [t \in Tx |-> Unset]
    /\ ret = [t \in Tx |-> NoVal]

\* Between two operations of the transaction (not inside a del_range loop).
Ready(t) == mode[t] = "write" /\ todo[t] = {}

\* The flag `_write` is ignored: every transaction can write.
transact(t) ==
    /\ mode[t] = "idle"
    /\ mode' = [mode EXCEPT ![t] = "write"]
    /\ base' = [base EXCEPT ![t] = db]
    /\ UNCHANGED <<db, batch, lock, foreign, todo, asked, ret>>

\* Mutant of Lockable: no validation against the snapshot.
Lockable_unvalidated(t, k) == lock[k] \in {t, Nobody}

\* Mutant of Lockable: no lock, only the validation.
Lockable_shared(t, k) == k \notin foreign[t]

\* TryLock: the key is free or ours, and unmodified since our snapshot.
Lockable(t, k) == lock[k] \in {t, Nobody} /\ k \notin foreign[t]

\* get() and exists() without for_update.
get(t, k) ==
    /\ Ready(t)
    /\ ret' = [ret EXCEPT ![t] = View(t)[k]]
    /\ UNCHANGED <<db, mode, batch, lock, foreign, todo, asked, base>>

\* Mutant of get_for_update: a plain Get, as in the optimistic engine.
get_for_update_plain(t, k) ==
    /\ Ready(t)
    /\ asked' = [asked EXCEPT ![t] = @ \cup {k}]
    /\ ret' = [ret EXCEPT ![t] = View(t)[k]]
    /\ UNCHANGED <<db, mode, batch, lock, foreign, todo, base>>

\* get() and exists() with for_update: GetForUpdate.
get_for_update(t, k) ==
    /\ Ready(t)
    /\ Lockable(t, k)
    /\ lock' = [lock EXCEPT ![k] = t]
    /\ asked' = [asked EXCEPT ![t] = @ \cup {k}]
    /\ ret' = [ret EXCEPT ![t] = View(t)[k]]
    /\ UNCHANGED <<db, mode, batch, foreign, todo, base>>

\* An iterator reads one state of the database, the one it was created in.
range_scan(t, r) ==
    /\ Ready(t)
    /\ ret' = [ret EXCEPT ![t] = Contents(View(t), r)]
    /\ UNCHANGED <<db, mode, batch, lock, foreign, todo, asked, base>>

\* put() with a value, del() with NoVal.
put(t, k, v) ==
    /\ Ready(t)
    /\ Lockable(t, k)
    /\ lock' = [lock EXCEPT ![k] = t]
    /\ batch' = [batch EXCEPT ![t][k] = v]
    /\ ret' = [ret EXCEPT ![t] = NoVal]
    /\ UNCHANGED <<db, mode, foreign, todo, asked, base>>

\* The iterator of the loop is fixed when the loop begins.
del_range_from_persisted(t, r) ==
    /\ Ready(t)
    /\ todo' = [todo EXCEPT ![t] = {k \in InRange(r) : View(t)[k] # NoVal}]
    /\ UNCHANGED <<db, mode, batch, lock, foreign, asked, base, ret>>

\* One round of the loop: the next key in order is deleted.
del_next(t) ==
    \E k \in todo[t] :
       /\ \A j \in todo[t] : k <= j
       /\ Lockable(t, k)
       /\ lock' = [lock EXCEPT ![k] = t]
       /\ batch' = [batch EXCEPT ![t][k] = NoVal]
       /\ todo' = [todo EXCEPT ![t] = @ \ {k}]
       /\ ret' = [ret EXCEPT ![t] = NoVal]
       /\ UNCHANGED <<db, mode, foreign, asked, base>>

\* A locking operation on a key that another transaction holds (after the
\* lock timeout) or has committed: the error goes to the caller, who may go on
\* with the same transaction.  A del_range loop stops where it is.
conflict(t) ==
    /\ mode[t] = "write"
    /\ \E k \in IF todo[t] = {} THEN Key ELSE {j \in todo[t] : \A i \in todo[t] : j <= i} :
          ~Lockable(t, k)
    /\ todo' = [todo EXCEPT ![t] = {}]
    /\ ret' = [ret EXCEPT ![t] = Refused]
    /\ UNCHANGED <<db, mode, batch, lock, foreign, asked, base>>

\* The data the transaction began with, its own writes on top (history).
BaseView(t) ==
    [k \in Key |-> IF batch[t][k] = NoEntry THEN base[t][k] ELSE batch[t][k]]

Written(t) == {k \in Key : batch[t][k] # NoEntry}

\* Mutant of commit: the locks go, the others' snapshots are not outdated.
commit_unseen(t) ==
    /\ Ready(t)
    /\ mode' = [mode EXCEPT ![t] = "done"]
    /\ db' = View(t)
    /\ batch' = [batch EXCEPT ![t] = EmptyBatch]
    /\ lock' = [k \in Key |-> IF lock[k] = t THEN Nobody ELSE lock[k]]
    /\ base' = [base EXCEPT ![t] = BaseView(t)]
    /\ ret' = [ret EXCEPT ![t] = NoVal]
    /\ UNCHANGED <<foreign, todo, asked>>

\* The batch is applied atomically, then the locks are released.
commit(t) ==
    /\ Ready(t)
    /\ mode' = [mode EXCEPT ![t] = "done"]
    /\ db' = View(t)
    /\ batch' = [batch EXCEPT ![t] = EmptyBatch]
    /\ lock' = [k \in Key |-> IF lock[k] = t THEN Nobody ELSE lock[k]]
    /\ foreign' = [u \in Tx |-> IF u = t \/ mode[u] = "idle" THEN foreign[u]
                                ELSE foreign[u] \cup Written(t)]
    /\ base' = [base EXCEPT ![t] = BaseView(t)]
    /\ ret' = [ret EXCEPT ![t] = NoVal]
    /\ UNCHANGED <<todo, asked>>

\* The transaction object is dropped: RocksDB rolls back and unlocks.
drop(t) ==
    /\ mode[t] # "idle"
    /\ todo[t] = {}
    /\ mode' = [mode EXCEPT ![t] = "idle"]
    /\ batch' = [batch EXCEPT ![t] = EmptyBatch]
    /\ lock' = [k \in Key |-> IF lock[k] = t THEN Nobody ELSE lock[k]]
    /\ foreign' = [foreign EXCEPT ![t] = {}]
    /\ asked' = [asked EXCEPT ![t] = {}]
    /\ base' = [base EXCEPT ![t] = Unset]
    /\ ret' = [ret EXCEPT ![t] = NoVal]
    /\ UNCHANGED <<db, todo>>

Step(t) ==
    \/ transact(t)
    \/ \E k \in Key : get(t, k) \/ get_for_update(t, k)
    \/ \E r \in KeyRange : range_scan(t, r) \/ del_range_from_persisted(t, r)
    \/ \E k \in Key, v \in Slot : put(t, k, v)
    \/ del_next(t)
    \/ conflict(t)
    \/ commit(t)
    \/ drop(t)

Next == \E t \in Tx : Step(t)

Spec == Init /\ [][Next]_vars

-----------------------------------------------------------------------------
(* Properties.                                                             *)

TypeOK ==
    /\ db \in Map
    /\ mode \in [Tx -> {"idle", "write", "done"}]
    /\ batch \in [Tx -> [Key -> Slot \cup {NoEntry}]]
    /\ lock \in [Key -> Tx \cup {Nobody}]
    /\ foreign \in [Tx -> SUBSET Key]
    /\ todo \in [Tx -> SUBSET Key]
    /\ asked \in [Tx -> SUBSET Key]
    /\ base \in [Tx -> Map]
    /\ ret \in [Tx -> Slot \cup {Refused} \cup SUBSET (Key \X Val)]

\* The contract of for_update: commit() succeeds only if no key that was read
\* with for_update has been modified outside of the transaction (GetForUpdate
\* locks the key and validates it against the snapshot).
ForUpdateHolds ==
    [][\A t \in Tx : mode[t] = "write" /\ mode'[t] = "done" =>
          \A k \in asked[t] : db[k] = base[t][k] /\ k \notin foreign[t]]_vars

\* A commit never overwrites what another transaction has committed since this
\* one began: there are no lost updates, also without for_update.
NoLostUpdate ==
    [][\A t \in Tx : mode[t] = "write" /\ mode'[t] = "done" =>
          \A k \in Key : db'[k] # db[k] => db[k] = base[t][k]]_vars

\* What a transaction has locked, nobody else commits.
LockInv ==
    \A t \in Tx, k \in Key :
       k \in asked[t] \/ batch[t][k] # NoEntry =>
          /\ mode[t] = "write" => lock[k] = t
          /\ mode[t] = "write" => k \notin foreign[t]

\* Data not committed by others since the transaction began is as it was then.
BaseInv ==
    \A t \in Tx : mode[t] = "write" =>
       \A k \in Key \ foreign[t] : db[k] = base[t][k]

\* Nothing is left of a transaction that has ended.
IdleInv ==
    \A t \in Tx :
       /\ mode[t] # "write" => batch[t] = EmptyBatch /\ todo[t] = {}
       /\ mode[t] # "write" => \A k \in Key : lock[k] # t
       /\ mode[t] = "idle" => asked[t] = {} /\ foreign[t] = {} /\ ret[t] = NoVal

\* The inductive invariant.
IInv == TypeOK /\ LockInv /\ BaseInv /\ IdleInv

-----------------------------------------------------------------------------
(* Comparison with the contract: a transaction's view there is the         *)
(* database it began with and its own writes.                              *)

viewBar == [t \in Tx |-> BaseView(t)]
writtenBar == [t \in Tx |-> Written(t)]

ReadCommitted == INSTANCE StoreTx WITH view <- viewBar, written <- writtenBar,
                                       SnapshotReads <- FALSE
Mvcc == INSTANCE StoreTx WITH view <- viewBar, written <- writtenBar,
                              SnapshotReads <- TRUE

\* The engine keeps the contract in everything but plain reads: atomic and
\* isolated writes, for_update, conflicts refused (the whole of rocks.rs).
ImplementsReadCommitted == ReadCommitted!Spec

\* "A transaction needs to guarantee MVCC semantics for all operations": a
\* plain read returns what the database held when the transaction began.
ImplementsStoreTx == Mvcc!Spec
=============================================================================
