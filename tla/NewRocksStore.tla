---------------------------- MODULE NewRocksStore ----------------------------
(***************************************************************************)
(* The second RocksDB engine, retia-core/src/storage/newrocks.rs: an       *)
(* OptimisticTransactionDB without a snapshot.                             *)
(*                                                                         *)
(* RocksDB is external and used so: put and delete remember the key with   *)
(* the sequence number of the moment they run, commit validates that no    *)
(* remembered key has been committed by others since (`overtaken` is the   *)
(* set of keys for which that fails).  get and exists ignore for_update    *)
(* and remember nothing.                                                   *)
(***************************************************************************)
EXTENDS Naturals

CONSTANTS Tx, Key, Val, NoVal, NoEntry

VARIABLES
    db,         \* the committed data
    mode,       \* "idle" | "open" | "done" | "failed" (db_tx is None after both)
    batch,      \* the write batch of each transaction
    overtaken,  \* keys others committed after the transaction first wrote them
    asked,      \* history: keys each transaction read with for_update
    foreign,    \* history: keys others committed since the transaction began
    found       \* history: the committed value when the key was first written

vars == <<db, mode, batch, overtaken, asked, foreign, found>>

Slot == Val \cup {NoVal}
KeyRange == {<<lo, hi + 1>> : lo, hi \in Key}
EmptyBatch == [k \in Key |-> NoEntry]
Written(t) == {k \in Key : batch[t][k] # NoEntry}
View(t) == [k \in Key |-> IF batch[t][k] = NoEntry THEN db[k] ELSE batch[t][k]]

Init ==
    /\ db \in [Key -> Slot]
    /\ mode = [t \in Tx |-> "idle"]
    /\ batch = [t \in Tx |-> EmptyBatch]
    /\ overtaken = [t \in Tx |-> {}]
    /\ asked = [t \in Tx |-> {}]
    /\ foreign = [t \in Tx |-> {}]
    /\ found = [t \in Tx |-> EmptyBatch]

\* The write batch becomes b: keys that are new in it are tracked from now on.
Tracks(t, b) ==
    /\ batch' = [batch EXCEPT ![t] = b]
    /\ found' = [found EXCEPT ![t] =
                   [k \in Key |-> IF @[k] = NoEntry /\ b[k] # NoEntry THEN db[k] ELSE @[k]]]

transact(t) ==
    /\ mode[t] = "idle"
    /\ mode' = [mode EXCEPT ![t] = "open"]
    /\ UNCHANGED <<db, batch, overtaken, asked, foreign, found>>

\* get() and exists(): the argument is called _for_update.
get(t, k, for_update) ==
    /\ mode[t] = "open"
    /\ asked' = [asked EXCEPT ![t] = IF for_update THEN @ \cup {k} ELSE @]
    /\ UNCHANGED <<db, mode, batch, overtaken, foreign, found>>

\* Mutant of put: the key is tracked from the latest sequence number on again.
put_retracks(t, k, v) ==
    /\ mode[t] = "open"
    /\ Tracks(t, [batch[t] EXCEPT ![k] = v])
    /\ overtaken' = [overtaken EXCEPT ![t] = @ \ {k}]
    /\ UNCHANGED <<db, mode, asked, foreign>>

\* put() with a value, del() with NoVal.
put(t, k, v) ==
    /\ mode[t] = "open"
    /\ Tracks(t, [batch[t] EXCEPT ![k] = v])
    /\ UNCHANGED <<db, mode, overtaken, asked, foreign>>

\* Every key the transaction sees in the range is deleted.
del_range_from_persisted(t, r) ==
    /\ mode[t] = "open"
    /\ Tracks(t, [k \in Key |-> IF r[1] <= k /\ k < r[2] /\ View(t)[k] # NoVal
                                   THEN NoVal ELSE batch[t][k]])
    /\ UNCHANGED <<db, mode, overtaken, asked, foreign>>

commit(t) ==
    /\ mode[t] = "open"
    /\ batch' = [batch EXCEPT ![t] = EmptyBatch]
    /\ overtaken' = [u \in Tx |->
          IF u = t THEN {}
          ELSE overtaken[u] \cup
                  (IF overtaken[t] = {} THEN Written(t) \cap Written(u) ELSE {})]
    /\ IF overtaken[t] = {}
         THEN /\ db' = View(t)
              /\ mode' = [mode EXCEPT ![t] = "done"]
              /\ foreign' = [u \in Tx |-> IF u = t \/ mode[u] = "idle" THEN foreign[u]
                                          ELSE foreign[u] \cup Written(t)]
         ELSE /\ mode' = [mode EXCEPT ![t] = "failed"]
              /\ UNCHANGED <<db, foreign>>
    /\ found' = [found EXCEPT ![t] = EmptyBatch]
    /\ UNCHANGED asked

drop(t) ==
    /\ mode[t] # "idle"
    /\ mode' = [mode EXCEPT ![t] = "idle"]
    /\ batch' = [batch EXCEPT ![t] = EmptyBatch]
    /\ overtaken' = [overtaken EXCEPT ![t] = {}]
    /\ asked' = [asked EXCEPT ![t] = {}]
    /\ foreign' = [foreign EXCEPT ![t] = {}]
    /\ found' = [found EXCEPT ![t] = EmptyBatch]
    /\ UNCHANGED db

Step(t) ==
    \/ transact(t)
    \/ \E k \in Key, for_update \in BOOLEAN : get(t, k, for_update)
    \/ \E k \in Key, v \in Slot : put(t, k, v)
    \/ \E r \in KeyRange : del_range_from_persisted(t, r)
    \/ commit(t)
    \/ drop(t)

Next == \E t \in Tx : Step(t)

Spec == Init /\ [][Next]_vars

-----------------------------------------------------------------------------
(* Properties.                                                             *)

TypeOK ==
    /\ db \in [Key -> Slot]
    /\ mode \in [Tx -> {"idle", "open", "done", "failed"}]
    /\ batch \in [Tx -> [Key -> Slot \cup {NoEntry}]]
    /\ overtaken \in [Tx -> SUBSET Key]
    /\ asked \in [Tx -> SUBSET Key]
    /\ foreign \in [Tx -> SUBSET Key]
    /\ found \in [Tx -> [Key -> Slot \cup {NoEntry}]]

\* A key is tracked from its first write on, and as long as nobody overtakes the
\* transaction it has the value it had then.
TrackInv ==
    \A t \in Tx :
      /\ \A k \in Key : batch[t][k] = NoEntry <=> found[t][k] = NoEntry
      /\ \A k \in Written(t) \ overtaken[t] : db[k] = found[t][k]

\* The inductive invariant.
IInv == TypeOK /\ TrackInv

\* Transaction t commits in this step.
Commits(t) == mode[t] = "open" /\ mode'[t] = "done"

\* First committer wins: a commit never overwrites a value that another
\* transaction committed after this one first wrote the key, however often it
\* wrote it (RocksDB validates the earliest sequence number of each key).
FirstCommitterWins ==
    \A t \in Tx : Commits(t) => \A k \in Written(t) : db[k] = found[t][k]

\* "commit() can only succeed if the key has not been modified outside the
\* transaction", for every key read with for_update.
ForUpdateHolds == \A t \in Tx : Commits(t) => asked[t] \cap foreign[t] = {}
=============================================================================
