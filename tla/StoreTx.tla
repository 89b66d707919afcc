------------------------------- MODULE StoreTx -------------------------------
(***************************************************************************)
(* The contract of a storage engine, retia-core/src/storage/mod.rs: the    *)
(* traits Storage and StoreTx.  "A transaction needs to guarantee MVCC     *)
(* semantics for all operations": a transaction reads the database as it   *)
(* was when the transaction began, with its own writes on top; nothing of  *)
(* it is visible to others before commit(); commit() is atomic, and        *)
(* succeeds only if no key the transaction wrote or read `for_update` was  *)
(* modified outside of it meanwhile.                                       *)
(*                                                                         *)
(* The module is abstract: every engine module (MemStore, RocksStore,      *)
(* NewRocksStore) is compared with it through a refinement mapping.        *)
(***************************************************************************)
EXTENDS Naturals

CONSTANTS
    Tx,      \* transaction objects
    Key,     \* byte keys, ordered as numbers
    Val,     \* byte values
    NoVal,   \* the result of reading a key that is not there
    Refused, \* the error result of an operation the transaction cannot do
    SnapshotReads  \* TRUE: the contract as documented; FALSE: a weaker one, in
                   \* which plain reads may see what others have committed

VARIABLES
    db,       \* the committed database: [Key -> Val \cup {NoVal}]
    mode,     \* "idle" | "read" | "write" | "done" (committed, not yet dropped)
    view,     \* what each transaction sees
    written,  \* keys each transaction has written or deleted
    asked,    \* keys each transaction has read with for_update
    foreign,  \* keys others have committed since the transaction began
    ret       \* what the last read of each transaction returned

vars == <<db, mode, view, written, asked, foreign, ret>>

Slot == Val \cup {NoVal}
Map == [Key -> Slot]
Mode == {"idle", "read", "write", "done"}
Unset == [k \in Key |-> NoVal]
KeyRange == {<<lo, hi + 1>> : lo, hi \in Key}

\* The keys of the half-open byte range lower..upper.
InRange(r) == {k \in Key : r[1] <= k /\ k < r[2]}

\* The contents of the range as a scan returns it: the keys present and
\* their values (a scan is sorted by key, so the map determines it).
Contents(m, r) == {<<k, m[k]>> : k \in {j \in InRange(r) : m[j] # NoVal}}

Init ==
    /\ db \in Map
    /\ mode = [t \in Tx |-> "idle"]
    /\ view = [t \in Tx |-> Unset]
    /\ written = [t \in Tx |-> {}]
    /\ asked = [t \in Tx |-> {}]
    /\ foreign = [t \in Tx |-> {}]
    /\ ret = [t \in Tx |-> NoVal]

Begin(t, write) ==
    /\ mode[t] = "idle"
    /\ mode' = [mode EXCEPT ![t] = IF write THEN "write" ELSE "read"]
    /\ view' = [view EXCEPT ![t] = db]
    /\ UNCHANGED <<db, written, asked, foreign, ret>>

\* The committed database with the transaction's own writes on top.
Current(t) == [k \in Key |-> IF k \in written[t] THEN view[t][k] ELSE db[k]]

\* The states of the database a read of t may look at.
Sees(t, for_update) ==
    IF SnapshotReads \/ for_update THEN {view[t]} ELSE {view[t], Current(t)}

Get(t, k, for_update) ==
    /\ mode[t] \in {"read", "write"}
    /\ for_update => mode[t] = "write"
    /\ \E m \in Sees(t, for_update) : ret' = [ret EXCEPT ![t] = m[k]]
    /\ asked' = [asked EXCEPT ![t] = IF for_update THEN @ \cup {k} ELSE @]
    /\ UNCHANGED <<db, mode, view, written, foreign>>

RangeScan(t, r) ==
    /\ mode[t] \in {"read", "write"}
    /\ \E m \in Sees(t, FALSE) : ret' = [ret EXCEPT ![t] = Contents(m, r)]
    /\ UNCHANGED <<db, mode, view, written, asked, foreign>>

\* put() with a value, del() with NoVal.
Write(t, k, v) ==
    /\ mode[t] = "write"
    /\ view' = [view EXCEPT ![t][k] = v]
    /\ written' = [written EXCEPT ![t] = @ \cup {k}]
    /\ ret' = [ret EXCEPT ![t] = NoVal]
    /\ UNCHANGED <<db, mode, asked, foreign>>

\* An operation may fail without effect: a write in a read transaction ("Write
\* ops will only be called when `write == true`"), or a write conflict.
Refuse(t) ==
    /\ mode[t] \in {"read", "write"}
    /\ ret' = [ret EXCEPT ![t] = Refused]
    /\ UNCHANGED <<db, mode, view, written, asked, foreign>>

\* "Delete a range from persisted data only": every key of the range that is
\* there and this transaction has not written goes; engines differ on whether
\* its own writes go too.
DelRange(t, r) ==
    /\ mode[t] = "write"
    /\ \E gone \in SUBSET {k \in InRange(r) : view[t][k] # NoVal} :
          /\ {k \in InRange(r) : view[t][k] # NoVal} \ written[t] \subseteq gone
          /\ view' = [view EXCEPT ![t] =
                        [k \in Key |-> IF k \in gone THEN NoVal ELSE @[k]]]
          /\ written' = [written EXCEPT ![t] = @ \cup gone]
    /\ ret' = [ret EXCEPT ![t] = NoVal]
    /\ UNCHANGED <<db, mode, asked, foreign>>

Commit(t) ==
    /\ mode[t] \in {"read", "write"}
    /\ mode' = [mode EXCEPT ![t] = "done"]
    /\ IF mode[t] = "read"
         THEN UNCHANGED <<db, foreign>>
         ELSE /\ (written[t] \cup asked[t]) \cap foreign[t] = {}
              /\ db' = [k \in Key |-> IF k \in written[t] THEN view[t][k] ELSE db[k]]
              /\ foreign' = [u \in Tx |-> IF u = t \/ mode[u] = "idle"
                                            THEN foreign[u]
                                            ELSE foreign[u] \cup written[t]]
    /\ written' = [written EXCEPT ![t] = {}]
    /\ ret' = [ret EXCEPT ![t] = NoVal]
    /\ UNCHANGED <<view, asked>>

\* The transaction object is dropped: uncommitted changes are discarded.
Drop(t) ==
    /\ mode[t] # "idle"
    /\ mode' = [mode EXCEPT ![t] = "idle"]
    /\ view' = [view EXCEPT ![t] = Unset]
    /\ written' = [written EXCEPT ![t] = {}]
    /\ asked' = [asked EXCEPT ![t] = {}]
    /\ foreign' = [foreign EXCEPT ![t] = {}]
    /\ ret' = [ret EXCEPT ![t] = NoVal]
    /\ UNCHANGED db

Step(t) ==
    \/ \E write \in BOOLEAN : Begin(t, write)
    \/ \E k \in Key, for_update \in BOOLEAN : Get(t, k, for_update)
    \/ \E r \in KeyRange : RangeScan(t, r)
    \/ \E k \in Key, v \in Slot : Write(t, k, v)
    \/ \E r \in KeyRange : DelRange(t, r)
    \/ Refuse(t)
    \/ Commit(t)
    \/ Drop(t)

Next == \E t \in Tx : Step(t)

Spec == Init /\ [][Next]_vars
=============================================================================
