------------------------------- MODULE Catalog -------------------------------
(***************************************************************************)
(* The catalog of stored relations: retia-core/src/runtime/relation.rs     *)
(* (create, replace, remove, rename, indices), the counter of relation ids *)
(* that lives in memory (db.rs, transact.rs), and backup and restore.      *)
(*                                                                         *)
(* An operation is one transaction.  The rows of a relation are kept under *)
(* its id: a pair <<id, row>> is a row.  An index is a relation of its own *)
(* with a catalog entry <<name, index>>; the handle of the base relation   *)
(* holds a copy of the index's handle, here its id.  No entry: NoId.       *)
(*                                                                         *)
(* Three sequences of calls that the code accepts break the catalog.  They *)
(* are steps of the model like all others; `mishaps` records that one of   *)
(* them has happened, and the properties say what holds until then.        *)
(***************************************************************************)
EXTENDS Naturals, FiniteSets

CONSTANTS
    Name,          \* names of relations
    Idx,           \* names of indices
    RowKey,        \* rows
    MaxId          \* bound: ids given out

ASSUME CatalogAssumption == MaxId \in Nat

NoId == 0

VARIABLES
    relation,              \* [Name -> id]: the catalog entries of relations
    indices,           \* [Name -> [Idx -> id]]: the indices in their handles
    entry,             \* [Name -> [Idx -> id]]: the catalog entries of indices
    rows,              \* <<id, row>>
    last,              \* the last id, as persisted
    relation_store_id, \* the counter in memory
    backup,            \* a backup file, or the state of an empty database
    restored,          \* history: a restore since the process started
    mishaps            \* history: which of Mishap have happened

catalogVars == <<relation, indices, entry, rows, last, relation_store_id, backup, restored, mishaps>>

\* A relation or an index is created with a counter that a restore left behind;
\* a backup is restored over data; a relation with indices is renamed.
Mishap == {"stale_id", "second_restore", "indexed_rename"}

NoIndices == [i \in Idx |-> NoId]
EmptyDb ==
    [relation |-> [n \in Name |-> NoId], indices |-> [n \in Name |-> NoIndices],
     entry |-> [n \in Name |-> NoIndices], rows |-> {}, last |-> 0]

\* init_storage of a new database
CatalogInit ==
    /\ relation = EmptyDb.relation /\ indices = EmptyDb.indices /\ entry = EmptyDb.entry
    /\ rows = {} /\ last = 0
    /\ relation_store_id = 0
    /\ backup = EmptyDb
    /\ restored = FALSE /\ mishaps = {}

RowsIn(rw, id) == {k \in RowKey : <<id, k>> \in rw}
RowsOf(id) == RowsIn(rows, id)
Without(id) == {p \in rows : p[1] # id}
Indexed(n) == indices[n] # NoIndices

-----------------------------------------------------------------------------

\* Mutant of NewId: the counter is read and not advanced.
NewId_reads == relation_store_id + (IF relation_store_id = 0 THEN 1 ELSE 0)

\* relation_store_id.fetch_add
NewId == relation_store_id + 1

\* The history of a creation.
Note(event, happens) == mishaps' = IF happens THEN mishaps \cup {event} ELSE mishaps
Creating == Note("stale_id", restored /\ NewId <= last)

\* The id is used up even if the transaction is aborted.
abort_create ==
    /\ NewId <= MaxId
    /\ relation_store_id' = NewId
    /\ UNCHANGED <<relation, indices, entry, rows, last, backup, restored, mishaps>>

create_relation(n) ==
    /\ NewId <= MaxId
    /\ relation[n] = NoId
    /\ relation' = [relation EXCEPT ![n] = NewId]
    /\ indices' = [indices EXCEPT ![n] = NoIndices]
    /\ last' = NewId
    /\ relation_store_id' = NewId
    /\ Creating
    /\ UNCHANGED <<entry, rows, backup, restored>>

\* :replace
replace(n) ==
    /\ NewId <= MaxId
    /\ relation[n] # NoId
    /\ ~Indexed(n)
    /\ relation' = [relation EXCEPT ![n] = NewId]
    /\ rows' = Without(relation[n])
    /\ last' = NewId
    /\ relation_store_id' = NewId
    /\ Creating
    /\ UNCHANGED <<indices, entry, backup, restored>>

\* Mutant of destroy_relation: the rows stay.
destroy_relation_keeps(n) ==
    /\ relation[n] # NoId
    /\ ~Indexed(n)
    /\ relation' = [relation EXCEPT ![n] = NoId]
    /\ UNCHANGED <<indices, entry, rows, last, relation_store_id, backup, restored, mishaps>>

destroy_relation(n) ==
    /\ relation[n] # NoId
    /\ ~Indexed(n)
    /\ relation' = [relation EXCEPT ![n] = NoId]
    /\ rows' = Without(relation[n])
    /\ UNCHANGED <<indices, entry, last, relation_store_id, backup, restored, mishaps>>

\* The entries of the indices keep the old name.
rename_relation(old, new) ==
    /\ relation[old] # NoId
    /\ relation[new] = NoId
    /\ relation' = [relation EXCEPT ![old] = NoId, ![new] = relation[old]]
    /\ indices' = [indices EXCEPT ![old] = NoIndices, ![new] = indices[old]]
    /\ Note("indexed_rename", Indexed(old))
    /\ UNCHANGED <<entry, rows, last, relation_store_id, backup, restored>>

\* An entry of that name is overwritten.
create_index(n, i) ==
    /\ NewId <= MaxId
    /\ relation[n] # NoId
    /\ indices[n][i] = NoId
    /\ indices' = [indices EXCEPT ![n][i] = NewId]
    /\ entry' = [entry EXCEPT ![n][i] = NewId]
    /\ rows' = rows \cup {<<NewId, k>> : k \in RowsOf(relation[n])}
    /\ last' = NewId
    /\ relation_store_id' = NewId
    /\ Creating
    /\ UNCHANGED <<relation, backup, restored>>

\* destroy_relation of the entry, which must be there.
remove_index(n, i) ==
    /\ relation[n] # NoId
    /\ indices[n][i] # NoId
    /\ entry[n][i] # NoId
    /\ indices' = [indices EXCEPT ![n][i] = NoId]
    /\ entry' = [entry EXCEPT ![n][i] = NoId]
    /\ rows' = Without(entry[n][i])
    /\ UNCHANGED <<relation, last, relation_store_id, backup, restored, mishaps>>

\* The ids whose rows a change of n writes.
Stores(n) == {relation[n]} \cup ({indices[n][i] : i \in Idx} \ {NoId})

put_row(n, k) ==
    /\ relation[n] # NoId
    /\ rows' = rows \cup {<<id, k>> : id \in Stores(n)}
    /\ UNCHANGED <<relation, indices, entry, last, relation_store_id, backup, restored, mishaps>>

rm(n, k) ==
    /\ relation[n] # NoId
    /\ rows' = rows \ {<<id, k>> : id \in Stores(n)}
    /\ UNCHANGED <<relation, indices, entry, last, relation_store_id, backup, restored, mishaps>>

-----------------------------------------------------------------------------

\* load_last_ids, when the process starts.
initialize ==
    /\ relation_store_id' = last
    /\ restored' = FALSE
    /\ UNCHANGED <<relation, indices, entry, rows, last, backup, mishaps>>

backup_db ==
    /\ backup' = [relation |-> relation, indices |-> indices, entry |-> entry, rows |-> rows, last |-> last]
    /\ UNCHANGED <<relation, indices, entry, rows, last, relation_store_id, restored, mishaps>>

\* A new, empty database beside the backup file.
new_db ==
    /\ relation' = EmptyDb.relation /\ indices' = EmptyDb.indices /\ entry' = EmptyDb.entry
    /\ rows' = {} /\ last' = 0
    /\ relation_store_id' = 0
    /\ restored' = FALSE
    /\ UNCHANGED <<backup, mishaps>>

Over(new, old) == IF new # NoId THEN new ELSE old

\* batch_put of all pairs of the backup; the counter in memory is left alone.
restore_backup ==
    /\ relation_store_id = 0
    /\ relation' = [n \in Name |-> Over(backup.relation[n], relation[n])]
    /\ indices' = [n \in Name |-> IF backup.relation[n] # NoId THEN backup.indices[n] ELSE indices[n]]
    /\ entry' = [n \in Name |-> [i \in Idx |-> Over(backup.entry[n][i], entry[n][i])]]
    /\ rows' = rows \cup backup.rows
    /\ last' = backup.last
    /\ restored' = TRUE
    /\ Note("second_restore", last # 0)
    /\ UNCHANGED <<relation_store_id, backup>>

CatalogNext ==
    \/ abort_create \/ initialize \/ backup_db \/ new_db \/ restore_backup
    \/ \E n \in Name : create_relation(n) \/ replace(n) \/ destroy_relation(n)
    \/ \E n, m \in Name : rename_relation(n, m)
    \/ \E n \in Name, i \in Idx : create_index(n, i) \/ remove_index(n, i)
    \/ \E n \in Name, k \in RowKey : put_row(n, k) \/ rm(n, k)

CatalogSpec == CatalogInit /\ [][CatalogNext]_catalogVars

-----------------------------------------------------------------------------
(* Properties                                                              *)

CatalogTypeOK ==
    /\ relation \in [Name -> Nat]
    /\ indices \in [Name -> [Idx -> Nat]]
    /\ entry \in [Name -> [Idx -> Nat]]
    /\ rows \subseteq Nat \X RowKey
    /\ last \in Nat /\ relation_store_id \in Nat
    /\ restored \in BOOLEAN /\ mishaps \subseteq Mishap
    /\ backup \in [relation : [Name -> Nat], indices : [Name -> [Idx -> Nat]],
                   entry : [Name -> [Idx -> Nat]], rows : SUBSET (Nat \X RowKey), last : Nat]

\* No two relations or indices have the same id, which would make them share
\* their rows, nor is the entry of an index that of a relation.
UniqueIds(b, ix, en) ==
    /\ \A n, m \in Name : b[n] # NoId /\ b[n] = b[m] => n = m
    /\ \A n, m \in Name, i, j \in Idx :
          ix[n][i] # NoId /\ ix[n][i] = ix[m][j] => n = m /\ i = j
    /\ \A n, m \in Name, i \in Idx : b[n] # NoId => b[n] # ix[m][i] /\ b[n] # en[m][i]

\* No id in the catalog is beyond the persisted counter.
IdsGiven(b, ix, en, la) ==
    \A n \in Name : b[n] <= la /\ \A i \in Idx : ix[n][i] <= la /\ en[n][i] <= la

\* Every row belongs to a relation or an index of the catalog.
RowsOwned(b, ix, rw) ==
    \A r \in rw : /\ r[1] # NoId
                  /\ \E n \in Name : b[n] = r[1] \/ \E i \in Idx : ix[n][i] = r[1]

\* An index belongs to a relation, and has its rows.
IndexAgreesIn(b, ix, rw) ==
    \A n \in Name, i \in Idx :
       ix[n][i] # NoId => b[n] # NoId /\ RowsIn(rw, ix[n][i]) = RowsIn(rw, b[n])

\* An index in the handle of a relation has its catalog entry as well, so that
\* it can be dropped.
Consistent(b, ix, en, rw) == RowsOwned(b, ix, rw) /\ IndexAgreesIn(b, ix, rw) /\ en = ix

\* Renaming a relation with indices leaves the ids as they are.
IdsKept == mishaps \subseteq {"indexed_rename"}

\* Relations and indices do not share their ids, in the database and in its
\* backup, unless a relation is created after a restore without a restart, or a
\* backup is restored over data; the counter is ahead of the ids unless a restore
\* has just left it behind.  If no relation with indices is renamed either, no
\* row is left without an owner, every index has the rows of its relation, and
\* every index can be dropped.
Inv ==
    /\ CatalogTypeOK
    /\ IdsKept =>
          /\ UniqueIds(relation, indices, entry) /\ IdsGiven(relation, indices, entry, last)
          /\ UniqueIds(backup.relation, backup.indices, backup.entry)
          /\ IdsGiven(backup.relation, backup.indices, backup.entry, backup.last)
          /\ restored \/ last <= relation_store_id
    /\ mishaps = {} =>
          /\ Consistent(relation, indices, entry, rows)
          /\ Consistent(backup.relation, backup.indices, backup.entry, backup.rows)

\* An operation changes the rows of one relation at most, of those that keep
\* their place in the catalog, as long as ids are not shared (see Inv).
OthersKept ==
    [][IdsKept' =>
         \A n, m \in Name :
            /\ relation[n] # NoId /\ relation'[n] = relation[n]
            /\ relation[m] # NoId /\ relation'[m] = relation[m]
            /\ RowsOf(relation[n])' # RowsOf(relation[n])
            /\ RowsOf(relation[m])' # RowsOf(relation[m])
            => n = m]_catalogVars

\* "target database must be empty"
RestoreIntoEmpty == [][restore_backup => relation = EmptyDb.relation]_catalogVars
=============================================================================
