------------------------------ MODULE Transfer ------------------------------
(***************************************************************************)
(* Moving whole relations: export_relations, import_relations and          *)
(* import_from_backup of retia-core/src/runtime/db.rs, behind the routes   *)
(* of retia-bin/src/server.rs and the string interface of                  *)
(* retia-core/src/lib.rs.                                                  *)
(*                                                                         *)
(* A stored relation is a function from keys to dependent values, with its *)
(* columns, its access level and its plain indices; an index is a relation *)
(* of its own, named relation:index, whose keys are the extracted columns. *)
(* Each operation is one transaction, dropped when an error leaves the     *)
(* function.  Triggers and callbacks are not run.                          *)
(***************************************************************************)
EXTENDS Naturals, Sequences, FiniteSets, SequencesExt, FiniteSetsExt, Functions, TLC

CONSTANTS
    Databases,  \* what the database may hold
    Backups,    \* what the file may hold
    Payloads,   \* what is imported: sequences of records
                \* [name, delete, colon, headers, rows], in the order of the map
    Lists,      \* the relations that are exported, or imported from the backup
    MaxOps,     \* bound: operations
    Refused,
    None

VARIABLES
    db,         \* [names -> [cols, nkeys, level, indices, rows]]
    backup,     \* the database in the file
    last,       \* the last operation: [op, arg, before, ok, out]
    ops,        \* number of operations
    reordered   \* relations that rows were imported into under reordered headers

vars == <<db, backup, last, ops, reordered>>

\* AccessLevel
Hidden == 0
ReadOnly == 1
Protected == 2
Normal == 3

\* 1 and 2 stand for integers, 11 for the float 1.0, 0 for a string; columns
\* are of integers (NullableColType::coerce).
coerce(v) == CASE v = 11 -> 1 [] v = 0 -> Refused [] OTHER -> v

Init ==
    /\ db \in Databases
    /\ backup \in Backups
    /\ last = None
    /\ ops = 0
    /\ reordered = {}

-----------------------------------------------------------------------------
(* Export                                                                  *)

\* export_relations: names of relations and of indices, all or none.
Dump(rel) == [headers |-> rel.cols, rows |-> {k \o rel.rows[k] : k \in DOMAIN rel.rows}]
Export(store, names) ==
    IF \E n \in Range(names) : n \notin DOMAIN store \/ store[n].level < ReadOnly
      THEN Refused
      ELSE [n \in Range(names) |-> Dump(store[n])]

-----------------------------------------------------------------------------
(* Import of rows                                                          *)

\* header2idx: where a column is found, the last header of a name wins; 0 if
\* there is none.
Position(headers, col) ==
    LET at == {i \in DOMAIN headers : headers[i] = col}
    IN  IF at = {} THEN 0 ELSE Max(at)

\* The columns of a row, coerced; "row too short" and bad values are refused.
Picked(row, at) ==
    LET got == [i \in DOMAIN at |-> IF at[i] > Len(row) THEN Refused ELSE coerce(row[at[i]])]
    IN  IF Refused \in Range(got) THEN Refused ELSE got

Extract(ix, row) == [i \in DOMAIN ix.extractor |-> row[ix.extractor[i]]]

\* The store with an entry of an index put or deleted.
Put(store, name, key, vals) == [store EXCEPT ![name].rows = (key :> vals) @@ @]
Del(store, name, key) == [store EXCEPT ![name].rows = Restrict(@, DOMAIN @ \ {key})]

DelEntries(store, name, row) ==
    FoldLeft(LAMBDA s, ix : Del(s, ix.name, Extract(ix, row)), store, store[name].indices)
PutEntries(store, name, row) ==
    FoldLeft(LAMBDA s, ix : Put(s, ix.name, Extract(ix, row), <<>>), store, store[name].indices)

\* Mutant of Unindexed: a deletion leaves the entries of the row.
Unindexed_kept(store, item, key, row) ==
    IF key \in DOMAIN store[item.name].rows
      THEN LET old == key \o store[item.name].rows[key]
           IN  IF ~item.delete /\ old # row THEN DelEntries(store, item.name, old) ELSE store
      ELSE store

\* The entries of the row that is replaced or deleted go, unless the row is given
\* as it is stored: the comparison is with the row as it came, neither reordered
\* nor coerced.
Unindexed(store, item, key, row) ==
    IF key \in DOMAIN store[item.name].rows
      THEN LET old == key \o store[item.name].rows[key]
           IN  IF item.delete \/ old # row THEN DelEntries(store, item.name, old) ELSE store
      ELSE store

ImportRow(store, item, keysAt, valsAt, row) ==
    LET key == Picked(row, keysAt)
        vals == Picked(row, valsAt)
    IN  CASE key = Refused -> Refused
          [] key # Refused /\ item.delete -> Del(Unindexed(store, item, key, row), item.name, key)
          [] key # Refused /\ ~item.delete /\ vals = Refused -> Refused
          [] OTHER -> PutEntries(Put(Unindexed(store, item, key, row), item.name, key, vals),
                                 item.name, key \o vals)

\* One relation of the data: the checks, where the columns are, and the rows.
ImportItem(store, item) ==
    IF item.colon \/ item.name \notin DOMAIN store THEN Refused
    ELSE
    LET rel == store[item.name]
        Need == [i \in DOMAIN rel.cols |-> Position(item.headers, rel.cols[i])]
        keysAt == SubSeq(Need, 1, rel.nkeys)
        valsAt == IF item.delete THEN <<>> ELSE SubSeq(Need, rel.nkeys + 1, Len(Need))
    IN  IF rel.level < Protected \/ 0 \in Range(keysAt \o valsAt) THEN Refused
        ELSE FoldLeft(LAMBDA s, row : IF s = Refused THEN s
                                      ELSE ImportRow(s, item, keysAt, valsAt, row),
                      store, item.rows)

\* import_relations: the relations in the order of the map.
Import(store, data) ==
    FoldLeft(LAMBDA s, item : IF s = Refused THEN s ELSE ImportItem(s, item), store, data)

-----------------------------------------------------------------------------
(* Import from a backup                                                    *)

\* The pairs of the source, with the id of the relation put in, as they are: the
\* columns of the two relations are not compared.
CopyRelation(store, name) ==
    IF \/ name \notin DOMAIN backup \/ name \notin DOMAIN store
       \/ \E n \in DOMAIN store : name \in {ix.name : ix \in Range(store[n].indices)}
      THEN Refused
      ELSE IF store[name].indices # <<>> \/ store[name].level < Protected THEN Refused
           ELSE [store EXCEPT ![name].rows = backup[name].rows @@ @]
Copy(store, names) ==
    FoldLeft(LAMBDA s, n : IF s = Refused THEN s ELSE CopyRelation(s, n), store, names)

-----------------------------------------------------------------------------

Report(op, arg, got) ==
    /\ ops < MaxOps
    /\ ops' = ops + 1
    /\ last' = [op |-> op, arg |-> arg, before |-> db, ok |-> got # Refused, out |-> got]
    /\ UNCHANGED backup

export_relations ==
    \E names \in Lists :
      /\ Report("export", names, Export(db, names))
      /\ UNCHANGED <<db, reordered>>

\* The columns that are used come in another order than the relation has them in.
Reordered(item) ==
    /\ item.name \in DOMAIN db
    /\ item.headers # db[item.name].cols

import_relations ==
    \E data \in Payloads :
      LET got == Import(db, data)
      IN  /\ Report("import", data, got)
          /\ db' = IF got = Refused THEN db ELSE got
          /\ reordered' = IF got = Refused THEN reordered
                          ELSE reordered \cup {item.name : item \in {i \in Range(data) : Reordered(i)}}

import_from_backup ==
    \E names \in Lists :
      LET got == Copy(db, names)
      IN  /\ Report("copy", names, got)
          /\ db' = IF got = Refused THEN db ELSE got
          /\ UNCHANGED reordered

Next == export_relations \/ import_relations \/ import_from_backup

Spec == Init /\ [][Next]_vars

-----------------------------------------------------------------------------
(* Properties                                                              *)

TypeOK ==
    /\ ops \in 0..MaxOps
    /\ \A n \in DOMAIN db :
         /\ \A k \in DOMAIN db[n].rows : Refused \notin Range(k \o db[n].rows[k])
         /\ \A ix \in Range(db[n].indices) : ix.name \in DOMAIN db

\* What a row says of a column, by its name.
Said(item, row, col) == coerce(row[Position(item.headers, col)])
KeyOf(item, row, rel) == [i \in 1..rel.nkeys |-> Said(item, row, rel.cols[i])]
ValsOf(item, row, rel) ==
    [i \in 1..(Len(rel.cols) - rel.nkeys) |-> Said(item, row, rel.cols[rel.nkeys + i])]

\* The rows of a relation that an import leaves: what is mentioned last is what
\* holds, the deletions come before the rows.
Mentions(data, n, del) == {item \in Range(data) : item.name = n /\ item.delete = del}
Left(data, n, rel) ==
    LET Keys(del) == UNION {{KeyOf(item, item.rows[i], rel) : i \in DOMAIN item.rows} :
                              item \in Mentions(data, n, del)}
        Final(k) == LET item == CHOOSE item \in Mentions(data, n, FALSE) : TRUE
                        i == Max({j \in DOMAIN item.rows : KeyOf(item, item.rows[j], rel) = k})
                    IN  ValsOf(item, item.rows[i], rel)
    IN  [k \in (DOMAIN rel.rows \ Keys(TRUE)) \cup Keys(FALSE) |->
           IF k \in Keys(FALSE) THEN Final(k) ELSE rel.rows[k]]

Plain(n) == \A m \in DOMAIN db : n \notin {ix.name : ix \in Range(db[m].indices)}

\* An operation that is refused changes nothing, however far it got; an import
\* leaves exactly the rows its data say, relation by relation; rows copied from
\* a backup are there and the others are kept.
RowsExact ==
    last # None =>
      /\ ~last.ok \/ last.op = "export" => db = last.before
      /\ last.ok /\ last.op = "import" =>
           \A n \in DOMAIN db : Plain(n) => db[n].rows = Left(last.arg, n, last.before[n])
      /\ last.ok /\ last.op = "copy" =>
           \A n \in DOMAIN db :
             db[n].rows = IF n \in Range(last.arg) THEN backup[n].rows @@ last.before[n].rows
                          ELSE last.before[n].rows

\* An index has the entry of every row, and other entries only where rows were
\* imported under reordered headers (db.rs:601).
IndicesExact ==
    \A n \in DOMAIN db : \A ix \in Range(db[n].indices) :
      LET due == {Extract(ix, k \o db[n].rows[k]) : k \in DOMAIN db[n].rows}
      IN  /\ due \subseteq DOMAIN db[ix.name].rows
          /\ n \in reordered \/ due = DOMAIN db[ix.name].rows

\* What is exported can be imported into relations with the same columns, and
\* makes them equal, unless rows of other columns were copied from a backup.
Shaped(rel) ==
    \A k \in DOMAIN rel.rows : Len(k) = rel.nkeys /\ Len(k \o rel.rows[k]) = Len(rel.cols)
Emptied(store) == [n \in DOMAIN store |-> [store[n] EXCEPT !.rows = <<>>, !.level = Normal]]
Loads(out) ==
    LET names == SetToSeq({n \in DOMAIN out : Plain(n)})
    IN  [i \in DOMAIN names |->
           [name |-> names[i], delete |-> FALSE, colon |-> FALSE, headers |-> out[names[i]].headers,
            rows |-> SetToSeq(out[names[i]].rows)]]
RoundTrips ==
    last # None /\ last.op = "export" /\ last.ok /\ (\A n \in DOMAIN db : Shaped(db[n])) =>
      LET loads == Loads(last.out)
          copy == Import(Emptied(db), loads)
      IN  /\ copy # Refused
          /\ \A i \in DOMAIN loads : copy[loads[i].name].rows = db[loads[i].name].rows

Exact == TypeOK /\ RowsExact /\ IndicesExact /\ RoundTrips
=============================================================================
