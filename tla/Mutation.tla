------------------------------ MODULE Mutation ------------------------------
(***************************************************************************)
(* The statements of a script that change one stored relation,             *)
(* retia-core/src/query/stored.rs (execute_relation and what it calls):    *)
(* rows, a plain index, a full-text index, put and rm triggers, and the    *)
(* changes collected for callbacks and for :returning.                     *)
(*                                                                         *)
(* A row is a key and a value; the text of a value is one token, so that a *)
(* posting of the full-text index is a key with a value, like an entry of  *)
(* the plain index.  The triggers copy the relation to another one, as     *)
(* test_trigger does: on put its _new rows are put, on rm its _old rows    *)
(* are removed.  The statements of a script share a transaction.           *)
(***************************************************************************)
EXTENDS Naturals, Sequences, SequencesExt

CONSTANTS
    Key, Val,   \* numbers: the rows of a query come in their order
    None,       \* no row
    Config,     \* records [index, fts, triggers, callback, level]
    Op,         \* the operations that statements may use
    MaxTuples,  \* bound: rows of a statement
    MaxStmts,   \* bound: statements of a script
    Ignore      \* {FALSE}, or BOOLEAN if statements may ignore errors

VARIABLES
    config,    \* what is attached to the relation
    before,    \* the rows when the transaction began
    rows,      \* [Key -> Val \cup {None}]
    idx, fts,  \* entries of the indices: <<key, value>>
    mirror,    \* the relation the triggers write
    collector, \* callback_collector: [op, new, old]
    stmt,      \* the statement that runs, or None
    count,     \* statements so far
    returned,  \* what :returning gave the last statement, or None
    status     \* "open" | "committed" | "aborted"

vars == <<config, before, rows, idx, fts, mirror, collector, stmt, count, returned, status>>

Data == <<rows, idx, fts>>
Empty == [k \in Key |-> None]
Level == [hidden |-> 0, read_only |-> 1, protected |-> 2, normal |-> 3]

IsPut(op) == op \in {"put", "insert", "update"}
IsRm(op) == op \in {"rm", "delete"}
IsCheck(op) == op \in {"ensure", "ensure_not"}

\* Tuples of a query in the order of its result: ascending, without repetition.
Less(s, t) == s[1] < t[1] \/ (s[1] = t[1] /\ s[2] < t[2])
Batches ==
    {b \in BoundedSeq(Key \X Val, MaxTuples) :
        \A i, j \in DOMAIN b : i < j => Less(b[i], b[j])}

\* The entries of an index of the rows r.
Entries(r, has) == IF has THEN {<<k, r[k]>> : k \in {j \in Key : r[j] # None}} ELSE {}

Init ==
    /\ config \in Config
    /\ before \in [Key -> Val \cup {None}]
    /\ rows = before
    /\ idx = Entries(before, config.index)
    /\ fts = Entries(before, config.fts)
    /\ mirror = IF config.triggers THEN before ELSE Empty
    /\ collector = <<>>
    /\ stmt = None
    /\ count = 0
    /\ returned = None
    /\ status = "open"

need_to_collect ==
    \/ stmt.returning
    \/ config.callback
    \/ config.triggers /\ ~IsCheck(stmt.op)

\* The statement fails: the script with it, unless it ignores the error, when
\* what the statement has written so far stays.
Fail ==
    /\ stmt' = None
    /\ IF stmt.ignore
         THEN /\ returned' = None
              /\ UNCHANGED <<config, before, Data, mirror, collector, count, status>>
         ELSE /\ status' = "aborted"
              /\ rows' = before
              /\ mirror' = IF config.triggers THEN before ELSE Empty
              /\ idx' = Entries(before, config.index)
              /\ fts' = Entries(before, config.fts)
              /\ collector' = <<>>
              /\ UNCHANGED <<config, before, count, returned>>

execute_relation(op, batch, returning, ignore) ==
    /\ status = "open"
    /\ stmt = None
    /\ count < MaxStmts
    /\ stmt' = [op |-> op, todo |-> batch, returning |-> returning, ignore |-> ignore,
                new |-> <<>>, old |-> <<>>, first |-> Len(collector) + 1]
    /\ count' = count + 1
    /\ returned' = None
    /\ UNCHANGED <<config, before, Data, mirror, collector, status>>

Insufficient ==
    Level[config.level] < Level[IF IsCheck(stmt.op) THEN "read_only" ELSE "protected"]

\* The checks of a tuple that make the statement fail.
AssertionFails(k, v) ==
    CASE stmt.op \in {"insert", "ensure_not"} -> rows[k] # None
      [] stmt.op \in {"update", "delete"} -> rows[k] = None
      [] stmt.op = "ensure" -> rows[k] # v
      [] stmt.op \in {"put", "rm"} -> FALSE

refuse ==
    /\ status = "open"
    /\ stmt # None
    /\ \/ Insufficient
       \/ stmt.todo # <<>> /\ AssertionFails(Head(stmt.todo)[1], Head(stmt.todo)[2])
    /\ Fail

Entry(k) == IF rows[k] = None THEN {} ELSE {<<k, rows[k]>>}
Collected(k, v) ==
    [stmt EXCEPT !.todo = Tail(@),
                 !.new = IF need_to_collect THEN Append(@, <<k, v>>) ELSE @,
                 !.old = IF need_to_collect /\ rows[k] # None
                           THEN Append(@, <<k, rows[k]>>) ELSE @]

Ready ==
    /\ status = "open"
    /\ stmt # None
    /\ ~Insufficient
    /\ stmt.todo # <<>>
    /\ ~AssertionFails(Head(stmt.todo)[1], Head(stmt.todo)[2])

\* Mutant of put_tuple: the index keeps the old entry.
put_tuple_keeps_entry ==
    /\ Ready
    /\ stmt.op \in {"put", "insert"}
    /\ LET k == Head(stmt.todo)[1]
           v == Head(stmt.todo)[2]
       IN  /\ rows' = [rows EXCEPT ![k] = v]
           /\ idx' = IF config.index THEN idx \cup {<<k, v>>} ELSE idx
           /\ fts' = IF config.fts THEN fts \cup {<<k, v>>} ELSE fts
           /\ stmt' = Collected(k, v)
    /\ UNCHANGED <<config, before, mirror, collector, count, returned, status>>

\* put_into_relation: the old postings are removed only if there is a plain index.
put_tuple ==
    /\ Ready
    /\ stmt.op \in {"put", "insert"}
    /\ LET k == Head(stmt.todo)[1]
           v == Head(stmt.todo)[2]
           changes == config.index /\ rows[k] # v
       IN  /\ rows' = [rows EXCEPT ![k] = v]
           /\ idx' = IF changes THEN (idx \ Entry(k)) \cup {<<k, v>>} ELSE idx
           /\ fts' = IF config.fts
                       THEN (IF changes THEN fts \ Entry(k) ELSE fts) \cup {<<k, v>>}
                       ELSE fts
           /\ stmt' = Collected(k, v)
    /\ UNCHANGED <<config, before, mirror, collector, count, returned, status>>

update_tuple ==
    /\ Ready
    /\ stmt.op = "update"
    /\ LET k == Head(stmt.todo)[1]
           v == Head(stmt.todo)[2]
       IN  /\ rows' = [rows EXCEPT ![k] = v]
           /\ idx' = IF config.index THEN (idx \ Entry(k)) \cup {<<k, v>>} ELSE idx
           /\ fts' = IF config.fts THEN (fts \ Entry(k)) \cup {<<k, v>>} ELSE fts
           /\ stmt' = Collected(k, v)
    /\ UNCHANGED <<config, before, mirror, collector, count, returned, status>>

\* remove_from_relation; the collected new rows are the keys that were asked for.
rm_tuple ==
    /\ Ready
    /\ IsRm(stmt.op)
    /\ LET k == Head(stmt.todo)[1]
       IN  /\ rows' = [rows EXCEPT ![k] = None]
           /\ idx' = IF config.index THEN idx \ Entry(k) ELSE idx
           /\ fts' = IF config.fts THEN fts \ Entry(k) ELSE fts
           /\ stmt' = Collected(k, None)
    /\ UNCHANGED <<config, before, mirror, collector, count, returned, status>>

\* ensure_in_relation, ensure_not_in_relation
check_tuple ==
    /\ Ready
    /\ IsCheck(stmt.op)
    /\ stmt' = [stmt EXCEPT !.todo = Tail(@)]
    /\ UNCHANGED <<config, before, Data, mirror, collector, count, returned, status>>

\* The trigger's query yields each row once, in order: the last value of a key wins.
LastOf(k, s) == s[CHOOSE i \in DOMAIN s : s[i][1] = k /\ \A j \in DOMAIN s : s[j][1] = k => s[j][2] <= s[i][2]][2]
KeysOf(s) == {s[i][1] : i \in DOMAIN s}

Mirrored ==
    IF ~config.triggers THEN mirror
    ELSE IF IsRm(stmt.op)
      THEN [k \in Key |-> IF k \in KeysOf(stmt.old) THEN None ELSE mirror[k]]
      ELSE [k \in Key |-> IF k \in KeysOf(stmt.new) THEN LastOf(k, stmt.new) ELSE mirror[k]]

Event == [op |-> IF IsRm(stmt.op) THEN "Rm" ELSE "Put", new |-> stmt.new, old |-> stmt.old]

\* Mutant of Gathered: :returning alone makes the change an event, callbacks do not.
Gathered_returning_only ==
    IF stmt.new # <<>> /\ stmt.returning THEN Append(collector, Event) ELSE collector

\* is_callback_target
Gathered ==
    IF stmt.new # <<>> /\ (config.callback \/ stmt.returning)
      THEN Append(collector, Event) ELSE collector

\* What :returning answers with.
get_returning_rows ==
    IF stmt.returning THEN [events |-> Gathered, first |-> stmt.first] ELSE None

\* collect_mutations (or the end of remove_from_relation).
collect_mutations ==
    /\ status = "open"
    /\ stmt # None
    /\ ~Insufficient
    /\ stmt.todo = <<>>
    /\ mirror' = Mirrored
    /\ collector' = Gathered
    /\ returned' = get_returning_rows
    /\ stmt' = None
    /\ UNCHANGED <<config, before, Data, count, status>>

commit ==
    /\ status = "open"
    /\ stmt = None
    /\ count > 0
    /\ status' = "committed"
    /\ UNCHANGED <<config, before, Data, mirror, collector, stmt, count, returned>>

Over == status # "open" /\ UNCHANGED vars

Next ==
    \/ \E op \in Op, batch \in Batches, returning \in BOOLEAN, ignore \in Ignore :
          execute_relation(op, batch, returning, ignore)
    \/ refuse \/ put_tuple \/ update_tuple \/ rm_tuple \/ check_tuple
    \/ collect_mutations \/ commit \/ Over

Spec == Init /\ [][Next]_vars

-----------------------------------------------------------------------------
(* Properties                                                              *)

TypeOK ==
    /\ config \in Config
    /\ rows \in [Key -> Val \cup {None}]
    /\ mirror \in [Key -> Val \cup {None}]
    /\ idx \subseteq Key \X Val /\ fts \subseteq Key \X Val
    /\ count \in 0..MaxStmts
    /\ status \in {"open", "committed", "aborted"}

\* The plain index has an entry for every row and for no other, after every
\* tuple of every statement, errors included.
IndexAgrees == idx = Entries(rows, config.index)

\* The full-text index has the postings of every row and no others.
FtsAgrees == fts = Entries(rows, config.fts)

\* Between statements the relation the triggers write is a copy of this one.
MirrorAgrees == config.triggers /\ stmt = None => mirror = rows

\* The rows after an event, given the rows before it.
Apply(r, e) ==
    [k \in Key |->
       IF k \notin KeysOf(e.new) THEN r[k]
       ELSE IF e.op = "Rm" THEN None
       ELSE e.new[CHOOSE i \in DOMAIN e.new :
                    e.new[i][1] = k /\ \A j \in DOMAIN e.new : e.new[j][1] = k => j <= i][2]]

Replay(r) == FoldLeft(Apply, r, collector)

\* The events of a committed script are its changes: applied in order to the
\* rows before it they give the rows after it.
EventsReplay == status = "committed" /\ config.callback => Replay(before) = rows

\* Each event names exactly the rows it replaced or removed: those that were
\* there when the statement began, and for a key that the statement puts
\* twice its own first row.
OldRows(r, e) ==
    {<<k, r[k]>> : k \in {j \in KeysOf(e.new) : r[j] # None}}
    \cup IF e.op = "Rm" THEN {}
         ELSE {e.new[i] : i \in {j \in DOMAIN e.new :
                                   \E n \in DOMAIN e.new : n > j /\ e.new[n][1] = e.new[j][1]}}
OldExact ==
    status = "committed" /\ config.callback =>
      \A i \in DOMAIN collector :
         ToSet(collector[i].old)
           = OldRows(FoldLeft(Apply, before, SubSeq(collector, 1, i - 1)), collector[i])

\* :returning gives the changes of its own statement.
ReturningExact ==
    returned # None =>
       returned.events = SubSeq(returned.events, returned.first, Len(returned.events))

\* Types, the plain index, and what callbacks are told.
Inv == TypeOK /\ IndexAgrees /\ EventsReplay /\ OldExact
=============================================================================
