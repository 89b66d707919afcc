------------------------------- MODULE DbLocks -------------------------------
(***************************************************************************)
(* Scripts running at the same time on one stored relation: which locks of *)
(* retia-core/src/runtime/db.rs and imperative.rs they take, in which      *)
(* order, and what becomes of an index that is created or dropped while    *)
(* rows are put and removed.                                               *)
(*                                                                         *)
(* A script of a session is a sequence of steps (Steps).  "rel_read" and   *)
(* "rel_write" take the lock of the relation (obtain_relation_locks),      *)
(* "begin" starts the write transaction of the engine.  The engines mem    *)
(* and sqlite have one writer, and readers only while there is none        *)
(* (exclusive); the RocksDB engines let transactions overlap, read what    *)
(* is committed, and refuse to lock a key that another transaction holds   *)
(* or has changed since this one began.                                    *)
(***************************************************************************)
EXTENDS Naturals, Sequences, FiniteSets

CONSTANTS
    Sess,       \* sessions, each with one script and one row of its own
    LockCases,  \* records [exclusive, script]: see the variables
    Nothing     \* nobody; no index

VARIABLES
    exclusive, \* the engine has one writer at a time (mem, sqlite)
    script,    \* the script of each session
    pc,        \* [Sess -> the steps done]
    readers, writer,  \* the lock of the relation
    tx,        \* sessions with a transaction: "none" | "read" | "write"
    rows,      \* committed rows, named by the session they belong to
    index,     \* committed entries of the index that the handle names
    indexed,   \* the id of that index, or Nothing: the committed handle
    version,   \* times the handle was committed; the next id of an index
    began,     \* [Sess -> version when the transaction began]
    metaLock,  \* who locked the key of the handle
    loaded,    \* [Sess -> the id of the index in the handle that the script loaded]
    buf        \* [Sess -> the writes of the transaction]

lockVars == <<exclusive, script, pc, readers, writer, tx, rows, index, indexed, version, began,
              metaLock, loaded, buf>>

\* The writes of a transaction: none, those of the one statement of its script
\* (rows and, when the handle names an index, entries of it), or a whole index.
Entries(S) == IF indexed = Nothing THEN {} ELSE S
NoBuf == [put |-> {}, del |-> {}, iput |-> {}, idel |-> {}, ix |-> "same"]
PutBuf(s) == [put |-> {s}, del |-> {}, iput |-> Entries({s}), idel |-> {}, ix |-> "same"]
RmBuf(s) == [put |-> {}, del |-> {s}, iput |-> {}, idel |-> Entries({s}), ix |-> "same"]
CreateBuf == [put |-> {}, del |-> {}, iput |-> rows, idel |-> {}, ix |-> "created"]
DropBuf == [put |-> {}, del |-> {}, iput |-> {}, idel |-> {}, ix |-> "dropped"]

\* execute_single, execute_imperative, run_sys_op, run_multi_transaction, and
\* import_relations with a name that begins with a minus: the lock it takes is of
\* that name.  Other imports lock as "put" does.
Script == {"put", "rm", "imp_create", "create_index", "remove_index", "multi_put", "import_rm",
           "read"}
Steps(k) ==
    CASE k \in {"put", "rm"} -> <<"rel_read", "begin", k, "commit", "rel_release">>
      [] k = "imp_create" -> <<"rel_read", "begin", "build", "commit", "rel_release">>
      [] k = "create_index" -> <<"begin", "rel_write", "build", "rel_release", "commit">>
      [] k = "remove_index" -> <<"begin", "rel_read", "unbuild", "rel_release", "commit">>
      [] k = "multi_put" -> <<"begin", "put", "commit">>
      [] k = "import_rm" -> <<"begin", "rm", "commit">>
      [] k = "read" -> <<"begin_read", "commit">>

\* Every session has a script, and Nothing is no session and no id.
ASSUME LocksAssumption ==
    /\ Nothing \notin Sess \cup Nat
    /\ LockCases \subseteq [exclusive : BOOLEAN, script : [Sess -> Script]]

LocksInit ==
    /\ \E c \in LockCases : exclusive = c.exclusive /\ script = c.script
    /\ pc = [s \in Sess |-> 0]
    /\ readers = {}
    /\ writer = Nothing
    /\ tx = [s \in Sess |-> "none"]
    /\ rows = {s \in Sess : script[s] \in {"rm", "import_rm"}}
    /\ indexed \in {Nothing, 0}
    /\ index = IF indexed = Nothing THEN {} ELSE rows
    /\ version = 0
    /\ began = [s \in Sess |-> 0]
    /\ metaLock = Nothing
    /\ loaded = [s \in Sess |-> Nothing]
    /\ buf = [s \in Sess |-> NoBuf]

Finished(s) == pc[s] = Len(Steps(script[s]))
At(s, step) == ~Finished(s) /\ Steps(script[s])[pc[s] + 1] = step
Step(s) == pc' = [pc EXCEPT ![s] = @ + 1] /\ UNCHANGED <<exclusive, script>>

Db == <<rows, index, indexed, version>>
TxState == <<tx, began, metaLock, loaded, buf>>

rel_read(s) ==
    /\ At(s, "rel_read")
    /\ writer = Nothing
    /\ readers' = readers \cup {s}
    /\ Step(s)
    /\ UNCHANGED <<writer, Db, TxState>>

rel_write(s) ==
    /\ At(s, "rel_write")
    /\ writer = Nothing
    /\ readers = {}
    /\ writer' = s
    /\ Step(s)
    /\ UNCHANGED <<readers, Db, TxState>>

rel_release(s) ==
    /\ At(s, "rel_release")
    /\ readers' = readers \ {s}
    /\ writer' = IF writer = s THEN Nothing ELSE writer
    /\ Step(s)
    /\ UNCHANGED <<Db, TxState>>

Mode(s) == IF At(s, "begin") THEN "write" ELSE "read"

\* Mutant of begin: writers overlap on every engine.
begin_shared(s) ==
    /\ At(s, "begin") \/ At(s, "begin_read")
    /\ tx' = [tx EXCEPT ![s] = Mode(s)]
    /\ began' = [began EXCEPT ![s] = version]
    /\ Step(s)
    /\ UNCHANGED <<readers, writer, Db, metaLock, loaded, buf>>

\* transact_write, transact
begin(s) ==
    /\ At(s, "begin") \/ At(s, "begin_read")
    /\ exclusive =>
         \A t \in Sess : tx[t] = "write" \/ (tx[t] = "read" /\ Mode(s) = "write") => t = s
    /\ tx' = [tx EXCEPT ![s] = Mode(s)]
    /\ began' = [began EXCEPT ![s] = version]
    /\ Step(s)
    /\ UNCHANGED <<readers, writer, Db, metaLock, loaded, buf>>

\* put_into_relation of the session's row, with the handle as it is committed.
put(s) ==
    /\ At(s, "put")
    /\ loaded' = [loaded EXCEPT ![s] = indexed]
    /\ buf' = [buf EXCEPT ![s] = PutBuf(s)]
    /\ Step(s)
    /\ UNCHANGED <<readers, writer, Db, tx, began, metaLock>>

\* remove_from_relation
rm(s) ==
    /\ At(s, "rm")
    /\ loaded' = [loaded EXCEPT ![s] = indexed]
    /\ buf' = [buf EXCEPT ![s] = RmBuf(s)]
    /\ Step(s)
    /\ UNCHANGED <<readers, writer, Db, tx, began, metaLock>>

\* get_relation(name, true)
MayLock(s) == exclusive \/ (metaLock \in {Nothing, s} /\ version = began[s])

\* create_index: the scan of the rows and the new handle.
build(s) ==
    /\ At(s, "build")
    /\ MayLock(s)
    /\ indexed = Nothing
    /\ metaLock' = s
    /\ buf' = [buf EXCEPT ![s] = CreateBuf]
    /\ Step(s)
    /\ UNCHANGED <<readers, writer, Db, tx, began, loaded>>

\* remove_index, with the deletion of its entries.
unbuild(s) ==
    /\ At(s, "unbuild")
    /\ MayLock(s)
    /\ indexed # Nothing
    /\ metaLock' = s
    /\ buf' = [buf EXCEPT ![s] = DropBuf]
    /\ Step(s)
    /\ UNCHANGED <<readers, writer, Db, tx, began, loaded>>

\* An error: the lock on the handle refused, or the index exists or does not.
\* The transaction and the locks are dropped.
fail(s) ==
    /\ At(s, "build") \/ At(s, "unbuild")
    /\ ~MayLock(s) \/ (indexed # Nothing <=> At(s, "build"))
    /\ pc' = [pc EXCEPT ![s] = Len(Steps(script[s]))]
    /\ readers' = readers \ {s}
    /\ writer' = IF writer = s THEN Nothing ELSE writer
    /\ tx' = [tx EXCEPT ![s] = "none"]
    /\ buf' = [buf EXCEPT ![s] = NoBuf]
    /\ UNCHANGED <<exclusive, script, Db, began, metaLock, loaded>>

\* The entries go to the index of the loaded handle, which may be gone.
IndexAfter(s) ==
    CASE buf[s].ix = "created" -> buf[s].iput
      [] buf[s].ix = "dropped" -> {}
      [] buf[s].ix = "same" ->
           IF loaded[s] = indexed THEN (index \ buf[s].idel) \cup buf[s].iput ELSE index

\* commit_tx and the drop of the transaction.
commit_tx(s) ==
    /\ At(s, "commit")
    /\ rows' = (rows \ buf[s].del) \cup buf[s].put
    /\ index' = IndexAfter(s)
    /\ indexed' = CASE buf[s].ix = "created" -> version + 1
                    [] buf[s].ix = "dropped" -> Nothing
                    [] buf[s].ix = "same" -> indexed
    /\ version' = IF buf[s].ix = "same" THEN version ELSE version + 1
    /\ metaLock' = IF metaLock = s THEN Nothing ELSE metaLock
    /\ tx' = [tx EXCEPT ![s] = "none"]
    /\ buf' = [buf EXCEPT ![s] = NoBuf]
    /\ Step(s)
    /\ UNCHANGED <<readers, writer, began, loaded>>

Act(s) ==
    \/ rel_read(s) \/ rel_write(s) \/ rel_release(s) \/ begin(s)
    \/ put(s) \/ rm(s) \/ build(s) \/ unbuild(s) \/ fail(s) \/ commit_tx(s)

LocksNext == \E s \in Sess : Act(s)

\* A thread that can go on does, and a lock that stays free is taken.
LocksSpec == LocksInit /\ [][LocksNext]_lockVars /\ \A s \in Sess : WF_lockVars(Act(s))

-----------------------------------------------------------------------------
(* Properties                                                              *)

Quiet == \A s \in Sess : tx[s] = "none"

\* When no transaction is open, an index has an entry for every row and for no
\* other (the expectations of test_index, whatever ran at the same time).
IndexAgrees == Quiet /\ indexed # Nothing => index = rows

Buf == [put : SUBSET Sess, del : SUBSET Sess, iput : SUBSET Sess, idel : SUBSET Sess,
        ix : {"same", "created", "dropped"}]

LocksTypeOK ==
    /\ exclusive \in BOOLEAN
    /\ script \in [Sess -> Script]
    /\ pc \in [Sess -> Nat]
    /\ \A s \in Sess : pc[s] \in 0..Len(Steps(script[s]))
    /\ readers \subseteq Sess /\ writer \in Sess \cup {Nothing}
    /\ writer # Nothing => readers = {}
    /\ tx \in [Sess -> {"none", "read", "write"}]
    /\ rows \subseteq Sess /\ index \subseteq Sess
    /\ indexed \in Nat \cup {Nothing} /\ version \in Nat
    /\ loaded \in [Sess -> Nat \cup {Nothing}]
    /\ buf \in [Sess -> Buf]

\* A script that is over holds nothing: no lock, no transaction, no key.
Released ==
    \A s \in Sess : Finished(s) => s \notin readers /\ writer # s /\ tx[s] = "none"

\* The script of s has this step behind it.
Did(s, step) == \E i \in 1..pc[s] : Steps(script[s])[i] = step

InTx(s) == (Did(s, "begin") \/ Did(s, "begin_read")) /\ ~Did(s, "commit")
Wrote(s) == Did(s, "put") \/ Did(s, "rm") \/ Did(s, "build") \/ Did(s, "unbuild")

\* Each script holds what it took and has not given back.
HoldInv ==
    /\ readers = {s \in Sess : Did(s, "rel_read") /\ ~Did(s, "rel_release")}
    /\ \A s \in Sess : writer = s <=> Did(s, "rel_write") /\ ~Did(s, "rel_release")
    /\ \A s \in Sess :
         tx[s] = IF ~InTx(s) THEN "none" ELSE IF Did(s, "begin") THEN "write" ELSE "read"

\* With one writer at a time nobody changes what a writer has looked at, and the
\* index agrees with the rows whether or not a transaction is open.
WriteInv ==
    /\ \A s \in Sess : ~(InTx(s) /\ Wrote(s)) => buf[s] = NoBuf
    /\ exclusive =>
         /\ \A s, t \in Sess : tx[s] = "write" /\ tx[t] # "none" => s = t
         /\ indexed # Nothing => index = rows
         /\ \A s \in Sess : InTx(s) /\ Wrote(s) =>
               \/ buf[s] \in {PutBuf(s), RmBuf(s)} /\ loaded[s] = indexed
               \/ buf[s] = IF indexed = Nothing THEN CreateBuf ELSE DropBuf

\* The inductive invariant.
LocksIInv == LocksTypeOK /\ HoldInv /\ WriteInv

\* A script that is over holds no lock and no transaction (the guards of
\* execute_single, execute_imperative and run_sys_op, error paths included).
\* When no transaction is open, an index has an entry for every row and for no
\* other, with the engines that have one writer.
LocksSafe == LocksIInv /\ Released /\ (exclusive => IndexAgrees)
=============================================================================
