----------------------------- MODULE Imperative -----------------------------
(***************************************************************************)
(* Imperative scripts, retia-core/src/runtime/imperative.rs and            *)
(* parse/mod.rs (needs_write_locks), and the registry of running queries   *)
(* with ::kill and :timeout, runtime/db.rs (run_query, Poison).            *)
(*                                                                         *)
(* A script is a sequence of statements; the recursion of                  *)
(* execute_imperative_stmts is a stack of frames, and a control code goes  *)
(* up it frame by frame.  Relations are sets of rows; those whose name is  *)
(* in Temp are of the script's own temporary store.  The engine is one     *)
(* with a guard for the whole store (memory, SQLite).                      *)
(***************************************************************************)
EXTENDS Naturals, Sequences, FiniteSets, SequencesExt

CONSTANTS
    Scripts,   \* the scripts that run, by name
    Requests,  \* functions from Scripts to [prog, readonly]
    Databases, \* the relations at the beginning
    Stored,    \* names of stored relations
    Temp,      \* names that start with an underscore
    MaxQueries,\* bound of queries_count
    MaxHits,   \* bound of the kills and timeouts
    None

VARIABLES
    db,              \* the committed relations, None for those that are missing
    request,         \* what the scripts are
    run,             \* the state of each script
    queries_count,   \* the last id given to a query or a script
    running_queries, \* ids in the registry
    poisoned,        \* ids whose Poison is set
    timers,          \* ids of queries whose timeout is still to come
    hit              \* history: ids that were killed or timed out

vars == <<db, request, run, queries_count, running_queries, poisoned, timers, hit>>

OK == 9
FAILED == 8
Default == <<{}>>

Ended(s) == run[s].step \in {"done", "failed"}

-----------------------------------------------------------------------------
(* Locks.                                                                  *)

\* A query is [from, rows, assert, timeout, act, to, as, dup]: its rows are
\* those of `from`, or `rows`; `act` is done to the relation `to` with them.
needs_write_lock(q) == {q.to} \cap Stored

\* Mutant of needs_write_locks: else branches are forgotten.
RECURSIVE needs_write_locks_then(_)
needs_write_locks_then(p) ==
    CASE p.op = "query" -> needs_write_lock(p.prog)
      [] p.op = "if" -> (IF p.rel # None THEN {} ELSE needs_write_lock(p.prog))
                        \cup UNION {needs_write_locks_then(p.then[i]) : i \in DOMAIN p.then}
      [] p.op = "loop" -> UNION {needs_write_locks_then(p.body[i]) : i \in DOMAIN p.body}
      [] p.op = "remove" -> {p.of}
      [] OTHER -> {}

\* The names a statement may write to, wherever in it.
RECURSIVE needs_write_locks(_)
needs_write_locks(p) ==
    CASE p.op = "query" -> needs_write_lock(p.prog)
      [] p.op = "if" -> (IF p.rel # None THEN {} ELSE needs_write_lock(p.prog))
                        \cup UNION {needs_write_locks(q) : q \in Range(p.then) \cup Range(p.else)}
      [] p.op = "loop" -> UNION {needs_write_locks(q) : q \in Range(p.body)}
      [] p.op = "remove" -> {p.of}
      [] OTHER -> {}

write_lock_names(ps) == UNION {needs_write_locks(p) : p \in Range(ps)}

-----------------------------------------------------------------------------
(* The life of a script.                                                   *)

Frame(body, loop, label) == [body |-> body, next |-> 1, loop |-> loop, label |-> label]

Idle == [step |-> "start", mode |-> None, held |-> {}, base |-> None, view |-> None,
         frames |-> <<>>, ctrl |-> None, ret |-> Default, id |-> None, query |-> None,
         hurt |-> FALSE]

Init ==
    /\ db \in Databases
    /\ request \in Requests
    /\ run = [s \in Scripts |-> Idle]
    /\ queries_count = 0
    /\ running_queries = {}
    /\ poisoned = {}
    /\ timers = {}
    /\ hit = {}

Becomes(s, r) == run' = [run EXCEPT ![s] = r]

\* execute_imperative up to its transaction: the relation locks, all shared.
start(s) ==
    /\ run[s].step = "start"
    /\ LET names == write_lock_names(request[s].prog)
       IN  Becomes(s, IF request[s].readonly /\ names # {}
                        THEN [Idle EXCEPT !.step = "failed"]
                        ELSE [Idle EXCEPT !.step = "begin", !.held = names])
    /\ UNCHANGED <<db, request, queries_count, running_queries, poisoned, timers, hit>>

\* transact or transact_write, then the registration of the script.
begin(s) ==
    LET mode == IF run[s].held = {} THEN "read" ELSE "write"
    IN  /\ run[s].step = "begin"
        /\ queries_count < MaxQueries
        /\ \A o \in Scripts : run[o].mode = None \/ (mode = "read" /\ run[o].mode = "read")
        /\ Becomes(s, [run[s] EXCEPT !.step = "run", !.mode = mode, !.base = db,
                                     !.view = [n \in Stored \cup Temp |->
                                                 IF n \in Stored THEN db[n] ELSE None],
                                     !.frames = <<Frame(request[s].prog, FALSE, None)>>,
                                     !.id = queries_count + 1])
        /\ queries_count' = queries_count + 1
        /\ running_queries' = running_queries \cup {queries_count + 1}
        /\ UNCHANGED <<db, request, poisoned, timers, hit>>

\* The guards at the end: RunningQueryCleanup, the transaction, the locks.
Over(r, step) ==
    [r EXCEPT !.step = step, !.mode = None, !.held = {}, !.frames = <<>>,
              !.ctrl = None, !.query = None]
Cleanup(ids) ==
    /\ running_queries' = running_queries \ ids
    /\ poisoned' = poisoned \cup (running_queries \cap ids)

fail(s) ==
    /\ Becomes(s, Over(run[s], "failed"))
    /\ Cleanup({run[s].id})
    /\ UNCHANGED <<db, request, queries_count, timers, hit>>

\* ProcessKilled of the script itself.
fail_killed(s) ==
    /\ Becomes(s, Over([run[s] EXCEPT !.hurt = TRUE], "failed"))
    /\ Cleanup({run[s].id})
    /\ UNCHANGED <<db, request, queries_count, timers, hit>>

\* The end of the statements: the transaction is committed.
commit(s) ==
    /\ run[s].step = "run"
    /\ run[s].frames = <<>>
    /\ db' = IF run[s].mode = "write" THEN [n \in Stored |-> run[s].view[n]] ELSE db
    /\ Becomes(s, Over(run[s], "done"))
    /\ Cleanup({run[s].id})
    /\ UNCHANGED <<request, queries_count, timers, hit>>

-----------------------------------------------------------------------------
(* Statements.                                                             *)

Killed(s) == run[s].id \in poisoned
Top(s) == Last(run[s].frames)
AtStatement(s) == run[s].step = "run" /\ run[s].frames # <<>> /\ Top(s).next <= Len(Top(s).body)
Stmt(s) == Top(s).body[Top(s).next]

\* The frames with the next statement of the innermost block.
WithTop(fs, f) == Append(Front(fs), f)
Advanced(fs) == WithTop(fs, [Last(fs) EXCEPT !.next = @ + 1])
Restarted(fs) == WithTop(fs, [Last(fs) EXCEPT !.next = 1])

\* A step of a script that changes nothing but its own state.
Local(s, r) ==
    /\ Becomes(s, r)
    /\ UNCHANGED <<db, request, queries_count, running_queries, poisoned, timers, hit>>

Enter(r, body, loop, label) ==
    [r EXCEPT !.step = "run", !.ret = Default, !.query = None,
              !.frames = Append(Advanced(@), Frame(body, loop, label))]

Branch(p, nonempty) == IF nonempty # p.negated THEN p.then ELSE p.else

Found(s, ns) == \A n \in ns : run[s].view[n] # None

\* ::remove of a relation, which may be a temporary one.
Removed(r, n) ==
    [r EXCEPT !.view[n] = None, !.frames = Advanced(@), !.ret = <<{OK}>>]

\* %swap: three renames, then `break` of the block.
Swapped(r, left, right) ==
    [r EXCEPT !.view[left] = r.view[right], !.view[right] = r.view[left], !.ret = Default,
              !.frames = WithTop(@, [Last(@) EXCEPT !.next = Len(Last(r.frames).body) + 1])]

\* The end of a block: the body of %loop starts again.
block_end(s) ==
    /\ run[s].step = "run"
    /\ run[s].frames # <<>>
    /\ Top(s).next > Len(Top(s).body)
    /\ IF Top(s).loop
         THEN IF Killed(s) THEN fail_killed(s)
              ELSE Local(s, [run[s] EXCEPT !.frames = Restarted(@), !.ret = Default])
         ELSE Local(s, [run[s] EXCEPT !.frames = Front(@)])

\* %break, %continue, %return of relations by name.
jump(s) ==
    /\ AtStatement(s)
    /\ Stmt(s).op \in {"break", "continue", "return"}
    /\ ~Killed(s)
    /\ LET p == Stmt(s)
           missing == p.op = "return" /\ ~Found(s, Range(p.of))
           rets == IF p.op # "return" THEN run[s].ret
                   ELSE IF p.of = <<>> THEN Default ELSE [i \in DOMAIN p.of |-> run[s].view[p.of[i]]]
       IN  IF missing THEN fail(s)
           ELSE Local(s, [run[s] EXCEPT !.step = "unwind", !.ctrl = p, !.ret = rets])

\* %debug, %swap, %loop, %if on a relation, ::remove.
simple(s) ==
    /\ AtStatement(s)
    /\ ~Killed(s)
    /\ LET p == Stmt(s)
           r == run[s]
       IN  \/ /\ p.op = "debug"
              /\ IF Found(s, {p.of}) THEN Local(s, [r EXCEPT !.frames = Advanced(@), !.ret = Default])
                 ELSE fail(s)
           \/ /\ p.op = "swap"
              /\ IF p.left # p.right /\ Found(s, {p.left, p.right})
                   THEN Local(s, Swapped(r, p.left, p.right)) ELSE fail(s)
           \/ /\ p.op = "loop"
              /\ Local(s, Enter(r, p.body, TRUE, p.label))
           \/ /\ p.op = "if" /\ p.rel # None
              /\ IF Found(s, {p.rel})
                   THEN Local(s, Enter(r, Branch(p, r.view[p.rel] # {}), FALSE, None)) ELSE fail(s)
           \/ /\ p.op = "remove"
              /\ IF ~request[s].readonly /\ Found(s, {p.of})
                   THEN Local(s, Removed(r, p.of)) ELSE fail(s)

\* poison.check before a statement.
killed(s) == AtStatement(s) /\ Killed(s) /\ fail_killed(s)

\* A control code goes up one frame; the loop it is for takes it.
unwind(s) ==
    /\ run[s].step = "unwind"
    /\ LET r == run[s]
           c == r.ctrl
       IN  IF r.frames = <<>>
             THEN IF c.op = "return" THEN Local(s, [r EXCEPT !.step = "run", !.ctrl = None])
                                     ELSE fail(s)
           ELSE IF c.op # "return" /\ Top(s).loop /\ c.label \in {None, Top(s).label}
             THEN IF c.op = "break"
                    THEN Local(s, [r EXCEPT !.step = "run", !.ctrl = None, !.ret = Default,
                                            !.frames = Front(@)])
                  ELSE IF Killed(s) THEN fail_killed(s)
                  ELSE Local(s, [r EXCEPT !.step = "run", !.ctrl = None, !.ret = Default,
                                          !.frames = Restarted(@)])
           ELSE Local(s, [r EXCEPT !.frames = Front(@)])

-----------------------------------------------------------------------------
(* Queries.                                                                *)

IsQuery(p) == p.op = "query" \/ (p.op = "if" /\ p.rel = None)

\* The checks of run_query and its compilation.
Refused(q, view) ==
    \/ q.act = "create" /\ view[q.to] # None
    \/ q.act \in {"put", "rm"} /\ view[q.to] = None
    \/ q.from # None /\ view[q.from] = None

Rows(q, view) == IF q.from = None THEN q.rows ELSE view[q.from]

AssertionFails(q, view) ==
    \/ q.assert = "none" /\ Rows(q, view) # {}
    \/ q.assert = "some" /\ Rows(q, view) = {}

\* execute_relation, and the answer of the query.
Stores(q, view) ==
    LET rs == Rows(q, view)
    IN  CASE q.act = None -> view
          [] q.act \in {"create", "replace"} -> [view EXCEPT ![q.to] = rs]
          [] q.act = "put" -> [view EXCEPT ![q.to] = @ \cup rs]
          [] q.act = "rm" -> [view EXCEPT ![q.to] = @ \ rs]
Answer(q, view) == IF q.act = None THEN Rows(q, view) ELSE {OK}

\* `as`: a temporary relation replaced by the rows; `dup` says that the
\* headers have a name twice, which it refuses.
StoreAs(q, view, answer) == IF q.as = None THEN view ELSE [view EXCEPT ![q.as] = answer]
AsRefused(q) == q.as # None /\ q.dup

Ignores(p) == p.op = "query" /\ p.ignore

\* What follows a query that failed: %ignore_error goes on.
AfterError(s, r) ==
    IF Ignores(Stmt(s))
      THEN Becomes(s, [r EXCEPT !.step = "run", !.query = None, !.ret = <<{FAILED}>>, !.frames = Advanced(@)])
      ELSE Becomes(s, Over(r, "failed"))
EndsWith(s) == IF Ignores(Stmt(s)) THEN {} ELSE {run[s].id}

\* run_query up to the registration of the query.
query(s) ==
    /\ AtStatement(s)
    /\ ~Killed(s)
    /\ IsQuery(Stmt(s))
    /\ IF Refused(Stmt(s).prog, run[s].view)
         THEN /\ AfterError(s, run[s])
              /\ Cleanup(EndsWith(s))
              /\ UNCHANGED <<queries_count, timers>>
         ELSE /\ queries_count < MaxQueries
              /\ queries_count' = queries_count + 1
              /\ running_queries' = running_queries \cup {queries_count'}
              /\ timers' = IF Stmt(s).prog.timeout THEN timers \cup {queries_count'} ELSE timers
              /\ Becomes(s, [run[s] EXCEPT !.step = "query", !.query = queries_count'])
              /\ UNCHANGED poisoned
    /\ UNCHANGED <<db, request, hit>>

\* The state after a query that succeeded: a condition enters its branch.
Finishes(s) ==
    LET p == Stmt(s)
        r == run[s]
        answer == Answer(p.prog, r.view)
        after == [r EXCEPT !.step = "run", !.query = None, !.ret = <<answer>>,
                           !.view = StoreAs(p.prog, Stores(p.prog, r.view), answer)]
    IN  IF p.op = "if" THEN Enter(after, Branch(p, answer # {}), FALSE, None)
        ELSE [after EXCEPT !.frames = Advanced(@)]

\* The query ends: it noticed its poison, its assertion failed, or it answers
\* and its answer is stored.
query_end(s) ==
    /\ run[s].step = "query"
    /\ LET q == Stmt(s).prog
           r == run[s]
       IN  \/ /\ r.query \in poisoned
              /\ AfterError(s, [r EXCEPT !.hurt = TRUE])
              /\ Cleanup({r.query} \cup EndsWith(s))
           \/ /\ AssertionFails(q, r.view)
              /\ AfterError(s, r)
              /\ Cleanup({r.query} \cup EndsWith(s))
           \/ /\ ~AssertionFails(q, r.view)
              /\ AsRefused(q)
              /\ Becomes(s, Over(r, "failed"))
              /\ Cleanup({r.query, r.id})
           \/ /\ ~AssertionFails(q, r.view)
              /\ ~AsRefused(q)
              /\ Becomes(s, Finishes(s))
              /\ Cleanup({r.query})
    /\ UNCHANGED <<db, request, queries_count, timers, hit>>

-----------------------------------------------------------------------------
(* ::kill and :timeout.                                                    *)

kill(id) ==
    /\ id \in running_queries
    /\ Cardinality(hit) < MaxHits
    /\ poisoned' = poisoned \cup {id}
    /\ hit' = hit \cup {id}
    /\ UNCHANGED <<db, request, run, queries_count, running_queries, timers>>

\* The thread of set_timeout, which does not end with the query.
expire(id) ==
    /\ id \in timers
    /\ Cardinality(hit) < MaxHits
    /\ timers' = timers \ {id}
    /\ poisoned' = poisoned \cup {id}
    /\ hit' = hit \cup {id}
    /\ UNCHANGED <<db, request, run, queries_count, running_queries>>

Step(s) ==
    \/ start(s) \/ begin(s) \/ commit(s)
    \/ block_end(s) \/ jump(s) \/ simple(s) \/ killed(s) \/ unwind(s)
    \/ query(s) \/ query_end(s)

Next ==
    \/ \E s \in Scripts : Step(s)
    \/ \E id \in 1..MaxQueries : kill(id) \/ expire(id)

-----------------------------------------------------------------------------
(* What a script means: the structured reading of its statements.          *)

Result(code, view, ret) == [code |-> code, view |-> view, ret |-> ret]
Fails(view) == Result([op |-> "error"], view, Default)
Goes == [op |-> "next"]
Skips == [op |-> "skip"]

Asked(p, view) ==
    LET q == p.prog
        stored == Stores(q, view)
        answer == Answer(q, view)
    IN  IF Refused(q, view) \/ AssertionFails(q, view)
          THEN IF Ignores(p) THEN Result(Goes, view, <<{FAILED}>>) ELSE Fails(view)
        ELSE IF AsRefused(q) THEN Fails(view)
        ELSE Result(Goes, StoreAs(q, stored, answer), <<answer>>)

\* The statements one after the other, a loop for at most n rounds.  After a
\* %swap the rest of its block is skipped, and no more than that.
RECURSIVE Meaning(_, _, _)
Meaning(ps, view, n) ==
    LET one(v, p) ==
          CASE p.op \in {"break", "continue"} -> Result(p, v, Default)
            [] p.op = "return" ->
                 IF \E k \in Range(p.of) : v[k] = None THEN Fails(v)
                 ELSE Result(p, v, IF p.of = <<>> THEN Default ELSE [i \in DOMAIN p.of |-> v[p.of[i]]])
            [] p.op = "debug" -> IF v[p.of] = None THEN Fails(v) ELSE Result(Goes, v, Default)
            [] p.op = "remove" -> IF v[p.of] = None THEN Fails(v)
                                  ELSE Result(Goes, [v EXCEPT ![p.of] = None], <<{OK}>>)
            [] p.op = "swap" -> IF p.left = p.right \/ None \in {v[p.left], v[p.right]} THEN Fails(v)
                                ELSE Result(Skips, [v EXCEPT ![p.left] = v[p.right], ![p.right] = v[p.left]], Default)
            [] p.op = "query" -> Asked(p, v)
            [] p.op = "if" ->
                 LET c == IF p.rel = None THEN Asked(p, v)
                          ELSE IF v[p.rel] = None THEN Fails(v) ELSE Result(Goes, v, <<v[p.rel]>>)
                 IN  IF c.code # Goes THEN c ELSE Meaning(Branch(p, c.ret # <<{}>>), c.view, n)
            [] p.op = "loop" ->
                 LET b == Meaning(p.body, v, n)
                     mine == b.code.op \in {"break", "continue"} /\ b.code.label \in {None, p.label}
                 IN  IF n = 0 THEN Result([op |-> "hang"], v, Default)
                     ELSE IF b.code = Goes \/ (mine /\ b.code.op = "continue")
                       THEN Meaning(<<p>>, b.view, n - 1)
                     ELSE IF mine THEN Result(Goes, b.view, Default) ELSE b
        step(r, p) == IF r.code = Goes THEN one(r.view, p) ELSE r
        end == FoldLeft(step, Result(Goes, view, Default), ps)
    IN  IF end.code = Skips THEN [end EXCEPT !.code = Goes] ELSE end

-----------------------------------------------------------------------------
(* Properties.                                                             *)

Active(s) == run[s].step \in {"run", "query", "unwind"}

\* A stored relation that a script changes is one whose lock it took, and a
\* script without locks, a read-only one above all, changes none.
LocksCover ==
    \A s \in Scripts : Active(s) =>
       /\ {n \in Stored : run[s].view[n] # db[n]} \subseteq run[s].held
       /\ request[s].readonly => run[s].mode = "read"

\* The registry has the running scripts and queries, each under an id of its
\* own and on every way out no longer.
Registered ==
    LET ids == {<<s, "script", run[s].id>> : s \in {t \in Scripts : Active(t)}}
               \cup {<<s, "query", run[s].query>> : s \in {t \in Scripts : run[t].step = "query"}}
    IN  /\ running_queries = {i[3] : i \in ids}
        /\ \A i, j \in ids : i[3] = j[3] => i = j

\* What runs is poisoned only if it was killed or timed out itself: neither a
\* late timer of an earlier query nor the cleanup of another reaches it.
OwnPoison == running_queries \cap poisoned \subseteq hit

\* A script that no kill or timeout interrupted does what its statements say:
\* control codes reach the loop they name, conditions choose their branch, the
\* rows of the last statement or of %return are the answer, and it fails
\* exactly when a statement that is not ignored does, or nothing takes a code.
ScriptExact ==
    \A s \in Scripts : Ended(s) /\ ~run[s].hurt /\ run[s].base # None =>
       LET m == Meaning(request[s].prog,
                        [n \in Stored \cup Temp |-> IF n \in Stored THEN run[s].base[n] ELSE None],
                        MaxQueries)
       IN  IF m.code.op \in {"next", "return"}
             THEN run[s].step = "done" /\ run[s].view = m.view /\ run[s].ret = m.ret
             ELSE run[s].step = "failed"

TypeOK ==
    /\ db \in [Stored -> {None} \cup SUBSET {1, 2}]
    /\ queries_count \in 0..MaxQueries
    /\ running_queries \cup poisoned \cup timers \cup hit \subseteq 1..queries_count
    /\ \A s \in Scripts : run[s].step \in {"start", "begin", "run", "query", "unwind", "done", "failed"}

Inv == TypeOK /\ LocksCover /\ Registered /\ OwnPoison /\ ScriptExact
=============================================================================
