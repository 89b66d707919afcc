----------------------------- MODULE MCSessions -----------------------------
(***************************************************************************)
(* What runs at the same time in one Db, for TLC: scripts with their locks *)
(* and transactions, multi-transactions and their handlers, callbacks with *)
(* the scripts they are told of, imperative scripts with the queries they  *)
(* run and ::kill, or queries with rules that a client computes.  A        *)
(* behaviour is one of these (`part` says which).                          *)
(***************************************************************************)
EXTENDS DbLocks, MultiTx, RuleServer, Callbacks, TLC

CONSTANTS
    Parts,                             \* the parts that are checked
    s1, s2, s3, CreatesIndex,          \* sessions
    t1, t2, c1, c2,                    \* multi-transactions and their callers
    MaxQueries, MaxHits                \* Imperative

VARIABLES
    part,
    db, request, run, queries_count, running_queries, poisoned, timers, hit  \* Imperative

\* The scripts of the sessions, in one order of the sessions, as they differ in
\* their names only.
Assign(scripts) ==
    {[s \in Sess |-> CASE s = s1 -> scripts[i] [] s = s2 -> scripts[j] [] s = s3 -> scripts[k]] :
        <<i, j, k>> \in {o \in (1..Len(scripts)) \X (1..Len(scripts)) \X (1..Len(scripts)) :
                           o[1] <= o[2] /\ o[2] <= o[3]}}

\* With one writer at a time ::index create, which begins its transaction before
\* it locks the relation, is left out unless CreatesIndex.
Ordered == <<"put", "rm", "multi_put", "import_rm", "imp_create", "remove_index", "read">>
MCLockCases ==
    IF CreatesIndex
      THEN [exclusive : {TRUE}, script : Assign(<<"put", "create_index", "read">>)]
      ELSE [exclusive : {TRUE}, script : Assign(Ordered)]
           \cup [exclusive : {FALSE}, script : Assign(Ordered \o <<"create_index">>)]

\* Two transactions, or two callers that share one.
MCMultiCases == {[shared |-> FALSE, tx |-> Tx, callers |-> {c1}, calls |-> 2],
                 [shared |-> TRUE, tx |-> {t1}, callers |-> Caller, calls |-> 3]}

\* Two scripts with one event each, or one with two.
MCCallsCases == {[sessions |-> Session, events |-> 1], [sessions |-> {s1}, events |-> 2]}

\* Statements of imperative scripts.
Query(from, rs, act, to) ==
    [from |-> from, rows |-> rs, assert |-> None, timeout |-> FALSE, act |-> act, to |-> to,
     as |-> None, dup |-> FALSE]
Timed(q) == [q EXCEPT !.timeout = TRUE]
Do(q) == [op |-> "query", prog |-> q, ignore |-> FALSE]
Try(q) == [op |-> "query", prog |-> q, ignore |-> TRUE]
Put(n, v) == Do(Query(None, {v}, "put", n))
If(q, neg, then, else) ==
    [op |-> "if", rel |-> None, prog |-> q, negated |-> neg, then |-> then, else |-> else]
IfRel(n, neg, then, else) ==
    [If(Query(None, {}, None, None), neg, then, else) EXCEPT !.rel = n]
Loop(l, body) == [op |-> "loop", label |-> l, body |-> body]
Break(l) == [op |-> "break", label |-> l]
Continue(l) == [op |-> "continue", label |-> l]
Return(ns) == [op |-> "return", of |-> ns]
Debug(n) == [op |-> "debug", of |-> n]
Removal(n) == [op |-> "remove", of |-> n]
Swap(l, r) == [op |-> "swap", left |-> l, right |-> r]

\* Every kind of statement: conditions and else branches that write, nested
\* loops with labels, temporary relations, errors that are ignored or not.
Looping == <<Loop(None, <<Try(Timed(Query(None, {1}, "put", "r")))>>)>>
Reading == <<Do(Query("r", {}, None, None)), IfRel("r", TRUE, <<>>, <<Break(None)>>)>>
Branching ==
    <<If(Query("r", {}, None, None), FALSE, <<Do(Query(None, {1}, "rm", "r"))>>,
         <<Try(Query(None, {2}, "put", "q"))>>),
      Return(<<"r">>)>>
Programs ==
    { Branching,
      <<Do(Query(None, {1, 2}, "replace", "_t")),
        Loop("x", <<Do(Timed(Query("_t", {}, None, None))),
                    Loop(None, <<IfRel("_t", TRUE, <<Break("x")>>,
                                       <<Do(Query(None, {1, 2}, "rm", "_t")), Continue("x")>>)>>)>>),
        Debug("_t")>>,
      <<Do([Query("r", {}, None, None) EXCEPT !.as = "_u"]), Do(Query(None, {1}, "replace", "_t")),
        IfRel("_t", FALSE, <<Swap("_t", "_u"), Removal("r")>>, <<>>), Return(<<"_t">>)>>,
      <<Try([Query("r", {}, "create", "q") EXCEPT !.assert = "some"]), Return(<<"r", "q">>)>>,
      <<Try(Timed(Query("r", {}, None, None))), Put("q", 1), Removal("r")>>,
      Looping,
      <<Loop(None, <<Loop(None, <<Break(None)>>),
                     IfRel("r", FALSE, <<Break("y")>>, <<Return(<<>>)>>)>>)>>,
      <<Do([Query("r", {}, None, None) EXCEPT !.as = "_t", !.dup = TRUE])>>,
      <<Loop(None, <<IfRel("r", FALSE, <<Continue(None)>>, <<>>)>>)>> }
ScriptCases ==
    {[s \in Session |-> IF s = s1 THEN [prog |-> c[1], readonly |-> c[2]]
                                  ELSE [prog |-> c[3], readonly |-> FALSE]] :
       c \in {d \in Programs \X BOOLEAN \X {Looping, Reading} :
                /\ d[2] => d[1] \in {Branching, Looping}
                /\ d[3] = Looping => d[1] = Looping /\ ~d[2]}}
ScriptStores == {("r" :> x) @@ ("q" :> y) : x \in {{}, {1}}, y \in {None, {}}}

\* Two clients for one rule or for two, two queries, each of a rule that has a
\* client, and a pool that is too small or not (both for two rules).
MCRuleSettings ==
    {x \in {[name |-> (t1 :> "a") @@ (t2 :> n), asks |-> (s1 :> "a") @@ (s2 :> a), workers |-> w] :
              n \in {"a", "b"}, a \in {"a", "b"}, w \in {1, 2}} :
       /\ x.asks[s2] \in {"a", x.name[t2]}
       /\ x.asks[s2] = "a" => x.workers = IF x.name[t2] = "a" THEN 2 ELSE 1}

Imp == INSTANCE Imperative WITH Scripts <- Session, Requests <- ScriptCases,
                                Databases <- ScriptStores, Stored <- {"r", "q"}, Temp <- {"_t", "_u"}

scriptVars == <<db, request, run, queries_count, running_queries, poisoned, timers, hit>>
mcVars == <<part, lockVars, vars, callVars, scriptVars, ruleVars>>

\* What a behaviour is not about has not begun.
NoLocks == LocksInit /\ exclusive /\ indexed = Nothing /\ script = [s \in Sess |-> "read"]
NoMulti == Init /\ ~bounds.shared
NoCalls == CallsInit /\ cases = CHOOSE x \in CallsCases : TRUE
NoScripts ==
    /\ db = None /\ request = None /\ run = None /\ queries_count = None
    /\ running_queries = None /\ poisoned = None /\ timers = None /\ hit = None
NoRules == RulesInit /\ setting = CHOOSE x \in Settings : TRUE

MCInit ==
    /\ part \in Parts
    /\ \/ part = "locks" /\ LocksInit /\ NoMulti /\ NoCalls /\ NoScripts /\ NoRules
       \/ part = "multi" /\ Init /\ NoLocks /\ NoCalls /\ NoScripts /\ NoRules
       \/ part = "callbacks" /\ CallsInit /\ NoLocks /\ NoMulti /\ NoScripts /\ NoRules
       \/ part = "script" /\ Imp!Init /\ NoLocks /\ NoMulti /\ NoCalls /\ NoRules
       \/ part = "rules" /\ RulesInit /\ NoLocks /\ NoMulti /\ NoCalls /\ NoScripts

MCNext ==
    \/ /\ part = "locks" /\ LocksNext
       /\ UNCHANGED <<part, vars, callVars, scriptVars, ruleVars>>
    \/ /\ part = "multi" /\ Next
       /\ UNCHANGED <<part, lockVars, callVars, scriptVars, ruleVars>>
    \/ /\ part = "callbacks" /\ CallsNext
       /\ UNCHANGED <<part, lockVars, vars, scriptVars, ruleVars>>
    \/ /\ part = "script" /\ Imp!Next
       /\ UNCHANGED <<part, lockVars, vars, callVars, ruleVars>>
    \/ /\ part = "rules" /\ RulesNext
       /\ UNCHANGED <<part, lockVars, vars, callVars, scriptVars>>

\* What the steps of a part leave alone.
Rest ==
    /\ UNCHANGED part
    /\ IF part = "locks" THEN TRUE ELSE UNCHANGED lockVars
    /\ IF part = "multi" THEN TRUE ELSE UNCHANGED vars
    /\ IF part = "callbacks" THEN TRUE ELSE UNCHANGED callVars
    /\ IF part = "script" THEN TRUE ELSE UNCHANGED scriptVars
    /\ IF part = "rules" THEN TRUE ELSE UNCHANGED ruleVars

\* The processes of a part, by number.
Process(i) ==
    \/ part = "locks" /\ i \in 1..3 /\ Act(<<s1, s2, s3>>[i])
    \/ part = "multi" /\ i \in 1..2 /\ (send(<<c1, c2>>[i]) \/ recv(<<c1, c2>>[i]))
    \/ part = "multi" /\ i \in 3..4 /\ Handler(<<t1, t2>>[i - 2])
    \/ part = "callbacks" /\ i \in 1..2 /\ CallsStep(<<s1, s2>>[i])
    \/ part = "callbacks" /\ i - 2 \in 1..MaxId /\ receive_event(i - 2)
    \/ part = "script" /\ i \in 1..2 /\ Imp!Step(<<s1, s2>>[i])
    \/ part = "rules" /\ i \in 1..2 /\ Task(<<t1, t2>>[i])
    \/ part = "rules" /\ i \in 3..4 /\ Serve(<<t1, t2>>[i - 2])

\* A thread that can go on does, a lock that stays free is taken, the handler of
\* a multi-transaction and the calls on its handle go on, receivers receive, and
\* a client that is connected reads its requests and answers them.
Fairness == \A i \in 1..4 : WF_mcVars(Process(i) /\ Rest)

MCSpec == MCInit /\ [][MCNext]_mcVars /\ Fairness

-----------------------------------------------------------------------------
\* An imperative script that nothing interrupts does what its statements say and
\* fails only when they do; it has the lock of every relation it changes; the
\* registry has exactly what runs, and what runs is poisoned by its own kill or
\* timeout only (execute_imperative_stmts, needs_write_locks, run_query).
ScriptsExact == part = "script" => Imp!Inv

\* What a process has begun and must end: a script, with the locks it waits for
\* and the receivers it waits for while it has the registry; an imperative
\* script, however it loops, once it is killed or timed out; a call on the
\* handle of a multi-transaction; its handler, once the handle is dropped; a query
\* with a client's rule, unless it is stranded in one of the ways there are.
Owes(i) ==
    \/ part = "locks" /\ i \in 1..3 /\ ~Finished(<<s1, s2, s3>>[i])
    \/ part = "multi" /\ i \in 1..2 /\ call[<<c1, c2>>[i]] # None
    \/ part = "multi" /\ i \in 3..4 /\ handle[<<t1, t2>>[i - 2]] = "dropped"
                                  /\ thread[<<t1, t2>>[i - 2]] # "done"
    \/ part = "callbacks" /\ i \in 1..2 /\ <<s1, s2>>[i] \in cases.sessions
                                      /\ at[<<s1, s2>>[i]] # "done"
    \/ part = "script" /\ i \in 1..2 /\ ~Imp!Ended(<<s1, s2>>[i]) /\ run[<<s1, s2>>[i]].id \in hit
    \/ part = "rules" /\ i \in 1..2 /\ Waits(<<s1, s2>>[i])

\* Everything that is begun comes to an end: scripts get their locks and their
\* receivers, calls their answers, handlers give up their workers, and a killed
\* script stops.  What a behaviour begins is bounded, so that this is to say that
\* from some time on nothing is owed.
Returns == <>[](\A i \in 1..4 : ~Owes(i))

\* "Supports concurrent readers": a script that only reads comes to an end.
ReadersReturn ==
    \A s \in Sess : <>(part = "locks" => script[s] # "read" \/ Finished(s))
=============================================================================
