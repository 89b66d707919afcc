------------------------------- MODULE MultiTx -------------------------------
(***************************************************************************)
(* Multi-transactions: retia-core/src/runtime/db.rs                        *)
(* (run_multi_transaction) and their blocking handles,                     *)
(* retia-core/src/lib.rs (multi_transaction, MultiTransaction), which the  *)
(* server shares between requests (retia-bin/src/server.rs).               *)
(*                                                                         *)
(* A handle and its handler talk over two channels of capacity one.  The   *)
(* handler is a job of the rayon pool and keeps its worker until the       *)
(* transaction ends.  A query either succeeds, and writes something that   *)
(* callbacks are to be told, or fails; the commit of the store may fail.   *)
(***************************************************************************)
EXTENDS Naturals, Sequences, FiniteSets

CONSTANTS
    Tx,        \* multi-transactions
    Caller,    \* threads that use the handles
    None,
    Workers,   \* threads of the pool
    Cases      \* bounds: records [shared, tx, callers, calls]

VARIABLES
    bounds,    \* whether calls on a handle may overlap (shared); transactions,
               \* callers and the number of calls
    handle,    \* "unborn" | "open" | "dropped"
    thread,    \* the handler: "none" | "waiting" | "loop" | "query" | "commit" | "abort" |
               \* "notify" | "done"
    app2db,    \* payloads on their way: [kind, id]
    db2app,    \* results on their way: [id, ok]
    pending,   \* the result that the handler is about to send
    call,      \* what each caller is doing: [tx, kind, id, phase]
    calls,     \* number of calls so far
    asked,     \* transactions that someone asked to commit
    events,    \* ids of the queries of a transaction that succeeded
    failed,    \* transactions with a query that failed
    committed, \* transactions whose commit succeeded
    notified,  \* what callbacks were told
    told       \* answers that callers got: [tx, kind, id, got, ok]

vars == <<bounds, handle, thread, app2db, db2app, pending, call, calls, asked, events, failed,
          committed, notified, told>>

Init ==
    /\ bounds \in Cases
    /\ handle = [t \in Tx |-> "unborn"]
    /\ thread = [t \in Tx |-> "none"]
    /\ app2db = [t \in Tx |-> <<>>]
    /\ db2app = [t \in Tx |-> <<>>]
    /\ pending = [t \in Tx |-> None]
    /\ call = [c \in Caller |-> None]
    /\ calls = 0
    /\ asked = {}
    /\ events = [t \in Tx |-> {}]
    /\ failed = {}
    /\ committed = {}
    /\ notified = [t \in Tx |-> {}]
    /\ told = {}

History == <<events, failed, committed, notified>>

-----------------------------------------------------------------------------
(* The handle                                                              *)

multi_transaction(t) ==
    /\ t \in bounds.tx
    /\ handle[t] = "unborn"
    /\ handle' = [handle EXCEPT ![t] = "open"]
    /\ thread' = [thread EXCEPT ![t] = "waiting"]
    /\ UNCHANGED <<bounds, app2db, db2app, pending, call, calls, asked, History, told>>

\* run_script, commit, abort
Call(c, t, kind) ==
    /\ handle[t] = "open"
    /\ call[c] = None
    /\ c \in bounds.callers
    /\ calls < bounds.calls
    /\ bounds.shared \/ \A d \in Caller : call[d] # None => call[d].tx # t
    /\ calls' = calls + 1
    /\ asked' = IF kind = "commit" THEN asked \cup {t} ELSE asked
    /\ call' = [call EXCEPT ![c] = [tx |-> t, kind |-> kind, id |-> calls + 1, phase |-> "send"]]
    /\ UNCHANGED <<bounds, handle, thread, app2db, db2app, pending, History, told>>

\* run_script returns the result that it received; commit and abort return Ok
\* whatever the result was.
Answer(c, res) ==
    [tx |-> call[c].tx, kind |-> call[c].kind, id |-> call[c].id, got |-> res.id,
     ok |-> res.ok \/ call[c].kind # "query"]
\* The channel is disconnected.
Broken(c) == [tx |-> call[c].tx, kind |-> call[c].kind, id |-> call[c].id, got |-> 0, ok |-> FALSE]

send(c) ==
    /\ call[c] # None
    /\ call[c].phase = "send"
    /\ LET t == call[c].tx
       IN  \/ /\ thread[t] # "done"
              /\ app2db[t] = <<>>
              /\ app2db' = [app2db EXCEPT ![t] = <<[kind |-> call[c].kind, id |-> call[c].id]>>]
              /\ call' = [call EXCEPT ![c].phase = "recv"]
              /\ UNCHANGED told
           \/ /\ thread[t] = "done"
              /\ told' = told \cup {Broken(c)}
              /\ call' = [call EXCEPT ![c] = None]
              /\ UNCHANGED app2db
    /\ UNCHANGED <<bounds, handle, thread, db2app, pending, calls, asked, History>>

recv(c) ==
    /\ call[c] # None
    /\ call[c].phase = "recv"
    /\ LET t == call[c].tx
       IN  \/ /\ db2app[t] # <<>>
              /\ told' = told \cup {Answer(c, Head(db2app[t]))}
              /\ db2app' = [db2app EXCEPT ![t] = Tail(@)]
           \/ /\ db2app[t] = <<>>
              /\ thread[t] = "done"
              /\ told' = told \cup {Broken(c)}
              /\ UNCHANGED db2app
    /\ call' = [call EXCEPT ![c] = None]
    /\ UNCHANGED <<bounds, handle, thread, app2db, pending, calls, asked, History>>

\* A user of the fields of the handle may drop them with an answer outstanding.
drop(t) ==
    /\ handle[t] = "open"
    /\ \A c \in Caller : call[c] # None /\ call[c].tx = t => call[c].phase = "recv"
    /\ handle' = [handle EXCEPT ![t] = "dropped"]
    /\ call' = [c \in Caller |-> IF call[c] # None /\ call[c].tx = t THEN None ELSE call[c]]
    /\ UNCHANGED <<bounds, thread, app2db, db2app, pending, calls, asked, History, told>>

-----------------------------------------------------------------------------
(* The handler                                                             *)

Busy == {t \in Tx : thread[t] \notin {"none", "waiting", "done"}}

\* rayon::spawn; the store may refuse to begin a transaction.
start(t, ok) ==
    /\ thread[t] = "waiting"
    /\ Cardinality(Busy) < Workers
    /\ IF ok
         THEN /\ thread' = [thread EXCEPT ![t] = "loop"]
              /\ UNCHANGED db2app
         ELSE /\ thread' = [thread EXCEPT ![t] = "done"]
              /\ db2app' = [db2app EXCEPT ![t] = <<[id |-> 0, ok |-> FALSE]>>]
    /\ UNCHANGED <<bounds, handle, app2db, pending, call, calls, asked, History, told>>

Take(t, kind, ok) ==
    /\ thread[t] = "loop"
    /\ app2db[t] # <<>>
    /\ Head(app2db[t]).kind = kind
    /\ app2db' = [app2db EXCEPT ![t] = Tail(@)]
    /\ pending' = [pending EXCEPT ![t] = [id |-> Head(app2db[t]).id, ok |-> ok]]
    /\ thread' = [thread EXCEPT ![t] = kind]
    /\ UNCHANGED <<bounds, handle, db2app, call, calls, asked, notified, told>>

query(t, ok) ==
    /\ Take(t, "query", ok)
    /\ events' = IF ok THEN [events EXCEPT ![t] = @ \cup {Head(app2db[t]).id}] ELSE events
    /\ failed' = IF ok THEN failed ELSE failed \cup {t}
    /\ UNCHANGED committed

commit(t, ok) ==
    /\ Take(t, "commit", ok)
    /\ committed' = IF ok THEN committed \cup {t} ELSE committed
    /\ UNCHANGED <<events, failed>>

\* Mutant of abort: the payload falls through to the commit.
abort_commits(t) ==
    /\ Take(t, "abort", TRUE)
    /\ committed' = committed \cup {t}
    /\ UNCHANGED <<events, failed>>

abort(t) ==
    /\ Take(t, "abort", TRUE)
    /\ UNCHANGED <<events, failed, committed>>

\* What the handler does once the result is sent.
After(stage) == IF stage = "query" THEN "loop" ELSE IF stage = "commit" THEN "notify" ELSE "done"

\* Mutant of reply: the loop is left before the callbacks if nobody takes the answer.
reply_breaks(t) ==
    /\ thread[t] \in {"query", "commit", "abort"}
    /\ \/ /\ handle[t] = "dropped"
          /\ thread' = [thread EXCEPT ![t] = "done"]
          /\ UNCHANGED db2app
       \/ /\ handle[t] = "open"
          /\ db2app[t] = <<>>
          /\ db2app' = [db2app EXCEPT ![t] = <<pending[t]>>]
          /\ thread' = [thread EXCEPT ![t] = After(@)]
    /\ pending' = [pending EXCEPT ![t] = None]
    /\ UNCHANGED <<bounds, handle, app2db, call, calls, asked, History, told>>

\* Mutant of reply: the error of a query is dropped and the next payload awaited.
reply_swallows(t) ==
    /\ thread[t] \in {"query", "commit", "abort"}
    /\ db2app[t] = <<>>
    /\ db2app' = IF thread[t] = "query" /\ ~pending[t].ok
                   THEN db2app ELSE [db2app EXCEPT ![t] = <<pending[t]>>]
    /\ thread' = [thread EXCEPT ![t] = After(@)]
    /\ pending' = [pending EXCEPT ![t] = None]
    /\ UNCHANGED <<bounds, handle, app2db, call, calls, asked, History, told>>

\* results.send(...): the transaction goes on after a query, whether or not it
\* succeeded, unless the handle is gone.
reply(t) ==
    /\ thread[t] \in {"query", "commit", "abort"}
    /\ \/ /\ handle[t] = "dropped"
          /\ thread' = [thread EXCEPT ![t] = IF @ = "commit" THEN "notify" ELSE "done"]
          /\ UNCHANGED db2app
       \/ /\ handle[t] = "open"
          /\ db2app[t] = <<>>
          /\ db2app' = [db2app EXCEPT ![t] = <<pending[t]>>]
          /\ thread' = [thread EXCEPT ![t] = After(@)]
    /\ pending' = [pending EXCEPT ![t] = None]
    /\ UNCHANGED <<bounds, handle, app2db, call, calls, asked, History, told>>

\* send_callbacks(callback_collector)
notify(t) ==
    /\ thread[t] = "notify"
    /\ thread' = [thread EXCEPT ![t] = "done"]
    /\ notified' = [notified EXCEPT ![t] = events[t]]
    /\ UNCHANGED <<bounds, handle, app2db, db2app, pending, call, calls, asked, events, failed,
                   committed, told>>

\* The channel of payloads is disconnected and the transaction dropped.
hangup(t) ==
    /\ thread[t] = "loop"
    /\ handle[t] = "dropped"
    /\ app2db[t] = <<>>
    /\ thread' = [thread EXCEPT ![t] = "done"]
    /\ UNCHANGED <<bounds, handle, app2db, db2app, pending, call, calls, asked, History, told>>

Handler(t) ==
    \/ \E ok \in BOOLEAN : start(t, ok) \/ query(t, ok) \/ commit(t, ok)
    \/ abort(t) \/ reply(t) \/ notify(t) \/ hangup(t)

Next ==
    \/ \E t \in Tx : multi_transaction(t) \/ drop(t) \/ Handler(t)
    \/ \E c \in Caller, t \in Tx, kind \in {"query", "commit", "abort"} : Call(c, t, kind)
    \/ \E c \in Caller : send(c) \/ recv(c)

Spec ==
    /\ Init /\ [][Next]_vars
    /\ \A t \in Tx : WF_vars(Handler(t))
    /\ \A c \in Caller : WF_vars(send(c)) /\ WF_vars(recv(c))

-----------------------------------------------------------------------------
(* Properties                                                              *)

Kind == {"query", "commit", "abort"}
Payload == [kind : Kind, id : Nat]
Result == [id : Nat, ok : BOOLEAN]
CallOf == [tx : Tx, kind : Kind, id : Nat, phase : {"send", "recv"}]

\* None is nothing that a caller does and no result, and the bounds are bounds.
ASSUME MultiAssumption ==
    /\ None \notin CallOf \cup Result
    /\ Cases \subseteq [shared : BOOLEAN, tx : SUBSET Tx, callers : SUBSET Caller, calls : Nat]

TypeOK ==
    /\ bounds \in Cases
    /\ handle \in [Tx -> {"unborn", "open", "dropped"}]
    /\ thread \in [Tx -> {"none", "waiting", "loop", "query", "commit", "abort", "notify", "done"}]
    /\ app2db \in [Tx -> Seq(Payload)] /\ db2app \in [Tx -> Seq(Result)]
    /\ \A t \in Tx : Len(app2db[t]) <= 1 /\ Len(db2app[t]) <= 1
    /\ pending \in [Tx -> Result \cup {None}]
    /\ call \in [Caller -> CallOf \cup {None}]
    /\ calls \in Nat /\ calls <= bounds.calls
    /\ events \in [Tx -> SUBSET Nat] /\ notified \in [Tx -> SUBSET Nat]
    /\ asked \subseteq Tx /\ failed \subseteq Tx /\ committed \subseteq Tx
    /\ \A a \in told : a.tx \in Tx /\ a.got \in Nat

\* While the calls on a handle do not overlap, a caller gets the answer to its
\* own payload or an error.
OwnAnswer == ~bounds.shared => \A a \in told : a.got # 0 => a.got = a.id

\* A result is handed out once: no two calls get the answer to one payload.
AnsweredOnce == \A a, b \in told : a.got = b.got /\ a.got # 0 => a = b

\* A transaction is committed only if someone asked for it, and abort answers
\* Ok only for a transaction that is not committed while calls do not overlap.
OnlyOnRequest ==
    /\ committed \subseteq asked
    /\ ~bounds.shared => \A a \in told : a.kind = "abort" /\ a.ok => a.tx \notin committed

\* Callbacks are told all that a committed transaction wrote, even if its handle
\* is gone by the time of the answer.
NotifiedAll == \A t \in committed : thread[t] = "done" => notified[t] = events[t]

\* Where the id of a payload is while it is on its way: with a caller that is
\* about to send it, in a channel, with the handler, or in an answer.
Holds(place, x, id) ==
    \/ place = "send" /\ x \in Caller /\ call[x] # None /\ call[x].phase = "send" /\ call[x].id = id
    \/ place = "app2db" /\ x \in Tx /\ app2db[x] # <<>> /\ Head(app2db[x]).id = id
    \/ place = "pending" /\ x \in Tx /\ pending[x] # None /\ pending[x].id = id
    \/ place = "db2app" /\ x \in Tx /\ db2app[x] # <<>> /\ Head(db2app[x]).id = id
    \/ place = "told" /\ x \in told /\ x.got = id
Place == {"send", "app2db", "pending", "db2app", "told"}
Holder == Caller \cup Tx \cup told

\* An id is in one place; those to come are in none.
OnePlace ==
    \A p \in Place, x \in Holder, i \in 1..bounds.calls : Holds(p, x, i) =>
       \A q \in Place, y \in Holder : Holds(q, y, i) => p = q /\ x = y
IdsInv ==
    /\ \A c \in Caller : call[c] # None => call[c].id \in 1..calls
    /\ \A t \in Tx :
         /\ app2db[t] # <<>> => Head(app2db[t]).id \in 1..calls
         /\ pending[t] # None => pending[t].id \in 1..calls
         /\ db2app[t] # <<>> => Head(db2app[t]).id \in 0..calls
    /\ \A a \in told : a.got \in 0..calls

\* The stages of the handler.
StageInv ==
    /\ \A c \in Caller : call[c] # None => handle[call[c].tx] = "open"
    /\ \A t \in Tx :
         /\ handle[t] = "unborn" <=> thread[t] = "none"
         /\ pending[t] # None <=> thread[t] \in Kind
         /\ thread[t] = "none" => app2db[t] = <<>>
         /\ thread[t] \in {"none", "waiting"} => db2app[t] = <<>>
         /\ db2app[t] # <<>> /\ Head(db2app[t]).id = 0 => thread[t] = "done" /\ t \notin committed
         /\ t \in committed => thread[t] \in {"commit", "notify", "done"}

\* A commit is asked for before it is on its way.
AskedInv ==
    /\ \A c \in Caller : call[c] # None /\ call[c].kind = "commit" => call[c].tx \in asked
    /\ \A t \in Tx : app2db[t] # <<>> /\ Head(app2db[t]).kind = "commit" => t \in asked

\* While calls do not overlap, what is on its way on a handle is of the call that
\* waits for it.
Waiting(c, t, id) ==
    call[c] # None /\ call[c].tx = t /\ call[c].phase = "recv" /\ call[c].id = id
OneCall == \A c, d \in Caller : call[c] # None /\ call[d] # None /\ call[c].tx = call[d].tx => c = d
OwnOn(t) ==
    /\ app2db[t] # <<>> /\ thread[t] # "done" =>
         \E c \in Caller : /\ Waiting(c, t, Head(app2db[t]).id)
                           /\ call[c].kind = Head(app2db[t]).kind
    /\ pending[t] # None =>
         \E c \in Caller : Waiting(c, t, pending[t].id) /\ call[c].kind = thread[t]
    /\ db2app[t] # <<>> /\ Head(db2app[t]).id # 0 =>
         \E c \in Caller : /\ Waiting(c, t, Head(db2app[t]).id)
                           /\ call[c].kind = "abort" => thread[t] = "done" /\ t \notin committed
OwnInv ==
    /\ OneCall
    /\ \A t \in Tx : handle[t] = "open" => OwnOn(t)
    /\ \A a \in told : a.kind = "abort" /\ a.ok => thread[a.tx] = "done" /\ a.tx \notin committed
    /\ OwnAnswer

\* The inductive invariant.
IInv ==
    /\ TypeOK /\ OnePlace /\ IdsInv /\ StageInv /\ AskedInv
    /\ committed \subseteq asked
    /\ ~bounds.shared => OwnInv
    /\ NotifiedAll

\* Answers of a multi-transaction go to the calls they belong to, once; it is
\* committed only on request, and callbacks are told all that it wrote.
MultiTxAnswers == IInv /\ OwnAnswer /\ AnsweredOnce /\ OnlyOnRequest

\* "Commits the multi-transaction": a commit that returns Ok has committed.
CommitTold == \A a \in told : a.kind = "commit" /\ a.ok => a.tx \in committed

\* "... or when a query is not successful": a transaction with a failed query
\* is never committed.
FailedEnds == failed \cap committed = {}

\* "Register callback channel to receive changes when the requested relation
\* are successfully committed."
NotifiedCommitted == \A t \in Tx : notified[t] # {} => t \in committed
=============================================================================
