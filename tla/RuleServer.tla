----------------------------- MODULE RuleServer -----------------------------
(***************************************************************************)
(* Fixed rules that a client of the server computes:                       *)
(* rule_with_channel of retia-core/src/fixed_rule/mod.rs,                  *)
(* register_fixed_rule and unregister_fixed_rule of                        *)
(* retia-core/src/runtime/db.rs, and register_rule, post_rule_result,      *)
(* post_rule_err of retia-bin/src/server.rs.                               *)
(*                                                                         *)
(* A query that applies such a rule hands its inputs and the sending end   *)
(* of a channel of its own to the task of the registration (a channel of   *)
(* capacity zero), and waits for its answer whatever happens to the query. *)
(* The task gives the request an id, forwards it to the event stream of    *)
(* the client (a channel of capacity one), and only then keeps the sending *)
(* end under the id, where the answer that the client posts finds it.  The *)
(* task is a job of the rayon pool.  Everything that the client is told is *)
(* the id and the inputs, which are named here by the query they are of.   *)
(***************************************************************************)
EXTENDS Naturals, Sequences, FiniteSets

CONSTANTS
    Reg,       \* requests to register a rule
    Asker,     \* queries
    Absent,    \* no registration, no request, no answer
    Settings,  \* records [name, asks, workers]: see the variables
    MaxPosts   \* bound: answers that a client posts for one id

VARIABLES
    setting,      \* the rule each registration is for, the rule each query applies,
                  \* and the threads of the pool
    fixed_rules,  \* [the name of a rule -> the registration it comes from, or Absent]
    stream,       \* "none" | "refused" | "unread" | "open" | "gone"
    task,         \* "none" | "spawned" | "idle" | "forward" | "insert" | "ended"
    in_hand,      \* what the task has in its hands: [id, query]
    down,         \* the channel to the stream
    shown,        \* the requests that the client has seen
    rule_counter,
    rule_senders, \* [id, query]: whom an answer is for
    asking,       \* [phase, rule, holds, got]; phase: "idle" | "send" | "recv" | "done"
    posted,       \* [id -> answers posted for it]
    missed        \* ids whose first answer came before the sending end was kept

ruleVars == <<setting, fixed_rules, stream, task, in_hand, down, shown, rule_counter,
              rule_senders, asking, posted, missed>>

Names == {setting.name[r] : r \in Reg}

\* What a task and a client pass on: the query the inputs are of, under its id.
Request == [id : Nat, query : Asker]

\* How a query can fail.
Failure == {"unknown_rule", "no_downstream", "malformed", "cancelled"}

\* Rules have names, every rule that is asked for is a rule that some client
\* registers, and what is not there differs from what is.
ASSUME RulesAssumption ==
    /\ IsFiniteSet(Reg) /\ IsFiniteSet(Asker)
    /\ Absent \notin Reg \cup Asker \cup Request \cup Failure
    /\ Asker \cap Failure = {}
    /\ \A x \in Settings :
         /\ DOMAIN x.name = Reg /\ DOMAIN x.asks = Asker
         /\ \A q \in Asker : \E r \in Reg : x.asks[q] = x.name[r]
         /\ x.workers \in Nat

RulesInit ==
    /\ setting \in Settings
    /\ fixed_rules = [n \in Names |-> Absent]
    /\ stream = [r \in Reg |-> "none"]
    /\ task = [r \in Reg |-> "none"]
    /\ in_hand = [r \in Reg |-> Absent]
    /\ down = [r \in Reg |-> <<>>]
    /\ shown = [r \in Reg |-> {}]
    /\ rule_counter = 0
    /\ rule_senders = {}
    /\ asking = [q \in Asker |-> [phase |-> "idle", rule |-> Absent, holds |-> {}, got |-> Absent]]
    /\ posted = [i \in 0..Cardinality(Asker) - 1 |-> 0]
    /\ missed = {}

Client == <<down, shown, posted, missed>>

-----------------------------------------------------------------------------
(* The registry of fixed rules                                             *)

register_fixed_rule(n, r) ==
    /\ fixed_rules[n] = Absent
    /\ fixed_rules' = [fixed_rules EXCEPT ![n] = r]

\* Whoever registered it.
unregister_fixed_rule(n) == fixed_rules' = [fixed_rules EXCEPT ![n] = Absent]

register_rule(r) ==
    LET n == setting.name[r]
    IN  /\ stream[r] = "none"
        /\ \/ /\ register_fixed_rule(n, r)
              /\ task' = [task EXCEPT ![r] = "spawned"]
              /\ stream' = [stream EXCEPT ![r] = "unread"]
           \/ /\ fixed_rules[n] # Absent
              /\ stream' = [stream EXCEPT ![r] = "refused"]
              /\ UNCHANGED <<fixed_rules, task>>
        /\ UNCHANGED <<setting, in_hand, rule_counter, rule_senders, asking, Client>>

\* The first poll of the stream makes the guard that unregisters the rule.
poll(r) ==
    /\ stream[r] = "unread"
    /\ stream' = [stream EXCEPT ![r] = "open"]
    /\ UNCHANGED <<setting, fixed_rules, task, in_hand, rule_counter, rule_senders, asking, Client>>

\* The client goes away: the stream is dropped with its receiver and, if it was
\* ever polled, with its guard.
disconnect(r) ==
    /\ stream[r] \in {"unread", "open"}
    /\ stream' = [stream EXCEPT ![r] = "gone"]
    /\ down' = [down EXCEPT ![r] = <<>>]
    /\ IF stream[r] = "open"
         THEN unregister_fixed_rule(setting.name[r]) ELSE UNCHANGED fixed_rules
    /\ UNCHANGED <<setting, task, in_hand, rule_counter, rule_senders, asking, shown, posted, missed>>

-----------------------------------------------------------------------------
(* Queries                                                                 *)

\* run_script: the script keeps every rule that is registered when it is parsed
\* until it is over, and fails if the one it names is not.
run_script(q) ==
    LET n == setting.asks[q]
    IN  /\ asking[q].phase = "idle"
        /\ asking' = [asking EXCEPT ![q] =
             IF fixed_rules[n] = Absent
               THEN [phase |-> "done", rule |-> Absent, holds |-> {}, got |-> "unknown_rule"]
               ELSE [phase |-> "send", rule |-> fixed_rules[n], got |-> Absent,
                     holds |-> {fixed_rules[m] : m \in Names} \ {Absent}]]
        /\ UNCHANGED <<setting, fixed_rules, stream, task, in_hand, rule_counter, rule_senders, Client>>

\* SimpleFixedRule::run returns: the rules of the script are dropped.
Finish(q, got) ==
    asking' = [asking EXCEPT ![q] = [@ EXCEPT !.phase = "done", !.holds = {}, !.got = got]]

-----------------------------------------------------------------------------
(* The task of a registration                                              *)

Running == {r \in Reg : task[r] \in {"idle", "forward", "insert"}}

start_task(r) ==
    /\ task[r] = "spawned"
    /\ Cardinality(Running) < setting.workers
    /\ task' = [task EXCEPT ![r] = "idle"]
    /\ UNCHANGED <<setting, fixed_rules, stream, in_hand, rule_counter, rule_senders, asking, Client>>

\* db2app_sender.send meets the loop of the task, which takes the next id.
take_request(r) ==
    /\ task[r] = "idle"
    /\ \E q \in Asker :
         /\ asking[q].phase = "send"
         /\ asking[q].rule = r
         /\ asking' = [asking EXCEPT ![q].phase = "recv"]
         /\ in_hand' = [in_hand EXCEPT ![r] = [id |-> rule_counter, query |-> q]]
    /\ rule_counter' = rule_counter + 1
    /\ task' = [task EXCEPT ![r] = "forward"]
    /\ UNCHANGED <<setting, fixed_rules, stream, rule_senders, Client>>

\* down_sender.blocking_send
forward(r) ==
    /\ task[r] = "forward"
    /\ \/ /\ stream[r] # "gone"
          /\ down[r] = <<>>
          /\ down' = [down EXCEPT ![r] = <<in_hand[r]>>]
          /\ task' = [task EXCEPT ![r] = "insert"]
          /\ UNCHANGED <<in_hand, asking>>
       \/ /\ stream[r] = "gone"
          /\ Finish(in_hand[r].query, "no_downstream")
          /\ in_hand' = [in_hand EXCEPT ![r] = Absent]
          /\ task' = [task EXCEPT ![r] = "idle"]
          /\ UNCHANGED down
    /\ UNCHANGED <<setting, fixed_rules, stream, rule_counter, rule_senders, shown, posted, missed>>

insert(r) ==
    /\ task[r] = "insert"
    /\ rule_senders' = rule_senders \cup {in_hand[r]}
    /\ in_hand' = [in_hand EXCEPT ![r] = Absent]
    /\ task' = [task EXCEPT ![r] = "idle"]
    /\ UNCHANGED <<setting, fixed_rules, stream, rule_counter, asking, Client>>

\* The loop ends when nobody has the rule any more.
Dropped(r) ==
    /\ \A n \in Names : fixed_rules[n] # r
    /\ \A q \in Asker : r \notin asking[q].holds
end(r) ==
    /\ task[r] = "idle"
    /\ Dropped(r)
    /\ task' = [task EXCEPT ![r] = "ended"]
    /\ UNCHANGED <<setting, fixed_rules, stream, in_hand, rule_counter, rule_senders, asking, Client>>

-----------------------------------------------------------------------------
(* The client                                                              *)

\* An event of the stream.
yield(r) ==
    /\ stream[r] = "open"
    /\ down[r] # <<>>
    /\ shown' = [shown EXCEPT ![r] = @ \cup {Head(down[r])}]
    /\ down' = [down EXCEPT ![r] = <<>>]
    /\ UNCHANGED <<setting, fixed_rules, stream, task, in_hand, rule_counter, rule_senders, asking,
                   posted, missed>>

\* Mutant of Taken: the sending end stays where it is.
Taken_kept(e) == rule_senders' = rule_senders

\* rule_senders.remove
Taken(e) == rule_senders' = rule_senders \ {e}

\* post_rule_result, post_rule_err: an answer, made from the inputs that came
\* with the id, goes to the sending end kept under the id, if there is one.
post(r, kind) ==
    \E e \in shown[r] :
      /\ posted[e.id] < MaxPosts
      /\ posted' = [posted EXCEPT ![e.id] = @ + 1]
      /\ \/ \E w \in rule_senders :
              /\ w.id = e.id
              /\ Taken(w)
              /\ Finish(w.query, IF kind = "rows" THEN e.query ELSE kind)
              /\ UNCHANGED missed
         \/ /\ \A w \in rule_senders : w.id # e.id
            /\ missed' = IF posted[e.id] = 0 THEN missed \cup {e.id} ELSE missed
            /\ UNCHANGED <<rule_senders, asking>>
      /\ UNCHANGED <<setting, fixed_rules, stream, task, in_hand, rule_counter, down, shown>>

Task(r) == start_task(r) \/ take_request(r) \/ forward(r) \/ insert(r) \/ end(r)

\* What the client does while it is connected: it reads, and answers once.
Serve(r) == poll(r) \/ yield(r) \/ (stream[r] = "open" /\ post(r, "rows"))

RulesNext ==
    \/ \E r \in Reg :
         \/ register_rule(r) \/ disconnect(r) \/ Task(r) \/ poll(r) \/ yield(r)
         \/ \E kind \in {"rows", "malformed", "cancelled"} : post(r, kind)
    \/ \E q \in Asker : run_script(q)

\* The tasks go on, and a client that is connected reads its stream and answers.
RulesSpec == RulesInit /\ [][RulesNext]_ruleVars /\ \A r \in Reg : WF_ruleVars(Task(r)) /\ WF_ruleVars(Serve(r))

-----------------------------------------------------------------------------
(* Properties                                                              *)

Phase == {"idle", "send", "recv", "done"}
Asking == [phase : Phase, rule : Reg \cup {Absent}, holds : SUBSET Reg,
           got : Asker \cup Failure \cup {Absent}]

RulesTypeOK ==
    /\ setting \in Settings
    /\ fixed_rules \in [Names -> Reg \cup {Absent}]
    /\ stream \in [Reg -> {"none", "refused", "unread", "open", "gone"}]
    /\ task \in [Reg -> {"none", "spawned", "idle", "forward", "insert", "ended"}]
    /\ in_hand \in [Reg -> Request \cup {Absent}]
    /\ down \in [Reg -> Seq(Request)]
    /\ shown \in [Reg -> SUBSET Request]
    /\ rule_counter \in Nat
    /\ rule_senders \subseteq Request
    /\ asking \in [Asker -> Asking]
    /\ posted \in [0..Cardinality(Asker) - 1 -> Nat]

\* The queries whose request a task has taken.
Requested == {q \in Asker : asking[q].rule # Absent /\ asking[q].phase \in {"recv", "done"}}

\* The task has a request in its hands from when it takes it to when it keeps it;
\* the channel has room for one; no more tasks run than there are threads; and
\* as many ids were given as queries were taken.
Stages ==
    /\ \A r \in Reg :
         /\ in_hand[r] # Absent <=> task[r] \in {"forward", "insert"}
         /\ Len(down[r]) <= 1
         /\ stream[r] \in {"none", "refused"} => task[r] = "none"
    /\ Cardinality(Running) <= setting.workers
    /\ rule_counter = Cardinality(Requested)

\* The requests whose sending end somebody has, and all that are still somewhere.
Kept == rule_senders \cup ({in_hand[r] : r \in Reg} \ {Absent})
Issued == Kept \cup UNION {shown[r] \cup {down[r][k] : k \in 1..Len(down[r])} : r \in Reg}

\* An id is never given twice, whatever became of the request it was given to.
IdsOnce ==
    /\ \A e \in Issued : e.id < rule_counter
    /\ \A d, e \in Issued : d.id = e.id => d = e

\* A query that waits for its answer has its sending end in one place; and what
\* it gets is made from its own inputs.
OwnAnswers ==
    /\ \A q \in Asker :
         /\ asking[q].phase = "recv" <=> \E e \in Kept : e.query = q
         /\ asking[q].got \in Asker => asking[q].got = q
    /\ \A d, e \in Kept : d.query = e.query => d = e
    /\ \A r \in Reg : /\ in_hand[r] \notin rule_senders
                      /\ \A p \in Reg \ {r} : in_hand[p] = in_hand[r] => in_hand[r] = Absent

\* A rule stays registered as long as its stream is read, whatever other streams
\* for the same name do, and the task of a rule that is registered, or that a
\* running query has, never ends.
StaysRegistered ==
    /\ \A r \in Reg :
         /\ stream[r] \in {"unread", "open"} => fixed_rules[setting.name[r]] = r
         /\ task[r] \in {"none", "ended"} => Dropped(r)
    /\ \A q \in Asker :
         asking[q].phase \in {"send", "recv"} => asking[q].rule \in asking[q].holds

\* A query that a client answers gets the answer to its own request, once; its
\* sending end is kept until then, and a rule stays registered while its client
\* reads (rule_with_channel, register_rule, post_rule_result).
RulesServed == RulesTypeOK /\ Stages /\ IdsOnce /\ OwnAnswers /\ StaysRegistered

\* The ways for a query to wait for ever, for nobody looks at its poison there:
\* the client went away with the request, or answered before the sending end was
\* kept (server.rs:599), or the task has no thread.
Stranded(q) ==
    \/ /\ asking[q].phase = "recv"
       /\ \E e \in rule_senders :
            e.query = q /\ (e.id \in missed \/ stream[asking[q].rule] = "gone")
    \/ /\ asking[q].phase = "send"
       /\ task[asking[q].rule] = "spawned"
       /\ Cardinality(Running) = setting.workers

\* The other queries come to an end.
Waits(q) == asking[q].phase \in {"send", "recv"} /\ ~Stranded(q)
Served == <>[](\A q \in Asker : ~Waits(q))
=============================================================================
