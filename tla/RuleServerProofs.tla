-------------------------- MODULE RuleServerProofs --------------------------
(***************************************************************************)
(* RulesServed for any number of registrations, queries, rules and         *)
(* workers.  It is inductive as it stands.  There is a lemma per action,   *)
(* and in each a step per conjunct; the lemmas on Issued and Kept say      *)
(* where a request can be, those on Finish what becomes of a query that    *)
(* is answered.                                                            *)
(***************************************************************************)
EXTENDS RuleServer, FiniteSetTheorems, TLAPS

\* The provers of every step that does not name its own.
USE SMTT(30), ZenonT(20)

\* A request that is somewhere is kept, shown, or on its way.
LEMMA IssuedIs ==
    ASSUME NEW e
    PROVE  /\ e \in Kept <=> \/ e \in rule_senders
                             \/ e # Absent /\ \E r \in Reg : e = in_hand[r]
           /\ e \in Issued <=> \/ e \in Kept
                               \/ \E r \in Reg : e \in shown[r]
                               \/ \E r \in Reg : \E k \in 1..Len(down[r]) : e = down[r][k]
  BY DEF Kept, Issued

\* A request that is somewhere is a request.
LEMMA IssuedType ==
    ASSUME RulesTypeOK
    PROVE  Issued \subseteq Request /\ Kept \subseteq Issued
  <1>1. \A r \in Reg : \A k \in 1..Len(down[r]) : down[r][k] \in Request
    BY DEF RulesTypeOK
  <1> QED
    BY <1>1, IssuedIs DEF RulesTypeOK

\* Where requests only go from one place to another, ids stay apart.
LEMMA IdsKept ==
    ASSUME IdsOnce, Issued' \subseteq Issued, rule_counter' = rule_counter
    PROVE  IdsOnce'
  BY DEF IdsOnce

\* The running tasks and the queries can be counted.
LEMMA FiniteRunning ==
    ASSUME RulesAssumption
    PROVE  /\ IsFiniteSet(Running) /\ Cardinality(Running) \in Nat
           /\ Cardinality(Asker) \in Nat
  BY FS_Subset, FS_CardinalityType DEF RulesAssumption, Running

\* Before anything is registered or asked.
LEMMA InitServed ==
    ASSUME RulesAssumption, RulesInit
    PROVE  RulesServed
  <1>1. RulesTypeOK
    BY FS_CardinalityType DEF RulesInit, RulesTypeOK, RulesAssumption, Names, Request, Phase, Asking
  <1>2. Running = {} /\ \A q \in Asker : asking[q].phase = "idle"
    BY DEF RulesInit, Running
  <1>3. Stages
    <2>1. Requested = {}
      BY <1>2 DEF Requested
    <2>2. Cardinality(Running) = 0 /\ setting.workers \in Nat
      BY <1>2, FS_EmptySet DEF RulesInit, RulesAssumption
    <2>3. \A r \in Reg : /\ in_hand[r] # Absent <=> task[r] \in {"forward", "insert"}
                         /\ Len(down[r]) <= 1
                         /\ stream[r] \in {"none", "refused"} => task[r] = "none"
      BY DEF RulesInit
    <2> QED
      BY <2>1, <2>2, <2>3, FS_EmptySet DEF Stages, RulesInit
  <1>4. Issued = {} /\ Kept = {}
    BY DEF RulesInit, Issued, Kept
  <1>5. IdsOnce /\ OwnAnswers
    BY <1>2, <1>4 DEF IdsOnce, OwnAnswers, RulesInit, RulesAssumption
  <1>6. StaysRegistered
    BY DEF StaysRegistered, RulesInit, Dropped, RulesAssumption
  <1> QED
    BY <1>1, <1>3, <1>5, <1>6 DEF RulesServed

\* What a step leaves alone when it does not touch requests, queries or threads.
LEMMA StagesKept ==
    ASSUME RulesServed,
           Running' = Running, Requested' = Requested, rule_counter' = rule_counter,
           setting' = setting,
           \A r \in Reg : /\ in_hand'[r] # Absent <=> task'[r] \in {"forward", "insert"}
                          /\ Len(down'[r]) <= 1
                          /\ stream'[r] \in {"none", "refused"} => task'[r] = "none"
    PROVE  Stages'
  BY DEF RulesServed, Stages

\* register_rule: the name had no rule, so no other stream loses its own; or it is refused.
LEMMA RegisterServed ==
    ASSUME RulesAssumption, RulesServed, NEW r \in Reg, register_rule(r)
    PROVE  RulesServed'
  <1>n. PICK n : n = setting.name[r]
    OBVIOUS
  <1>0. n \in Names /\ Names' = Names /\ setting' = setting
    BY <1>n DEF register_rule, Names
  <1>1. /\ stream[r] = "none" /\ task[r] = "none"
        /\ UNCHANGED <<setting, in_hand, rule_counter, rule_senders, asking, down, shown, posted>>
        /\ \/ /\ fixed_rules[n] = Absent
              /\ fixed_rules' = [fixed_rules EXCEPT ![n] = r]
              /\ task' = [task EXCEPT ![r] = "spawned"]
              /\ stream' = [stream EXCEPT ![r] = "unread"]
           \/ /\ UNCHANGED <<fixed_rules, task>>
              /\ stream' = [stream EXCEPT ![r] = "refused"]
    BY <1>n DEF register_rule, register_fixed_rule, Client, RulesServed, Stages
  <1>a. RulesTypeOK'
    <2>1. fixed_rules' \in [Names -> Reg \cup {Absent}]
      <3>1. fixed_rules \in [Names -> Reg \cup {Absent}]
        BY DEF RulesServed, RulesTypeOK
      <3> QED
        BY <1>0, <1>1, <3>1
    <2>2. /\ stream' \in [Reg -> {"none", "refused", "unread", "open", "gone"}]
          /\ task' \in [Reg -> {"none", "spawned", "idle", "forward", "insert", "ended"}]
      BY <1>1, Zenon DEF RulesServed, RulesTypeOK
    <2> QED
      BY <1>0, <1>1, <2>1, <2>2 DEF RulesServed, RulesTypeOK
  <1>2. Running' = Running /\ Requested' = Requested
    BY <1>1 DEF RulesServed, RulesTypeOK, Running, Requested
  <1>3. Stages'
    <2>1. \A p \in Reg : /\ in_hand'[p] # Absent <=> task'[p] \in {"forward", "insert"}
                         /\ Len(down'[p]) <= 1
                         /\ stream'[p] \in {"none", "refused"} => task'[p] = "none"
      <3> TAKE p \in Reg
      <3>1. /\ in_hand[p] # Absent <=> task[p] \in {"forward", "insert"}
            /\ Len(down[p]) <= 1
            /\ stream[p] \in {"none", "refused"} => task[p] = "none"
            /\ in_hand'[p] = in_hand[p] /\ down'[p] = down[p]
        BY <1>1 DEF RulesServed, Stages
      <3>2. \/ p # r /\ task'[p] = task[p] /\ stream'[p] = stream[p]
            \/ p = r /\ task'[p] = "spawned" /\ stream'[p] = "unread"
            \/ p = r /\ task'[p] = "none" /\ stream'[p] = "refused"
        BY <1>1 DEF RulesServed, RulesTypeOK
      <3> QED
        BY <1>1, <3>1, <3>2
    <2> QED
      BY <1>1, <1>2, <2>1, StagesKept
  <1>4. Issued' = Issued /\ Kept' = Kept
    BY <1>1 DEF Issued, Kept
  <1>5. IdsOnce' /\ OwnAnswers'
    BY <1>1, <1>4 DEF RulesServed, IdsOnce, OwnAnswers
  <1>6. StaysRegistered'
    <2>1. ASSUME NEW p \in Reg, stream'[p] \in {"unread", "open"}
          PROVE  fixed_rules'[setting.name[p]] = p
      <3>1. setting.name[p] \in Names
        BY DEF Names
      <3>2. p # r => fixed_rules[setting.name[p]] = p
        BY <1>1, <2>1 DEF RulesServed, RulesTypeOK, StaysRegistered
      <3> QED
        BY <1>n, <1>0, <1>1, <2>1, <3>1, <3>2 DEF RulesServed, RulesTypeOK, RulesAssumption
    <2>2. ASSUME NEW p \in Reg, task'[p] \in {"none", "ended"}
          PROVE  Dropped(p)'
      <3>1. Dropped(p) /\ (p = r => fixed_rules' = fixed_rules)
        BY <1>1, <2>2 DEF RulesServed, RulesTypeOK, StaysRegistered
      <3> QED
        BY <1>0, <1>1, <3>1 DEF Dropped, RulesServed, RulesTypeOK
    <2> QED
      BY <1>0, <1>1, <2>1, <2>2 DEF StaysRegistered, RulesServed
  <1> QED
    BY <1>a, <1>3, <1>5, <1>6 DEF RulesServed

\* poll: the stream is read from now on, and was registered before.
LEMMA PollServed ==
    ASSUME RulesAssumption, RulesServed, NEW r \in Reg, poll(r)
    PROVE  RulesServed'
  <1>0. Names' = Names
    BY DEF poll, Names
  <1>1. RulesTypeOK'
    BY <1>0 DEF poll, RulesServed, RulesTypeOK, Client
  <1>2. Running' = Running /\ Requested' = Requested
    BY Zenon DEF poll, Running, Requested
  <1>3. Stages'
    BY <1>2, StagesKept DEF poll, RulesServed, RulesTypeOK, Stages, Client
  <1>4. Issued' = Issued /\ Kept' = Kept
    BY DEF poll, Issued, Kept, Client
  <1>5. IdsOnce' /\ OwnAnswers'
    BY <1>4, Zenon DEF poll, RulesServed, IdsOnce, OwnAnswers
  <1>6. StaysRegistered'
    BY <1>0 DEF poll, RulesServed, RulesTypeOK, StaysRegistered, Dropped
  <1> QED
    BY <1>1, <1>3, <1>5, <1>6 DEF RulesServed

\* disconnect: only the rule of this stream goes, for no other stream of its name is read.
LEMMA DisconnectServed ==
    ASSUME RulesAssumption, RulesServed, NEW r \in Reg, disconnect(r)
    PROVE  RulesServed'
  <1> DEFINE n == setting.name[r]
  <1>0. n \in Names /\ Names' = Names /\ setting' = setting
    BY DEF disconnect, Names
  <1>1. /\ stream[r] \in {"unread", "open"}
        /\ stream' = [stream EXCEPT ![r] = "gone"]
        /\ down' = [down EXCEPT ![r] = <<>>]
        /\ fixed_rules' = fixed_rules \/ fixed_rules' = [fixed_rules EXCEPT ![n] = Absent]
        /\ UNCHANGED <<setting, task, in_hand, rule_counter, rule_senders, asking, shown, posted>>
    BY DEF disconnect, unregister_fixed_rule
  <1>a. RulesTypeOK'
    <2>1. fixed_rules' \in [Names -> Reg \cup {Absent}]
      BY <1>0, <1>1, Zenon DEF RulesServed, RulesTypeOK
    <2>2. /\ stream' \in [Reg -> {"none", "refused", "unread", "open", "gone"}]
          /\ down' \in [Reg -> Seq(Request)]
      BY <1>1 DEF RulesServed, RulesTypeOK
    <2> QED
      BY <1>0, <1>1, <2>1, <2>2 DEF RulesServed, RulesTypeOK
  <1>2. Running' = Running /\ Requested' = Requested
    BY Zenon DEF disconnect, Running, Requested
  <1>3. Stages'
    BY <1>2, StagesKept DEF disconnect, RulesServed, RulesTypeOK, Stages
  <1>4. Issued' \subseteq Issued /\ Kept' = Kept
    <2>1. \A p \in Reg : down'[p] = down[p] \/ down'[p] = <<>>
      BY DEF disconnect, RulesServed, RulesTypeOK
    <2>2. Kept' = Kept
      BY Zenon DEF disconnect, Kept
    <2> QED
      BY <2>1, <2>2 DEF disconnect, Issued
  <1>5. IdsOnce' /\ OwnAnswers'
    BY <1>4, IdsKept, Zenon DEF disconnect, RulesServed, OwnAnswers
  <1>6. StaysRegistered'
    <2>1. ASSUME NEW p \in Reg, stream'[p] \in {"unread", "open"}
          PROVE  fixed_rules'[setting.name[p]] = p
      <3>1. setting.name[p] \in Names
        BY DEF Names
      <3>2. p # r /\ fixed_rules[setting.name[p]] = p /\ fixed_rules[n] = r
        BY <1>1, <2>1, Zenon DEF RulesServed, RulesTypeOK, StaysRegistered
      <3> QED
        BY <1>0, <1>1, <3>1, <3>2, Zenon DEF RulesServed, RulesTypeOK
    <2>2. ASSUME NEW p \in Reg, task'[p] \in {"none", "ended"}
          PROVE  Dropped(p)'
      <3>1. Dropped(p)
        BY <1>1, <2>2 DEF RulesServed, RulesTypeOK, StaysRegistered
      <3> QED
        BY <1>0, <1>1, <3>1, Zenon DEF Dropped, RulesServed, RulesTypeOK, RulesAssumption
    <2> QED
      BY <1>0, <1>1, <2>1, <2>2, Zenon DEF StaysRegistered, RulesServed
  <1> QED
    BY <1>a, <1>3, <1>5, <1>6 DEF RulesServed

\* run_script: the query holds the rules it was parsed with, and has no request yet.
LEMMA RunServed ==
    ASSUME RulesAssumption, RulesServed, NEW q \in Asker, run_script(q)
    PROVE  RulesServed'
  <1> DEFINE n == setting.asks[q]
             held == {fixed_rules[m] : m \in Names} \ {Absent}
  <1>0. n \in Names /\ Names' = Names /\ setting' = setting
    <2>1. PICK r \in Reg : setting.asks[q] = setting.name[r]
      BY DEF RulesAssumption, RulesServed, RulesTypeOK
    <2> QED
      BY <2>1 DEF run_script, Names
  <1>1. held \subseteq Reg /\ (fixed_rules[n] # Absent => fixed_rules[n] \in held)
    BY <1>0 DEF RulesServed, RulesTypeOK
  <1>2. asking' = [asking EXCEPT ![q] =
             IF fixed_rules[n] = Absent
               THEN [phase |-> "done", rule |-> Absent, holds |-> {}, got |-> "unknown_rule"]
               ELSE [phase |-> "send", rule |-> fixed_rules[n], got |-> Absent, holds |-> held]]
    BY Zenon DEF run_script
  <1>3. \A p \in Asker : p # q => asking'[p] = asking[p]
    BY <1>2, Zenon DEF RulesServed, RulesTypeOK
  <1> HIDE DEF n, held
  <1>4. \/ fixed_rules[n] = Absent /\ asking'[q] = [phase |-> "done", rule |-> Absent, holds |-> {}, got |-> "unknown_rule"]
        \/ fixed_rules[n] # Absent /\ asking'[q] = [phase |-> "send", rule |-> fixed_rules[n], got |-> Absent, holds |-> held]
    BY <1>2, Zenon DEF RulesServed, RulesTypeOK
  <1>5. RulesTypeOK'
    <2>1. asking'[q] \in Asking
      <3>1. fixed_rules[n] \in Reg \cup {Absent}
        BY <1>0 DEF RulesServed, RulesTypeOK
      <3> HIDE DEF n, held
      <3> QED
        BY <1>1, <1>4, <3>1 DEF Asking, Phase, Failure
    <2> QED
      BY <1>0, <1>2, <2>1, Zenon DEF run_script, RulesServed, RulesTypeOK, Client
  <1>6. Running' = Running /\ Requested' = Requested
    <2>1. asking[q].phase = "idle" /\ UNCHANGED task
      BY DEF run_script
    <2>2. asking'[q].phase = "send" \/ asking'[q].rule = Absent
      BY <1>4
    <2>3. \A p \in Asker : p \in Requested' <=> p \in Requested
      BY <1>3, <2>1, <2>2 DEF Requested
    <2>4. Requested \subseteq Asker /\ Requested' \subseteq Asker
      BY Zenon DEF Requested
    <2> QED
      BY <2>1, <2>3, <2>4, Zenon DEF Running
  <1>7. Stages'
    BY <1>6, StagesKept DEF run_script, RulesServed, RulesTypeOK, Stages, Client
  <1>8. Issued' = Issued /\ Kept' = Kept
    <2>1. UNCHANGED <<rule_senders, in_hand, shown, down>>
      BY DEF run_script, Client
    <2> QED
      BY <2>1 DEF Issued, Kept
  <1>9. IdsOnce'
    BY <1>8, Zenon DEF run_script, RulesServed, IdsOnce
  <1>10. OwnAnswers'
    <2>1. /\ asking[q].phase # "recv" /\ asking'[q].phase # "recv"
          /\ asking'[q].got \notin Asker
      <3>1. asking[q].phase = "idle"
        BY DEF run_script
      <3>2. /\ asking'[q].phase \in {"send", "done"}
            /\ asking'[q].got \in {"unknown_rule", Absent}
        BY <1>4
      <3> QED
        BY <3>1, <3>2, Zenon DEF RulesAssumption, Failure
    <2> QED
      <3>1. UNCHANGED <<rule_senders, in_hand>>
        BY DEF run_script
      <3> QED
        BY <1>3, <1>8, <2>1, <3>1, Zenon DEF RulesServed, OwnAnswers
  <1>11. StaysRegistered'
    <2>1. \A r \in Reg : Dropped(r) => Dropped(r)'
      <3>1. UNCHANGED fixed_rules
        BY Zenon DEF run_script
      <3>2. asking'[q].holds = {} \/ asking'[q].holds = held
        BY <1>4
      <3> QED
        BY <1>0, <1>3, <3>1, <3>2 DEF Dropped, held
    <2> QED
      BY <1>0, <1>1, <1>3, <1>4, <2>1 DEF run_script, RulesServed, RulesTypeOK, StaysRegistered
  <1> QED
    BY <1>5, <1>7, <1>9, <1>10, <1>11, Zenon DEF RulesServed

\* start_task: one more thread, of those that are free.
LEMMA StartServed ==
    ASSUME RulesAssumption, RulesServed, NEW r \in Reg, start_task(r)
    PROVE  RulesServed'
  <1>1. /\ task[r] = "spawned" /\ Cardinality(Running) < setting.workers
        /\ task' = [task EXCEPT ![r] = "idle"]
        /\ UNCHANGED <<setting, fixed_rules, stream, in_hand, rule_counter, rule_senders, asking,
                       down, shown, posted>>
        /\ Names' = Names
    BY Zenon DEF start_task, Client, Names
  <1>2. RulesTypeOK'
    BY <1>1, Zenon DEF RulesServed, RulesTypeOK
  <1>3. Stages'
    <2>1. Running' = Running \cup {r} /\ r \notin Running
      BY <1>1 DEF Running, RulesServed, RulesTypeOK
    <2>2. Cardinality(Running') <= setting.workers
      <3>1. Cardinality(Running') = Cardinality(Running) + 1
        BY <2>1, FiniteRunning, FS_AddElement, Zenon
      <3>2. setting.workers \in Nat /\ Cardinality(Running) \in Nat
        BY FiniteRunning DEF RulesServed, RulesTypeOK, RulesAssumption
      <3> QED
        BY <1>1, <3>1, <3>2
    <2>3. Requested' = Requested
      BY <1>1, Zenon DEF Requested
    <2>4. \A p \in Reg : /\ in_hand'[p] # Absent <=> task'[p] \in {"forward", "insert"}
                         /\ Len(down'[p]) <= 1
                         /\ stream'[p] \in {"none", "refused"} => task'[p] = "none"
      BY <1>1, Zenon DEF RulesServed, RulesTypeOK, Stages
    <2> QED
      BY <1>1, <2>2, <2>3, <2>4, Zenon DEF RulesServed, Stages
  <1>4. Issued' = Issued /\ Kept' = Kept
    BY <1>1 DEF Issued, Kept
  <1>5. IdsOnce' /\ OwnAnswers'
    BY <1>1, <1>4, Zenon DEF RulesServed, IdsOnce, OwnAnswers
  <1>6. StaysRegistered'
    BY <1>1 DEF RulesServed, RulesTypeOK, StaysRegistered, Dropped
  <1> QED
    BY <1>2, <1>3, <1>5, <1>6 DEF RulesServed

\* end: nobody holds the rule of a task that ends.
LEMMA EndServed ==
    ASSUME RulesAssumption, RulesServed, NEW r \in Reg, end(r)
    PROVE  RulesServed'
  <1>1. /\ task[r] = "idle" /\ Dropped(r)
        /\ task' = [task EXCEPT ![r] = "ended"]
        /\ UNCHANGED <<setting, fixed_rules, stream, in_hand, rule_counter, rule_senders, asking,
                       down, shown, posted>>
        /\ Names' = Names
    BY Zenon DEF end, Client, Names
  <1>2. RulesTypeOK'
    BY <1>1, Zenon DEF RulesServed, RulesTypeOK
  <1>3. Stages'
    <2>1. Running' = Running \ {r} /\ r \in Running
      BY <1>1 DEF Running, RulesServed, RulesTypeOK
    <2>2. Cardinality(Running') <= setting.workers
      <3>1. Cardinality(Running') = Cardinality(Running) - 1
        BY <2>1, FiniteRunning, FS_RemoveElement, Zenon
      <3>2. setting.workers \in Nat /\ Cardinality(Running) \in Nat
        BY FiniteRunning DEF RulesServed, RulesTypeOK, RulesAssumption
      <3> QED
        BY <3>1, <3>2 DEF RulesServed, Stages
    <2>3. Requested' = Requested
      BY <1>1, Zenon DEF Requested
    <2>4. \A p \in Reg : /\ in_hand'[p] # Absent <=> task'[p] \in {"forward", "insert"}
                         /\ Len(down'[p]) <= 1
                         /\ stream'[p] \in {"none", "refused"} => task'[p] = "none"
      BY <1>1, Zenon DEF RulesServed, RulesTypeOK, Stages
    <2> QED
      BY <1>1, <2>2, <2>3, <2>4, Zenon DEF RulesServed, Stages
  <1>4. Issued' = Issued /\ Kept' = Kept
    BY <1>1 DEF Issued, Kept
  <1>5. IdsOnce' /\ OwnAnswers'
    BY <1>1, <1>4, Zenon DEF RulesServed, IdsOnce, OwnAnswers
  <1>6. StaysRegistered'
    BY <1>1 DEF RulesServed, RulesTypeOK, StaysRegistered, Dropped
  <1> QED
    BY <1>2, <1>3, <1>5, <1>6 DEF RulesServed

\* take_request: the id is new, for all others are below the counter.
LEMMA TakeServed ==
    ASSUME RulesAssumption, RulesServed, NEW r \in Reg, take_request(r)
    PROVE  RulesServed'
  <1>1. PICK q \in Asker : /\ asking[q].phase = "send" /\ asking[q].rule = r
                           /\ asking' = [asking EXCEPT ![q].phase = "recv"]
                           /\ in_hand' = [in_hand EXCEPT ![r] = [id |-> rule_counter, query |-> q]]
    BY Zenon DEF take_request
  <1> DEFINE new == [id |-> rule_counter, query |-> q]
  <1>2. /\ task[r] = "idle" /\ in_hand[r] = Absent
        /\ rule_counter' = rule_counter + 1
        /\ task' = [task EXCEPT ![r] = "forward"]
        /\ UNCHANGED <<setting, fixed_rules, stream, rule_senders, down, shown, posted>>
        /\ Names' = Names
    BY DEF take_request, Client, Names, RulesServed, Stages
  <1>3. /\ new \in Request /\ new.id = rule_counter /\ new.query = q /\ rule_counter \in Nat
        /\ new # Absent
    BY DEF Request, RulesServed, RulesTypeOK, RulesAssumption
  <1>4. /\ \A p \in Asker : p # q => asking'[p] = asking[p]
        /\ asking'[q].phase = "recv" /\ asking'[q].rule = r
        /\ asking'[q].holds = asking[q].holds /\ asking'[q].got = asking[q].got
    BY <1>1 DEF RulesServed, RulesTypeOK
  <1>5. in_hand'[r] = new /\ \A p \in Reg : p # r => in_hand'[p] = in_hand[p]
    BY <1>1, Zenon DEF RulesServed, RulesTypeOK
  <1>6. RulesTypeOK'
    <2>1. asking' \in [Asker -> Asking]
      <3>1. asking \in [Asker -> Asking]
        BY DEF RulesServed, RulesTypeOK
      <3>2. [asking[q] EXCEPT !.phase = "recv"] \in Asking
        BY <3>1 DEF Asking, Phase
      <3> QED
        BY <1>1, <3>1, <3>2, Zenon
    <2>2. in_hand' \in [Reg -> Request \cup {Absent}]
      BY <1>1, <1>3, Zenon DEF RulesServed, RulesTypeOK
    <2>3. /\ task' \in [Reg -> {"none", "spawned", "idle", "forward", "insert", "ended"}]
          /\ rule_counter' \in Nat
      BY <1>2 DEF RulesServed, RulesTypeOK
    <2>4. UNCHANGED <<setting, Names, fixed_rules, stream, rule_senders, down, shown, posted>>
      BY <1>2, Zenon
    <2> QED
      BY <2>1, <2>2, <2>3, <2>4 DEF RulesServed, RulesTypeOK
  <1> HIDE DEF new
  <1>7. Stages'
    <2>1. Running' = Running
      BY <1>2 DEF Running, RulesServed, RulesTypeOK
    <2>2. Requested' = Requested \cup {q} /\ q \notin Requested
      BY <1>1, <1>4, Zenon DEF Requested, RulesAssumption
    <2>3. IsFiniteSet(Requested)
      BY FS_Subset DEF Requested, RulesAssumption
    <2>4. rule_counter' = Cardinality(Requested')
      BY <1>2, <2>2, <2>3, FS_AddElement, Zenon DEF RulesServed, Stages
    <2>5. \A p \in Reg : /\ in_hand'[p] # Absent <=> task'[p] \in {"forward", "insert"}
                         /\ Len(down'[p]) <= 1
                         /\ stream'[p] \in {"none", "refused"} => task'[p] = "none"
      BY <1>2, <1>3, <1>5 DEF RulesServed, RulesTypeOK, Stages
    <2> QED
      BY <1>2, <2>1, <2>4, <2>5, Zenon DEF RulesServed, Stages
  <1>8. Kept' = Kept \cup {new}
    BY <1>2, <1>3, <1>5 DEF Kept
  <1>9. Issued' = Issued \cup {new}
    BY <1>2, <1>8 DEF Issued
  <1>10. IdsOnce'
    <2>1. \A e \in Issued : e.id \in Nat /\ e.id < rule_counter
      BY IssuedType, Zenon DEF RulesServed, IdsOnce, Request
    <2> QED
      BY <1>2, <1>3, <1>9, <2>1 DEF RulesServed, IdsOnce
  <1>11. OwnAnswers'
    <2>1. \A e \in Kept : e.query # q
      BY <1>1 DEF RulesServed, OwnAnswers
    <2>2. new \notin Kept
      BY <1>3, <2>1, Zenon
    <2>3. \A p \in Asker : /\ asking'[p].phase = "recv" <=> \E e \in Kept' : e.query = p
                           /\ asking'[p].got \in Asker => asking'[p].got = p
      BY <1>3, <1>4, <1>8 DEF RulesServed, OwnAnswers
    <2>4. \A d, e \in Kept' : d.query = e.query => d = e
      BY <1>3, <1>8, <2>1, Zenon DEF RulesServed, OwnAnswers
    <2>5. \A p \in Reg : in_hand[p] # new /\ new \notin rule_senders
      BY <1>3, <2>2, Zenon DEF Kept
    <2>6. \A p \in Reg : /\ in_hand'[p] \notin rule_senders'
                         /\ \A o \in Reg \ {p} : in_hand'[o] = in_hand'[p] => in_hand'[p] = Absent
      BY <1>2, <1>5, <2>5 DEF RulesServed, OwnAnswers
    <2> QED
      BY <2>3, <2>4, <2>6 DEF OwnAnswers
  <1>12. StaysRegistered'
    <2>1. \A p \in Reg : Dropped(p)' <=> Dropped(p)
      BY <1>2, <1>4 DEF Dropped
    <2>2. \A p \in Asker : asking'[p].phase \in {"send", "recv"} => asking'[p].rule \in asking'[p].holds
      BY <1>1, <1>4, Zenon DEF RulesServed, StaysRegistered
    <2> QED
      BY <1>2, <2>1, <2>2, Zenon DEF RulesServed, RulesTypeOK, StaysRegistered
  <1> QED
    BY <1>6, <1>7, <1>10, <1>11, <1>12 DEF RulesServed

\* A query of the record set whose phase and answer change is one again.
LEMMA FinishType ==
    ASSUME RulesTypeOK, NEW q \in Asker, NEW got \in Asker \cup Failure \cup {Absent}, Finish(q, got)
    PROVE  /\ asking' \in [Asker -> Asking]
           /\ \A p \in Asker : p # q => asking'[p] = asking[p]
           /\ asking'[q].phase = "done" /\ asking'[q].holds = {} /\ asking'[q].got = got
           /\ asking'[q].rule = asking[q].rule
  <1>1. asking \in [Asker -> Asking] /\ asking[q] \in Asking
    BY DEF RulesTypeOK
  <1>2. PICK a : a = [asking[q] EXCEPT !.phase = "done", !.holds = {}, !.got = got]
    OBVIOUS
  <1>3. /\ a \in Asking
        /\ a.phase = "done" /\ a.holds = {} /\ a.got = got /\ a.rule = asking[q].rule
    BY <1>1, <1>2, Zenon DEF Asking, Phase
  <1>4. asking' = [asking EXCEPT ![q] = a]
    BY <1>1, <1>2, Zenon DEF Finish
  <1> QED
    BY <1>1, <1>3, <1>4

\* A query that is done leaves the registrations that it had.
LEMMA FinishStays ==
    ASSUME RulesServed, NEW q \in Asker, NEW r \in Reg, NEW s \in {"idle", task[r]},
           task[r] \notin {"none", "ended"},
           UNCHANGED <<setting, fixed_rules, stream>>, task' = [task EXCEPT ![r] = s],
           \A p \in Asker : p # q => asking'[p] = asking[p],
           asking'[q].phase = "done", asking'[q].holds = {}
    PROVE  StaysRegistered'
  <1>1. Names' = Names
    BY Zenon DEF Names
  <1>2. \A p \in Reg : Dropped(p) => Dropped(p)'
    BY <1>1, Zenon DEF Dropped
  <1>3. \A p \in Reg : task'[p] \in {"none", "ended"} => task[p] \in {"none", "ended"}
    BY DEF RulesServed, RulesTypeOK
  <1> QED
    BY <1>2, <1>3 DEF RulesServed, StaysRegistered

\* A query whose request is answered has had its id.
LEMMA FinishRequested ==
    ASSUME NEW q \in Asker, asking[q].phase = "recv", asking'[q].phase = "done",
           asking'[q].rule = asking[q].rule, \A p \in Asker : p # q => asking'[p] = asking[p]
    PROVE  Requested' = Requested
  <1>1. \A p \in Asker : p \in Requested' <=> p \in Requested
    BY DEF Requested
  <1>2. Requested \subseteq Asker /\ Requested' \subseteq Asker
    BY Zenon DEF Requested
  <1> QED
    BY <1>1, <1>2

\* insert: the sending end goes from the hands of the task to its id.
LEMMA InsertServed ==
    ASSUME RulesAssumption, RulesServed, NEW r \in Reg, insert(r)
    PROVE  RulesServed'
  <1>1. /\ task[r] = "insert"
        /\ rule_senders' = rule_senders \cup {in_hand[r]}
        /\ in_hand' = [in_hand EXCEPT ![r] = Absent]
        /\ task' = [task EXCEPT ![r] = "idle"]
        /\ UNCHANGED <<setting, fixed_rules, stream, rule_counter, asking, down, shown, posted>>
        /\ Names' = Names
    BY Zenon DEF insert, Client, Names
  <1>2. in_hand[r] # Absent /\ in_hand[r] \in Request
    BY <1>1, Zenon DEF RulesServed, Stages, RulesTypeOK
  <1>3. in_hand'[r] = Absent /\ \A p \in Reg : p # r => in_hand'[p] = in_hand[p]
    BY <1>1, Zenon DEF RulesServed, RulesTypeOK
  <1>4. RulesTypeOK'
    BY <1>1, <1>2, Zenon DEF RulesServed, RulesTypeOK
  <1>5. Running' = Running /\ Requested' = Requested
    BY <1>1, Zenon DEF Running, Requested, RulesServed, RulesTypeOK
  <1>6. Stages'
    BY <1>1, <1>3, <1>5, StagesKept, Zenon DEF RulesServed, RulesTypeOK, Stages
  <1>7. Kept' = Kept
    <2>1. {in_hand[p] : p \in Reg} \ {Absent} = ({in_hand'[p] : p \in Reg} \ {Absent}) \cup {in_hand[r]}
      BY <1>2, <1>3
    <2> QED
      BY <1>1, <2>1, Zenon DEF Kept
  <1>8. Issued' = Issued
    BY <1>1, <1>7 DEF Issued
  <1>9. IdsOnce'
    BY <1>1, <1>8, Zenon DEF RulesServed, IdsOnce
  <1>10. OwnAnswers'
    <2>1. Absent \notin Request
      BY Zenon DEF RulesAssumption
    <2>2. Absent \notin rule_senders'
      BY <1>1, <1>2, <2>1, Zenon DEF RulesServed, RulesTypeOK
    <2>3. \A p \in Reg : /\ in_hand'[p] \notin rule_senders'
                         /\ \A o \in Reg \ {p} : in_hand'[o] = in_hand'[p] => in_hand'[p] = Absent
      BY <1>1, <1>2, <1>3, <2>2 DEF RulesServed, OwnAnswers
    <2> QED
      BY <1>1, <1>7, <2>3, Zenon DEF RulesServed, OwnAnswers
  <1>11. StaysRegistered'
    BY <1>1 DEF RulesServed, RulesTypeOK, StaysRegistered, Dropped
  <1> QED
    BY <1>4, <1>6, <1>9, <1>10, <1>11, Zenon DEF RulesServed

\* yield: the request goes from the channel to the client.
LEMMA YieldServed ==
    ASSUME RulesAssumption, RulesServed, NEW r \in Reg, yield(r)
    PROVE  RulesServed'
  <1>1. /\ down[r] # <<>>
        /\ shown' = [shown EXCEPT ![r] = @ \cup {Head(down[r])}]
        /\ down' = [down EXCEPT ![r] = <<>>]
        /\ UNCHANGED <<setting, fixed_rules, stream, task, in_hand, rule_counter, rule_senders,
                       asking, posted>>
        /\ Names' = Names
    BY Zenon DEF yield, Names
  <1>2. /\ down[r] \in Seq(Request) /\ Head(down[r]) = down[r][1] /\ Head(down[r]) \in Request
        /\ 1 \in 1..Len(down[r])
    BY <1>1 DEF RulesServed, RulesTypeOK
  <1>3. RulesTypeOK'
    <2>1. shown' \in [Reg -> SUBSET Request] /\ down' \in [Reg -> Seq(Request)]
      BY <1>1, <1>2 DEF RulesServed, RulesTypeOK
    <2> QED
      BY <1>1, <2>1, Zenon DEF RulesServed, RulesTypeOK
  <1>4. Running' = Running /\ Requested' = Requested
    BY <1>1, Zenon DEF Running, Requested
  <1>5. Stages'
    BY <1>1, <1>4, StagesKept DEF RulesServed, RulesTypeOK, Stages
  <1>6. Kept' = Kept
    BY <1>1, Zenon DEF Kept
  <1>7. Issued' \subseteq Issued
    <2> SUFFICES ASSUME NEW e \in Issued' PROVE e \in Issued
      BY Zenon
    <2>1. \/ e \in Kept'
          \/ \E p \in Reg : e \in shown'[p]
          \/ \E p \in Reg : \E k \in 1..Len(down'[p]) : e = down'[p][k]
      BY DEF Issued
    <2>2. CASE e \in Kept'
      BY <1>6, <2>2, IssuedIs, Zenon
    <2>3. CASE \E p \in Reg : e \in shown'[p]
      BY <1>1, <1>2, <2>3, IssuedIs DEF RulesServed, RulesTypeOK
    <2>4. CASE \E p \in Reg : \E k \in 1..Len(down'[p]) : e = down'[p][k]
      <3>1. PICK p \in Reg : \E k \in 1..Len(down'[p]) : e = down'[p][k]
        BY <2>4, Zenon
      <3>2. down'[p] = down[p]
        BY <1>1, <3>1 DEF RulesServed, RulesTypeOK
      <3> QED
        BY <3>1, <3>2, IssuedIs, Zenon
    <2> QED
      BY <2>1, <2>2, <2>3, <2>4, Zenon
  <1>8. IdsOnce' /\ OwnAnswers'
    BY <1>1, <1>6, <1>7, IdsKept, Zenon DEF RulesServed, OwnAnswers
  <1>9. StaysRegistered'
    BY <1>1, Zenon DEF RulesServed, StaysRegistered, Dropped
  <1> QED
    BY <1>3, <1>5, <1>8, <1>9 DEF RulesServed

\* When the sending end under an id leaves the place where it was kept and its
\* query is done, the others are where they were.
LEMMA FinishOwn ==
    ASSUME RulesAssumption, RulesServed, NEW w \in Kept, Kept' = Kept \ {w},
           asking[w.query].phase = "recv", asking'[w.query].phase = "done",
           asking'[w.query].got \in Asker => asking'[w.query].got = w.query,
           \A p \in Asker : p # w.query => asking'[p] = asking[p]
    PROVE  /\ \A q \in Asker :
                /\ asking'[q].phase = "recv" <=> \E e \in Kept' : e.query = q
                /\ asking'[q].got \in Asker => asking'[q].got = q
           /\ \A d, e \in Kept' : d.query = e.query => d = e
  <1>1. \A e \in Kept : e # w => e.query # w.query
    BY Zenon DEF RulesServed, OwnAnswers
  <1>2. ASSUME NEW q \in Asker
        PROVE  asking'[q].phase = "recv" <=> \E e \in Kept' : e.query = q
    <2>1. CASE q = w.query
      BY <1>1, <2>1, Zenon
    <2>2. CASE q # w.query
      <3>1. (\E e \in Kept : e.query = q) <=> (\E e \in Kept' : e.query = q)
        BY <2>2, Zenon
      <3> QED
        BY <2>2, <3>1 DEF RulesServed, OwnAnswers
    <2> QED
      BY <2>1, <2>2, Zenon
  <1>3. \A q \in Asker : asking'[q].got \in Asker => asking'[q].got = q
    BY DEF RulesServed, OwnAnswers
  <1> QED
    BY <1>2, <1>3 DEF RulesServed, OwnAnswers

\* forward: the request is on its way while its sending end stays with the task; or the
\* client is gone, and the query fails.
LEMMA ForwardServed ==
    ASSUME RulesAssumption, RulesServed, NEW r \in Reg, forward(r)
    PROVE  RulesServed'
  <1>1. /\ task[r] = "forward"
        /\ UNCHANGED <<setting, fixed_rules, stream, rule_counter, rule_senders, shown, posted>>
        /\ Names' = Names
    BY DEF forward, Names
  <1>2. in_hand[r] # Absent /\ in_hand[r] \in Request /\ in_hand[r] \in Kept
    BY <1>1, IssuedIs, Zenon DEF RulesServed, Stages, RulesTypeOK
  <1>3. CASE /\ down[r] = <<>>
             /\ down' = [down EXCEPT ![r] = <<in_hand[r]>>]
             /\ task' = [task EXCEPT ![r] = "insert"]
             /\ UNCHANGED <<in_hand, asking>>
    <2>1. RulesTypeOK'
      <3>1. down' \in [Reg -> Seq(Request)]
        BY <1>2, <1>3 DEF RulesServed, RulesTypeOK
      <3> QED
        BY <1>1, <1>3, <3>1, Zenon DEF RulesServed, RulesTypeOK
    <2>2. Running' = Running /\ Requested' = Requested
      BY <1>1, <1>3, Zenon DEF Running, Requested, RulesServed, RulesTypeOK
    <2>3. \A p \in Reg : \/ down'[p] = down[p]
                         \/ down'[p] = <<in_hand[r]>>
      BY <1>3, Zenon DEF RulesServed, RulesTypeOK
    <2>4. Stages'
      <3>1. \A p \in Reg : Len(down'[p]) <= 1
        <4>1. Len(<<in_hand[r]>>) = 1
          BY Zenon
        <4>2. \A p \in Reg : Len(down[p]) <= 1
          BY DEF RulesServed, Stages
        <4>3. \A p \in Reg : Len(down'[p]) = Len(down[p]) \/ Len(down'[p]) = 1
          BY <2>3, <4>1, Zenon
        <4>4. 1 <= 1
          OBVIOUS
        <4> QED
          BY <4>2, <4>3, <4>4, Zenon
      <3> QED
        BY <1>1, <1>3, <2>2, <3>1, StagesKept, Zenon DEF RulesServed, RulesTypeOK, Stages
    <2>5. Kept' = Kept
      BY <1>1, <1>3, Zenon DEF Kept
    <2>6. Issued' \subseteq Issued
      <3> SUFFICES ASSUME NEW e \in Issued' PROVE e \in Issued
        OBVIOUS
      <3>1. \/ e \in Kept'
            \/ \E p \in Reg : e \in shown'[p]
            \/ \E p \in Reg : \E k \in 1..Len(down'[p]) : e = down'[p][k]
        BY DEF Issued
      <3>2. CASE \E p \in Reg : \E k \in 1..Len(down'[p]) : e = down'[p][k]
        <4>0. PICK p \in Reg : \E k \in 1..Len(down'[p]) : e = down'[p][k]
          BY <3>2
        <4>1. PICK k \in 1..Len(down'[p]) : e = down'[p][k]
          BY <4>0, Zenon
        <4>2. CASE down'[p] = down[p]
          BY <4>1, <4>2, IssuedIs, Zenon
        <4>3. CASE down'[p] = <<in_hand[r]>>
          <5>1. Len(<<in_hand[r]>>) = 1 /\ <<in_hand[r]>>[1] = in_hand[r]
            BY Zenon
          <5>2. k = 1
            BY <4>1, <4>3, <5>1
          <5> QED
            BY <1>2, <4>1, <4>3, <5>1, <5>2, IssuedIs, Zenon
        <4> QED
          BY <2>3, <4>2, <4>3, Zenon
      <3> QED
        BY <1>1, <2>5, <3>1, <3>2, IssuedIs, Zenon
    <2>7. IdsOnce' /\ OwnAnswers'
      BY <1>1, <1>3, <2>5, <2>6, IdsKept, Zenon DEF RulesServed, OwnAnswers
    <2>8. StaysRegistered'
      BY <1>1, <1>3 DEF RulesServed, RulesTypeOK, StaysRegistered, Dropped
    <2> QED
      BY <2>1, <2>4, <2>7, <2>8 DEF RulesServed
  <1>4. CASE /\ Finish(in_hand[r].query, "no_downstream")
             /\ in_hand' = [in_hand EXCEPT ![r] = Absent]
             /\ task' = [task EXCEPT ![r] = "idle"]
             /\ UNCHANGED down
    <2>1. PICK q : q = in_hand[r].query
      BY Zenon
    <2>2. q \in Asker /\ asking[q].phase = "recv"
      BY <1>2, <2>1, Zenon DEF Request, RulesServed, OwnAnswers
    <2>3. /\ asking' \in [Asker -> Asking]
          /\ \A p \in Asker : p # q => asking'[p] = asking[p]
          /\ asking'[q].phase = "done" /\ asking'[q].holds = {} /\ asking'[q].got = "no_downstream"
          /\ asking'[q].rule = asking[q].rule
      BY <1>4, <2>1, <2>2, FinishType, Zenon DEF RulesServed, Failure
    <2>4. in_hand'[r] = Absent /\ \A p \in Reg : p # r => in_hand'[p] = in_hand[p]
      BY <1>4, Zenon DEF RulesServed, RulesTypeOK
    <2>5. RulesTypeOK'
      <3>1. /\ in_hand' \in [Reg -> Request \cup {Absent}]
            /\ task' \in [Reg -> {"none", "spawned", "idle", "forward", "insert", "ended"}]
        BY <1>4, Zenon DEF RulesServed, RulesTypeOK
      <3> QED
        BY <1>1, <1>4, <2>3, <3>1, Zenon DEF RulesServed, RulesTypeOK
    <2>6. Running' = Running
      BY <1>1, <1>4, Zenon DEF Running, RulesServed, RulesTypeOK
    <2>7. Requested' = Requested
      BY <2>2, <2>3, FinishRequested, Zenon
    <2>8. Stages'
      BY <1>1, <1>4, <2>4, <2>6, <2>7, StagesKept, Zenon DEF RulesServed, RulesTypeOK, Stages
    <2>9. Kept' = Kept \ {in_hand[r]}
      <3>1. in_hand[r] \notin rule_senders
        BY Zenon DEF RulesServed, OwnAnswers
      <3>2. \A p \in Reg : p # r => in_hand[p] # in_hand[r]
        BY <1>2, Zenon DEF RulesServed, OwnAnswers
      <3>3. {in_hand'[p] : p \in Reg} \ {Absent} = ({in_hand[p] : p \in Reg} \ {Absent}) \ {in_hand[r]}
        BY <2>4, <3>2
      <3> QED
        BY <1>1, <3>1, <3>3, Zenon DEF Kept
    <2>10. Issued' \subseteq Issued
      BY <1>1, <1>4, <2>9 DEF Issued
    <2>11. IdsOnce'
      BY <1>1, <2>10, IdsKept, Zenon DEF RulesServed
    <2>12. OwnAnswers'
      <3>1. asking'[q].got \notin Asker
        BY <2>3, Zenon DEF RulesAssumption, Failure
      <3>2. Absent \notin rule_senders
        BY Zenon DEF RulesServed, RulesTypeOK, RulesAssumption
      <3>3. \A p \in Reg : /\ in_hand'[p] \notin rule_senders'
                           /\ \A o \in Reg \ {p} : in_hand'[o] = in_hand'[p] => in_hand'[p] = Absent
        BY <1>1, <2>4, <3>2 DEF RulesServed, OwnAnswers
      <3> QED
        BY <1>2, <2>1, <2>2, <2>3, <2>9, <3>1, <3>3, FinishOwn, Zenon DEF OwnAnswers
    <2>13. StaysRegistered'
      BY <1>1, <1>4, <2>2, <2>3, FinishStays, Zenon
    <2> QED
      BY <2>5, <2>8, <2>11, <2>12, <2>13 DEF RulesServed
  <1> QED
    BY <1>3, <1>4, Zenon DEF forward

\* post_rule_result, post_rule_err: the answer goes to the query of its id, and only once.
LEMMA PostServed ==
    ASSUME RulesAssumption, RulesServed, NEW r \in Reg,
           NEW kind \in {"rows", "malformed", "cancelled"}, post(r, kind)
    PROVE  RulesServed'
  <1>1. PICK e \in shown[r] :
          /\ posted' = [posted EXCEPT ![e.id] = @ + 1]
          /\ \/ \E w \in rule_senders : /\ w.id = e.id
                                         /\ rule_senders' = rule_senders \ {w}
                                         /\ Finish(w.query, IF kind = "rows" THEN e.query ELSE kind)
             \/ UNCHANGED <<rule_senders, asking>>
          /\ UNCHANGED <<setting, fixed_rules, stream, task, in_hand, rule_counter, down, shown>>
    BY Zenon DEF post, Taken
  <1>a. Names' = Names
    BY <1>1, Zenon DEF Names
  <1>2. e \in Issued /\ e \in Request
    BY <1>1, IssuedIs, IssuedType, Zenon DEF RulesServed
  <1>3. posted' \in [0..Cardinality(Asker) - 1 -> Nat]
    <2>1. e.id \in Nat /\ e.id < rule_counter /\ rule_counter = Cardinality(Requested)
      BY <1>2, Zenon DEF Request, RulesServed, IdsOnce, Stages
    <2>2. Cardinality(Requested) <= Cardinality(Asker) /\ Cardinality(Requested) \in Nat
      BY FS_Subset, FS_CardinalityType, Zenon DEF Requested, RulesAssumption
    <2>3. Cardinality(Asker) \in Nat
      BY FiniteRunning, Zenon
    <2>4. e.id \in 0..Cardinality(Asker) - 1
      BY <2>1, <2>2, <2>3
    <2> QED
      BY <1>1, <2>4 DEF RulesServed, RulesTypeOK
  <1>4. Running' = Running
    BY <1>1, Zenon DEF Running
  <1>5. CASE UNCHANGED <<rule_senders, asking>>
    <2>1. RulesTypeOK'
      BY <1>1, <1>a, <1>3, <1>5, Zenon DEF RulesServed, RulesTypeOK
    <2>2. Requested' = Requested /\ Kept' = Kept
      BY <1>1, <1>5, Zenon DEF Requested, Kept
    <2>3. Issued' = Issued
      BY <1>1, <2>2 DEF Issued
    <2>4. Stages' /\ IdsOnce' /\ OwnAnswers'
      BY <1>1, <1>4, <1>5, <2>2, <2>3, Zenon DEF RulesServed, Stages, IdsOnce, OwnAnswers
    <2>5. StaysRegistered'
      BY <1>1, <1>a, <1>5, Zenon DEF RulesServed, StaysRegistered, Dropped
    <2> QED
      BY <2>1, <2>4, <2>5, Zenon DEF RulesServed
  <1>6. CASE \E w \in rule_senders :
               /\ w.id = e.id
               /\ rule_senders' = rule_senders \ {w}
               /\ Finish(w.query, IF kind = "rows" THEN e.query ELSE kind)
    <2>1. e \in rule_senders /\ rule_senders' = rule_senders \ {e} /\ e \in Kept
          /\ Finish(e.query, IF kind = "rows" THEN e.query ELSE kind)
      <3>1. PICK w \in rule_senders :
               /\ w.id = e.id
               /\ rule_senders' = rule_senders \ {w}
               /\ Finish(w.query, IF kind = "rows" THEN e.query ELSE kind)
        BY <1>6, Zenon
      <3>2. w \in Issued /\ w \in Kept
        BY IssuedIs, Zenon
      <3>3. w = e
        BY <1>2, <3>1, <3>2, Zenon DEF RulesServed, IdsOnce
      <3> QED
        BY <3>1, <3>2, <3>3, Zenon
    <2>2. PICK q, got : q = e.query /\ got = IF kind = "rows" THEN e.query ELSE kind
      BY Zenon
    <2>3. q \in Asker /\ asking[q].phase = "recv" /\ got \in Asker \cup Failure \cup {Absent}
          /\ (got \in Asker => got = q)
      BY <1>2, <2>1, <2>2, Zenon DEF Request, Failure, RulesServed, OwnAnswers, RulesAssumption
    <2>4. /\ asking' \in [Asker -> Asking]
          /\ \A p \in Asker : p # q => asking'[p] = asking[p]
          /\ asking'[q].phase = "done" /\ asking'[q].holds = {} /\ asking'[q].got = got
          /\ asking'[q].rule = asking[q].rule
      BY <2>1, <2>2, <2>3, FinishType DEF RulesServed
    <2>5. RulesTypeOK'
      BY <1>1, <1>a, <1>3, <2>1, <2>4, Zenon DEF RulesServed, RulesTypeOK
    <2>6. Requested' = Requested
      BY <2>3, <2>4, FinishRequested, Zenon
    <2>7. Stages'
      BY <1>1, <1>4, <2>6, Zenon DEF RulesServed, Stages
    <2>8. \A p \in Reg : in_hand[p] # e
      BY <2>1, Zenon DEF RulesServed, OwnAnswers
    <2>9. Kept' = Kept \ {e}
      BY <1>1, <2>1, <2>8 DEF Kept
    <2>10. Issued' \subseteq Issued
      BY <1>1, <2>9 DEF Issued
    <2>11. IdsOnce'
      BY <1>1, <2>10, IdsKept, Zenon DEF RulesServed
    <2>12. OwnAnswers'
      <3>1. \A p \in Reg : /\ in_hand'[p] \notin rule_senders'
                           /\ \A o \in Reg \ {p} : in_hand'[o] = in_hand'[p] => in_hand'[p] = Absent
        BY <1>1, <2>1 DEF RulesServed, OwnAnswers
      <3> QED
        BY <2>1, <2>2, <2>3, <2>4, <2>9, <3>1, FinishOwn DEF OwnAnswers
    <2>13. StaysRegistered'
      <3>1. \A p \in Reg : Dropped(p) => Dropped(p)'
        BY <1>1, <1>a, <2>4 DEF Dropped
      <3> QED
        BY <1>1, <2>4, <3>1, Zenon DEF RulesServed, StaysRegistered
    <2> QED
      BY <2>5, <2>7, <2>11, <2>12, <2>13, Zenon DEF RulesServed
  <1> QED
    BY <1>1, <1>5, <1>6

\* Whatever clients, tasks and queries do, ids are given once, a query that waits
\* has its sending end in one place and gets the answer to its own request, and a
\* rule stays registered while its client reads (rule_with_channel, register_rule,
\* post_rule_result): for any number of clients, queries and threads.
THEOREM RulesTheorem == RulesSpec => []RulesServed
  <1>1. RulesInit => RulesServed
    BY RulesAssumption, InitServed, Zenon
  <1>2. RulesServed /\ [RulesNext]_ruleVars => RulesServed'
    <2> SUFFICES ASSUME RulesServed, [RulesNext]_ruleVars PROVE RulesServed'
      BY Zenon
    <2>1. ASSUME NEW r \in Reg, Task(r) PROVE RulesServed'
      BY <2>1, RulesAssumption, StartServed, TakeServed, ForwardServed, InsertServed, EndServed, Zenon
         DEF Task
    <2>2. ASSUME NEW r \in Reg, register_rule(r) \/ disconnect(r) \/ poll(r) \/ yield(r)
          PROVE  RulesServed'
      BY <2>2, RulesAssumption, RegisterServed, DisconnectServed, PollServed, YieldServed, Zenon
    <2>3. ASSUME NEW r \in Reg, NEW kind \in {"rows", "malformed", "cancelled"}, post(r, kind)
          PROVE  RulesServed'
      BY <2>3, RulesAssumption, PostServed, Zenon
    <2>4. ASSUME NEW q \in Asker, run_script(q) PROVE RulesServed'
      BY <2>4, RulesAssumption, RunServed
    <2>5. CASE UNCHANGED ruleVars
      <3>1. UNCHANGED <<Names, Running, Requested, Kept>>
        BY <2>5, Zenon DEF ruleVars, Names, Running, Requested, Kept
      <3>2. UNCHANGED Issued
        BY <2>5, <3>1 DEF ruleVars, Issued
      <3>3. RulesTypeOK' /\ Stages' /\ IdsOnce' /\ OwnAnswers'
        BY <2>5, <3>1, <3>2, Zenon DEF ruleVars, RulesServed, RulesTypeOK, Stages, IdsOnce, OwnAnswers
      <3>4. StaysRegistered'
        BY <2>5, <3>1, Zenon DEF ruleVars, RulesServed, StaysRegistered, Dropped
      <3> QED
        BY <3>3, <3>4, Zenon DEF RulesServed
    <2> QED
      BY <2>1, <2>2, <2>3, <2>4, <2>5 DEF RulesNext
  <1> QED
    BY <1>1, <1>2, PTL DEF RulesSpec

=============================================================================
