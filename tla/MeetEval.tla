------------------------------ MODULE MeetEval ------------------------------
(***************************************************************************)
(* The semi-naive evaluation of a recursive rule with a meet aggregate:    *)
(* initial_rule_meet_eval and incremental_rule_meet_eval of retia-core/    *)
(* src/query/eval.rs over MeetAggrStore of runtime/temp_store.rs.          *)
(*                                                                         *)
(* A store maps a group to its aggregated value.  The rules of a program   *)
(* are given by their ground instances [head, body, weight]: from one      *)
(* value for each group of the body the instance derives a value of the    *)
(* group `head`.  `rule` is the number of occurrences of the recursive     *)
(* rule in its body: 0 (no recursion), 1, or 2 (ContainedRuleMultiplicity  *)
(* Many).  The order of the items in an epoch depends on the data: any.    *)
(***************************************************************************)
EXTENDS MeetAggr, FiniteSetsExt, TLC

CONSTANTS
    Program,        \* records [op, inst, ungrouped]
    Derive(_, _, _), \* op, weight and values of the body to the derived value
    Rounds          \* rounds of the naive evaluation that reach its fixpoint

VARIABLES
    program,   \* the program that is evaluated
    total, delta,  \* EpochStore: groups to values
    useTotal,      \* use_total_for_delta
    epoch,     \* 0 or 1, for every later one
    pending,   \* instances whose item has not been put in this epoch
    out,       \* out_store
    status     \* "run" | "merge" | "done"

vars == <<program, total, delta, useTotal, epoch, pending, out, status>>

NoGroups == [g \in {} |-> Null]
op == program.op
DeltaStore == IF useTotal THEN total ELSE delta
has_delta == DOMAIN DeltaStore # {}

\* The store an atom of the instance reads: a complete run reads the totals.
Reads(i) == IF epoch = 0 \/ Len(i.body) > 1 THEN total ELSE DeltaStore
Item(i) == Derive(op, i.weight, [n \in DOMAIN i.body |-> Reads(i)[i.body[n]]])

\* The instances whose body holds, of the rules that run in an epoch.
Firing(first, store, deltas) ==
    {i \in program.inst :
        IF i.body = <<>> THEN first
        ELSE /\ DOMAIN deltas # {}
             /\ \A n \in DOMAIN i.body :
                   i.body[n] \in DOMAIN IF Len(i.body) > 1 THEN store ELSE deltas}

Init ==
    /\ program \in Program
    /\ total = NoGroups
    /\ delta = NoGroups
    /\ useTotal = TRUE
    /\ epoch = 0
    /\ pending = {i \in program.inst : i.body = <<>>}
    /\ out = NoGroups
    /\ status = "run"

meet_put(i) ==
    /\ status = "run"
    /\ i \in pending
    /\ pending' = pending \ {i}
    /\ out' = IF i.head \in DOMAIN out
                THEN [out EXCEPT ![i.head] = update(op, @, Item(i)).val]
                ELSE (i.head :> Item(i)) @@ out
    /\ UNCHANGED <<program, total, delta, useTotal, epoch, status>>

\* The end of the rule set's run.  A rule without grouping has a row in any case.
finish ==
    /\ status = "run"
    /\ pending = {}
    /\ out' = IF epoch = 0 /\ out = NoGroups /\ program.ungrouped # Null
                THEN (program.ungrouped :> init_val(op)) ELSE out
    /\ status' = "merge"
    /\ UNCHANGED <<program, total, delta, useTotal, epoch, pending>>

\* MeetAggrStore::merge_in: the groups that are new or that an update changed.
Merged ==
    [g \in DOMAIN total \cup DOMAIN out |->
        IF g \notin DOMAIN out THEN total[g]
        ELSE IF g \notin DOMAIN total THEN out[g]
        ELSE update(op, total[g], out[g]).val]

\* Mutant of ChangedGroups: only new groups are in the delta.
ChangedGroups_new_only == DOMAIN out \ DOMAIN total

ChangedGroups ==
    {g \in DOMAIN out : g \in DOMAIN total => update(op, total[g], out[g]).changed}

\* EpochStore::merge_in and the end of the epoch.
merge_in ==
    /\ status = "merge"
    /\ total' = Merged
    /\ useTotal' = (out # NoGroups /\ total = NoGroups)
    /\ delta' = IF total = NoGroups THEN NoGroups
                ELSE [g \in ChangedGroups |-> Merged[g]]
    /\ out' = NoGroups
    /\ epoch' = 1
    /\ LET deltas == IF useTotal' THEN Merged ELSE delta'
       IN  IF DOMAIN deltas = {}
             THEN /\ status' = "done"
                  /\ pending' = {}
             ELSE /\ status' = "run"
                  /\ pending' = Firing(FALSE, Merged, deltas)
    /\ UNCHANGED program

Next == (\E i \in pending : meet_put(i)) \/ finish \/ merge_in

\* A running query is not abandoned by its thread.
Spec == Init /\ [][Next]_vars /\ WF_vars(Next)

-----------------------------------------------------------------------------
(* Properties                                                              *)

\* What an instance would contribute to the store as it is changes nothing.
Absorbed(i) ==
    (\A n \in DOMAIN i.body : i.body[n] \in DOMAIN total)
      => /\ i.head \in DOMAIN total
         /\ LET v == Derive(op, i.weight, [n \in DOMAIN i.body |-> total[i.body[n]]])
            IN  update(op, total[i.head], v).val = total[i.head]

\* The evaluation ends in a fixpoint: every rule, run again on the result,
\* derives nothing that the aggregate does not absorb.
FixpointReached == status = "done" => \A i \in program.inst : Absorbed(i)

\* One round of the naive evaluation, on a set of pairs of a group and its
\* value: every instance on the whole store.
JoinAll(vs) == FoldSet(LAMBDA v, acc : update(op, acc, v).val, CHOOSE v \in vs : TRUE, vs)
ValueIn(m, g) == (CHOOSE p \in m : p[1] = g)[2]
Contributions(m) ==
    m \cup {<<i.head, Derive(op, i.weight, [n \in DOMAIN i.body |-> ValueIn(m, i.body[n])])>> :
              i \in {j \in program.inst :
                       \A n \in DOMAIN j.body : \E p \in m : p[1] = j.body[n]}}
NaiveRound(m) ==
    LET all == Contributions(m)
    IN  {<<g, JoinAll({p[2] : p \in {q \in all : q[1] = g}})>> : g \in {p[1] : p \in all}}

\* The naive evaluation, from the row of a rule without grouping if it has no
\* other: Rounds rounds reach its fixpoint.
Seed ==
    IF program.ungrouped # Null /\ \A i \in program.inst : i.body # <<>>
      THEN {<<program.ungrouped, init_val(op)>>} ELSE {}
Naive == FoldSet(LAMBDA n, m : NaiveRound(m), Seed, 1..Rounds)

\* The result is not more than the least fixpoint: it has no other groups, and
\* the naive evaluation absorbs every value of it.
Least ==
    status = "done" =>
       \A g \in DOMAIN total :
          \E p \in Naive : p[1] = g /\ update(op, p[2], total[g]).val = p[2]

TypeOK ==
    /\ DOMAIN total \subseteq {i.head : i \in program.inst} \cup {program.ungrouped}
    /\ useTotal \in BOOLEAN /\ epoch \in {0, 1}
    /\ pending \subseteq program.inst
    /\ DOMAIN delta \subseteq DOMAIN total
    /\ status \in {"run", "merge", "done"}

\* Types, and the result is the least fixpoint.
Inv == TypeOK /\ FixpointReached /\ Least
=============================================================================
