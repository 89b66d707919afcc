----------------------------- MODULE SemiNaive -----------------------------
(***************************************************************************)
(* The semi-naive evaluation of one stratum of a Datalog program:          *)
(* semi_naive_magic_evaluate of retia-core/src/query/eval.rs over the      *)
(* EpochStores of retia-core/src/runtime/temp_store.rs.                    *)
(*                                                                         *)
(* A stratum has a store per rule symbol: all tuples found so far (total)  *)
(* and those found in the last epoch (delta).  Epoch 0 runs every rule on  *)
(* the totals; each later epoch runs a rule only if a store it reads has a *)
(* delta, once for each symbol of its body with that symbol's delta in     *)
(* place of its total, or once on the totals if a symbol with a delta      *)
(* occurs in the body more than once.  The new tuples are merged into the  *)
(* stores at the end of the epoch, and an epoch without a delta is the     *)
(* last.  The rule sets of an epoch run in parallel and see the same       *)
(* stores.                                                                 *)
(*                                                                         *)
(* Relational algebra is abstracted to ground instances: an instance of a  *)
(* rule derives its head from one fact per rule atom of its body, if its   *)
(* stored rows are there (i.stored) and its negated ones are not           *)
(* (i.absent).  The rows of stored relations and the stores of lower       *)
(* strata do not change during the evaluation: both are in `given`.  A     *)
(* rule with an aggregation or a fixed rule reads only those, so it is a   *)
(* rule with an empty body here.                                           *)
(***************************************************************************)
EXTENDS Naturals, Sequences

CONSTANTS
    Symb,     \* the rule symbols of the stratum
    Fact,     \* tuples, each of one symbol
    Given,    \* possible rows of stored relations and lower strata
    Rule,     \* the compiled rules
    HeadOf,   \* [Rule -> Symb]
    Body,     \* [Rule -> Seq(Symb)]: the rule atoms of a body, in order
    Negates,  \* [Rule -> BOOLEAN]: the body has a negated rule atom
    Inst,     \* ground instances: rule, head, body, stored, absent
    Model     \* candidate models, closed or not (see Minimal)

ASSUME TypeAssumption ==
    /\ HeadOf \in [Rule -> Symb]
    /\ Body \in [Rule -> Seq(Symb)]
    /\ Negates \in [Rule -> BOOLEAN]
    /\ Inst \subseteq [rule : Rule, head : Fact, body : Seq(Fact),
                       stored : SUBSET Given, absent : SUBSET Given]
    /\ Model \subseteq [Symb -> SUBSET Fact]

ASSUME InstAssumption == \A i \in Inst : Len(i.body) = Len(Body[i.rule])

VARIABLES
    given,     \* the rows that are there
    total,     \* [Symb -> SUBSET Fact]
    delta,     \* [Symb -> SUBSET Fact]
    useTotal,  \* [Symb -> BOOLEAN]: use_total_for_delta
    epoch,     \* the loop counter, of which only 0 or not is looked at
    pending,   \* symbols whose rule set has not run in this epoch
    toMerge,   \* [Symb -> SUBSET Fact]: the new stores of this epoch
    status     \* "run" | "done" | "killed"

semiVars == <<given, total, delta, useTotal, epoch, pending, toMerge, status>>

NoFacts == [p \in Symb |-> {}]

-----------------------------------------------------------------------------
(* EpochStore                                                              *)

\* delta_range_iter, has_delta
DeltaOf(p) == IF useTotal[p] THEN total[p] ELSE delta[p]
has_delta(p) == DeltaOf(p) # {}

\* Mutants of mergedUseTotal: the first delta is forgotten; the flag is sticky.
mergedUseTotal_never(p) == FALSE
mergedUseTotal_sticky(p) == toMerge[p] # {} \/ useTotal[p]

\* RegularTempStore::merge_in: the new total, the new delta, and whether the
\* total is to be read as the delta.
mergedTotal(p) == total[p] \cup toMerge[p]
mergedDelta(p) == IF total[p] = {} THEN {} ELSE toMerge[p] \ total[p]
mergedUseTotal(p) == toMerge[p] # {} /\ total[p] = {}

-----------------------------------------------------------------------------
(* Evaluation of a rule                                                    *)

Active(i) == i.stored \subseteq given /\ i.absent \cap given = {}

\* Mutant of RunOnTotal: negated atoms are not looked at.
RunOnTotal_no_negation(r) ==
    {i.head : i \in {j \in Inst : /\ j.rule = r
                                  /\ j.stored \subseteq given
                                  /\ \A n \in DOMAIN j.body : j.body[n] \in total[Body[r][n]]}}

\* rule.relation.iter(self, None, stores)
RunOnTotal(r) ==
    {i.head : i \in {j \in Inst : /\ j.rule = r
                                  /\ Active(j)
                                  /\ \A n \in DOMAIN j.body : j.body[n] \in total[Body[r][n]]}}

\* rule.relation.iter(self, Some(delta_key), stores)
RunOnDelta(r, p) ==
    {i.head : i \in {j \in Inst :
        /\ j.rule = r
        /\ Active(j)
        /\ \A n \in DOMAIN j.body :
              j.body[n] \in IF Body[r][n] = p THEN DeltaOf(p) ELSE total[Body[r][n]]}}

Occurs(r, p) == {n \in DOMAIN Body[r] : Body[r][n] = p}
Contained(r) == {p \in Symb : Occurs(r, p) # {}}
Many(r, p) == \E m, n \in Occurs(r, p) : m # n

\* Mutant of DeltaRuns: one delta is enough.
DeltaRuns_first(r) == RunOnDelta(r, CHOOSE p \in Contained(r) : TRUE)

dependencies_changed(r) == \E p \in Contained(r) : has_delta(p)
need_complete_run(r) == \E p \in Contained(r) : has_delta(p) /\ Many(r, p)

\* One run per delta_key.  A negated atom is a delta_key too, of a store without
\* a delta; every atom that is not negated then reads its total.
PositiveRuns(r) == UNION {RunOnDelta(r, p) : p \in Contained(r)}
NegatedRuns(r) == IF Negates[r] THEN RunOnTotal(r) ELSE {}
DeltaRuns(r) == PositiveRuns(r) \cup NegatedRuns(r)

RunIncrement(r) ==
    CASE need_complete_run(r) -> RunOnTotal(r)
      [] dependencies_changed(r) /\ ~need_complete_run(r) -> DeltaRuns(r)
      [] ~dependencies_changed(r) -> {}

RulesOf(p) == {r \in Rule : HeadOf[r] = p}
initial_rule_non_aggr_eval(p) == UNION {RunOnTotal(r) : r \in RulesOf(p)}
incremental_rule_non_aggr_eval(p) ==
    (UNION {RunIncrement(r) : r \in RulesOf(p)}) \ total[p]

\* The new store of a rule set; in a later epoch without what the store has.
NewFacts(p) ==
    IF epoch = 0 THEN initial_rule_non_aggr_eval(p) ELSE incremental_rule_non_aggr_eval(p)

-----------------------------------------------------------------------------
SemiInit ==
    /\ given \in SUBSET Given
    /\ total = NoFacts
    /\ delta = NoFacts
    /\ useTotal = [p \in Symb |-> TRUE]
    /\ epoch = 0
    /\ pending = Symb
    /\ toMerge = NoFacts
    /\ status = "run"

\* The execution of one rule set, in any order within the epoch.
Execute(p) ==
    /\ status = "run"
    /\ p \in pending
    /\ toMerge' = [toMerge EXCEPT ![p] = NewFacts(p)]
    /\ pending' = pending \ {p}
    /\ UNCHANGED <<given, total, delta, useTotal, epoch, status>>

\* The end of an epoch: merge_in for every store, stop if nothing changed.
Merge ==
    /\ status = "run"
    /\ pending = {}
    /\ total' = [p \in Symb |-> mergedTotal(p)]
    /\ delta' = [p \in Symb |-> mergedDelta(p)]
    /\ useTotal' = [p \in Symb |-> mergedUseTotal(p)]
    /\ toMerge' = NoFacts
    /\ IF \E p \in Symb : IF mergedUseTotal(p) THEN TRUE ELSE mergedDelta(p) # {}
         THEN /\ epoch' = 1
              /\ pending' = Symb
              /\ status' = "run"
         ELSE /\ status' = "done"
              /\ UNCHANGED <<epoch, pending>>
    /\ UNCHANGED given

\* poison.check() fails: the query was killed or timed out.
Poisoned ==
    /\ status = "run"
    /\ pending # {}
    /\ status' = "killed"
    /\ UNCHANGED <<given, total, delta, useTotal, epoch, pending, toMerge>>

SemiNext == (\E p \in Symb : Execute(p)) \/ Merge \/ Poisoned

SemiSpec == SemiInit /\ [][SemiNext]_semiVars

\* The loop keeps running unless it is killed.
Fairness == WF_semiVars((\E p \in Symb : Execute(p)) \/ Merge)

-----------------------------------------------------------------------------
(* Properties.                                                             *)

SemiTypeOK ==
    /\ given \in SUBSET Given
    /\ total \in [Symb -> SUBSET Fact]
    /\ delta \in [Symb -> SUBSET Fact]
    /\ useTotal \in [Symb -> BOOLEAN]
    /\ epoch \in {0, 1}
    /\ pending \in SUBSET Symb
    /\ toMerge \in [Symb -> SUBSET Fact]
    /\ status \in {"run", "done", "killed"}

\* A set of facts is closed if it has the head of every instance whose body it has.
Closed(M) ==
    \A i \in Inst :
       Active(i) /\ (\A n \in DOMAIN i.body : i.body[n] \in M[Body[i.rule][n]])
         => i.head \in M[HeadOf[i.rule]]

\* Completeness: when the loop of semi_naive_magic_evaluate ends, no rule can
\* derive anything more, although each epoch looked only at deltas.
Complete == status = "done" => Closed(total)

\* Soundness: at every moment the stores hold only facts of every closed model;
\* with Complete, the result is the least model, whatever the parallel order.
Minimal == \A M \in Model : Closed(M) => \A p \in Symb : total[p] \subseteq M[p]

\* What makes Complete inductive: a fact is in the delta of its store for one
\* epoch after it is found, so an instance without a fact in a delta has run.
Old(p) == total[p] \ DeltaOf(p)
OldDone ==
    epoch > 0 \/ status = "done" =>
      \A i \in Inst :
         Active(i) /\ (\A n \in DOMAIN i.body : i.body[n] \in Old(Body[i.rule][n]))
           => i.head \in total[HeadOf[i.rule]]

\* The stores between two merges.
StoreInv ==
    /\ \A p \in Symb : DeltaOf(p) \subseteq total[p]
    /\ epoch = 0 /\ status = "run" => total = NoFacts
    /\ status = "run" =>
         \A p \in Symb : toMerge[p] = IF p \in pending THEN {} ELSE NewFacts(p)
    /\ status = "done" => \A p \in Symb : DeltaOf(p) = {}

\* The inductive invariant behind Complete.
SemiInv == SemiTypeOK /\ StoreInv /\ OldDone

\* The evaluation ends: it is killed or reaches a fixpoint.
Terminates == <>(status # "run")
=============================================================================
