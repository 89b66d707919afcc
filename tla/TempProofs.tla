----------------------------- MODULE TempProofs -----------------------------
(***************************************************************************)
(* The rows that a statement keeps to itself while it runs: the stores of  *)
(* an evaluation (temp_store.rs) and the collector (TempCollector).        *)
(*                                                                         *)
(* The result of the semi-naive evaluation is the least model of the       *)
(* stratum, for every set of rules, instances and rows: it is closed       *)
(* (CompletenessTheorem) and contained in every closed set of facts        *)
(* (SoundnessTheorem).                                                     *)
(*                                                                         *)
(* The collector gives back what was pushed, for every size of a batch and *)
(* every limit of memory.  Its inductive invariant says where each element *)
(* is: the b-th batch of the file holds the elements                       *)
(* (b - 1) * batch_size + 1 to b * batch_size, the vector those after the  *)
(* last batch (Kept), and what came back is the beginning of what was      *)
(* pushed, of which current_batch holds the next ones (Returned).          *)
(***************************************************************************)
EXTENDS SemiNaive, SwapVec, SequenceTheorems, TLAPS

\* The provers of every step that does not name its own.
USE SMTT(30), ZenonT(20)

-----------------------------------------------------------------------------
(* The semi-naive evaluation                                               *)

\* What a rule derives on the totals is a set of facts of its head's symbol.
LEMMA RunType ==
    ASSUME NEW r \in Rule, NEW p \in Symb
    PROVE  RunOnTotal(r) \subseteq Fact /\ RunOnDelta(r, p) \subseteq Fact
BY TypeAssumption DEF RunOnTotal, RunOnDelta

\* The new store of a rule set holds facts.
LEMMA NewFactsType ==
    ASSUME NEW p \in Symb
    PROVE  NewFacts(p) \subseteq Fact
<1>1. \A r \in Rule : RunOnTotal(r) \subseteq Fact
  BY TypeAssumption DEF RunOnTotal
<1>2. \A r \in Rule : DeltaRuns(r) \subseteq Fact
  <2> SUFFICES ASSUME NEW r \in Rule PROVE DeltaRuns(r) \subseteq Fact
    OBVIOUS
  <2>1. PositiveRuns(r) \subseteq Fact
    BY RunType DEF PositiveRuns, Contained
  <2>2. NegatedRuns(r) \subseteq Fact
    BY <1>1 DEF NegatedRuns
  <2> QED BY <2>1, <2>2 DEF DeltaRuns
<1>3. \A r \in Rule : RunIncrement(r) \subseteq Fact
  BY <1>1, <1>2 DEF RunIncrement, need_complete_run, dependencies_changed
<1>4. initial_rule_non_aggr_eval(p) \subseteq Fact
  BY <1>1 DEF initial_rule_non_aggr_eval, RulesOf
<1>5. incremental_rule_non_aggr_eval(p) \subseteq Fact
  BY <1>3 DEF incremental_rule_non_aggr_eval, RulesOf
<1> QED BY <1>4, <1>5 DEF NewFacts

\* What a rule derives in a later epoch is in the store or in the new store.
LEMMA NewFactsLater ==
    ASSUME epoch > 0, SemiTypeOK, NEW p \in Symb, NEW r \in RulesOf(p),
           NEW f \in RunIncrement(r)
    PROVE  f \in total[p] \cup NewFacts(p)
<1>1. epoch # 0
  BY DEF SemiTypeOK
<1>2. f \in total[p] \cup incremental_rule_non_aggr_eval(p)
  <2> DEFINE U == UNION {RunIncrement(s) : s \in RulesOf(p)}
  <2>1. f \in U
    OBVIOUS
  <2>2. incremental_rule_non_aggr_eval(p) = U \ total[p]
    BY DEF incremental_rule_non_aggr_eval
  <2> HIDE DEF U
  <2> QED BY <2>1, <2>2
<1> QED BY <1>1, <1>2 DEF NewFacts

\* A rule run on stores inside a closed set derives facts of that set.
LEMMA DerivesModel ==
    ASSUME SemiTypeOK, StoreInv, NEW M \in Model, Closed(M), NEW p \in Symb,
           \A q \in Symb : total[q] \subseteq M[q]
    PROVE  NewFacts(p) \subseteq M[p]
<1>0. \A i \in Inst : /\ i.rule \in Rule
                      /\ DOMAIN i.body = DOMAIN Body[i.rule]
                      /\ \A n \in DOMAIN i.body : Body[i.rule][n] \in Symb
  BY TypeAssumption, InstAssumption
<1>1. \A r \in RulesOf(p) : RunOnTotal(r) \subseteq M[p]
  BY <1>0 DEF RunOnTotal, RulesOf, Closed
<1>2. \A r \in RulesOf(p) : \A q \in Symb : RunOnDelta(r, q) \subseteq M[p]
  <2> SUFFICES ASSUME NEW r \in RulesOf(p), NEW q \in Symb PROVE RunOnDelta(r, q) \subseteq M[p]
    BY Zenon
  <2>1. DeltaOf(q) \subseteq total[q]
    BY DEF StoreInv
  <2> QED BY <1>0, <2>1 DEF RunOnDelta, RulesOf, Closed
<1>3. \A r \in RulesOf(p) : DeltaRuns(r) \subseteq M[p]
  <2> SUFFICES ASSUME NEW r \in RulesOf(p) PROVE DeltaRuns(r) \subseteq M[p]
    OBVIOUS
  <2>1. PositiveRuns(r) \subseteq M[p]
    BY <1>2 DEF PositiveRuns, Contained
  <2>2. NegatedRuns(r) \subseteq M[p]
    BY <1>1 DEF NegatedRuns
  <2> QED BY <2>1, <2>2 DEF DeltaRuns
<1>4. \A r \in RulesOf(p) : RunIncrement(r) \subseteq M[p]
  BY <1>1, <1>3 DEF RunIncrement, need_complete_run, dependencies_changed
<1>5. initial_rule_non_aggr_eval(p) \subseteq M[p]
  BY <1>1 DEF initial_rule_non_aggr_eval
<1>6. incremental_rule_non_aggr_eval(p) \subseteq M[p]
  BY <1>4 DEF incremental_rule_non_aggr_eval
<1> QED BY <1>5, <1>6 DEF NewFacts

\* The heart of the algorithm: an instance whose body is in the totals derives a
\* fact that is in its store, or that this epoch collects.
LEMMA EpochLemma ==
    ASSUME SemiTypeOK, OldDone, epoch > 0,
           NEW i \in Inst, Active(i),
           \A n \in DOMAIN i.body : i.body[n] \in total[Body[i.rule][n]]
    PROVE  i.head \in total[HeadOf[i.rule]] \cup NewFacts(HeadOf[i.rule])
<1> DEFINE r == i.rule
<1>0. /\ r \in Rule /\ HeadOf[r] \in Symb
      /\ DOMAIN i.body = DOMAIN Body[r]
      /\ \A n \in DOMAIN i.body : Body[r][n] \in Symb
  BY TypeAssumption, InstAssumption
<1>1. CASE \A n \in DOMAIN i.body : i.body[n] \in Old(Body[r][n])
  BY <1>1 DEF OldDone
<1>2. CASE \E n \in DOMAIN i.body : i.body[n] \notin Old(Body[r][n])
  <2>1. PICK n \in DOMAIN i.body : i.body[n] \notin Old(Body[r][n])
    BY <1>2
  <2> DEFINE p == Body[r][n]
  <2>2. p \in Contained(r) /\ i.body[n] \in DeltaOf(p)
    BY <1>0, <2>1 DEF Contained, Occurs, Old
  <2>3. i.head \in RunOnTotal(r)
    BY DEF RunOnTotal
  <2>4. ~need_complete_run(r) => i.head \in RunOnDelta(r, p)
    <3> SUFFICES ASSUME ~Many(r, p) PROVE i.head \in RunOnDelta(r, p)
      BY <2>2 DEF has_delta, need_complete_run
    <3>1. \A m \in DOMAIN i.body : Body[r][m] = p => m = n
      BY <1>0 DEF Many, Occurs
    <3>2. \A m \in DOMAIN i.body :
             i.body[m] \in IF Body[r][m] = p THEN DeltaOf(p) ELSE total[Body[r][m]]
      BY <2>2, <3>1
    <3> HIDE DEF p
    <3> QED BY <3>2 DEF RunOnDelta
  <2>5. dependencies_changed(r)
    BY <2>2 DEF dependencies_changed, has_delta
  <2>6. i.head \in RunIncrement(r)
    <3>1. CASE need_complete_run(r)
      BY <2>3, <3>1 DEF RunIncrement, need_complete_run, dependencies_changed
    <3>2. CASE ~need_complete_run(r)
      <4>1. i.head \in DeltaRuns(r)
        BY <2>2, <2>4, <3>2 DEF DeltaRuns, PositiveRuns
      <4> QED BY <2>5, <3>2, <4>1 DEF RunIncrement
    <3> QED BY <3>1, <3>2
  <2>7. r \in RulesOf(HeadOf[r])
    BY <1>0 DEF RulesOf
  <2> HIDE DEF r
  <2>8. i.head \in total[HeadOf[r]] \cup NewFacts(HeadOf[r])
    BY <1>0, <2>6, <2>7, NewFactsLater
  <2> QED BY <2>8 DEF r
<1> QED BY <1>1, <1>2

\* In epoch 0 every rule runs on the (empty) totals.
LEMMA FirstEpochLemma ==
    ASSUME epoch = 0, total = NoFacts, NEW i \in Inst, Active(i), DOMAIN i.body = {}
    PROVE  i.head \in NewFacts(HeadOf[i.rule])
<1>1. i.rule \in Rule
  BY TypeAssumption
<1>2. i.head \in RunOnTotal(i.rule)
  BY DEF RunOnTotal
<1> QED BY <1>1, <1>2 DEF NewFacts, initial_rule_non_aggr_eval, RulesOf

\* The deltas after a merge are the facts the merge added.
LEMMA MergeDelta ==
    ASSUME SemiTypeOK, Merge, NEW p \in Symb
    PROVE  /\ DeltaOf(p)' = toMerge[p] \ total[p]
           /\ total'[p] = total[p] \cup toMerge[p]
<1>1. total'[p] = mergedTotal(p) /\ delta'[p] = mergedDelta(p) /\ useTotal'[p] = mergedUseTotal(p)
  BY DEF Merge
<1> QED
  BY <1>1, Zenon DEF DeltaOf, mergedTotal, mergedDelta, mergedUseTotal, SemiTypeOK

\* Initial states satisfy the inductive invariant.
LEMMA InitSemiInv == SemiInit => SemiInv
BY DEF SemiInit, SemiInv, SemiTypeOK, StoreInv, OldDone, NoFacts, DeltaOf

\* What is derived depends only on the rows, the stores and the epoch.
LEMMA Frame ==
    ASSUME UNCHANGED <<given, total, delta, useTotal, epoch>>
    PROVE  /\ \A p : NewFacts(p)' = NewFacts(p)
           /\ \A p : DeltaOf(p)' = DeltaOf(p)
           /\ \A p : Old(p)' = Old(p)
           /\ \A i : Active(i)' = Active(i)
<1>1. /\ \A p : DeltaOf(p)' = DeltaOf(p)
      /\ \A i : Active(i)' = Active(i)
  BY DEF DeltaOf, Active
<1>2. \A r : RunOnTotal(r)' = RunOnTotal(r)
  BY <1>1 DEF RunOnTotal
<1>3. \A r, p : RunOnDelta(r, p)' = RunOnDelta(r, p)
  BY <1>1 DEF RunOnDelta
<1>4. \A r : /\ need_complete_run(r)' <=> need_complete_run(r)
             /\ dependencies_changed(r)' <=> dependencies_changed(r)
  BY <1>1 DEF need_complete_run, dependencies_changed, has_delta
<1>5. \A r : DeltaRuns(r)' = DeltaRuns(r)
  BY <1>2, <1>3 DEF DeltaRuns, PositiveRuns, NegatedRuns
<1>6. \A r : RunIncrement(r)' = RunIncrement(r)
  BY <1>2, <1>4, <1>5 DEF RunIncrement
<1>7. \A p : initial_rule_non_aggr_eval(p)' = initial_rule_non_aggr_eval(p)
  BY <1>2 DEF initial_rule_non_aggr_eval
<1>8. \A p : incremental_rule_non_aggr_eval(p)' = incremental_rule_non_aggr_eval(p)
  BY <1>6 DEF incremental_rule_non_aggr_eval
<1> QED BY <1>1, <1>7, <1>8 DEF NewFacts, Old

\* Every step preserves the inductive invariant.
LEMMA StepSemiInv ==
    ASSUME SemiInv, [SemiNext]_semiVars
    PROVE  SemiInv'
<1>0. SemiTypeOK /\ StoreInv /\ OldDone
  BY DEF SemiInv
<1>1. CASE UNCHANGED semiVars
  <2>1. UNCHANGED <<given, total, delta, useTotal, epoch>>
    BY <1>1 DEF semiVars
  <2> QED BY <1>0, <1>1, <2>1, Frame DEF semiVars, SemiInv, SemiTypeOK, StoreInv, OldDone
<1>2. ASSUME NEW p \in Symb, Execute(p) PROVE SemiInv'
  <2>1. UNCHANGED <<given, total, delta, useTotal, epoch>>
    BY <1>2 DEF Execute
  <2>2. SemiTypeOK'
    BY <1>0, <1>2, NewFactsType DEF Execute, SemiTypeOK
  <2>3. StoreInv'
    BY <1>0, <1>2, <2>1, Frame DEF Execute, StoreInv, SemiTypeOK
  <2>4. OldDone'
    BY <1>0, <1>2, <2>1, Frame DEF Execute, OldDone
  <2> QED BY <2>2, <2>3, <2>4 DEF SemiInv
<1>3. CASE Merge
  <2>1. SemiTypeOK'
    BY <1>0, <1>3 DEF Merge, SemiTypeOK, mergedTotal, mergedDelta, mergedUseTotal, NoFacts
  <2>2. \A p \in Symb : /\ DeltaOf(p)' = toMerge[p] \ total[p]
                        /\ total'[p] = total[p] \cup toMerge[p]
                        /\ toMerge[p] = NewFacts(p)
    BY <1>0, <1>3, MergeDelta DEF Merge, StoreInv
  <2>3. StoreInv'
    <3>1. \A p \in Symb : DeltaOf(p)' \subseteq total'[p]
      BY <2>2
    <3>2. status' = "run" => epoch' = 1 /\ pending' = Symb
      BY <1>3 DEF Merge
    <3>3. status' = "done" => \A p \in Symb : DeltaOf(p)' = {}
      BY <1>3, Zenon DEF Merge, DeltaOf, mergedUseTotal, mergedDelta
    <3>4. \A p \in Symb : toMerge'[p] = {}
      BY <1>3 DEF Merge, NoFacts
    <3> QED BY <3>1, <3>2, <3>3, <3>4 DEF StoreInv
  <2>4. OldDone'
    <3> SUFFICES ASSUME NEW i \in Inst, Active(i)',
                        \A n \in DOMAIN i.body : i.body[n] \in Old(Body[i.rule][n])'
                 PROVE  i.head \in total'[HeadOf[i.rule]]
      BY DEF OldDone
    <3>1. /\ i.rule \in Rule /\ HeadOf[i.rule] \in Symb
          /\ DOMAIN i.body = DOMAIN Body[i.rule]
          /\ \A n \in DOMAIN i.body : Body[i.rule][n] \in Symb
      BY TypeAssumption, InstAssumption
    <3>2. Active(i)
      BY <1>3 DEF Merge, Active
    <3>3. \A n \in DOMAIN i.body : i.body[n] \in total[Body[i.rule][n]]
      BY <2>2, <3>1 DEF Old
    <3>4. CASE epoch > 0
      BY <1>0, <2>2, <3>1, <3>2, <3>3, <3>4, EpochLemma
    <3>5. CASE ~(epoch > 0)
      <4>1. epoch = 0 /\ total = NoFacts
        BY <1>0, <1>3, <3>5 DEF SemiTypeOK, StoreInv, Merge
      <4>2. DOMAIN i.body = {}
        BY <3>1, <3>3, <4>1 DEF NoFacts
      <4>3. i.head \in NewFacts(HeadOf[i.rule])
        BY <3>2, <4>1, <4>2, FirstEpochLemma
      <4> QED BY <2>2, <3>1, <4>3
    <3> QED BY <3>4, <3>5
  <2> QED BY <2>1, <2>3, <2>4 DEF SemiInv
<1>4. CASE Poisoned
  <2>1. UNCHANGED <<given, total, delta, useTotal, epoch>>
    BY <1>4 DEF Poisoned
  <2>2. SemiTypeOK' /\ StoreInv'
    BY <1>0, <1>4, <2>1, Frame, Zenon DEF Poisoned, StoreInv, SemiTypeOK
  <2>3. OldDone'
    BY <1>0, <1>4, <2>1, Frame DEF Poisoned, OldDone
  <2> QED BY <2>2, <2>3 DEF SemiInv
<1> QED BY <1>1, <1>2, <1>3, <1>4 DEF SemiNext

\* The inductive invariant holds in every reachable state.
THEOREM Invariance == SemiSpec => []SemiInv
BY InitSemiInv, StepSemiInv, PTL DEF SemiSpec

\* Completeness: when the loop of semi_naive_magic_evaluate ends, the stores are
\* closed under the rules, for every stratum.
THEOREM CompletenessTheorem == SemiSpec => []Complete
<1>1. SemiInv => Complete
  <2> SUFFICES ASSUME SemiInv, status = "done", NEW i \in Inst, Active(i),
                      \A n \in DOMAIN i.body : i.body[n] \in total[Body[i.rule][n]]
               PROVE  i.head \in total[HeadOf[i.rule]]
    BY DEF Complete, Closed
  <2>1. \A n \in DOMAIN i.body : Body[i.rule][n] \in Symb
    BY TypeAssumption, InstAssumption
  <2>2. \A n \in DOMAIN i.body : i.body[n] \in Old(Body[i.rule][n])
    BY <2>1 DEF SemiInv, StoreInv, Old
  <2> QED BY <2>2 DEF SemiInv, OldDone
<1> QED BY <1>1, Invariance, PTL

\* Soundness: the stores hold only facts of every closed set, in every state of
\* the evaluation, for every stratum; so the result is the least model.
THEOREM SoundnessTheorem == SemiSpec => []Minimal
<1> DEFINE Below(M) == \A p \in Symb : total[p] \subseteq M[p] /\ toMerge[p] \subseteq M[p]
           Sound == \A M \in Model : Closed(M) => Below(M)
<1>1. SemiInit => Sound
  BY Zenon DEF SemiInit, NoFacts
<1>2. SemiInv /\ Sound /\ [SemiNext]_semiVars => Sound'
  <2> SUFFICES ASSUME SemiInv, Sound, [SemiNext]_semiVars, NEW M \in Model, Closed(M)'
               PROVE  Below(M)'
    OBVIOUS
  <2>1. given' = given
    BY DEF SemiNext, Execute, Merge, Poisoned, semiVars
  <2>2. Closed(M) /\ Below(M)
    BY <2>1, Zenon DEF Closed, Active
  <2>3. CASE UNCHANGED semiVars
    BY <2>2, <2>3 DEF semiVars
  <2>4. ASSUME NEW p \in Symb, Execute(p) PROVE Below(M)'
    <3>1. \A q \in Symb : total'[q] = total[q]
      BY <2>4 DEF Execute
    <3>2. \A q \in Symb : q # p => toMerge'[q] = toMerge[q]
      BY <2>4 DEF Execute, SemiInv, SemiTypeOK
    <3>3. toMerge'[p] = NewFacts(p)
      BY <2>4 DEF Execute, SemiInv, SemiTypeOK
    <3>4. NewFacts(p) \subseteq M[p]
      BY <2>2, DerivesModel DEF SemiInv
    <3> QED BY <2>2, <3>1, <3>2, <3>3, <3>4
  <2>5. CASE Merge
    BY <2>2, <2>5 DEF Merge, mergedTotal, NoFacts
  <2>6. CASE Poisoned
    BY <2>2, <2>6 DEF Poisoned
  <2> QED BY <2>3, <2>4, <2>5, <2>6 DEF SemiNext
<1>3. Sound => Minimal
  BY DEF Minimal
<1> QED BY <1>1, <1>2, <1>3, Invariance, PTL DEF SemiSpec

-----------------------------------------------------------------------------
(* The collector                                                           *)

\* SwapVecConfig
Sizes == batch_size \in Nat \ {0} /\ swap_after \in Nat

\* Batches laid end to end.
LEMMA Multiples ==
    ASSUME NEW b \in Nat, NEW n \in Nat
    PROVE  n * b \in Nat /\ (n + 1) * b = n * b + b
  OBVIOUS

\* A batch before the n-th ends before it.
LEMMA Below ==
    ASSUME NEW b \in Nat, NEW m \in Nat, NEW n \in Nat, m < n
    PROVE  m * b + b <= n * b
  <1>1. (n - m - 1) \in Nat /\ n = (n - m - 1) + m + 1
    OBVIOUS
  <1>2. (n - m - 1) * b \in Nat /\ n * b = (n - m - 1) * b + m * b + b
    BY <1>1
  <1> QED  BY <1>2, m * b \in Nat

\* A place in one of the batches is a place in what was pushed.
LEMMA Within ==
    ASSUME NEW p \in Nat, NEW b \in Nat, NEW i \in 1..b, NEW n \in Nat, NEW m \in Nat, p + b <= n
    PROVE  p + i \in 1..(n + m)
  OBVIOUS

\* An empty collector satisfies the invariant.
LEMMA Initially == ASSUME Sizes PROVE CollectorInit => CollectorIInv
  <1> SUFFICES ASSUME CollectorInit PROVE CollectorIInv
    OBVIOUS
  <1>1. CollectorTypeOK
    <2>1. tempfile \in BOOLEAN
      BY Zenon DEF CollectorInit
    <2>2. /\ phase \in {"push", "iterate", "done", "panic"}
          /\ vector \in Seq(Element) /\ batches \in Seq(Seq(Element))
          /\ batch_index \in 0..Len(batches) /\ current_batch \in Seq(Element)
          /\ last_elements_index \in 0..Len(vector)
          /\ pushed \in Seq(Element) /\ out \in Seq(Element)
      BY DEF CollectorInit
    <2> QED  BY <2>1, <2>2 DEF CollectorTypeOK
  <1>2. Kept
    <2>1. Len(<<>>) * batch_size = 0
      BY DEF Sizes
    <2> QED  BY <2>1 DEF CollectorInit, Kept
  <1>3. Returned
    BY DEF CollectorInit, Returned
  <1> QED  BY <1>1, <1>2, <1>3 DEF CollectorIInv

\* after_push_work returns early: the element stays in memory.
LEMMA PushStays ==
    ASSUME Sizes, CollectorIInv, NEW e \in Element, push(e), phase' # "panic",
           vector' = Append(vector, e), UNCHANGED batches
    PROVE  CollectorIInv'
  <1> DEFINE kept == Len(batches) * batch_size
  <1>0. /\ phase = "push" /\ phase' = "push"
        /\ UNCHANGED <<batches, batch_index, current_batch, last_elements_index, tempfile, out>>
        /\ pushed' = Append(pushed, e)
    BY DEF push, CollectorIInv, CollectorTypeOK, readerVars
  <1>1. /\ vector \in Seq(Element) /\ pushed \in Seq(Element)
        /\ Len(batches) \in Nat /\ Len(vector) \in Nat /\ Len(pushed) \in Nat
        /\ batch_size \in Nat
    BY DEF CollectorIInv, CollectorTypeOK, Sizes
  <1>2. kept \in Nat
    BY <1>1, Multiples
  <1>3. /\ vector' \in Seq(Element) /\ pushed' \in Seq(Element)
        /\ Len(vector') = Len(vector) + 1 /\ Len(pushed') = Len(pushed) + 1
        /\ \A i \in 1..Len(vector) : vector'[i] = vector[i]
        /\ \A i \in 1..Len(pushed) : pushed'[i] = pushed[i]
        /\ vector'[Len(vector) + 1] = e /\ pushed'[Len(pushed) + 1] = e
    BY <1>0, <1>1, AppendProperties
  <1>4. CollectorTypeOK'
    BY <1>0, <1>1, <1>3 DEF CollectorIInv, CollectorTypeOK
  <1>5. Len(pushed) = kept + Len(vector)
    BY <1>0 DEF CollectorIInv, Kept
  <1>6. ASSUME NEW b \in DOMAIN batches, NEW i \in 1..batch_size
        PROVE  Len(batches[b]) = batch_size /\ batches[b][i] = pushed'[(b - 1) * batch_size + i]
    <2>1. Len(batches[b]) = batch_size /\ batches[b][i] = pushed[(b - 1) * batch_size + i]
      BY <1>0 DEF CollectorIInv, Kept
    <2>2. b - 1 \in Nat /\ b - 1 < Len(batches)
      BY <1>1, LenProperties DEF CollectorIInv, CollectorTypeOK
    <2>3. (b - 1) * batch_size \in Nat /\ (b - 1) * batch_size + batch_size <= kept
      BY <1>1, <2>2, Below, Multiples, Zenon
    <2>4. (b - 1) * batch_size + i \in 1..Len(pushed)
      BY <1>1, <1>2, <1>5, <2>3
    <2> QED  BY <1>3, <2>1, <2>4
  <1>7. \A b \in DOMAIN batches : Len(batches[b]) = batch_size
    BY <1>0 DEF CollectorIInv, Kept
  <1>8. ASSUME NEW i \in 1..Len(vector') PROVE vector'[i] = pushed'[kept + i]
    <2>1. CASE i <= Len(vector)
      <3>1. i \in DOMAIN vector /\ i \in 1..Len(vector) /\ kept + i \in 1..Len(pushed)
        BY <1>1, <1>2, <1>5, <2>1, LenProperties
      <3>2. vector[i] = pushed[kept + i]
        BY <1>0, <3>1 DEF CollectorIInv, Kept
      <3> QED  BY <1>3, <3>1, <3>2
    <2>2. CASE i = Len(vector) + 1
      BY <1>1, <1>2, <1>3, <1>5, <2>2
    <2> QED  BY <1>1, <1>3, <2>1, <2>2
  <1>9. Kept'
    <2>1. DOMAIN vector' = 1..Len(vector')
      BY <1>3, LenProperties
    <2>2. Len(pushed') = Len(batches') * batch_size + Len(vector')
      BY <1>0, <1>1, <1>2, <1>3, <1>5
    <2> QED  BY <1>0, <1>6, <1>7, <1>8, <2>1, <2>2, Zenon DEF Kept
  <1>10. Returned'
    BY <1>0 DEF CollectorIInv, Returned
  <1> QED  BY <1>4, <1>9, <1>10 DEF CollectorIInv

\* after_push_work writes the first batch_size elements of the vector as the next
\* batch, and those that stay move up.
LEMMA PushSpills ==
    ASSUME Sizes, CollectorIInv, NEW e \in Element, push(e), phase' # "panic", ~Stays(Len(Append(vector, e)))
    PROVE  CollectorIInv'
  <1> DEFINE kept == Len(batches) * batch_size
             grown == Append(vector, e)
             batch == SubSeq(grown, 1, batch_size)
  <1>0. /\ phase = "push" /\ phase' = "push"
        /\ UNCHANGED <<batch_index, current_batch, last_elements_index, tempfile, out>>
        /\ pushed' = Append(pushed, e)
        /\ vector' = SubSeq(grown, batch_size + 1, Len(grown))
        /\ batches' = Append(batches, batch)
    BY Zenon DEF push, CollectorIInv, CollectorTypeOK, readerVars
  <1>1. /\ vector \in Seq(Element) /\ pushed \in Seq(Element) /\ batches \in Seq(Seq(Element))
        /\ Len(batches) \in Nat /\ Len(vector) \in Nat /\ Len(pushed) \in Nat
        /\ batch_size \in Nat \ {0}
        /\ DOMAIN batches = 1..Len(batches) /\ DOMAIN vector = 1..Len(vector)
    BY LenProperties DEF CollectorIInv, CollectorTypeOK, Sizes
  <1>2. kept \in Nat /\ (Len(batches) + 1) * batch_size = kept + batch_size
    BY <1>1, Multiples
  <1>3. /\ grown \in Seq(Element) /\ pushed' \in Seq(Element)
        /\ Len(grown) = Len(vector) + 1 /\ Len(pushed') = Len(pushed) + 1
        /\ \A i \in 1..Len(vector) : grown[i] = vector[i]
        /\ \A i \in 1..Len(pushed) : pushed'[i] = pushed[i]
        /\ grown[Len(vector) + 1] = e /\ pushed'[Len(pushed) + 1] = e
    BY <1>0, <1>1, AppendProperties
  <1>4. batch_size < Len(grown) /\ Len(grown) \in Nat
    BY <1>1, <1>3 DEF Stays
  <1>5. Len(pushed) = kept + Len(vector)
    BY <1>0 DEF CollectorIInv, Kept
  <1>a. batch = SubSeq(grown, 1, batch_size)
    OBVIOUS
  <1>b. kept = Len(batches) * batch_size
    OBVIOUS
  <1>c. \A b \in 1..Len(batches) :
          /\ Len(batches[b]) = batch_size
          /\ \A i \in 1..batch_size : batches[b][i] = pushed[(b - 1) * batch_size + i]
    <2>1. phase # "panic" /\ DOMAIN batches = 1..Len(batches)
      BY <1>0, <1>1, Zenon
    <2> QED  BY <2>1, Zenon DEF CollectorIInv, Kept
  <1> HIDE DEF grown, batch, kept
  <1>6. ASSUME NEW i \in 1..Len(grown) PROVE grown[i] \in Element /\ grown[i] = pushed'[kept + i]
    <2>1. CASE i <= Len(vector)
      <3>1. i \in DOMAIN vector /\ i \in 1..Len(vector) /\ kept + i \in 1..Len(pushed)
        BY <1>1, <1>2, <1>5, <2>1
      <3>2. vector[i] = pushed[kept + i]
        BY <1>0, <1>b, <3>1, Zenon DEF CollectorIInv, Kept
      <3>3. vector[i] \in Element
        BY <1>1, <3>1, ElementOfSeq
      <3> QED  BY <1>3, <3>1, <3>2, <3>3
    <2>2. CASE i = Len(vector) + 1
      BY <1>1, <1>2, <1>3, <1>5, <2>2
    <2> QED  BY <1>1, <1>3, <2>1, <2>2
  <1>7. /\ batch \in Seq(Element) /\ Len(batch) = batch_size
        /\ \A i \in 1..batch_size : batch[i] = grown[i]
    <2>1. \A i \in 1..batch_size : grown[i] \in Element
      BY <1>1, <1>4, <1>6
    <2>2. /\ batch \in Seq(Element) /\ Len(batch) = IF 1 <= batch_size THEN batch_size - 1 + 1 ELSE 0
          /\ \A i \in 1..(batch_size - 1 + 1) : batch[i] = grown[1 + i - 1]
      BY <1>1, <1>a, <2>1, SubSeqProperties
    <2> QED  BY <1>1, <2>2
  <1>8. /\ vector' \in Seq(Element) /\ Len(vector') = Len(grown) - batch_size
        /\ \A i \in 1..Len(vector') : vector'[i] = grown[batch_size + i]
    <2>0. PICK m \in Int : m = batch_size + 1
      BY <1>1
    <2>1. Len(grown) \in Int /\ \A i \in m..Len(grown) : grown[i] \in Element
      BY <1>1, <1>4, <1>6, <2>0
    <2>a. vector' = SubSeq(grown, m, Len(grown))
      BY <1>0, <2>0, Zenon
    <2>2. /\ vector' \in Seq(Element)
          /\ Len(vector') = IF m <= Len(grown) THEN Len(grown) - m + 1 ELSE 0
          /\ \A i \in 1..(Len(grown) - m + 1) : vector'[i] = grown[m + i - 1]
      BY <2>1, <2>a, SubSeqProperties
    <2>3. Len(vector') = Len(grown) - batch_size
      BY <1>1, <1>4, <2>0, <2>2
    <2>4. ASSUME NEW i \in 1..Len(vector') PROVE vector'[i] = grown[batch_size + i]
      <3>1. i \in 1..(Len(grown) - m + 1) /\ m + i - 1 = batch_size + i
        BY <1>1, <1>4, <2>0, <2>3
      <3> QED  BY <2>2, <3>1
    <2> QED  BY <2>2, <2>3, <2>4
  <1>9. /\ batches' \in Seq(Seq(Element)) /\ Len(batches') = Len(batches) + 1
        /\ \A b \in 1..Len(batches) : batches'[b] = batches[b]
        /\ batches'[Len(batches) + 1] = batch
        /\ DOMAIN batches' = 1..(Len(batches) + 1)
    <2>1. /\ Append(batches, batch) \in Seq(Seq(Element))
          /\ Len(Append(batches, batch)) = Len(batches) + 1
          /\ \A b \in 1..Len(batches) : Append(batches, batch)[b] = batches[b]
          /\ Append(batches, batch)[Len(batches) + 1] = batch
      BY <1>1, <1>7, AppendProperties
    <2>2. DOMAIN Append(batches, batch) = 1..Len(Append(batches, batch))
      BY <2>1, LenProperties
    <2> QED  BY <1>0, <2>1, <2>2
  <1>10. CollectorTypeOK'
    <2>1. /\ batch_index' \in 0..Len(batches') /\ last_elements_index' \in 0..Len(vector')
      BY <1>0, <1>1, <1>3, <1>4, <1>8, <1>9 DEF CollectorIInv, CollectorTypeOK, Returned
    <2> QED  BY <1>0, <1>3, <1>8, <1>9, <2>1, Zenon DEF CollectorIInv, CollectorTypeOK
  <1>11. ASSUME NEW b \in 1..(Len(batches) + 1)
         PROVE  /\ Len(batches'[b]) = batch_size
                /\ \A i \in 1..batch_size : batches'[b][i] = pushed'[(b - 1) * batch_size + i]
    <2>1. CASE b <= Len(batches)
      <3>1. b \in 1..Len(batches) /\ b - 1 \in Nat /\ b - 1 < Len(batches) /\ batches'[b] = batches[b]
        BY <1>1, <1>9, <2>1
      <3>2. (b - 1) * batch_size \in Nat /\ (b - 1) * batch_size + batch_size <= kept
        BY <1>1, <1>b, <3>1, Below, Multiples, Zenon
      <3>3. Len(batches[b]) = batch_size
        BY <1>c, <3>1
      <3>4. ASSUME NEW i \in 1..batch_size PROVE batches'[b][i] = pushed'[(b - 1) * batch_size + i]
        <4>1. batches[b][i] = pushed[(b - 1) * batch_size + i]
          BY <1>c, <3>1, Zenon
        <4>2. (b - 1) * batch_size + i \in 1..Len(pushed)
          BY <1>1, <1>2, <1>5, <3>2, Within, Zenon
        <4> QED  BY <1>3, <3>1, <4>1, <4>2
      <3> QED  BY <3>1, <3>3, <3>4, Zenon
    <2>2. CASE b = Len(batches) + 1
      <3>1. batches'[b] = batch /\ (b - 1) * batch_size = kept
        BY <1>1, <1>9, <1>b, <2>2
      <3>2. ASSUME NEW i \in 1..batch_size PROVE batch[i] = pushed'[kept + i]
        <4>1. i \in 1..Len(grown)
          BY <1>1, <1>4
        <4> QED  BY <1>6, <1>7, <4>1, Zenon
      <3> QED  BY <1>7, <3>1, <3>2
    <2> QED  BY <1>1, <2>1, <2>2
  <1>12. Kept'
    <2>1. DOMAIN vector' = 1..Len(vector')
      BY <1>8, LenProperties
    <2>2. Len(batches') * batch_size = kept + batch_size
      BY <1>2, <1>9
    <2>3. Len(pushed') = Len(batches') * batch_size + Len(vector')
      <3>1. Len(pushed') = kept + Len(vector) + 1 /\ Len(vector') = Len(vector) + 1 - batch_size
        BY <1>1, <1>2, <1>3, <1>4, <1>5, <1>8
      <3>2. Len(pushed') = (kept + batch_size) + Len(vector')
        BY <1>1, <1>2, <3>1
      <3> QED  BY <2>2, <3>2
    <2>4. ASSUME NEW i \in DOMAIN vector' PROVE vector'[i] = pushed'[Len(batches') * batch_size + i]
      <3>1. i \in 1..Len(vector') /\ batch_size + i \in 1..Len(grown)
        BY <1>1, <1>4, <1>8, <2>1
      <3>2. vector'[i] = pushed'[kept + (batch_size + i)]
        BY <1>6, <1>8, <3>1
      <3>3. kept + (batch_size + i) = Len(batches') * batch_size + i
        BY <1>1, <1>2, <2>1, <2>2, <3>1
      <3> QED  BY <3>2, <3>3
    <2>5. \A b \in DOMAIN batches' :
            /\ Len(batches'[b]) = batch_size
            /\ \A i \in 1..batch_size : batches'[b][i] = pushed'[(b - 1) * batch_size + i]
      BY <1>9, <1>11
    <2> QED  BY <2>3, <2>4, <2>5 DEF Kept
  <1>13. Returned'
    BY <1>0 DEF CollectorIInv, Returned
  <1> QED  BY <1>10, <1>12, <1>13 DEF CollectorIInv

\* The file cannot be made or written.
LEMMA PushPanics ==
    ASSUME Sizes, CollectorIInv, NEW e \in Element, push(e), phase' = "panic"
    PROVE  CollectorIInv'
  <1> DEFINE grown == Append(vector, e)
  <1>1. /\ phase = "push" /\ UNCHANGED <<batches, batch_index, current_batch, last_elements_index, tempfile, out>>
        /\ pushed' = Append(pushed, e)
        /\ vector' = SubSeq(grown, batch_size + 1, Len(grown))
    BY Zenon DEF push, CollectorIInv, CollectorTypeOK, readerVars
  <1>2. vector \in Seq(Element) /\ pushed \in Seq(Element) /\ batch_size \in Nat /\ last_elements_index = 0
    BY <1>1 DEF CollectorIInv, CollectorTypeOK, Returned, Sizes
  <1>3. grown \in Seq(Element) /\ pushed' \in Seq(Element) /\ Len(grown) \in Nat
    BY <1>1, <1>2, AppendProperties, LenProperties
  <1> HIDE DEF grown
  <1>4. \A i \in (batch_size + 1)..Len(grown) : grown[i] \in Element
    BY <1>2, <1>3, ElementOfSeq
  <1>5. vector' \in Seq(Element) /\ Len(vector') \in Nat
    <2>1. vector' \in Seq(Element)
      BY <1>1, <1>2, <1>3, <1>4, SubSeqProperties
    <2> QED  BY <2>1, LenProperties
  <1>6. CollectorTypeOK'
    BY <1>1, <1>2, <1>3, <1>5 DEF CollectorIInv, CollectorTypeOK
  <1>7. Kept' /\ Returned'
    BY DEF Kept, Returned
  <1> QED  BY <1>6, <1>7 DEF CollectorIInv

\* TempCollector::push
LEMMA Push ==
    ASSUME Sizes, CollectorIInv, NEW e \in Element, push(e)
    PROVE  CollectorIInv'
  <1>1. CASE phase' = "panic"
    BY <1>1, PushPanics
  <1>2. CASE phase' # "panic" /\ Stays(Len(Append(vector, e)))
    <2>1. vector' = Append(vector, e) /\ UNCHANGED batches
      BY <1>2 DEF push
    <2> QED  BY <1>2, <2>1, PushStays
  <1>3. CASE phase' # "panic" /\ ~Stays(Len(Append(vector, e)))
    BY <1>3, PushSpills
  <1> QED  BY <1>1, <1>2, <1>3

\* into_iter gives nothing yet.
LEMMA IntoIter ==
    ASSUME Sizes, CollectorIInv, into_iter
    PROVE  CollectorIInv'
  <1>1. /\ phase = "push" /\ phase' = "iterate"
        /\ UNCHANGED <<vector, batches, batch_index, current_batch, last_elements_index, pushed, out>>
    BY DEF into_iter
  <1>2. tempfile' \in BOOLEAN
    BY Zenon DEF into_iter
  <1>3. CollectorTypeOK'
    BY <1>1, <1>2 DEF CollectorIInv, CollectorTypeOK
  <1>4. Kept'
    BY <1>1 DEF CollectorIInv, Kept
  <1>5. Returned'
    <2>1. out = <<>> /\ batch_index = 0 /\ current_batch = <<>> /\ last_elements_index = 0
      BY <1>1 DEF CollectorIInv, Returned
    <2>2. 0 * batch_size = 0 /\ Len(pushed) \in Nat
      BY LenProperties DEF Sizes, CollectorIInv, CollectorTypeOK
    <2> QED  BY <1>1, <2>1, <2>2 DEF Returned
  <1> QED  BY <1>3, <1>4, <1>5 DEF CollectorIInv

\* One more element of what was pushed comes back.
LEMMA Longer ==
    ASSUME NEW S, NEW o \in Seq(S), NEW p \in Seq(S), NEW e,
           Len(o) < Len(p), e = p[Len(o) + 1],
           \A i \in 1..Len(o) : o[i] = p[i]
    PROVE  /\ Append(o, e) \in Seq(S)
           /\ Len(Append(o, e)) = Len(o) + 1
           /\ Len(Append(o, e)) <= Len(p)
           /\ \A i \in DOMAIN Append(o, e) : Append(o, e)[i] = p[i]
  <1>1. Len(o) \in Nat /\ Len(p) \in Nat
    BY LenProperties
  <1>2. e \in S
    BY <1>1, ElementOfSeq
  <1>3. /\ Append(o, e) \in Seq(S) /\ Len(Append(o, e)) = Len(o) + 1
        /\ \A i \in 1..Len(o) : Append(o, e)[i] = o[i]
        /\ Append(o, e)[Len(o) + 1] = e
    BY <1>2, AppendProperties
  <1>4. DOMAIN Append(o, e) = 1..(Len(o) + 1)
    BY <1>3, LenProperties
  <1>5. ASSUME NEW i \in 1..(Len(o) + 1) PROVE Append(o, e)[i] = p[i]
    <2>1. CASE i \in 1..Len(o)
      BY <1>3, <2>1
    <2>2. CASE i = Len(o) + 1
      BY <1>3, <2>2
    <2> QED  BY <1>1, <2>1, <2>2
  <1> QED  BY <1>1, <1>3, <1>4, <1>5

\* What the three sources of next rest on.
LEMMA Reading ==
    ASSUME Sizes, CollectorIInv, phase = "iterate"
    PROVE  /\ vector \in Seq(Element) /\ batches \in Seq(Seq(Element)) /\ current_batch \in Seq(Element)
           /\ pushed \in Seq(Element) /\ out \in Seq(Element)
           /\ Len(vector) \in Nat /\ Len(batches) \in Nat /\ Len(current_batch) \in Nat
           /\ Len(pushed) \in Nat /\ Len(out) \in Nat
           /\ batch_index \in 0..Len(batches) /\ last_elements_index \in 0..Len(vector)
           /\ batch_size \in Nat \ {0}
           /\ batch_index * batch_size \in Nat
           /\ batch_index * batch_size + Len(vector) <= Len(pushed)
           /\ batch_index < Len(batches) => batch_index * batch_size + batch_size <= Len(pushed)
  <1>1. /\ vector \in Seq(Element) /\ batches \in Seq(Seq(Element)) /\ current_batch \in Seq(Element)
        /\ pushed \in Seq(Element) /\ out \in Seq(Element)
        /\ Len(vector) \in Nat /\ Len(batches) \in Nat /\ Len(current_batch) \in Nat
        /\ Len(pushed) \in Nat /\ Len(out) \in Nat
        /\ batch_index \in 0..Len(batches) /\ last_elements_index \in 0..Len(vector)
        /\ batch_size \in Nat \ {0}
    BY LenProperties DEF CollectorIInv, CollectorTypeOK, Sizes
  <1> DEFINE kept == Len(batches) * batch_size
             read == batch_index * batch_size
  <1>2. Len(pushed) = kept + Len(vector)
    BY DEF CollectorIInv, Kept
  <1>3. kept \in Nat /\ read \in Nat
    BY <1>1, Multiples
  <1>4. ASSUME batch_index < Len(batches) PROVE read + batch_size <= kept
    <2>1. batch_index \in Nat /\ Len(batches) \in Nat /\ batch_size \in Nat
      BY <1>1
    <2> QED  BY <1>4, <2>1, Below
  <1>5. read <= kept
    <2>1. CASE batch_index = Len(batches)
      BY <1>3, <2>1
    <2>2. CASE batch_index < Len(batches)
      <3> HIDE DEF kept, read
      <3> QED  BY <1>1, <1>3, <1>4, <2>2
    <2> QED  BY <1>1, <2>1, <2>2
  <1> SUFFICES /\ read \in Nat /\ read + Len(vector) <= Len(pushed)
               /\ batch_index < Len(batches) => read + batch_size <= Len(pushed)
    BY <1>1
  <1> HIDE DEF kept, read
  <1> QED  BY <1>1, <1>2, <1>3, <1>4, <1>5

\* The next element of the batch that was read.
LEMMA NextOfBatch ==
    ASSUME Sizes, CollectorIInv, next_of_batch
    PROVE  CollectorIInv'
  <1> DEFINE read == batch_index * batch_size
  <1>1. /\ phase = "iterate" /\ current_batch # <<>>
        /\ out' = Append(out, Head(current_batch)) /\ current_batch' = Tail(current_batch)
        /\ UNCHANGED <<phase, vector, batches, batch_index, last_elements_index, tempfile, pushed>>
    BY DEF next_of_batch
  <1>2. /\ current_batch \in Seq(Element) /\ pushed \in Seq(Element) /\ out \in Seq(Element)
        /\ Len(vector) \in Nat /\ Len(current_batch) \in Nat /\ Len(pushed) \in Nat /\ Len(out) \in Nat
        /\ read \in Nat /\ read + Len(vector) <= Len(pushed)
        /\ last_elements_index \in Nat
    BY <1>1, Reading
  <1>3. /\ Head(current_batch) \in Element /\ Head(current_batch) = current_batch[1]
        /\ Tail(current_batch) \in Seq(Element) /\ Len(Tail(current_batch)) = Len(current_batch) - 1
        /\ \A i \in 1..(Len(current_batch) - 1) : Tail(current_batch)[i] = current_batch[i + 1]
        /\ Len(current_batch) > 0
    BY <1>1, <1>2, HeadTailProperties, EmptySeq
  <1>4. out' \in Seq(Element)
    BY <1>1, <1>2, <1>3, AppendProperties
  <1>5. CollectorTypeOK'
    BY <1>1, <1>3, <1>4 DEF CollectorIInv, CollectorTypeOK
  <1>6. Kept'
    BY <1>1 DEF CollectorIInv, Kept
  <1>7. ASSUME Rewound
        PROVE  /\ Len(out') = batch_index' * batch_size - Len(current_batch') + last_elements_index'
               /\ Len(out') <= Len(pushed')
               /\ \A i \in DOMAIN out' : out'[i] = pushed'[i]
               /\ \A i \in DOMAIN current_batch' : current_batch'[i] = pushed'[Len(out') + i]
               /\ last_elements_index' = 0
    <2>1. /\ Len(out) = read - Len(current_batch) + last_elements_index
          /\ Len(out) <= Len(pushed)
          /\ \A i \in DOMAIN out : out[i] = pushed[i]
          /\ \A i \in DOMAIN current_batch : current_batch[i] = pushed[Len(out) + i]
          /\ last_elements_index > 0 => batch_index = Len(batches) /\ current_batch = <<>>
      BY <1>1, <1>7 DEF CollectorIInv, Returned
    <2>2. batch_index' * batch_size = read
      BY <1>1
    <2>3. DOMAIN out = 1..Len(out) /\ DOMAIN current_batch = 1..Len(current_batch)
      BY <1>2, LenProperties
    <2> HIDE DEF read
    <2>4. last_elements_index = 0
      BY <1>1, <1>2, <2>1
    <2>5. Len(out) < Len(pushed)
      BY <1>2, <1>3, <2>1, <2>4
    <2>6. Head(current_batch) = pushed[Len(out) + 1]
      <3>1. 1 \in DOMAIN current_batch
        BY <1>2, <1>3, <2>3
      <3> QED  BY <1>3, <2>1, <3>1
    <2>7. /\ Len(out') = Len(out) + 1 /\ Len(out') <= Len(pushed)
          /\ \A i \in DOMAIN out' : out'[i] = pushed[i]
      <3>1. \A i \in 1..Len(out) : out[i] = pushed[i]
        BY <2>1, <2>3
      <3> QED  BY ONLY <1>1, <1>2, <2>5, <2>6, <3>1, Longer
    <2>8. Len(out') = read - Len(current_batch') + last_elements_index
      BY <1>1, <1>2, <1>3, <2>1, <2>7
    <2>9. DOMAIN current_batch' = 1..(Len(current_batch) - 1)
      BY <1>1, <1>3, LenProperties
    <2>10. ASSUME NEW i \in 1..(Len(current_batch) - 1) PROVE current_batch'[i] = pushed[Len(out') + i]
      <3>1. i + 1 \in 1..Len(current_batch) /\ Len(out) + (i + 1) = Len(out') + i
        BY <1>2, <2>7
      <3>2. current_batch[i + 1] = pushed[Len(out) + (i + 1)]
        BY <2>1, <2>3, <3>1
      <3> QED  BY <1>1, <1>3, <3>1, <3>2
    <2> QED  BY <1>1, <2>2, <2>4, <2>7, <2>8, <2>9, <2>10, Zenon
  <1>8. Returned'
    BY <1>1, <1>7 DEF Returned, Rewound
  <1> QED  BY <1>5, <1>6, <1>8 DEF CollectorIInv

\* The first element of the next batch; the rest is current_batch.
LEMMA ReadBatch ==
    ASSUME Sizes, CollectorIInv, read_batch
    PROVE  CollectorIInv'
  <1> DEFINE read == batch_index * batch_size
             batch == batches[batch_index + 1]
  <1>1. /\ phase = "iterate" /\ current_batch = <<>> /\ batch_index < Len(batches)
        /\ UNCHANGED <<vector, batches, last_elements_index, tempfile, pushed>>
    BY DEF read_batch
  <1>2. /\ batches \in Seq(Seq(Element)) /\ pushed \in Seq(Element) /\ out \in Seq(Element)
        /\ Len(batches) \in Nat /\ Len(pushed) \in Nat /\ Len(out) \in Nat
        /\ batch_index \in Nat /\ batch_size \in Nat \ {0} /\ last_elements_index \in Nat
        /\ read \in Nat /\ read + batch_size <= Len(pushed)
        /\ (batch_index + 1) * batch_size = read + batch_size
    BY <1>1, Reading, Multiples
  <1>3. CASE phase' = "panic"
    <2>1. UNCHANGED <<batch_index, out, current_batch>>
      BY <1>1, <1>3 DEF read_batch
    <2>2. CollectorTypeOK'
      BY <1>1, <1>3, <2>1 DEF CollectorIInv, CollectorTypeOK
    <2> QED  BY <1>3, <2>2 DEF CollectorIInv, Kept, Returned
  <1>4. CASE phase' # "panic"
    <2>1. /\ UNCHANGED phase /\ batch_index' = batch_index + 1
          /\ out' = Append(out, Head(batch)) /\ current_batch' = Tail(batch)
      BY <1>4 DEF read_batch
    <2>2. batch_index + 1 \in DOMAIN batches /\ batch_index + 1 \in 1..Len(batches)
      BY <1>1, <1>2, LenProperties
    <2>3. /\ batch \in Seq(Element) /\ Len(batch) = batch_size
          /\ \A i \in 1..batch_size : batch[i] = pushed[read + i]
      <3>1. batch \in Seq(Element)
        BY <1>2, <2>2, ElementOfSeq
      <3>2. (batch_index + 1) - 1 = batch_index
        BY <1>2
      <3>3. /\ Len(batch) = batch_size
            /\ \A i \in 1..batch_size : batch[i] = pushed[((batch_index + 1) - 1) * batch_size + i]
        BY <1>1, <2>2 DEF CollectorIInv, Kept
      <3> QED  BY <3>1, <3>2, <3>3
    <2> HIDE DEF read, batch
    <2>4. /\ Head(batch) \in Element /\ Head(batch) = batch[1]
          /\ Tail(batch) \in Seq(Element) /\ Len(Tail(batch)) = batch_size - 1
          /\ \A i \in 1..(batch_size - 1) : Tail(batch)[i] = batch[i + 1]
      <3>1. batch # <<>>
        BY <1>2, <2>3, EmptySeq
      <3> QED  BY <2>3, <3>1, HeadTailProperties
    <2>5. out' \in Seq(Element)
      BY <1>2, <2>1, <2>4, AppendProperties
    <2>6. CollectorTypeOK'
      <3>1. batch_index' \in 0..Len(batches)
        BY <1>1, <1>2, <2>1
      <3> QED  BY <1>1, <2>1, <2>4, <2>5, <3>1 DEF CollectorIInv, CollectorTypeOK
    <2>7. Kept'
      BY <1>1, <2>1 DEF CollectorIInv, Kept
    <2>8. ASSUME Rewound
          PROVE  /\ Len(out') = batch_index' * batch_size - Len(current_batch') + last_elements_index'
                 /\ Len(out') <= Len(pushed')
                 /\ \A i \in DOMAIN out' : out'[i] = pushed'[i]
                 /\ \A i \in DOMAIN current_batch' : current_batch'[i] = pushed'[Len(out') + i]
                 /\ last_elements_index' = 0
      <3>1. /\ Len(out) = read - Len(current_batch) + last_elements_index
            /\ \A i \in DOMAIN out : out[i] = pushed[i]
            /\ last_elements_index > 0 => batch_index = Len(batches)
        BY <1>1, <2>8 DEF CollectorIInv, Returned, read
      <3>2. last_elements_index = 0
        BY <1>1, <1>2, <3>1
      <3>3. Len(out) = read
        BY <1>1, <1>2, <3>1, <3>2
      <3>4. Head(batch) = pushed[Len(out) + 1] /\ Len(out) < Len(pushed)
        BY <1>2, <2>3, <2>4, <3>3
      <3>5. \A i \in 1..Len(out) : out[i] = pushed[i]
        BY <1>2, <3>1, LenProperties
      <3>6. /\ Len(out') = Len(out) + 1 /\ Len(out') <= Len(pushed)
            /\ \A i \in DOMAIN out' : out'[i] = pushed[i]
        BY ONLY <1>2, <2>1, <3>4, <3>5, Longer
      <3>7. Len(out') = (read + batch_size) - Len(current_batch') + last_elements_index
        <4>1. Len(current_batch') = batch_size - 1 /\ batch_size \in Nat /\ read \in Nat
          BY <1>2, <2>1, <2>4
        <4> QED  BY ONLY <3>2, <3>3, <3>6, <4>1
      <3>8. DOMAIN current_batch' = 1..(batch_size - 1)
        BY <2>1, <2>4, LenProperties
      <3>9. ASSUME NEW i \in 1..(batch_size - 1) PROVE current_batch'[i] = pushed[Len(out') + i]
        <4>1. i + 1 \in 1..batch_size /\ read + (i + 1) = Len(out') + i
          BY <1>2, <3>3, <3>6
        <4> QED  BY <2>1, <2>3, <2>4, <4>1
      <3> QED  BY <1>1, <1>2, <2>1, <3>2, <3>6, <3>7, <3>8, <3>9, Zenon
    <2>9. Returned'
      BY <1>1, <2>1, <2>8 DEF Returned, Rewound
    <2> QED  BY <2>6, <2>7, <2>9 DEF CollectorIInv
  <1> QED  BY <1>3, <1>4

\* After the last batch, the elements in memory.
LEMMA NextOfLast ==
    ASSUME Sizes, CollectorIInv, next_of_last
    PROVE  CollectorIInv'
  <1> DEFINE read == batch_index * batch_size
  <1>1. /\ phase = "iterate" /\ current_batch = <<>> /\ ~(tempfile /\ batch_index < Len(batches))
        /\ UNCHANGED <<vector, batches, batch_index, current_batch, tempfile, pushed>>
    BY DEF next_of_last
  <1>2. /\ vector \in Seq(Element) /\ batches \in Seq(Seq(Element))
        /\ pushed \in Seq(Element) /\ out \in Seq(Element)
        /\ Len(vector) \in Nat /\ Len(batches) \in Nat /\ Len(pushed) \in Nat /\ Len(out) \in Nat
        /\ batch_index \in 0..Len(batches) /\ last_elements_index \in 0..Len(vector)
        /\ read \in Nat
    BY <1>1, Reading
  <1>3. ASSUME Rewound
        PROVE  /\ batch_index = Len(batches)
               /\ Len(out) = read + last_elements_index /\ Len(pushed) = read + Len(vector)
               /\ \A i \in 1..Len(out) : out[i] = pushed[i]
               /\ \A i \in 1..Len(vector) : vector[i] = pushed[read + i]
    <2>1. batch_index = Len(batches)
      <3>1. CASE batches = <<>>
        BY <1>2, <3>1
      <3>2. CASE batches # <<>>
        <4>1. tempfile
          BY <1>3, <3>2 DEF Rewound
        <4>2. ~(batch_index < Len(batches))
          BY <1>1, <4>1
        <4> QED  BY <1>2, <4>2
      <3> QED  BY <3>1, <3>2
    <2>2. /\ Len(out) = read - Len(current_batch) + last_elements_index
          /\ \A i \in DOMAIN out : out[i] = pushed[i]
      BY <1>1, <1>3 DEF CollectorIInv, Returned
    <2>3. /\ Len(pushed) = read + Len(vector)
          /\ \A i \in DOMAIN vector : vector[i] = pushed[read + i]
      BY <1>1, <2>1 DEF CollectorIInv, Kept
    <2>4. DOMAIN out = 1..Len(out) /\ DOMAIN vector = 1..Len(vector)
      BY <1>2, LenProperties
    <2>5. Len(current_batch) = 0
      BY <1>1
    <2> HIDE DEF read
    <2>6. Len(out) = read + last_elements_index
      BY <1>2, <2>2, <2>5
    <2> QED  BY <2>1, <2>2, <2>3, <2>4, <2>6, Zenon
  <1>4. Kept'
    BY <1>1 DEF CollectorIInv, Kept, next_of_last
  <1>5. CASE last_elements_index < Len(vector)
    <2>1. /\ out' = Append(out, vector[last_elements_index + 1])
          /\ last_elements_index' = last_elements_index + 1 /\ UNCHANGED phase
      BY <1>5 DEF next_of_last
    <2>2. last_elements_index + 1 \in 1..Len(vector) /\ vector[last_elements_index + 1] \in Element
      BY <1>2, <1>5, ElementOfSeq
    <2>3. out' \in Seq(Element)
      BY <1>2, <2>1, <2>2, AppendProperties
    <2>4. CollectorTypeOK'
      <3>1. last_elements_index' \in 0..Len(vector)
        BY <1>2, <1>5, <2>1
      <3> QED  BY <1>1, <2>1, <2>3, <3>1 DEF CollectorIInv, CollectorTypeOK
    <2>5. ASSUME Rewound
          PROVE  /\ Len(out') = batch_index' * batch_size - Len(current_batch') + last_elements_index'
                 /\ Len(out') <= Len(pushed')
                 /\ \A i \in DOMAIN out' : out'[i] = pushed'[i]
                 /\ batch_index' = Len(batches') /\ current_batch' = <<>>
      <3>1. batch_index' * batch_size = read /\ Len(current_batch') = 0
        BY <1>1
      <3>2. /\ batch_index = Len(batches)
            /\ Len(out) = read + last_elements_index /\ Len(pushed) = read + Len(vector)
            /\ \A i \in 1..Len(out) : out[i] = pushed[i]
            /\ \A i \in 1..Len(vector) : vector[i] = pushed[read + i]
        BY <1>3, <2>5
      <3> HIDE DEF read
      <3>3. Len(out) < Len(pushed) /\ read + (last_elements_index + 1) = Len(out) + 1
        BY <1>2, <1>5, <3>2
      <3>4. vector[last_elements_index + 1] = pushed[Len(out) + 1]
        BY <2>2, <3>2, <3>3
      <3>5. /\ Len(out') = Len(out) + 1 /\ Len(out') <= Len(pushed)
            /\ \A i \in DOMAIN out' : out'[i] = pushed[i]
        <4>1. /\ pushed \in Seq(Element) /\ out \in Seq(Element) /\ Len(out) < Len(pushed)
              /\ \A i \in 1..Len(out) : out[i] = pushed[i]
          BY <1>2, <3>2, <3>3
        <4> QED  BY ONLY <2>1, <3>4, <4>1, Longer
      <3>6. Len(out') = read - 0 + last_elements_index'
        BY <1>2, <2>1, <3>2, <3>5
      <3> QED  BY <1>1, <3>1, <3>2, <3>5, <3>6
    <2>6. Returned'
      BY <1>1, <2>1, <2>5 DEF Returned, Rewound
    <2> QED  BY <1>4, <2>4, <2>6 DEF CollectorIInv
  <1>6. CASE ~(last_elements_index < Len(vector))
    <2>1. phase' = "done" /\ UNCHANGED <<out, last_elements_index>>
      BY <1>6 DEF next_of_last
    <2>2. CollectorTypeOK'
      BY <1>1, <2>1 DEF CollectorIInv, CollectorTypeOK
    <2>3. ASSUME Rewound PROVE Len(out) = Len(pushed)
      <3>1. Len(out) = read + last_elements_index /\ Len(pushed) = read + Len(vector)
        BY <1>3, <2>3
      <3> HIDE DEF read
      <3> QED  BY <1>2, <1>6, <3>1
    <2>4. Returned'
      BY <1>1, <2>1, <2>3 DEF CollectorIInv, Returned, Rewound
    <2> QED  BY <1>4, <2>2, <2>4 DEF CollectorIInv
  <1> QED  BY <1>5, <1>6

\* Every step keeps the invariant.
LEMMA CollectorInvariance == ASSUME Sizes PROVE CollectorIInv /\ [CollectorNext]_collectorVars => CollectorIInv'
  <1> SUFFICES ASSUME CollectorIInv, [CollectorNext]_collectorVars PROVE CollectorIInv'
    OBVIOUS
  <1>1. ASSUME NEW e \in Element, push(e) PROVE CollectorIInv'
    BY <1>1, Push
  <1>2. CASE into_iter
    BY <1>2, IntoIter
  <1>3. CASE next_of_batch
    BY <1>3, NextOfBatch, Zenon
  <1>4. CASE read_batch
    BY <1>4, ReadBatch
  <1>5. CASE next_of_last
    BY <1>5, NextOfLast
  <1>6. CASE UNCHANGED collectorVars
    BY <1>6 DEF collectorVars, CollectorIInv, CollectorTypeOK, Kept, Returned, Rewound
  <1> QED  BY <1>1, <1>2, <1>3, <1>4, <1>5, <1>6 DEF CollectorNext, iterate

\* At the end nothing is missing.
LEMMA WholeSequence == ASSUME Sizes PROVE CollectorIInv => AllBack
  <1> SUFFICES ASSUME CollectorIInv, phase = "done", Rewound PROVE out = pushed
    BY DEF AllBack
  <1>1. /\ out \in Seq(Element) /\ pushed \in Seq(Element) /\ Len(out) = Len(pushed)
        /\ \A i \in DOMAIN out : out[i] = pushed[i]
    BY DEF CollectorIInv, CollectorTypeOK, Returned
  <1>2. \A i \in 1..Len(out) : out[i] = pushed[i]
    BY <1>1, LenProperties
  <1> QED  BY ONLY <1>1, <1>2, SeqEqual

\* TempCollector gives back what it was given: for every size of a batch and
\* every limit of memory, the iterator of swapvec.rs returns exactly the elements
\* pushed, in their order, unless something panics or the file cannot be rewound.
THEOREM CollectorTheorem == ASSUME Sizes PROVE CollectorSpec => []AllBack
  <1>1. CollectorInit => CollectorIInv
    BY Initially
  <1>2. CollectorIInv /\ [CollectorNext]_collectorVars => CollectorIInv'
    BY CollectorInvariance
  <1>3. CollectorIInv => AllBack
    BY WholeSequence
  <1> QED  BY <1>1, <1>2, <1>3, PTL DEF CollectorSpec
=============================================================================
