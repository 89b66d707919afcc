------------------------------ MODULE Stratify ------------------------------
(***************************************************************************)
(* From a program in normal form to the evaluation of its strata:          *)
(* into_stratified_program of retia-core/src/query/stratify.rs, the names  *)
(* that magic_sets_rewrite of query/magic.rs gives to stores, and the      *)
(* lifetimes of stores in stratified_magic_evaluate of query/eval.rs; and  *)
(* the two algorithms of query/graph.rs that they need: the strongly       *)
(* connected components of a graph (TarjanScc), and a topological order of *)
(* an acyclic graph, cut into strata such that no poisoned edge stays      *)
(* within a stratum (generalized_kahn).                                    *)
(*                                                                         *)
(* A program has a rule set per symbol, with a kind (no aggregation, meet  *)
(* aggregation, other aggregation, fixed rule) and references to other     *)
(* rule sets, negated or not.  Symbols are 0, 1, ... in their order; 0 is  *)
(* the entry `?`, which the grammar does not let a body refer to.  A store *)
(* is <<"muggle", r>>, or <<"magic", r>> for all adorned variants of r.    *)
(***************************************************************************)
EXTENDS Naturals, Sequences, FiniteSets

-----------------------------------------------------------------------------
(* TarjanScc.  The recursion of dfs is a stack of calls; the edges of a     *)
(* node are looked at in ascending order, as its sorted vector has them.    *)

VARIABLES
    succ,   \* the graph: a function from nodes to sets of nodes
    calls,  \* running calls of dfs: [at, todo], todo the edges not yet looked at
    ids,    \* [node -> Nat], 0 for None
    low,    \* [node -> Nat]
    stack   \* the nodes whose component is not yet known

tarjanVars == <<succ, calls, ids, low, stack>>

Node == DOMAIN succ
Least(S) == CHOOSE a \in S : \A b \in S : a <= b
lastId == Cardinality({a \in Node : ids[a] # 0})
on_stack(a) == \E n \in DOMAIN stack : stack[n] = a
Top == calls[Len(calls)]
Outer == SubSeq(calls, 1, Len(calls) - 1)

\* The beginning of dfs(at), called from the calls in `from`.
Call(at, from) ==
    /\ calls' = Append(from, [at |-> at, todo |-> succ[at] \cap Node])
    /\ ids' = [ids EXCEPT ![at] = lastId + 1]
    /\ low' = [low EXCEPT ![at] = lastId + 1]
    /\ stack' = Append(stack, at)
    /\ UNCHANGED succ

\* The loop of run: the next node without an id.
next_root ==
    /\ calls = <<>>
    /\ \E a \in Node : ids[a] = 0
    /\ Call(Least({a \in Node : ids[a] = 0}), <<>>)

\* The loop of dfs: the next edge; the edge is looked at again after its call.
next_child ==
    /\ calls # <<>>
    /\ Top.todo # {}
    /\ ids[Least(Top.todo)] = 0
    /\ Call(Least(Top.todo), calls)

\* Mutant of back_edge: an edge to a node off the stack is not passed.
back_edge_stuck ==
    /\ calls # <<>>
    /\ Top.todo # {}
    /\ LET to == Least(Top.todo)
       IN  /\ ids[to] # 0
           /\ on_stack(to)
           /\ calls' = Append(Outer, [Top EXCEPT !.todo = @ \ {to}])
           /\ low' = [low EXCEPT ![Top.at] = IF low[to] < @ THEN low[to] ELSE @]
    /\ UNCHANGED <<succ, ids, stack>>

back_edge ==
    /\ calls # <<>>
    /\ Top.todo # {}
    /\ LET to == Least(Top.todo)
       IN  /\ ids[to] # 0
           /\ calls' = Append(Outer, [Top EXCEPT !.todo = @ \ {to}])
           /\ low' = [low EXCEPT ![Top.at] = IF on_stack(to) /\ low[to] < @ THEN low[to] ELSE @]
    /\ UNCHANGED <<succ, ids, stack>>

\* The end of dfs: a root takes its component off the stack.
return ==
    /\ calls # <<>>
    /\ Top.todo = {}
    /\ calls' = Outer
    /\ IF ids[Top.at] # low[Top.at] THEN UNCHANGED <<low, stack>>
       ELSE LET n == CHOOSE m \in DOMAIN stack : stack[m] = Top.at
                popped == {stack[m] : m \in n..Len(stack)}
            IN  /\ stack' = SubSeq(stack, 1, n - 1)
                /\ low' = [a \in Node |-> IF a \in popped THEN ids[Top.at] ELSE low[a]]
    /\ UNCHANGED <<succ, ids>>

TarjanDone == calls = <<>> /\ \A a \in Node : ids[a] # 0

TarjanStep == next_root \/ next_child \/ back_edge \/ return

\* low_map.into_values(): the components are numbered by their low.
SccIndex(a) == Cardinality({low[b] : b \in {c \in Node : low[c] < low[a]}})

-----------------------------------------------------------------------------
(* generalized_kahn *)

VARIABLES
    edges,      \* set of <<from, to>>
    poisoned,   \* the poisoned ones
    in_degree,  \* [node -> Nat]; nodes are 0..num_nodes - 1
    ret,        \* the strata so far, sequences of nodes
    current,    \* current_stratum
    safe,       \* safe_pending, a stack
    unsafe,     \* unsafe_nodes
    kahnDone

kahnVars == <<edges, poisoned, in_degree, ret, current, safe, unsafe, kahnDone>>

\* The members of a set of naturals in ascending order.
Ascending(S) ==
    [n \in 1..Cardinality(S) |-> CHOOSE a \in S : Cardinality({b \in S : b < a}) = n - 1]

KahnStart(e, p, num_nodes) ==
    LET degree == [a \in 0..(num_nodes - 1) |-> Cardinality({f \in e : f[2] = a})]
    IN  /\ edges' = e
        /\ poisoned' = p
        /\ in_degree' = degree
        /\ ret' = <<>>
        /\ current' = <<>>
        /\ safe' = Ascending({a \in DOMAIN degree : degree[a] = 0})
        /\ unsafe' = {}
        /\ kahnDone' = FALSE

\* The first part of an iteration: a stratum is closed when no safe node is left.
CloseStratum == safe = <<>> /\ unsafe # {}
Ret == IF CloseStratum THEN Append(ret, current) ELSE ret
Current == IF CloseStratum THEN <<>> ELSE current
Safe == IF CloseStratum THEN Ascending({a \in unsafe : in_degree[a] = 0}) ELSE safe

\* Mutant of Unsafe: poison is forgotten.
Unsafe_never == {}

Unsafe == IF CloseStratum THEN {} ELSE unsafe

\* The second part: the loop ends, or a safe node moves to the stratum.
kahn_step ==
    /\ ~kahnDone
    /\ IF Safe = <<>>
         THEN /\ ret' = IF Current = <<>> THEN Ret ELSE Append(Ret, Current)
              /\ kahnDone' = TRUE
              /\ UNCHANGED <<in_degree, current, safe, unsafe>>
         ELSE LET removed == Safe[Len(Safe)]
                  nexts == {f[2] : f \in {g \in edges : g[1] = removed}}
                  hit == {b \in nexts : <<removed, b>> \in poisoned}
              IN  /\ current' = Append(Current, removed)
                  /\ in_degree' = [a \in DOMAIN in_degree |->
                                     IF a \in nexts THEN in_degree[a] - 1 ELSE in_degree[a]]
                  /\ unsafe' = Unsafe \cup hit
                  /\ safe' = SubSeq(Safe, 1, Len(Safe) - 1) \o
                             Ascending({b \in nexts : in_degree'[b] = 0 /\ b \notin unsafe'})
                  /\ ret' = Ret
                  /\ UNCHANGED kahnDone
    /\ UNCHANGED <<edges, poisoned>>

-----------------------------------------------------------------------------
(* Properties.                                                             *)

Closed(S) == \A a \in S : succ[a] \cap Node \subseteq S

\* b can be reached from a.
Reaches(a, b) == \A S \in SUBSET Node : a \in S /\ Closed(S) => b \in S

\* Two nodes have the same low in the end exactly if each reaches the other:
\* the groups that TarjanScc::run makes are the strongly connected components.
SccExact ==
    TarjanDone =>
       \A a, b \in Node : low[a] = low[b] <=> Reaches(a, b) /\ Reaches(b, a)

InStratum(a, s) == \E n \in DOMAIN ret[s] : ret[s][n] = a

\* "simultaneously a topological ordering and a stratification": every node is
\* in one stratum, no edge leads to an earlier one, a poisoned edge leads to a
\* later one; and "debug_assert_eq!(in_degree.iter().sum::<usize>(), 0)".
Stratification ==
    kahnDone =>
       /\ \A a \in DOMAIN in_degree :
             /\ in_degree[a] = 0
             /\ Cardinality({<<s, n>> \in (DOMAIN ret) \X (1..Cardinality(DOMAIN in_degree)) :
                               n \in DOMAIN ret[s] /\ ret[s][n] = a}) = 1
       /\ \A e \in edges : \A s, t \in DOMAIN ret :
             InStratum(e[1], s) /\ InStratum(e[2], t) =>
                s <= t /\ (e \in poisoned => s < t)

-----------------------------------------------------------------------------
(* Stratification and the lifetimes of stores                               *)

CONSTANT Programs  \* records [kind, refs], see the variables

VARIABLES
    kind,     \* [Symb -> {"none", "meet", "normal", "fixed"}]
    refs,     \* set of <<from, to, negated>>
    phase,    \* "scc" | "kahn" | "eval" | "done" | "unstratifiable"
    stratum,  \* strata evaluated so far
    stores    \* names of the stores that are there

vars == <<tarjanVars, kahnVars, kind, refs, phase, stratum, stores>>
program == <<kind, refs>>

Symb == DOMAIN kind
PROG_ENTRY == 0

-----------------------------------------------------------------------------
(* convert_normal_form_program_to_graph                                    *)

Poisons(from, to, negated) ==
    CASE kind[from] = "fixed" -> TRUE
      [] kind[from] \in {"meet", "normal"} ->
            ~(kind[from] = "meet" /\ from = to) \/ kind[to] = "fixed" \/ negated
      [] kind[from] = "none" ->
            kind[to] = "fixed" \/ (kind[to] = "meet" /\ to # from) \/ negated

Uses(from) == {r[2] : r \in {s \in refs : s[1] = from}}
EdgePoisoned(from, to) == \E r \in refs : r[1] = from /\ r[2] = to /\ Poisons(from, to, r[3])

\* reachable_components from the entry
UsesClosed(S) == \A r \in refs : r[1] \in S => r[2] \in S
Reachable == {s \in Symb : \A S \in SUBSET Symb : PROG_ENTRY \in S /\ UsesClosed(S) => s \in S}

\* reduce_to_graph, pruned of what the entry does not need.
Pruned == [s \in Reachable |-> Uses(s)]

Init ==
    /\ \E p \in Programs : kind = p.kind /\ refs = p.refs
    /\ succ = Pruned
    /\ calls = <<>> /\ stack = <<>>
    /\ ids = [s \in Reachable |-> 0]
    /\ low = [s \in Reachable |-> 0]
    /\ edges = {} /\ poisoned = {} /\ in_degree = <<>>
    /\ ret = <<>> /\ current = <<>> /\ safe = <<>> /\ unsafe = {} /\ kahnDone = FALSE
    /\ phase = "scc"
    /\ stratum = 0
    /\ stores = {}

strongly_connected_components ==
    /\ phase = "scc"
    /\ TarjanStep
    /\ UNCHANGED <<kahnVars, program, phase, stratum, stores>>

verify_no_cycle ==
    \A a \in Node : \A b \in Uses(a) : low[a] = low[b] => ~EdgePoisoned(a, b)

\* make_scc_reduced_graph and the start of generalized_kahn, with the number of
\* rule sets for the number of nodes.
Across == {e \in Node \X Node : e[2] \in Uses(e[1]) /\ SccIndex(e[1]) # SccIndex(e[2])}
Reduced(E) == {<<SccIndex(e[1]), SccIndex(e[2])>> : e \in E}

make_scc_reduced_graph ==
    /\ phase = "scc"
    /\ TarjanDone
    /\ IF verify_no_cycle
         THEN /\ phase' = "kahn"
              /\ KahnStart(Reduced(Across),
                           Reduced({e \in Across : EdgePoisoned(e[1], e[2])}),
                           Cardinality(Node))
         ELSE phase' = "unstratifiable" /\ UNCHANGED kahnVars
    /\ UNCHANGED <<tarjanVars, program, stratum, stores>>

generalized_kahn ==
    /\ phase = "kahn"
    /\ kahn_step
    /\ phase' = IF kahnDone' THEN "eval" ELSE phase
    /\ UNCHANGED <<tarjanVars, program, stratum, stores>>

-----------------------------------------------------------------------------
(* The strata, from the entry (1) to the last, which is evaluated first.   *)

RulesIn(s) == {a \in Node : InStratum(SccIndex(a), s)}
StratumOf(a) == CHOOSE s \in DOMAIN ret : a \in RulesIn(s)

\* exempt_aggr_rules_for_magic_sets, get_downstream_rules
HasAggr(a) == kind[a] \in {"meet", "normal"}
Downstream(s) ==
    UNION {IF kind[a] = "fixed" THEN Uses(a) ELSE Uses(a) \ RulesIn(s) : a \in RulesIn(s)}

Exempt(s) ==
    {PROG_ENTRY} \cup UNION {{a \in RulesIn(t) : HasAggr(a)} : t \in 1..s}
                 \cup UNION {Downstream(t) : t \in 1..(s - 1)}

\* adorn: what the rule sets that keep their names ask for, and so on.
ToRewrite(s) == RulesIn(s) \ Exempt(s)
Asks(a, s) == {r[2] : r \in {q \in refs : q[1] = a /\ ~q[3]}} \cap ToRewrite(s)
Rules(S) == {a \in S : kind[a] # "fixed"}
Adorned(s) ==
    {a \in ToRewrite(s) :
       \A S \in SUBSET ToRewrite(s) :
          /\ \A b \in Rules(RulesIn(s) \cap Exempt(s)) : Asks(b, s) \subseteq S
          /\ \A b \in S : Asks(b, s) \subseteq S
          => a \in S}

Kept(s) == RulesIn(s) \cap Exempt(s)
StoresOf(s) == ({"muggle"} \X Kept(s)) \cup ({"magic"} \X Adorned(s))

\* The store that a reference of a rule set in stratum s reads.
ReadBy(r, s) ==
    IF r[3] \/ kind[r[1]] = "fixed" \/ r[2] \notin ToRewrite(s)
      THEN <<"muggle", r[2]>> ELSE <<"magic", r[2]>>

\* Mutant of lifetime: the first use decides.
lifetime_first(a) ==
    LET users == {b \in Node : a \in Uses(b)} IN Len(ret) - StratumOf(Least(users))

\* store_lifetimes: the last evaluation, counted from 0, that uses the store.
lifetime(a) ==
    LET uses == {Len(ret) - StratumOf(b) : b \in {c \in Node : a \in Uses(c)}}
    IN  CHOOSE n \in uses : \A m \in uses : m <= n
HasLifetime(a) == \E b \in Node : a \in Uses(b)

\* Mutant of Retained: the lifetime does not count.
Retained_used == {x \in stores : x[1] = "muggle" /\ HasLifetime(x[2])}

Retained ==
    IF stratum = 0 THEN stores
    ELSE {x \in stores : x[1] = "muggle" /\ HasLifetime(x[2]) /\ lifetime(x[2]) >= stratum}

\* One round of stratified_magic_evaluate.
stratified_magic_evaluate ==
    /\ phase = "eval"
    /\ stratum < Len(ret)
    /\ stores' = Retained \cup StoresOf(Len(ret) - stratum)
    /\ stratum' = stratum + 1
    /\ phase' = IF stratum + 1 = Len(ret) THEN "done" ELSE phase
    /\ UNCHANGED <<tarjanVars, kahnVars, program>>

Next ==
    \/ strongly_connected_components \/ make_scc_reduced_graph
    \/ generalized_kahn \/ stratified_magic_evaluate

Spec == Init /\ [][Next]_vars /\ WF_vars(Next)

-----------------------------------------------------------------------------
(* Properties.                                                             *)

TypeOK ==
    /\ \A a \in Node : ids[a] \in 0..Cardinality(Symb) /\ low[a] \in 0..Cardinality(Symb)
    /\ \A a \in DOMAIN in_degree : in_degree[a] \in 0..Cardinality(Symb)
    /\ phase \in {"scc", "kahn", "eval", "done", "unstratifiable"}
    /\ stratum \in 0..Len(ret)
    /\ stores \subseteq {"muggle", "magic"} \X Symb

\* A program is refused exactly if a dependency that does not allow recursion
\* (see UnStratifiableProgram) is part of a cycle that the entry needs.
RefusedExactly ==
    phase # "scc" =>
       (phase = "unstratifiable" <=>
          \E a \in Node : \E b \in Uses(a) : EdgePoisoned(a, b) /\ Reaches(b, a))

\* Types and the refusal.
Inv == TypeOK /\ RefusedExactly

\* A rule that must see all of another one: negation, an aggregation that is
\* not computed incrementally, a fixed rule, the values of a meet aggregation.
MustBeComplete(r) ==
    r[3] \/ kind[r[1]] \in {"normal", "fixed"} \/ (kind[r[2]] = "meet" /\ r[1] # r[2])

\* Every store that the rule sets of the evaluated stratum read is there, and
\* was finished in an earlier stratum where it must be complete.  The rule sets
\* that are asked for with bindings are not fixed rules (adorn unwraps rules()).
ReadsReady ==
    stratum > 0 =>
       LET s == Len(ret) - stratum + 1
       IN  /\ Adorned(s) = Rules(Adorned(s))
           /\ \A r \in refs :
                 r[1] \in Kept(s) \cup Adorned(s) =>
                    /\ ReadBy(r, s) \in stores
                    /\ MustBeComplete(r) => ReadBy(r, s) \notin StoresOf(s)

\* "remove stores that have outlived their usefulness": a store of an earlier
\* stratum is there only if this or a later stratum reads it; the result of the
\* entry is there in the end.
StoresUseful ==
    /\ stratum > 0 =>
         \A x \in stores \ StoresOf(Len(ret) - stratum + 1) :
            \E r \in refs : r[1] \in Node /\ r[2] = x[2] /\ StratumOf(r[1]) <= Len(ret) - stratum + 1
    /\ phase = "done" => <<"muggle", PROG_ENTRY>> \in stores
=============================================================================
