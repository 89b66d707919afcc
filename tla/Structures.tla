----------------------------- MODULE Structures -----------------------------
(***************************************************************************)
(* The fixed rules that are not about paths: spanning trees, components,   *)
(* communities, walks and the utilities, retia-core/src/fixed_rule.        *)
(*                                                                         *)
(* A job is a call of a rule with its relations and options.  Rules that   *)
(* leave something to chance, or to the order in which a priority queue    *)
(* keeps equal priorities, run one round of their loop in a step, with     *)
(* the state of the loop in `work`; the others run in one step.  Weights   *)
(* are integers.                                                           *)
(***************************************************************************)
EXTENDS Integers, Sequences, FiniteSets, FiniteSetsExt, SequencesExt, TLC

CONSTANTS
    Jobs,     \* the calls: records with at least rule, rows, options
    NaN,      \* an integer that stands for what is no finite number
    Refused,  \* the answer of a call that ended with an error
    None

VARIABLES
    job,
    work,  \* the state of the rule's loop, None before and after it
    out    \* the rows of the answer, None as long as there is none

vars == <<job, work, out>>

P == INSTANCE Paths WITH Inf <- 0

-----------------------------------------------------------------------------
(* Options, fixed_rule/mod.rs: an option that is not given has its default *)
(* (None if it must be given); NaN stands for what is not of the type.     *)

integer_option(given, default) == IF given = None THEN default ELSE given
Ranges == [pos |-> [least |-> 1, most |-> 1000], non_neg |-> [least |-> 0, most |-> 1000],
           unit |-> [least |-> 0, most |-> 10000]]  \* of the unit interval: ten-thousandths
Valid(kind, given, default) ==
    LET i == integer_option(given, default)
    IN  i # None /\ i # NaN /\ Ranges[kind].least <= i /\ i <= Ranges[kind].most

\* The rules' numeric options: [kind, default].
Options == [CommunityDetectionLouvain |-> [max_iter |-> <<"pos", 10>>, delta |-> <<"unit", 1>>],
            LabelPropagation |-> [max_iter |-> <<"pos", 10>>],
            RandomWalk |-> [iterations |-> <<"pos", 1>>, steps |-> <<"pos", None>>],
            ReorderSort |-> [skip |-> <<"non_neg", 0>>, take |-> <<"non_neg", 0>>]]
Option(name) == integer_option(job.options[name], Options[job.rule][name][2])
BadOption ==
    job.rule \in DOMAIN Options
      /\ \E n \in DOMAIN Options[job.rule] :
           ~Valid(Options[job.rule][n][1], job.options[n], Options[job.rule][n][2])

-----------------------------------------------------------------------------
(* Nodes have the numbers 1, 2, ... in the order of their first appearance *)
(* in the rows, which come in their order.                                 *)

InOrder(rows) == SortSeq(P!AsSeq(rows), LAMBDA a, b : a[1] < b[1] \/ (a[1] = b[1] /\ a[2] < b[2]))
indices(rows) ==
    FoldLeft(LAMBDA s, r : LET t == IF r[1] \in Range(s) THEN s ELSE Append(s, r[1])
                           IN  IF r[2] \in Range(t) THEN t ELSE Append(t, r[2]),
             <<>>, InOrder(rows))

\* A graph has its number of nodes and its edges.
as_directed_weighted_graph(rows, undirected) ==
    LET ix == indices(rows)
        at(n) == CHOOSE i \in DOMAIN ix : ix[i] = n
    IN  [n |-> Len(ix),
         edges |-> {[e EXCEPT !.from = at(@), !.to = at(e.to)] : e \in P!as_directed_weighted_graph(rows, undirected)}]

Nodes(g) == 1..g.n
Ascending(g, S) == SelectSeq([n \in Nodes(g) |-> n], LAMBDA n : n \in S)
Out(g, n) == {e \in g.edges : e.from = n}
Targets(g, n) == {e.to : e \in Out(g, n)}

Undirected == \/ job.rule \in {"MinimumSpanningForestKruskal", "MinimumSpanningTreePrim",
                               "ConnectedComponents", "ClusteringCoefficients"}
              \/ job.rule \in {"LabelPropagation", "CommunityDetectionLouvain"} /\ job.undirected
Graph == as_directed_weighted_graph(job.rows, Undirected)
Node(i) == indices(job.rows)[i]
Tree(edges) == {<<Node(e[1]), Node(e[2]), e[3]>> : e \in edges}

Answers(rows) == out' = rows

\* Louvain's weights must not be negative; rules without weights ignore them.
Unweighted == {"StronglyConnectedComponents", "ConnectedComponents", "TopSort", "ClusteringCoefficients",
               "DegreeCentrality", "RandomWalk", "ReorderSort", "Constant"}
BadWeights ==
    job.rule \notin Unweighted
      /\ \E r \in job.rows : P!BadEdgeWeight(r, job.rule # "CommunityDetectionLouvain")

-----------------------------------------------------------------------------
(* Kruskal's forest.                                                       *)

RECURSIVE Find(_, _)
Find(ids, p) == IF ids[p] = p THEN p ELSE Find(ids, ids[p])

\* Path compression: what is on the way to the root points to it.
RECURSIVE OnTheWay(_, _)
OnTheWay(ids, p) == IF ids[p] = p THEN {p} ELSE {p} \cup OnTheWay(ids, ids[p])
Compressed(ids, p) == [q \in DOMAIN ids |-> IF q \in OnTheWay(ids, p) THEN Find(ids, p) ELSE ids[q]]

Union(uf, p, q) ==
    LET r1 == Find(uf.ids, p)
        r2 == Find(uf.ids, q)
        ids == Compressed(Compressed(uf.ids, p), q)
        size == uf.szs[r1] + uf.szs[r2]
    IN  IF r1 = r2 THEN [uf EXCEPT !.ids = ids]
        ELSE IF uf.szs[r1] < uf.szs[r2]
             THEN [ids |-> [ids EXCEPT ![r1] = r2], szs |-> [uf.szs EXCEPT ![r2] = size]]
        ELSE [ids |-> [ids EXCEPT ![r2] = r1], szs |-> [uf.szs EXCEPT ![r1] = size]]

\* Of parallel edges the queue keeps the last that is put in: any of them.
KruskalStart(w) ==
    \E cost \in [{<<e.from, e.to>> : e \in Graph.edges} -> {e.w : e \in Graph.edges}] :
      /\ \A k \in DOMAIN cost : \E e \in Graph.edges : e.from = k[1] /\ e.to = k[2] /\ e.w = cost[k]
      /\ w = [g |-> Graph, pq |-> cost, mst |-> {},
              uf |-> [ids |-> [i \in Nodes(Graph) |-> i], szs |-> [i \in Nodes(Graph) |-> 1]]]

Least(pq) == {k \in DOMAIN pq : \A m \in DOMAIN pq : pq[k] <= pq[m]}
Without(pq, k) == [m \in DOMAIN pq \ {k} |-> pq[m]]

KruskalPop ==
    \E k \in Least(work.pq) :
      LET joined == Union(work.uf, k[1], k[2])
      IN  IF Find(work.uf.ids, k[1]) = Find(work.uf.ids, k[2])
          THEN /\ work' = [work EXCEPT !.pq = Without(@, k),
                                       !.uf.ids = Compressed(Compressed(@, k[1]), k[2])]
               /\ UNCHANGED out
          ELSE LET mst == work.mst \cup {<<k[1], k[2], work.pq[k]>>}
               IN  IF joined.szs[1] = work.g.n
                   THEN Answers(Tree(mst)) /\ work' = None
                   ELSE work' = [work EXCEPT !.pq = Without(@, k), !.mst = mst, !.uf = joined] /\ UNCHANGED out

(* Prim's tree: a node of the queue has the cheapest edge to it from the   *)
(* tree, of equal ones that from the node with the greatest number.        *)
PrimRelax(g, pq, visited, n) ==
    LET near == Targets(g, n) \ visited
        cost(t) == Min({e.w : e \in {x \in Out(g, n) : x.to = t}})
        better(t) == t \notin DOMAIN pq \/ cost(t) < pq[t][1] \/ (cost(t) = pq[t][1] /\ n > pq[t][2])
    IN  [t \in DOMAIN pq \cup near |-> IF t \in near /\ better(t) THEN <<cost(t), n>> ELSE pq[t]]

PrimStart(start) ==
    [g |-> Graph, pq |-> PrimRelax(Graph, <<>>, {start}, start), visited |-> {start}, mst |-> {}]

PrimPop ==
    \E t \in {k \in DOMAIN work.pq : \A m \in DOMAIN work.pq :
                work.pq[k][1] < work.pq[m][1] \/ (work.pq[k][1] = work.pq[m][1] /\ work.pq[k][2] >= work.pq[m][2])} :
      LET visited == work.visited \cup {t}
      IN  IF Cardinality(work.mst) = work.g.n - 1 THEN Answers(Tree(work.mst)) /\ work' = None
          ELSE /\ work' = [work EXCEPT !.pq = PrimRelax(work.g, Without(@, t), visited, t), !.visited = visited,
                                       !.mst = @ \cup {<<work.pq[t][2], t, work.pq[t][1]>>}]
               /\ UNCHANGED out

-----------------------------------------------------------------------------
(* TarjanSccG.                                                             *)

RECURSIVE dfs(_, _, _)
Visited(u, at, to) == IF to \in Range(u.stack) THEN [u EXCEPT !.low[at] = Min({@, u.low[to]})] ELSE u
Popped(s, at) ==
    LET first == CHOOSE i \in DOMAIN s.stack : s.stack[i] = at
        popped == Range(SubSeq(s.stack, first, Len(s.stack)))
    IN  IF s.ids[at] # s.low[at] THEN s
        ELSE [s EXCEPT !.stack = SubSeq(@, 1, first - 1),
                       !.low = [n \in DOMAIN @ |-> IF n \in popped THEN s.ids[at] ELSE @[n]]]
dfs(g, s, at) ==
    LET entered == [s EXCEPT !.stack = Append(@, at), !.id = @ + 1, !.ids[at] = s.id + 1, !.low[at] = s.id + 1]
        visit(t, to) == Visited(IF t.ids[to] = 0 THEN dfs(g, t, to) ELSE t, at, to)
    IN  Popped(FoldLeft(visit, entered, Ascending(g, Targets(g, at))), at)

\* The groups are numbered by their low links; nodes that are only in the
\* relation of nodes get numbers of their own, after those.
Ranks(low) == [n \in DOMAIN low |-> Cardinality({low[m] : m \in {k \in DOMAIN low : low[k] < low[n]}})]
TarjanSccG(g) ==
    LET zero == [n \in Nodes(g) |-> 0]
    IN  Ranks(FoldLeft(LAMBDA a, n : IF a.ids[n] = 0 THEN dfs(g, a, n) ELSE a,
                       [id |-> 0, ids |-> zero, low |-> zero, stack |-> <<>>], [n \in Nodes(g) |-> n]).low)

Grouped(ix, group) ==
    LET alone == job.nodes \ Range(ix)
    IN  {<<ix[n], group[n]>> : n \in DOMAIN ix}
          \cup {<<n, Cardinality(Range(group)) + Cardinality({m \in alone : m < n})>> : n \in alone}
Components == Grouped(indices(job.rows), TarjanSccG(Graph))

(* kahn_g: the nodes without an edge to them are a stack.                  *)
InDegree(g, n) == Cardinality({e \in g.edges : e.to = n})

RECURSIVE Removed(_, _, _, _)
Removed(g, degree, pending, sorted) ==
    IF pending = <<>> THEN sorted
    ELSE LET n == Last(pending)
             minus(t) == Cardinality({e \in Out(g, n) : e.to = t})
             free == {t \in Targets(g, n) : degree[t] = minus(t)}
         IN  Removed(g, [t \in DOMAIN degree |-> degree[t] - minus(t)],
                     Front(pending) \o Ascending(g, free), Append(sorted, n))

kahn_g(g) ==
    Removed(g, [n \in Nodes(g) |-> InDegree(g, n)],
            Ascending(g, {n \in Nodes(g) : InDegree(g, n) = 0}), <<>>)

TopSort == LET sorted == kahn_g(Graph) IN {<<i - 1, Node(sorted[i])>> : i \in DOMAIN sorted}

(* clustering_coefficients: a node's edges with their multiplicity.        *)
clustering_coefficients(g) ==
    LET triangles(n) ==
          Cardinality({p \in Out(g, n) \X Out(g, n) : p[1].to > p[2].to /\ p[2].to \in Targets(g, p[1].to)})
        degree(n) == Cardinality(Out(g, n))
    IN  {<<Node(n), IF degree(n) < 2 THEN 0 ELSE triangles(n), degree(n)>> : n \in Nodes(g)}
Coefficients == clustering_coefficients(Graph)

DegreeCentrality ==
    LET outs(n) == Cardinality({r \in job.rows : r[1] = n})
        ins(n) == Cardinality({r \in job.rows : r[2] = n})
    IN  {<<n, outs(n) + ins(n), outs(n), ins(n)>> : n \in P!Nodes(job.rows) \cup job.nodes}

-----------------------------------------------------------------------------
(* Louvain's communities.  A community function gives each node its        *)
(* community; modularities are times the square of the total weight.       *)

SumW(edges) == MapThenSumSet(LAMBDA e : e.w, edges)
Members(comm, c) == {n \in DOMAIN comm : comm[n] = c}

\* The graph with its weights: in all, and into and out of each node.
Weighted(g) ==
    [n |-> g.n, edges |-> g.edges, total |-> SumW(g.edges),
     in |-> FoldLeft(LAMBDA s, n : Append(s, SumW({e \in g.edges : e.to = n})), <<>>, [n \in Nodes(g) |-> n]),
     out |-> FoldLeft(LAMBDA s, n : Append(s, SumW(Out(g, n))), <<>>, [n \in Nodes(g) |-> n])]

modularity(g, comm) ==
    MapThenSumSet(LAMBDA p : SumW({e \in g.edges : e.from = p[1] /\ e.to = p[2]}) * g.total - g.in[p[1]] * g.out[p[2]],
                  {p \in Nodes(g) \X Nodes(g) : comm[p[1]] = comm[p[2]]})

\* Of parallel edges one counts.
OneOf(g, from, to) ==
    LET between == {e \in g.edges : e.from = from /\ e.to = to}
    IN  IF between = {} THEN 0 ELSE (CHOOSE e \in between : TRUE).w

\* Times the total weight.
calculate_delta(g, comm, node, target) ==
    LET others == Members(comm, target) \ {node}
    IN  MapThenSumSet(LAMBDA m : (OneOf(g, node, m) + OneOf(g, m, node)) * g.total
                                   - g.out[m] * g.in[node] - g.in[m] * g.out[node], others)

\* A node moves to the neighbouring community that improves most, the first of
\* those in the order of its neighbours.
Moved(g, comm, node) ==
    LET gain(t) == calculate_delta(g, comm, node, comm[t]) - calculate_delta(g, comm, node, comm[node])
        best == FoldLeft(LAMBDA b, t : IF comm[t] # comm[node] /\ gain(t) > b[1] THEN <<gain(t), comm[t]>> ELSE b,
                         <<0, comm[node]>>, Ascending(g, Targets(g, node)))
    IN  [comm EXCEPT ![node] = best[2]]

RECURSIVE Iterated(_, _, _, _, _)
Iterated(g, comm, rounds, last, delta) ==
    LET q == modularity(g, comm)
        next == FoldLeft(LAMBDA c, n : Moved(g, c, n), comm, [n \in Nodes(g) |-> n])
    IN  IF rounds = 0 \/ (last # None /\ 10000 * q <= 10000 * last + delta * g.total * g.total) THEN comm
        ELSE IF next = comm THEN comm
        ELSE Iterated(g, next, rounds - 1, q, delta)

\* The communities numbered in the order of their first nodes, and their graph.
Numbered(g, comm) ==
    LET first(n) == Min(Members(comm, comm[n]))
    IN  [n \in Nodes(g) |-> Cardinality({first(m) : m \in {k \in Nodes(g) : first(k) <= first(n)}})]

Contracted(g, new) ==
    [comm |-> new,
     graph |-> [n |-> Cardinality(Range(new)),
                edges |-> {P!Edge(p[1], p[2],
                                  SumW({e \in g.edges : new[e.from] = p[1] /\ new[e.to] = p[2]}), "as") :
                             p \in {<<new[e.from], new[e.to]>> : e \in g.edges}}]]

louvain_step(g, delta, max_iter) ==
    Contracted(g, Numbered(g, Iterated(Weighted(g), [n \in Nodes(g) |-> n], max_iter, None, delta)))

\* The levels, from the nodes up.
RECURSIVE louvain(_, _, _)
LevelsAbove(g, s, delta, max_iter) ==
    IF s.graph.n = g.n THEN <<>> ELSE <<s.comm>> \o louvain(s.graph, delta, max_iter)
louvain(g, delta, max_iter) ==
    IF g.n <= 2 THEN <<>> ELSE LevelsAbove(g, louvain_step(g, delta, max_iter), delta, max_iter)

\* keep_depth is None when it is not given, or is not a non-negative integer.
Labelled(g, levels) ==
    LET labels[k \in 0..Len(levels)] ==
          IF k = 0 THEN [n \in Nodes(g) |-> n] ELSE [n \in Nodes(g) |-> levels[k][labels[k - 1][n]]]
        kept == IF job.keep_depth = None THEN Len(levels) ELSE Min({job.keep_depth, Len(levels)})
    IN  {<<Node(n), [k \in 1..kept |-> labels[Len(levels) + 1 - k][n]]>> : n \in Nodes(g)}
Communities == Labelled(Graph, louvain(Graph, Option("delta"), Option("max_iter")))

(* Label propagation: each round takes the nodes in a random order, and    *)
(* each node a random one of the labels with the greatest score.           *)
LabelStart ==
    [g |-> Graph, labels |-> [n \in Nodes(Graph) |-> n], left |-> Nodes(Graph), changed |-> FALSE, round |-> 1]

Candidates(g, labels, n) ==
    LET score(l) == SumW({e \in Out(g, n) : labels[e.to] = l})
        near == {labels[t] : t \in Targets(g, n)}
    IN  {l \in near : \A m \in near : score(l) >= score(m)}

LabelNode(n) ==
    /\ UNCHANGED out
    /\ IF Targets(work.g, n) = {} THEN work' = [work EXCEPT !.left = @ \ {n}]
       ELSE \E l \in Candidates(work.g, work.labels, n) :
              work' = [work EXCEPT !.left = @ \ {n}, !.labels[n] = l,
                                   !.changed = @ \/ l # work.labels[n]]

LabelRound ==
    IF work.changed /\ work.round < Option("max_iter")
    THEN /\ work' = [work EXCEPT !.left = Nodes(work.g), !.changed = FALSE, !.round = @ + 1]
         /\ UNCHANGED out
    ELSE out' = {<<Node(n), work.labels[n]>> : n \in Nodes(work.g)} /\ UNCHANGED work

(* Random walks: the starting nodes in their order, each `iterations`      *)
(* times.  A weight is a function of the edge, None for equal weights.     *)
WalkStart == [left |-> SortSeq(P!AsSeq(job.starts), <), iteration |-> 1, path |-> <<>>, rows |-> {}]
Edges(n) == {r \in job.rows : r[1] = n}
Refuses == out' = Refused /\ UNCHANGED work

\* The path is complete: its row, and the next iteration or starting node.
WalkEnds ==
    LET rows == work.rows \cup {<<Cardinality(work.rows) + 1, Head(work.left), work.path>>}
        again == work.iteration < Option("iterations")
        left == IF again THEN work.left ELSE Tail(work.left)
    IN  IF left = <<>> THEN out' = rows /\ UNCHANGED work
        ELSE work' = [left |-> left, iteration |-> IF again THEN work.iteration + 1 ELSE 1, path |-> <<>>, rows |-> rows]
               /\ UNCHANGED out

\* A weight that is negative or no number is refused; where all weights of a
\* node are zero there is no distribution to sample, and the rule panics.
WalkStep ==
    LET here == Last(work.path)
        weights == {P!Weight(r) : r \in Edges(here)}
    IN  IF Len(work.path) > Option("steps") \/ Edges(here) = {} THEN WalkEnds
        ELSE IF job.weighted /\ (NaN \in weights \/ (\E w \in weights : w < 0) \/ weights = {0}) THEN Refuses
        ELSE \E r \in Edges(here) :
               /\ job.weighted => P!Weight(r) > 0
               /\ IF r[2] \notin job.nodes THEN Refuses
                  ELSE work' = [work EXCEPT !.path = Append(@, r[2])] /\ UNCHANGED out

Walk ==
    IF work.left = <<>> THEN out' = {} /\ UNCHANGED work
    ELSE IF Head(work.left) \notin job.nodes THEN Refuses
    ELSE IF work.path = <<>> THEN work' = [work EXCEPT !.path = <<Head(work.left)>>] /\ UNCHANGED out
    ELSE WalkStep

-----------------------------------------------------------------------------
(* Utilities.  ReorderSort: rows are <<value, sorter>>.                    *)

ReorderSort ==
    LET before(a, b) == IF job.descending THEN a[2] > b[2] ELSE a[2] < b[2]
        \* Rows come in their order, and the sort is stable.
        buffer == SortSeq(P!AsSeq(job.rows), LAMBDA a, b : before(a, b) \/ (a[2] = b[2] /\ a[1] < b[1]))
        rank(i) == Min({k \in 1..i : buffer[k][2] = buffer[i][2]})
        take == Option("take")
        kept == {i \in 1..Len(buffer) : i > Option("skip") /\ (take # 0 => i <= take + Option("skip"))}
    IN  {<<IF job.break_ties THEN i ELSE rank(i), buffer[i][1]>> : i \in kept}

\* Constant: its data is a sequence of rows, a row the number of its values, or
\* NaN if it is no list.
Constant ==
    IF NaN \in Range(job.data) \/ Cardinality(Range(job.data)) > 1 \/ (job.data = <<>> /\ job.head = 0) THEN Refused
    ELSE {<<IF job.data = <<>> THEN job.head ELSE job.data[1], Len(job.data)>>}

-----------------------------------------------------------------------------
(* The rules.                                                              *)

Init == job \in Jobs /\ work = None /\ out = None

Called(rules) == out = None /\ work = None /\ job.rule \in rules /\ ~BadOption /\ ~BadWeights /\ UNCHANGED job
Looping(rules) == out = None /\ work # None /\ job.rule \in rules /\ UNCHANGED job

Refuse == out = None /\ work = None /\ (BadOption \/ BadWeights) /\ Answers(Refused) /\ UNCHANGED <<job, work>>

MinimumSpanningForestKruskal ==
    \/ /\ Called({"MinimumSpanningForestKruskal"})
       /\ IF job.rows = {} THEN Answers({}) /\ UNCHANGED work ELSE KruskalStart(work') /\ UNCHANGED out
    \/ /\ Looping({"MinimumSpanningForestKruskal"})
       /\ IF DOMAIN work.pq = {} THEN Answers(Tree(work.mst)) /\ work' = None ELSE KruskalPop

\* The relation of starting nodes is None if it is not given.
MinimumSpanningTreePrim ==
    \/ /\ Called({"MinimumSpanningTreePrim"})
       /\ IF job.rows = {} THEN Answers({}) /\ UNCHANGED work
          ELSE IF job.starts = None THEN work' = PrimStart(1) /\ UNCHANGED out
          ELSE IF job.starts = {} \/ Min(job.starts) \notin Range(indices(job.rows))
               THEN Answers(Refused) /\ UNCHANGED work
          ELSE \E i \in Nodes(Graph) : Node(i) = Min(job.starts) /\ work' = PrimStart(i) /\ UNCHANGED out
    \/ /\ Looping({"MinimumSpanningTreePrim"})
       /\ IF DOMAIN work.pq = {} THEN Answers(Tree(work.mst)) /\ work' = None ELSE PrimPop

LabelPropagation ==
    \/ Called({"LabelPropagation"}) /\ work' = LabelStart /\ UNCHANGED out
    \/ /\ Looping({"LabelPropagation"})
       /\ IF work.left # {} THEN \E n \in work.left : LabelNode(n) ELSE LabelRound

RandomWalk ==
    \/ Called({"RandomWalk"}) /\ work' = WalkStart /\ UNCHANGED out
    \/ Looping({"RandomWalk"}) /\ Walk

InOneStep ==
    /\ Called({"StronglyConnectedComponents", "ConnectedComponents", "TopSort", "ClusteringCoefficients",
               "DegreeCentrality", "CommunityDetectionLouvain", "ReorderSort", "Constant"})
    /\ UNCHANGED work
    /\ Answers(CASE job.rule \in {"StronglyConnectedComponents", "ConnectedComponents"} -> Components
                 [] job.rule = "TopSort" -> TopSort
                 [] job.rule = "ClusteringCoefficients" -> Coefficients
                 [] job.rule = "DegreeCentrality" -> DegreeCentrality
                 [] job.rule = "CommunityDetectionLouvain" -> Communities
                 [] job.rule = "ReorderSort" -> ReorderSort
                 [] job.rule = "Constant" -> Constant)

Done == out # None /\ UNCHANGED vars

Next ==
    \/ Refuse \/ MinimumSpanningForestKruskal \/ MinimumSpanningTreePrim
    \/ LabelPropagation \/ RandomWalk \/ InOneStep \/ Done

Spec == Init /\ [][Next]_vars

-----------------------------------------------------------------------------
(* What the answers must be.                                               *)

\* What is reachable from a node along pairs, itself included.
Reach(pairs, n) ==
    FoldLeft(LAMBDA near, i : near \cup {p[2] : p \in {q \in pairs : q[1] \in near}},
             {n}, [i \in 1..Cardinality(pairs) |-> i])

Pairs == {<<r[1], r[2]>> : r \in job.rows}
Both(pairs) == pairs \cup {<<p[2], p[1]>> : p \in pairs}
All == Range(indices(job.rows))

\* A tree of the component of the start, for Kruskal a forest of all, and where
\* no pair has two weights none that spans the same weighs less.
SpanningExact ==
    LET span == IF job.rule = "MinimumSpanningForestKruskal" \/ job.rows = {} THEN All
                ELSE Reach(Both(Pairs), IF job.starts = None THEN Node(1) ELSE Min(job.starts))
        arcs == {r \in P!as_directed_weighted_graph(job.rows, TRUE) : r.from < r.to}
        parts(pairs) == {Reach(Both(pairs), n) : n \in span}
        spans(t) == parts({<<e[1], e[2]>> : e \in t}) = parts(Pairs)
        size == Cardinality(span) - Cardinality(parts(Pairs))
        weight(t) == MapThenSumSet(LAMBDA e : e[3], t)
        edges == {<<e.from, e.to, e.w>> : e \in arcs}
        one == \A e, f \in edges : e[1] = f[1] /\ e[2] = f[2] => e = f
    IN  /\ spans(out) /\ Cardinality(out) = size
        /\ \A e \in out : <<e[1], e[2], e[3]>> \in edges \/ <<e[2], e[1], e[3]>> \in edges
        /\ one => \A t \in SUBSET edges : Cardinality(t) = size /\ spans(t) => weight(out) <= weight(t)

ComponentsExact ==
    LET pairs == IF job.rule = "ConnectedComponents" THEN Both(Pairs) ELSE Pairs
    IN  /\ {r[1] : r \in out} = All \cup job.nodes
        /\ \A a, b \in out : (a[2] = b[2]) <=> (b[1] \in Reach(pairs, a[1]) /\ a[1] \in Reach(pairs, b[1]))

\* The nodes that no cycle leads to, before what they lead to.
TopSortExact ==
    LET cyclic == {n \in All : \E p \in Pairs : p[1] = n /\ n \in Reach(Pairs, p[2])}
        behind == UNION {Reach(Pairs, n) : n \in cyclic}
    IN  /\ {r[2] : r \in out} = All \ behind /\ {r[1] : r \in out} = 0..(Cardinality(out) - 1)
        /\ \A a, b \in out : <<a[2], b[2]>> \in Pairs => a[1] < b[1]

\* Where no pair is given in both directions, and no node with itself.
CoefficientsExact ==
    (\A p \in Pairs : <<p[2], p[1]>> \notin Pairs) =>
      \A r \in out :
        LET near == {n \in All : <<r[1], n>> \in Both(Pairs)}
        IN  r[3] = Cardinality(near)
              /\ r[2] = Cardinality({k \in SUBSET near : Cardinality(k) = 2 /\ \E p \in Pairs : k = {p[1], p[2]}})

\* Each level is coarser than the one below, and where no edge has a parallel
\* one each is of strictly greater modularity in the graph of the call.
CommunitiesExact ==
    LET g == Weighted(Graph)
        parallel == \E e, f \in g.edges : e # f /\ e.from = f.from /\ e.to = f.to
        label(n, k) == (CHOOSE r \in out : r[1] = Node(n))[2][k]
        depth == Len((CHOOSE r \in out : TRUE)[2])
        at(k) == IF k > depth THEN [n \in Nodes(g) |-> n] ELSE [n \in Nodes(g) |-> label(n, k)]
    IN  out # {} =>
        /\ \A a, b \in Nodes(g), k \in 1..(depth - 1) : at(k + 1)[a] = at(k + 1)[b] => at(k)[a] = at(k)[b]
        /\ ~parallel /\ job.keep_depth = None =>
             \A k \in 1..depth : modularity(g, at(k)) > modularity(g, at(k + 1))

\* A label is that of a node which can be reached, and after a round without a
\* change every node has a label of the greatest score.
LabelsExact ==
    LET pairs == {<<e.from, e.to>> : e \in work.g.edges}
    IN  /\ \A n \in Nodes(work.g) : work.labels[n] \in Reach(pairs, n)
        /\ ~work.changed => \A n \in Nodes(work.g) :
                              Targets(work.g, n) # {} => work.labels[n] \in Candidates(work.g, work.labels, n)

WalksExact ==
    /\ {<<r[1], r[2]>> : r \in out} = {<<(Cardinality({m \in job.starts : m < n}) * Option("iterations")) + i, n>> :
                                         n \in job.starts, i \in 1..Option("iterations")}
    /\ \A r \in out : /\ \A i \in 2..Len(r[3]) : <<r[3][i - 1], r[3][i]>> \in Pairs
                      /\ Len(r[3]) = Option("steps") + 1 \/ (Len(r[3]) <= Option("steps") /\ Edges(Last(r[3])) = {})

\* A row's rank is one more than the number of rows before it.
RanksExact ==
    LET sorter(v) == (CHOOSE r \in job.rows : r[1] = v)[2]
        earlier(v) == {r \in job.rows : IF job.descending THEN r[2] > sorter(v) ELSE r[2] < sorter(v)}
        equal(v) == {r \in job.rows : r[2] = sorter(v) /\ r[1] < v}
        place(v) == Cardinality(earlier(v)) + Cardinality(equal(v)) + 1
        chosen == {r[1] : r \in {q \in job.rows : place(q[1]) > Option("skip")
                                   /\ (Option("take") = 0 \/ place(q[1]) <= Option("skip") + Option("take"))}}
    IN  out = {<<IF job.break_ties THEN place(v) ELSE Cardinality(earlier(v)) + 1, v>> : v \in chosen}

TypeOK == out # None /\ out # Refused => IsFiniteSet(out)

\* The answers are what the rules' names say: spanning trees of least weight,
\* the strongly connected components, an order of the nodes that no cycle leads
\* to, levels of communities of ever greater modularity, labels that stand when
\* a round changed none, walks along edges, and ranks that count the rows
\* before; whatever the queue and the generator of random numbers choose
\* (fixed_rule/algos, fixed_rule/utilities).
Exact ==
    out # None /\ out # Refused =>
      CASE job.rule \in {"MinimumSpanningForestKruskal", "MinimumSpanningTreePrim"} -> SpanningExact
        [] job.rule \in {"StronglyConnectedComponents", "ConnectedComponents"} -> ComponentsExact
        [] job.rule = "TopSort" -> TopSortExact
        [] job.rule = "ClusteringCoefficients" -> CoefficientsExact
        [] job.rule = "CommunityDetectionLouvain" -> CommunitiesExact
        [] job.rule = "LabelPropagation" -> LabelsExact
        [] job.rule = "RandomWalk" -> WalksExact
        [] job.rule = "ReorderSort" -> RanksExact
        [] OTHER -> TRUE
=============================================================================
