------------------------------- MODULE Paths -------------------------------
(***************************************************************************)
(* The fixed rules about paths, retia-core/src/fixed_rule/algos:           *)
(* ShortestPathDijkstra, KShortestPathYen, ShortestPathAStar,              *)
(* ShortestPathBFS, BFS, DFS, ClosenessCentrality, BetweennessCentrality,  *)
(* and the graphs they are given, fixed_rule/mod.rs.                       *)
(*                                                                         *)
(* A job is a call of a rule.  The rules that treat their starting nodes   *)
(* apart (on rayon's pool, or one after the other) do so in one step each, *)
(* in any order.  Where the priority queue decides between equal costs the *)
(* model takes either.  Weights are integers.                              *)
(***************************************************************************)
EXTENDS Integers, Sequences, FiniteSets, FiniteSetsExt, SequencesExt, TLC

CONSTANTS
    Jobs,  \* the calls: records with at least rule, rows
    Inf,   \* greater than every cost
    NaN,   \* an integer that stands for what is no finite number
    None

VARIABLES
    job,
    work,  \* starting nodes (for Yen's rule pairs) that are still to be treated
    out    \* the rows of the answer, None after an error

vars == <<job, work, out>>

-----------------------------------------------------------------------------
(* Graphs: sets of edges.  The tag keeps parallel edges apart, as a row of *)
(* an undirected graph gives an edge in each direction.                    *)

Edge(from, to, w, tag) == [from |-> from, to |-> to, w |-> w, tag |-> tag]

\* A row is <<from, to, weight>>, its weight None if the relation has no third
\* column.
Weight(r) == IF r[3] = None THEN 1 ELSE r[3]
BadEdgeWeight(r, allow_negative) ==
    r[3] # None /\ (r[3] = NaN \/ (r[3] < 0 /\ ~allow_negative))

as_directed_weighted_graph(rows, undirected) ==
    {Edge(r[1], r[2], Weight(r), "as") : r \in rows}
      \cup IF undirected THEN {Edge(r[2], r[1], Weight(r), "back") : r \in rows} ELSE {}

Nodes(rows) == {r[1] : r \in rows} \cup {r[2] : r \in rows}

\* A set as a sequence, to be sorted.
AsSeq(S) == FoldSet(LAMBDA x, q : Append(q, x), <<>>, S)

\* The edges of a node, as prefix_iter gives them: by their targets.
ByTarget(rows, n) ==
    SortSeq(AsSeq({r \in rows : r[1] = n}),
            LAMBDA a, b : a[2] < b[2] \/ (a[2] = b[2] /\ Weight(a) < Weight(b)))

-----------------------------------------------------------------------------
(* dijkstra, dijkstra_keep_ties, dijkstra_cost_only.  A node of the queue  *)
(* has its distance as its priority, as both are changed together.         *)

\* `left` are the goals that remain, None for the goal () that is never reached.
Search(nodes, start, goals) ==
    [dist |-> [n \in nodes |-> IF n = start THEN 0 ELSE Inf],
     back |-> [n \in nodes |-> {}],  \* the edges it was reached by
     pq |-> {start}, left |-> goals]

Nearest(s) == {n \in s.pq : \A m \in s.pq : s.dist[n] <= s.dist[m]}

\* Mutant of Relaxed: a node is not put in the queue again when it gets nearer.
Relaxed_once(g, s, n, forbidden_edges, forbidden_nodes, ties) ==
    LET targets == {e.to : e \in {x \in g : x.from = n /\ s.dist[x.to] = Inf}}
    IN  [s EXCEPT !.dist = [t \in DOMAIN @ |->
                              IF t \in targets THEN s.dist[n] + Min({e.w : e \in {x \in g : x.from = n /\ x.to = t}})
                              ELSE @[t]],
                  !.back = [t \in DOMAIN @ |->
                              IF t \in targets THEN {e \in g : e.from = n /\ e.to = t} ELSE @[t]],
                  !.pq = (@ \cup targets) \ {n},
                  !.left = IF @ = None THEN None ELSE @ \ {n}]

\* One node of the queue: its edges that are not forbidden, then the goal.
Relaxed(g, s, n, forbidden_edges, forbidden_nodes, ties) ==
    LET out_edges == {e \in g : /\ e.from = n
                                /\ e.to \notin forbidden_nodes
                                /\ <<n, e.to>> \notin forbidden_edges}
        cost(t) == Min({s.dist[n] + e.w : e \in {x \in out_edges : x.to = t}})
        best(t) == {e \in out_edges : e.to = t /\ s.dist[n] + e.w = cost(t)}
        nearer == {t \in {e.to : e \in out_edges} : cost(t) < s.dist[t]}
        equal == {t \in {e.to : e \in out_edges} : ties /\ cost(t) = s.dist[t]}
    IN  [s EXCEPT !.dist = [t \in DOMAIN @ |-> IF t \in nearer THEN cost(t) ELSE @[t]],
                  !.back = [t \in DOMAIN @ |-> CASE t \in nearer /\ ties -> best(t)
                                                 [] t \in nearer /\ ~ties -> {CHOOSE e \in best(t) : TRUE}
                                                 [] t \in equal -> @[t] \cup best(t)
                                                 [] OTHER -> @[t]],
                  !.pq = (@ \ {n}) \cup nearer \cup equal,
                  !.left = IF @ = None THEN None ELSE @ \ {n}]

\* The states in which a search may end.
RECURSIVE Ends(_, _, _, _, _)
Ends(g, s, forbidden_edges, forbidden_nodes, ties) ==
    IF s.pq = {} THEN {s}
    ELSE UNION {LET r == Relaxed(g, s, n, forbidden_edges, forbidden_nodes, ties)
                IN  IF r.left = {} THEN {r} ELSE Ends(g, r, forbidden_edges, forbidden_nodes, ties) :
                  n \in Nearest(s)}

\* The path to a node along the edges it was reached by.
RECURSIVE PathTo(_, _, _)
PathTo(s, start, n) ==
    IF n = start THEN <<start>>
    ELSE Append(PathTo(s, start, (CHOOSE e \in s.back[n] : TRUE).from), n)

\* All paths, each as often as there are choices of parallel edges.
RECURSIVE collect(_, _, _)
collect(s, start, n) ==
    UNION {IF e.from = start THEN {[path |-> <<start, n>>, by |-> <<e>>]}
           ELSE {[path |-> Append(p.path, n), by |-> Append(p.by, e)] : p \in collect(s, start, e.from)} :
             e \in s.back[n]}

Row(start, target, cost, path) == [from |-> start, to |-> target, cost |-> cost, path |-> path]

dijkstra(g, nodes, start, goals, forbidden_edges, forbidden_nodes) ==
    {{Row(start, t, s.dist[t], IF s.dist[t] = Inf THEN <<>> ELSE PathTo(s, start, t)) :
        t \in IF goals = None THEN nodes ELSE goals} :
       s \in Ends(g, Search(nodes, start, goals), forbidden_edges, forbidden_nodes, FALSE)}

\* A target that is the start has no edge it was reached by, and no row.
dijkstra_keep_ties(g, nodes, start, goals) ==
    {UNION {IF s.dist[t] = Inf THEN {Row(start, t, Inf, <<>>)}
            ELSE {Row(start, t, s.dist[t], p.path) : p \in collect(s, start, t)} :
              t \in IF goals = None THEN nodes ELSE goals} :
       s \in Ends(g, Search(nodes, start, goals), {}, {}, TRUE)}

dijkstra_cost_only(g, nodes, start) ==
    {s.dist : s \in Ends(g, Search(nodes, start, None), {}, {}, FALSE)}

-----------------------------------------------------------------------------
(* k_shortest_path_yen.                                                    *)

\* What out_neighbors finds first of parallel edges is its weight in the root.
RootCosts(g, root) ==
    LET costs[i \in 1..Len(root)] ==
          IF i = 1 THEN {0}
          ELSE {c + e.w : c \in costs[i - 1], e \in {x \in g : x.from = root[i - 1] /\ x.to = root[i]}}
    IN  costs[Len(root)]

\* The candidates with that of one spur node; those of one cost may come in
\* any order.
Spur(g, nodes, goal, shortest, prev, i, candidates) ==
    LET root == SubSeq(prev, 1, i)
        forbidden_edges == {<<p.path[i], p.path[i + 1]>> :
                              p \in {q \in Range(shortest) : Len(q.path) > i /\ SubSeq(q.path, 1, i) = root}}
        forbidden_nodes == Range(SubSeq(prev, 1, i - 1))
        spurs == UNION dijkstra(g, nodes, prev[i], {goal}, forbidden_edges, forbidden_nodes)
        total(r, c) == [cost |-> IF r.cost = Inf THEN Inf ELSE c + r.cost, path |-> Front(root) \o r.path]
    IN  {IF \E d \in candidates : d.path = total(r, c).path THEN candidates ELSE candidates \cup {total(r, c)} :
           r \in spurs, c \in RootCosts(g, root)}

RECURSIVE Spurs(_, _, _, _, _, _, _)
Spurs(g, nodes, goal, shortest, prev, i, candidates) ==
    IF i >= Len(prev) THEN {candidates}
    ELSE UNION {Spurs(g, nodes, goal, shortest, prev, i + 1, c) :
                  c \in Spur(g, nodes, goal, shortest, prev, i, candidates)}

\* The rounds after the first path.  A path that is not finite is dropped.
RECURSIVE Rounds(_, _, _, _, _, _)
Rounds(g, nodes, goal, shortest, candidates, k) ==
    IF k = 0 THEN {shortest}
    ELSE UNION {IF cs = {} THEN {shortest}
                ELSE UNION {Rounds(g, nodes, goal, IF c.cost = Inf THEN shortest ELSE Append(shortest, c),
                                   cs \ {c}, k - 1) :
                              c \in {d \in cs : \A o \in cs : d.cost <= o.cost}} :
                  cs \in Spurs(g, nodes, goal, shortest, Last(shortest).path, 1, candidates)}

\* With a goal out of reach the first path is empty, and the length of the
\* empty path minus one overflows: that panics, or wraps and gives no path.
k_shortest_path_yen(k, g, nodes, start, goal) ==
    UNION {IF first.cost = Inf
             THEN IF k = 1 THEN {<<[cost |-> Inf, path |-> <<>>]>>} ELSE {<<>>, <<[cost |-> NaN, path |-> <<>>]>>}
           ELSE Rounds(g, nodes, goal, <<[cost |-> first.cost, path |-> first.path]>>, {}, k - 1) :
             first \in UNION dijkstra(g, nodes, start, {goal}, {}, {})}

-----------------------------------------------------------------------------
(* astar, on the relation itself.                                          *)


\* The pairs of node and priority in the queue are the domain of `open`; the
\* least sum comes first, of equal ones the last that was put in.
First(open) ==
    CHOOSE n \in DOMAIN open : \A m \in DOMAIN open :
      open[n][1] < open[m][1] \/ (open[n][1] = open[m][1] /\ open[n][2] >= open[m][2])

\* One edge of the node: a target that is not among the nodes is an error.
Expanded(j, s, n, e) ==
    LET cost == s.score[n] + Weight(e)
    IN  IF s.error THEN s
        ELSE IF Weight(e) = NaN THEN [s EXCEPT !.error = TRUE]
        ELSE IF e[2] \in DOMAIN s.score /\ cost >= s.score[e[2]] THEN s
        ELSE IF e[2] \notin j.nodes THEN [s EXCEPT !.error = TRUE]
        ELSE [s EXCEPT !.score = (e[2] :> cost) @@ @, !.back = (e[2] :> n) @@ @, !.sub = @ + 1,
                       !.open = (e[2] :> <<cost + j.heuristic[e[2]], s.sub + 1>>) @@ @]

\* From a node back to the start.
RECURSIVE Route(_, _, _)
Route(back, start, n) == IF n = start THEN <<start>> ELSE Append(Route(back, start, back[n]), n)

RECURSIVE AStarFrom(_, _, _, _)
AStarFrom(j, s, start, goal) ==
    IF s.error THEN None
    ELSE IF DOMAIN s.open = {} THEN Row(start, goal, Inf, <<>>)
    ELSE LET n == First(s.open)
             rest == [s EXCEPT !.open = [m \in DOMAIN @ \ {n} |-> @[m]]]
         IN  IF n = goal THEN Row(start, goal, s.open[n][1], Route(s.back, start, n))
             ELSE AStarFrom(j, FoldLeft(LAMBDA a, e : Expanded(j, a, n, e), rest, ByTarget(j.rows, n)), start, goal)

astar(j, start, goal) ==
    AStarFrom(j, [score |-> start :> 0, back |-> <<>>, open |-> start :> <<0, 0>>, sub |-> 0, error |-> FALSE],
              start, goal)

-----------------------------------------------------------------------------
(* The searches that count edges.  A search is [visited, back, found,      *)
(* queue, end]: `end` is "" while it goes on.                              *)

NewSearch(queue) == [visited |-> {}, back |-> <<>>, found |-> <<>>, queue |-> queue, end |-> ""]

\* ShortestPathBFS: the loop over the edges ends when no goal is pending, the
\* loop over the queue does not.
BfsEdge(j, s, n, e) ==
    IF s.end = "edges" \/ e[2] \in s.visited THEN s
    ELSE LET t == [s EXCEPT !.visited = @ \cup {e[2]}, !.back = (e[2] :> n) @@ @]
         IN  IF j.goals \subseteq DOMAIN t.back THEN [t EXCEPT !.end = "edges"]
             ELSE [t EXCEPT !.queue = Append(@, e[2])]

RECURSIVE BfsPaths(_, _)
BfsPaths(j, s) ==
    IF s.queue = <<>> THEN s
    ELSE BfsPaths(j, FoldLeft(LAMBDA a, e : BfsEdge(j, a, Head(s.queue), e),
                              [s EXCEPT !.queue = Tail(@), !.end = ""], ByTarget(j.rows, Head(s.queue))))

shortest_path_bfs(j, start) ==
    LET s == BfsPaths(j, [NewSearch(<<start>>) EXCEPT !.visited = {start}])
    IN  {[from |-> start, to |-> t, path |-> IF t \in DOMAIN s.back THEN Route(s.back, start, t) ELSE <<>>] :
           t \in j.goals}

\* BFS and DFS: the condition is a set of nodes; `by_key` says that it needs
\* nothing but the node itself, which then need not be among the nodes.
Tested(j, s, start, n) ==
    IF ~j.by_key /\ n \notin j.nodes THEN [s EXCEPT !.end = "error"]
    ELSE IF n \in j.condition
         THEN [s EXCEPT !.found = Append(@, <<start, n>>),
                        !.end = IF Len(s.found) + 1 >= j.limit THEN "limit" ELSE @]
    ELSE s

BfsVisit(j, s, start, n, e) ==
    IF s.end # "" \/ e[2] \in s.visited THEN s
    ELSE LET t == Tested(j, [s EXCEPT !.visited = @ \cup {e[2]}, !.back = (e[2] :> n) @@ @], start, e[2])
         IN  IF t.end # "" THEN t ELSE [t EXCEPT !.queue = Append(@, e[2])]

RECURSIVE BfsLoop(_, _, _)
BfsLoop(j, s, start) ==
    IF s.queue = <<>> \/ s.end # "" THEN s
    ELSE BfsLoop(j, FoldLeft(LAMBDA a, e : BfsVisit(j, a, start, Head(s.queue), e),
                             [s EXCEPT !.queue = Tail(@)], ByTarget(j.rows, Head(s.queue))), start)

BfsStart(j, s, start) ==
    IF s.end # "" \/ start \in s.visited THEN s
    ELSE BfsLoop(j, [s EXCEPT !.visited = @ \cup {start}, !.queue = <<start>>], start)

\* The queue of the search is the stack here, its last element the next.
RECURSIVE DfsLoop(_, _, _)
DfsLoop(j, s, start) ==
    IF s.queue = <<>> \/ s.end # "" THEN s
    ELSE LET n == Last(s.queue)
             popped == [s EXCEPT !.queue = Front(@)]
             t == Tested(j, popped, start, n)
             seen == s.visited \cup {n}
             edges == SelectSeq(ByTarget(j.rows, n), LAMBDA e : e[2] \notin seen)
         IN  DfsLoop(j, IF n \in s.visited THEN popped
                        ELSE IF t.end # "" THEN t
                        ELSE [t EXCEPT !.visited = seen,
                                       !.back = [m \in {e[2] : e \in Range(edges)} |-> n] @@ @,
                                       !.queue = @ \o [i \in 1..Len(edges) |-> edges[i][2]]], start)

DfsStart(j, s, start) ==
    IF s.end # "" \/ start \in s.visited THEN s
    ELSE DfsLoop(j, [s EXCEPT !.queue = <<start>>], start)

\* The rows of the pairs that were found.
Found(s) ==
    IF s.end = "error" THEN None
    ELSE {[from |-> f[1], to |-> f[2], path |-> Route(s.back, f[1], f[2])] : f \in Range(s.found)}

-----------------------------------------------------------------------------
(* The rules.                                                              *)

Graph == as_directed_weighted_graph(job.rows, job.undirected)
BadWeights == \E r \in job.rows : BadEdgeWeight(r, FALSE)
Weighted == {"ShortestPathDijkstra", "KShortestPathYen", "ClosenessCentrality", "BetweennessCentrality"}

\* Starting nodes and goals that are not in the graph are left out.
Init ==
    /\ job \in Jobs
    /\ work = CASE job.rule \in {"ClosenessCentrality", "BetweennessCentrality"} -> Nodes(job.rows)
                [] job.rule = "ShortestPathDijkstra" -> job.starts \cap Nodes(job.rows)
                [] job.rule = "KShortestPathYen" ->
                     (job.starts \cap Nodes(job.rows)) \X (job.goals \cap Nodes(job.rows))
                [] OTHER -> job.starts
    /\ out = IF job.rule \in Weighted /\ BadWeights THEN None ELSE {}

Treats(start) == out # None /\ start \in work /\ work' = work \ {start} /\ UNCHANGED job

\* Ties are kept only where there is a relation of goals.
ShortestPathDijkstra(start) ==
    /\ job.rule = "ShortestPathDijkstra" /\ Treats(start)
    /\ LET goals == IF job.goals = None THEN None ELSE job.goals \cap Nodes(job.rows)
       IN  \E rows \in IF goals # None /\ job.keep_ties
                       THEN dijkstra_keep_ties(Graph, Nodes(job.rows), start, goals)
                       ELSE dijkstra(Graph, Nodes(job.rows), start, goals, {}, {}) :
             out' = out \cup rows

KShortestPathYen(pair) ==
    /\ job.rule = "KShortestPathYen" /\ Treats(pair)
    /\ \E paths \in k_shortest_path_yen(job.k, Graph, Nodes(job.rows), pair[1], pair[2]) :
         out' = out \cup {[from |-> pair[1], to |-> pair[2], paths |-> paths]}

ShortestPathAStar(start) ==
    /\ job.rule = "ShortestPathAStar" /\ Treats(start)
    /\ LET rows == {astar(job, start, goal) : goal \in job.goals}
       IN  out' = IF None \in rows THEN None ELSE out \cup rows

ShortestPathBFS(start) ==
    /\ job.rule = "ShortestPathBFS" /\ Treats(start)
    /\ out' = out \cup shortest_path_bfs(job, start)

\* What was visited from one starting node stays visited for the next.
InOrder == SortSeq(AsSeq(job.starts), <)
Bfs ==
    /\ job.rule = "BFS" /\ work # {} /\ work' = {} /\ UNCHANGED job
    /\ out' = Found(FoldLeft(LAMBDA s, n : BfsStart(job, s, n), NewSearch(<<>>), InOrder))

Dfs ==
    /\ job.rule = "DFS" /\ work # {} /\ work' = {} /\ UNCHANGED job
    /\ out' = Found(FoldLeft(LAMBDA s, n : DfsStart(job, s, n), NewSearch(<<>>), InOrder))

\* Of a node, the number it reaches and the sum of its distances.
ClosenessCentrality(start) ==
    /\ job.rule = "ClosenessCentrality" /\ Treats(start)
    /\ \E dist \in dijkstra_cost_only(Graph, Nodes(job.rows), start) :
         LET near == {n \in DOMAIN dist : dist[n] # Inf}
         IN  out' = out \cup {[from |-> start, reached |-> Cardinality(near),
                               total |-> MapThenSumSet(LAMBDA n : dist[n], near)]}

\* Of a node, what its paths add to the nodes in their middle: twelfths.
Whole == 12
BetweennessCentrality(start) ==
    /\ job.rule = "BetweennessCentrality" /\ Treats(start)
    /\ \E s \in Ends(Graph, Search(Nodes(job.rows), start, None), {}, {}, TRUE) :
         LET paths(t) == IF s.dist[t] = Inf THEN {} ELSE collect(s, start, t)
             share(t, n) == Cardinality({p \in paths(t) : n \in Range(SubSeq(p.path, 2, Len(p.path) - 1))})
                              * (Whole \div Cardinality(paths(t)))
         IN  out' = out \cup {[from |-> start,
                               adds |-> [n \in Nodes(job.rows) |->
                                           MapThenSumSet(LAMBDA t : share(t, n), {t \in Nodes(job.rows) : paths(t) # {}})]]}

Done == (work = {} \/ out = None) /\ UNCHANGED vars

Next ==
    \/ \E n \in work : \/ ShortestPathDijkstra(n) \/ KShortestPathYen(n) \/ ShortestPathAStar(n)
                       \/ ShortestPathBFS(n) \/ ClosenessCentrality(n) \/ BetweennessCentrality(n)
    \/ Bfs \/ Dfs \/ Done

Spec == Init /\ [][Next]_vars

-----------------------------------------------------------------------------
(* What the answers must be, by enumeration of the paths.                  *)

TypeOK ==
    /\ work \subseteq IF job.rule = "KShortestPathYen" THEN job.starts \X job.goals
                     ELSE Nodes(job.rows) \cup job.starts
    /\ out # None => IsFiniteSet(out)

\* The cost of the way along a sequence of nodes, Inf if there is no such way.
Cost(g, path) ==
    LET step(i) == {e.w : e \in {x \in g : x.from = path[i] /\ x.to = path[i + 1]}}
    IN  IF \E i \in 1..(Len(path) - 1) : step(i) = {} THEN Inf
        ELSE FoldLeft(LAMBDA c, i : c + Min(step(i)), 0, [i \in 1..(Len(path) - 1) |-> i])

\* The ways that go on from a path without meeting a node twice.
RECURSIVE Onward(_, _, _)
Onward(g, path, to) ==
    IF Last(path) = to THEN {path}
    ELSE UNION {Onward(g, Append(path, n), to) :
                  n \in {e.to : e \in {x \in g : x.from = Last(path)}} \ Range(path)}
Ways(from, to) == IF from \in Nodes(job.rows) THEN Onward(Graph, <<from>>, to) ELSE {}
Distance(from, to) == Min({Cost(Graph, p) : p \in Ways(from, to)} \cup {Inf})
Shortest(from, to) == {p \in Ways(from, to) : Cost(Graph, p) = Distance(from, to)}

DijkstraExact ==
    LET goals == IF job.goals = None THEN Nodes(job.rows) ELSE job.goals \cap Nodes(job.rows)
        rows(f, t) == {r \in out : r.from = f /\ r.to = t}
    IN  \A f \in (job.starts \cap Nodes(job.rows)) \ work, t \in goals :
          /\ \A r \in rows(f, t) : r.cost = Distance(f, t)
          /\ IF Ways(f, t) = {} THEN {r.path : r \in rows(f, t)} = {<<>>}
             ELSE IF job.keep_ties /\ job.goals # None
                  THEN {r.path : r \in rows(f, t)} = IF f = t THEN {} ELSE Shortest(f, t)
             ELSE Cardinality(rows(f, t)) = 1 /\ \A r \in rows(f, t) : r.path \in Shortest(f, t)

\* The k paths are simple and different and no path that is left out costs less.
YenExact ==
    \A r \in out :
      LET paths == {p.path : p \in Range(r.paths)}
      IN  Ways(r.from, r.to) # {} =>
            /\ Len(r.paths) = Min({job.k, Cardinality(Ways(r.from, r.to))})
            /\ paths \subseteq Ways(r.from, r.to) /\ Cardinality(paths) = Len(r.paths)
            /\ \A i \in 1..Len(r.paths) : r.paths[i].cost = Cost(Graph, r.paths[i].path)
            /\ \A i \in 2..Len(r.paths) : r.paths[i - 1].cost <= r.paths[i].cost
            /\ \A p \in Ways(r.from, r.to) \ paths : Cost(Graph, p) >= Last(r.paths).cost

\* With an estimate that is never too large the way that is found is a shortest.
AStarExact ==
    \A r \in out : (\A n \in Nodes(job.rows) : job.heuristic[n] <= Distance(n, r.to)) /\ r.from \in Nodes(job.rows) =>
      /\ r.cost = Distance(r.from, r.to)
      /\ IF r.cost = Inf THEN r.path = <<>> ELSE r.path \in Shortest(r.from, r.to)

Fewest(from, to) == {p \in Ways(from, to) : \A q \in Ways(from, to) : Len(p) <= Len(q)}

BfsPathsExact ==
    \A r \in out : IF r.from = r.to \/ Ways(r.from, r.to) = {} THEN r.path = <<>>
                   ELSE r.path \in Fewest(r.from, r.to)

\* Every pair found is a way to a node that meets the condition, each such node
\* is found at most once, and fewer than `limit` only if there are no more.
FoundExact ==
    LET reached == UNION {{n \in Nodes(job.rows) : Ways(f, n) # {}} : f \in job.starts}
        tested == IF job.rule = "DFS" THEN reached \cup job.starts ELSE reached
        ends == {r.to : r \in out}
    IN  /\ \A r \in out : r.from \in job.starts /\ r.to \in job.condition
        /\ \A r \in out : r.path \in IF r.from = r.to THEN {<<r.from>>}
                                     ELSE IF job.rule = "BFS" /\ Cardinality(job.starts) = 1 THEN Fewest(r.from, r.to)
                                     ELSE Ways(r.from, r.to)
        /\ Cardinality(ends) = Cardinality(out) /\ Cardinality(out) <= job.limit
        /\ Cardinality(out) < job.limit =>
             IF job.rule = "DFS" THEN ends = tested \cap job.condition
             ELSE ends \subseteq tested /\ (tested \ job.starts) \cap job.condition \subseteq ends

CentralityExact ==
    \A r \in out :
      IF job.rule = "ClosenessCentrality"
      THEN LET near == {n \in Nodes(job.rows) : Ways(r.from, n) # {}}
           IN  r.reached = Cardinality(near) /\ r.total = MapThenSumSet(LAMBDA n : Distance(r.from, n), near)
      ELSE LET others == {t \in Nodes(job.rows) \ {r.from} : Ways(r.from, t) # {}}
               through(t, n) == {p \in Shortest(r.from, t) : n \in Range(p) \ {r.from, t}}
           IN  \A n \in Nodes(job.rows) :
                 r.adds[n] = MapThenSumSet(LAMBDA t : (Whole * Cardinality(through(t, n)))
                                                        \div Cardinality(Shortest(r.from, t)), others)

\* The rows of every rule about paths are those that the definition by all
\* paths gives: shortest costs with a path of that cost for each pair, with
\* ties all of them, the k shortest in order, fewest edges for the breadth-first
\* searches, and sums over all shortest paths for the centralities; whichever
\* node the queue takes first of equal ones, and in whatever order the starting
\* nodes are treated (fixed_rule/algos).
Exact ==
    out # None =>
      CASE job.rule = "ShortestPathDijkstra" -> DijkstraExact
        [] job.rule = "KShortestPathYen" -> YenExact
        [] job.rule = "ShortestPathAStar" -> AStarExact
        [] job.rule = "ShortestPathBFS" -> BfsPathsExact
        [] job.rule \in {"BFS", "DFS"} -> work = {} => FoundExact
        [] OTHER -> CentralityExact
=============================================================================
