-------------------------------- MODULE Hnsw --------------------------------
(***************************************************************************)
(* The proximity index: retia-core/src/runtime/hnsw.rs, with what calls it *)
(* in query/stored.rs and runtime/relation.rs.                             *)
(*                                                                         *)
(* A node <<row, field>> is a vector of a row (an element of a list of     *)
(* vectors counts as a field of its own); a vector has one coordinate.     *)
(* The index is a relation with the rows <<level, from, to>> and the       *)
(* values <<distance, hash, ignored>>.  Levels are 0 and below, the lowest *)
(* is the sparsest.  A row from a node to itself says that the node is on  *)
(* the level; it holds the node's degree and the hash of its vector.  The  *)
(* canary, a row of level 1, makes transactions conflict that would set up *)
(* levels side by side.  A statement is one transaction: when an operation *)
(* fails, it has changed nothing.                                          *)
(***************************************************************************)
EXTENDS Integers, Sequences, FiniteSets, TLC

CONSTANTS
    Manifests,     \* indices with the rows they are about, and those that are there
    Queries,       \* the vectors that are searched for
    Null, None

VARIABLES
    manifest,      \* the index, and the rows that can be put
    table,         \* the relation: row -> its tuple
    index,         \* the rows of the index, None before it is created
    outcome,       \* "ok", or how the last statement failed
    calls,         \* how many statements there were
    removed,       \* a vector has been taken out of the index
    spoilt         \* the index may have rows of nodes that are gone

vars == <<manifest, table, index, outcome, calls, removed, spoilt>>

Level == -manifest.depth..0

\* The order of keys in the store
Before(n, o) == n[1] < o[1] \/ (n[1] = o[1] /\ n[2] < o[2])
First(nodes) == CHOOSE n \in nodes : \A o \in nodes \ {n} : Before(n, o)

-----------------------------------------------------------------------------
(* Distances and the cache of vectors.  `known` holds the vectors of the   *)
(* rows as stored, and those of the row in hand.                           *)

dist(v, w) == IF manifest.distance = "L2" THEN (v - w) * (v - w) ELSE 1 - v * w

VectorsOf(r, tuple) == {<<r, f>> : f \in {g \in DOMAIN tuple.vecs : tuple.vecs[g] # Null}}
Stored(tab) == [n \in UNION {VectorsOf(r, tab[r]) : r \in DOMAIN tab} |-> tab[n[1]].vecs[n[2]]]
ensure_key(known, n) == n \in DOMAIN known

\* A queue holds pairs <<distance, node>>; equal distances are told apart by
\* the order of the nodes.
Closer(p, o) == p[1] < o[1] \/ (p[1] = o[1] /\ Before(p[2], o[2]))
Nearest(n, queue) == {p \in queue : Cardinality({o \in queue : Closer(o, p)}) < n}
NodesOf(queue) == {p[2] : p \in queue}
Closest(queue) == CHOOSE p \in queue : \A o \in queue \ {p} : Closer(p, o)
Furthest(queue) == CHOOSE p \in queue : \A o \in queue \ {p} : Closer(o, p)

-----------------------------------------------------------------------------
(* Reading the index *)

\* The first row of the index up to a level: <<level, node>>
Entry(ix, upto) ==
    LET keys == {k \in DOMAIN ix : k[1] <= upto}
        bottom_level == CHOOSE l \in {k[1] : k \in keys} : \A k \in keys : l <= k[1]
    IN  IF keys = {} THEN None
        ELSE <<bottom_level,
               IF bottom_level = 1 THEN Null ELSE First({k[2] : k \in {x \in keys : x[1] = bottom_level}})>>

\* Links to other vectors of the same row are passed over.
hnsw_get_neighbours(ix, n, level, include_deleted) ==
    {k[3] : k \in {x \in DOMAIN ix : /\ x[1] = level /\ x[2] = n
                                     /\ x[3][1] # n[1]
                                     /\ include_deleted \/ ~ix[x][3]}}

\* The nearest candidate is looked at until it is further away than all that
\* was found.  A neighbour that is pushed out of `found` again stays among the
\* candidates of the code and ends the loop there, so it is left out here.
RECURSIVE Explore(_, _, _, _, _, _, _, _)
Explore(ix, known, q, ef, level, found, visited, candidates) ==
    IF candidates = {} THEN found
    ELSE LET c == Closest(candidates)
             new == hnsw_get_neighbours(ix, c[2], level, FALSE) \ visited
             now == Nearest(ef, found \cup {<<dist(q, known[n]), n>> : n \in new})
         IN  IF c[1] > Furthest(found)[1] THEN found
             ELSE IF \E n \in new : ~ensure_key(known, n) THEN None
             ELSE Explore(ix, known, q, ef, level, now, visited \cup new,
                          (candidates \ {c}) \cup {p \in now : p[2] \in new})

hnsw_search_level(ix, known, q, ef, level, found) ==
    Explore(ix, known, q, ef, level, found, NodesOf(found), found)

\* With ef = 1 down the levels from one to before another
RECURSIVE Descend(_, _, _, _, _, _)
Descend(ix, known, q, level, end, found) ==
    IF level >= end \/ found = None THEN found
    ELSE Descend(ix, known, q, level + 1, end, hnsw_search_level(ix, known, q, 1, level, found))

\* A candidate that is nearer to one that was taken than to q is pruned.
RECURSIVE Prune(_, _, _, _, _)
Prune(known, m, candidates, ret, discarded) ==
    IF candidates = {} \/ Cardinality(ret) >= m
    THEN IF manifest.keep_pruned THEN ret \cup Nearest(m - Cardinality(ret), discarded) ELSE ret
    ELSE LET c == Closest(candidates)
             rest == candidates \ {c}
         IN  IF ret # {} /\ \E p \in ret \cup {c} : ~ensure_key(known, p[2]) THEN None
             ELSE IF \E p \in ret : dist(known[p[2]], known[c[2]]) < c[1]
             THEN Prune(known, m, rest, ret, discarded \cup {c})
             ELSE Prune(known, m, rest, ret \cup {c}, discarded)

hnsw_select_neighbours_heuristic(ix, known, q, found, m, level) ==
    LET more == IF manifest.extend_candidates
                THEN UNION {hnsw_get_neighbours(ix, n, level, FALSE) : n \in NodesOf(found)}
                ELSE {}
    IN  IF \E n \in more : ~ensure_key(known, n) THEN None
        ELSE Prune(known, m, {p \in found : p[2] \notin more} \cup {<<dist(q, known[n]), n>> : n \in more}, {}, {})

-----------------------------------------------------------------------------
(* Changing the index *)

Fine(ix) == [error |-> "ok", index |-> ix]
Fails(error) == [error |-> error, index |-> None]

SelfKey(level, n) == <<level, n, n>>
CanaryKey == <<1, Null, Null>>
Link(d) == <<d, Null, FALSE>>
m_max(level) == IF level = 0 THEN 2 * manifest.m_neighbours ELSE manifest.m_neighbours

\* Mutant of hnsw_put_fresh_at_levels: the canary is left alone.
hnsw_put_fresh_at_levels_no_canary(ix, n, hash, bottom_level, top_level) ==
    [l \in {SelfKey(b, n) : b \in bottom_level..top_level} |-> <<0, hash, FALSE>>] @@ ix

hnsw_put_fresh_at_levels(ix, n, hash, bottom_level, top_level) ==
    [l \in {SelfKey(b, n) : b \in bottom_level..top_level} |-> <<0, hash, FALSE>>]
    @@ (CanaryKey :> <<bottom_level, <<Null, n, n>>, FALSE>>) @@ ix

\* The links of a node that has too many are chosen again.  Those left out
\* stay, marked as ignored, for removals to find them.
Shrunk(ix, level, target, old, new) ==
    LET added == [k \in {<<level, target, n>> : n \in NodesOf(new) \ NodesOf(old)} |->
                     Link((CHOOSE p \in new : p[2] = k[3])[1])]
        ignored == [k \in {<<level, target, n>> : n \in NodesOf(old) \ NodesOf(new)} |-> <<ix[k][1], Null, TRUE>>]
    IN  IF new = None THEN None ELSE [index |-> ignored @@ added @@ ix, degree |-> Cardinality(new)]

hnsw_shrink_neighbour(ix, known, target, m, level) ==
    LET old == {<<ix[<<level, target, n>>][1], n>> : n \in hnsw_get_neighbours(ix, target, level, FALSE)}
    IN  IF ~ensure_key(known, target) THEN None
        ELSE Shrunk(ix, level, target, old,
                    hnsw_select_neighbours_heuristic(ix, known, known[target], old, m, level))

\* A link from p's node to the new one counts, unless it is shrunk away.
Counted(ix, target, shrunk) ==
    IF shrunk = None THEN None ELSE (target :> [ix[target] EXCEPT ![1] = shrunk.degree]) @@ shrunk.index

CountLink(ix, known, p, level) ==
    LET target == SelfKey(level, p[2])
        degree == (IF ix[target][1] < 0 THEN 0 ELSE ix[target][1]) + 1
    IN  Counted(ix, target, IF degree > m_max(level)
                            THEN hnsw_shrink_neighbour(ix, known, p[2], m_max(level), level)
                            ELSE [index |-> ix, degree |-> degree])

\* Links both ways between a node and the neighbours chosen for it.
RECURSIVE LinkAll(_, _, _, _, _)
LinkAll(ix, known, n, level, neighbours) ==
    IF ix = None THEN Fails("Cannot find compound key")
    ELSE IF neighbours = {} THEN Fine(ix)
    ELSE LET p == Closest(neighbours)
             linked == (<<level, n, p[2]>> :> Link(p[1])) @@ (<<level, p[2], n>> :> Link(p[1])) @@ ix
         IN  IF SelfKey(level, p[2]) \notin DOMAIN linked
             THEN Fails("Indexed vector not found, this signifies a bug in the index implementation")
             ELSE LinkAll(CountLink(linked, known, p, level), known, n, level, neighbours \ {p})

\* The levels from one to 0, with what was found on the last one
RECURSIVE Insert(_, _, _, _, _)
InsertLinked(linked, known, n, level, near) ==
    IF linked.error # "ok" THEN linked ELSE Insert(linked.index, known, n, level + 1, near)

InsertChosen(ix, known, n, level, near, chosen) ==
    IF chosen = None THEN Fails("Cannot find compound key")
    ELSE InsertLinked(LinkAll((SelfKey(level, n) :> <<Cardinality(chosen), known[n], FALSE>>) @@ ix,
                              known, n, level, chosen), known, n, level, near)

InsertNear(ix, known, n, level, near) ==
    IF near = None THEN Fails("Cannot find compound key")
    ELSE InsertChosen(ix, known, n, level, near,
                      hnsw_select_neighbours_heuristic(ix, known, known[n], near, m_max(level), level))

Insert(ix, known, n, level, found) ==
    IF level > 0 THEN Fine(ix)
    ELSE InsertNear(ix, known, n, level,
                    hnsw_search_level(ix, known, known[n], manifest.ef_construction, level, found))

RECURSIVE RemoveDown(_, _, _, _)
RemoveDown(ix, n, layer, singletons) ==
    LET neighbours == hnsw_get_neighbours(ix, n, layer, TRUE)
        gone == {SelfKey(layer, n)} \cup {<<layer, n, o>> : o \in neighbours} \cup {<<layer, o, n>> : o \in neighbours}
        selves == {SelfKey(layer, o) : o \in neighbours}
        rest == [k \in DOMAIN ix \ gone |-> IF k \in selves THEN [ix[k] EXCEPT ![1] = @ - 1] ELSE ix[k]]
    IN  IF SelfKey(layer, n) \notin DOMAIN ix THEN [index |-> ix, singletons |-> singletons]
        ELSE IF ~(selves \subseteq DOMAIN ix) THEN None
        ELSE RemoveDown(rest, n, layer - 1, singletons \/ neighbours = {})

hnsw_remove_vec(ix, n) ==
    LET res == RemoveDown(ix, n, 0, FALSE)
        ep == Entry(res.index, 1)
    IN  IF res = None THEN Fails("panic")
        ELSE IF ~res.singletons THEN Fine(res.index)
        ELSE IF ep = None THEN Fine([k \in DOMAIN res.index \ {CanaryKey} |-> res.index[k]])
        ELSE Fine((CanaryKey :> <<ep[1], ep, FALSE>>) @@ res.index)

\* From the entry point down to the level where linking begins
PutBelow(ix, ep, known, n, target_level, found) ==
    IF found = None THEN Fails("Cannot find compound key")
    ELSE Insert(ix, known, n, IF target_level > ep[1] THEN target_level ELSE ep[1], found)

PutFrom(ix, ep, known, n, target_level) ==
    PutBelow(ix, ep, known, n, target_level,
             Descend(ix, known, known[n], ep[1], target_level, {<<dist(known[n], known[ep[2]]), ep[2]>>}))

PutAt(ix, ep, known, n, target_level) ==
    IF ep = None THEN Fine(hnsw_put_fresh_at_levels(ix, n, known[n], target_level, 0))
    ELSE IF ~ensure_key(known, ep[2]) THEN Fails("Cannot find compound key")
    ELSE PutFrom(IF target_level < ep[1] THEN hnsw_put_fresh_at_levels(ix, n, known[n], target_level, ep[1] - 1)
                 ELSE ix, ep, known, n, target_level)

PutCleared(cleared, known, n, target_level) ==
    IF cleared.error # "ok" THEN cleared
    ELSE PutAt(cleared.index, Entry(cleared.index, 0), known, n, target_level)

hnsw_put_vector(ix, known, n, target_level) ==
    LET self == SelfKey(0, n)
    IN  IF self \in DOMAIN ix /\ ix[self][2] = known[n] THEN Fine(ix)
        ELSE PutCleared(IF self \in DOMAIN ix THEN hnsw_remove_vec(ix, n) ELSE Fine(ix),
                        known, n, target_level)

RECURSIVE RemoveAll(_, _)
RemoveAll(res, nodes) ==
    IF nodes = {} \/ res.error # "ok" THEN res
    ELSE RemoveAll(hnsw_remove_vec(res.index, First(nodes)), nodes \ {First(nodes)})

hnsw_remove(ix, r) ==
    RemoveAll(Fine(ix), {k[2] : k \in {x \in DOMAIN ix : x[1] = 0 /\ x[2][1] = r}})

RECURSIVE PutAll(_, _, _, _, _)
PutAll(res, known, tuple, nodes, level) ==
    IF nodes = {} \/ res.error # "ok" THEN res
    ELSE LET n == First(nodes)
             cached == (n :> tuple.vecs[n[2]]) @@ known
         IN  PutAll(hnsw_put_vector(res.index, cached, n, level[n]), cached, tuple, nodes \ {n}, level)

\* A row that the filter of the index refuses is taken out.
hnsw_put(ix, tab, r, tuple, level) ==
    IF tuple.pass THEN PutAll(Fine(ix), Stored(tab), tuple, VectorsOf(r, tuple), level)
    ELSE hnsw_remove(ix, r)

-----------------------------------------------------------------------------
(* Searching.  None: the search fails.                                     *)

hnsw_knn(q, k, ef, radius, filter) ==
    LET known == Stored(table)
        ep == Entry(index, 1)
        start == Descend(index, known, q, ep[1], 0, {<<dist(q, known[ep[2]]), ep[2]>>})
        found == hnsw_search_level(index, known, q, ef, 0, start)
        near == {p \in IF filter = None THEN Nearest(k, found) ELSE found : radius = None \/ p[1] <= radius}
    IN  IF ep = None THEN {}
        ELSE IF ep[2] = Null THEN {}
        ELSE IF ~ensure_key(known, ep[2]) \/ start = None \/ found = None THEN None
        ELSE IF \E p \in near : p[2][1] \notin DOMAIN table THEN None
        ELSE Nearest(k, {p \in near : filter = None \/ p[2][1] \in filter})

-----------------------------------------------------------------------------
(* Statements *)

\* A row that is removed, as a tuple the index does not take.
Gone == [pass |-> FALSE, vecs |-> <<>>]
Statements(r) == manifest.tuples[r] \cup (IF r \in DOMAIN table THEN {Gone} ELSE {})

NewTable(tab, r, tuple) ==
    IF tuple = Gone THEN [s \in DOMAIN tab \ {r} |-> tab[s]] ELSE (r :> tuple) @@ tab

Levels(r, tuple) == [VectorsOf(r, tuple) -> Level]

\* What a statement takes out of the index, and what it should have taken out
Indexed(r) == {k[2] : k \in {x \in DOMAIN index : x[1] = 0 /\ x[2] = x[3] /\ x[2][1] = r}}
TakenOut(r, tuple) ==
    IF tuple.pass
    THEN {n \in Indexed(r) \cap VectorsOf(r, tuple) : index[SelfKey(0, n)][2] # tuple.vecs[n[2]]}
    ELSE Indexed(r)
Forgotten(r, tuple) == IF tuple.pass THEN Indexed(r) \ VectorsOf(r, tuple) ELSE {}
Spoils(r, tuple) ==
    \/ Forgotten(r, tuple) # {}
    \/ TakenOut(r, tuple) # {} /\ (Cardinality(Indexed(r)) > 1 \/ manifest.extend_candidates)

Init ==
    /\ manifest \in Manifests
    /\ table = manifest.table /\ index = None
    /\ outcome = "ok" /\ calls = 0 /\ removed = FALSE /\ spoilt = FALSE

\* put_into_relation, update_in_relation, remove_from_relation
put_into_relation(r) ==
    \E tuple \in Statements(r) : \E level \in Levels(r, tuple) :
        /\ index # None
        /\ \E res \in {hnsw_put(index, table, r, tuple, level)} :
            /\ outcome' = res.error
            /\ IF res.error = "ok"
               THEN /\ index' = res.index
                    /\ table' = NewTable(table, r, tuple)
                    /\ removed' = (removed \/ TakenOut(r, tuple) # {})
                    /\ spoilt' = (spoilt \/ Spoils(r, tuple))
               ELSE UNCHANGED <<index, table, removed, spoilt>>

put_unindexed(r) ==
    /\ index = None
    /\ \E tuple \in manifest.tuples[r] : table' = NewTable(table, r, tuple)
    /\ UNCHANGED <<index, outcome, removed, spoilt>>

RECURSIVE Populate(_, _, _)
Populate(res, rows, level) ==
    IF rows = {} \/ res.error # "ok" THEN res
    ELSE LET r == CHOOSE x \in rows : \A y \in rows : x <= y
         IN  Populate(hnsw_put(res.index, table, r, table[r], level), rows \ {r}, level)

create_hnsw_index ==
    /\ index = None
    /\ \E level \in [DOMAIN Stored(table) -> Level] :
           \E res \in {Populate(Fine(<<>>), DOMAIN table, level)} :
               /\ outcome' = res.error
               /\ index' = res.index
    /\ UNCHANGED <<table, removed, spoilt>>

\* Two transactions that began in the same state both commit: neither wrote a
\* row that the other one wrote.
Written(ix) == {k \in DOMAIN ix \cup DOMAIN index :
                   k \notin DOMAIN ix \/ k \notin DOMAIN index \/ ix[k] # index[k]}

commit_both(r, s) ==
    \E t \in Statements(r), u \in Statements(s) : \E l \in Levels(r, t), m \in Levels(s, u) :
        /\ index # None
        /\ \E one \in {hnsw_put(index, table, r, t, l)}, two \in {hnsw_put(index, table, s, u, m)} :
            /\ one.error = "ok" /\ two.error = "ok"
            /\ Written(one.index) \cap Written(two.index) = {}
            /\ index' = [k \in (DOMAIN one.index \ Written(two.index)) \cup (DOMAIN two.index \cap Written(two.index)) |->
                            IF k \in Written(two.index) THEN two.index[k] ELSE one.index[k]]
            /\ table' = NewTable(NewTable(table, r, t), s, u)
            /\ removed' = (removed \/ TakenOut(r, t) # {} \/ TakenOut(s, u) # {})
            /\ spoilt' = (spoilt \/ Spoils(r, t) \/ Spoils(s, u))
            /\ outcome' = "ok"

Next ==
    /\ calls < manifest.calls
    /\ calls' = calls + 1
    /\ UNCHANGED manifest
    /\ \/ \E r \in DOMAIN manifest.tuples : put_into_relation(r)
       \/ \E r \in DOMAIN manifest.tuples : put_unindexed(r)
       \/ create_hnsw_index
       \/ \E r, s \in DOMAIN manifest.tuples : r < s /\ manifest.concurrent /\ commit_both(r, s)

Spec == Init /\ [][Next]_vars

-----------------------------------------------------------------------------
(* Properties *)

On(level) == {k[2] : k \in {x \in DOMAIN index : x[1] = level /\ x[2] = x[3]}}
Links == {k \in DOMAIN index : k[1] <= 0 /\ k[2] # k[3]}
Mirror(k) == <<k[1], k[3], k[2]>>

TypeOK ==
    /\ manifest \in Manifests
    /\ DOMAIN table \subseteq DOMAIN manifest.tuples
    /\ calls \in 0..manifest.calls
    /\ removed \in BOOLEAN /\ spoilt \in BOOLEAN
    /\ index # None =>
         \A k \in DOMAIN index \ {CanaryKey} : k[1] \in Level /\ index[k][3] \in BOOLEAN

\* Exactly the vectors of the rows the filter takes are on level 0, and a node
\* is on every level between its lowest one and 0 (hnsw_put, hnsw_remove): no
\* row of the index is left of a vector that is gone, and a link leads from a
\* node of its level to another and back.
GraphExact ==
    /\ On(0) = UNION {VectorsOf(r, table[r]) : r \in {s \in DOMAIN table : table[s].pass}}
    /\ \A n \in On(0) : index[SelfKey(0, n)][2] = table[n[1]].vecs[n[2]]
    /\ \A l \in Level \ {0} : On(l) \subseteq On(l + 1)
    /\ \A k \in Links : {k[2], k[3]} \subseteq On(k[1])
                        /\ (manifest.extend_candidates \/ Mirror(k) \in DOMAIN index)

\* A node has no more links on a level than the index allows and its degree
\* says how many, until a vector is removed: the degree of a neighbour is then
\* taken down even if its link back was ignored, so it may say too few.  (With
\* several vectors in a row the links between them are not counted again when
\* the node has too many; extended candidates count the node itself.)
Single == \A r \in DOMAIN table : Cardinality(Indexed(r)) <= 1

DegreesExact ==
    \A k \in DOMAIN index : k[1] <= 0 /\ k[2] = k[3] =>
        LET live == Cardinality({x \in Links : x[1] = k[1] /\ x[2] = k[2] /\ ~index[x][3]})
        IN  /\ index[k][1] <= m_max(k[1])
            /\ manifest.extend_candidates \/ index[k][1] <= live
            /\ Single /\ ~removed /\ ~manifest.extend_candidates => index[k][1] = live

RECURSIVE Reach(_)
Reach(nodes) ==
    LET more == nodes \cup UNION {hnsw_get_neighbours(index, n, 0, FALSE) : n \in nodes}
    IN  IF more = nodes THEN nodes ELSE Reach(more)

\* A node of level 0 that had too many links ignores some of them
\* (hnsw_shrink_neighbour): from then on a vector may be out of every search's
\* reach.
Shed == \E k \in Links : k[1] = 0 /\ index[k][3]

\* A search that may look at every vector finds the k nearest of all that the
\* links of level 0 lead to; as long as nothing was removed, every row has one
\* vector and no link is ignored, that is all of them.  Any search gives no more
\* than k and ef vectors, with their distances.
SearchExact ==
    \A q \in Queries, o \in {<<1, 9, None, None>>, <<2, 9, 4, None>>, <<2, 9, None, {1, 3}>>, <<2, 1, None, None>>} :
        LET k == o[1]
            ef == o[2]
            radius == o[3]
            filter == o[4]
            found == hnsw_knn(q, k, ef, radius, filter)
            known == Stored(table)
            ep == Entry(index, 0)
            start == Descend(index, known, q, ep[1], 0, {<<dist(q, known[ep[2]]), ep[2]>>})
            all == IF ~removed /\ Single /\ ~Shed THEN On(0)
                   ELSE Reach(NodesOf(start))
            wanted == {p \in {<<dist(q, known[n]), n>> : n \in all} :
                          /\ radius = None \/ p[1] <= radius
                          /\ filter = None \/ p[2][1] \in filter}
        IN  /\ found # None
            /\ On(0) = {} => found = {}
            /\ On(0) # {} /\ ef = 9 => found = Nearest(k, wanted)
            /\ On(0) # {} /\ ef = 1 =>
                 /\ Cardinality(found) <= 1
                 /\ \A p \in found : p[2] \in On(0) /\ p \in {<<dist(q, known[n]), n>> : n \in On(0)}

\* No statement fails, and the index is what the rows of the relation ask for:
\* as long as no row with several vectors is taken out or changed, no vector is
\* replaced by null, and candidates are not extended when vectors are removed.
Exact ==
    /\ TypeOK
    /\ ~spoilt /\ index # None => outcome = "ok" /\ GraphExact /\ DegreesExact /\ SearchExact

\* hnsw.rs:343: "Indexed vector not found, this signifies a bug in the index
\* implementation"
NoIndexBug == outcome # "Indexed vector not found, this signifies a bug in the index implementation"
=============================================================================
