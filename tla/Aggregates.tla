----------------------------- MODULE Aggregates -----------------------------
(***************************************************************************)
(* The aggregates of retia-core/src/data/aggr.rs as a group of rows meets  *)
(* them: a NormalAggrObj takes the values one by one (set) and is asked    *)
(* for the result at the end (get).  Eleven of them also have a form that  *)
(* recursive rules use, MeetAggrObj, which combines one value into another *)
(* (MeetAggr); the model feeds both with the same values.                  *)
(*                                                                         *)
(* A list is a sequence, a byte string the sequence of its bits, and a     *)
(* quotient of floats the pair of its terms (a zero below for NaN and the  *)
(* infinities); floats are integers and sums are exact.  Bad is a value of *)
(* a type the aggregate does not accept.                                   *)
(***************************************************************************)
EXTENDS Integers, SequencesExt, TLC, MeetAggr

CONSTANTS
    Jobs,      \* <<op, vals, arg>>: an aggregate, the values of a group, its argument
    Bad,
    Refused,   \* the result of a group when a call failed
    None

VARIABLES
    job,       \* the group
    work,      \* [left, acc]: the values to come and the accumulator
    out        \* what get returned, or None

vars == <<job, work, out>>

-----------------------------------------------------------------------------
Elements(l) == {l[i] : i \in DOMAIN l}
Ascending(S) == SetToSortSeq(S, <)
Number(v) == v \in Int

\* The accumulator of a new object.
normal_init(op) ==
    CASE op = "and" -> TRUE
      [] op = "or" -> FALSE
      [] op \in {"unique", "count_unique", "union"} -> {}
      [] op \in {"group_count", "collect", "bit_and", "bit_or", "bit_xor"} -> <<>>
      [] op \in {"count", "sum"} -> 0
      [] op = "product" -> 1
      [] op \in {"mean", "variance", "std_dev"} -> [count |-> 0, sum |-> 0, sum_sq |-> 0]
      [] op \in {"min", "max", "choice", "intersection", "shortest"} -> Null
      [] op = "min_cost" -> [found |-> Null, cost |-> Infinity]
      [] op \in {"latest_by", "smallest_by"} -> [found |-> Null, cost |-> Null]
      [] op = "choice_rand" -> [count |-> 0, value |-> Null]

\* Each set gives the accumulators that a value can lead to; none if it fails.
AggrAnd(a, v) == IF v \in BOOLEAN THEN {a /\ v} ELSE {}
AggrOr(a, v) == IF v \in BOOLEAN THEN {a \/ v} ELSE {}
AggrUnique(a, v) == {a \cup {v}}
AggrGroupCount(a, v) == {IF v \in DOMAIN a THEN [a EXCEPT ![v] = @ + 1] ELSE a @@ (v :> 1)}
AggrCountUnique(a, v) == {a \cup {v}}
AggrUnion(a, v) == IF v = Bad THEN {} ELSE {a \cup Elements(v)}
AggrIntersection(a, v) ==
    IF v = Bad THEN {} ELSE {IF a = Null THEN Elements(v) ELSE a \cap Elements(v)}
AggrCollect(a, v, limit) == {IF limit # None /\ Len(a) >= limit THEN a ELSE Append(a, v)}

\* The first value is always taken: its probability is 1.
AggrChoiceRand(a, v) ==
    {[count |-> a.count + 1, value |-> w] : w \in IF a.count = 0 THEN {v} ELSE {v, a.value}}

AggrCount(a, v) == {a + 1}
AggrVariance(a, v) ==
    IF Number(v)
    THEN {[count |-> a.count + 1, sum |-> a.sum + v, sum_sq |-> a.sum_sq + v * v]} ELSE {}
AggrStdDev(a, v) == AggrVariance(a, v)
AggrMean(a, v) ==
    IF Number(v) THEN {[a EXCEPT !.count = @ + 1, !.sum = @ + v]} ELSE {}
AggrSum(a, v) == IF Number(v) THEN {a + v} ELSE {}
AggrProduct(a, v) == IF Number(v) THEN {a * v} ELSE {}

\* The first value is taken as it is; only a comparison asks for numbers.
AggrMin(a, v) ==
    IF v = Null THEN {a}
    ELSE IF a = Null THEN {v}
    ELSE IF Number(a) /\ Number(v) THEN {IF a > v THEN v ELSE a} ELSE {}
AggrMax(a, v) ==
    IF v = Null THEN {a}
    ELSE IF a = Null THEN {v}
    ELSE IF Number(a) /\ Number(v) THEN {IF a < v THEN v ELSE a} ELSE {}

\* In the order of values, Null is below every number.
Below(c, d) == c # d /\ (c = Null \/ (d # Null /\ c < d))
Pair(v) == v # Bad /\ Len(v) = 2
Found(v) == [found |-> v[1], cost |-> v[2]]
AggrLatestBy(a, v) == IF Pair(v) THEN {IF Below(a.cost, v[2]) THEN Found(v) ELSE a} ELSE {}

AggrSmallestBy(a, v) ==
    IF Pair(v) THEN {IF a.cost = Null \/ Below(v[2], a.cost) THEN Found(v) ELSE a} ELSE {}
AggrMinCost(a, v) ==
    IF Pair(v) /\ Number(v[2]) THEN {IF v[2] < a.cost THEN Found(v) ELSE a} ELSE {}

AggrShortest(a, v) ==
    IF v = Bad THEN {} ELSE {IF a = Null \/ Len(v) < Len(a) THEN v ELSE a}
AggrChoice(a, v) == {IF a = Null THEN v ELSE a}

Xor(l, r) == [i \in DOMAIN l |-> (l[i] + r[i]) % 2]
Bits(a, v, res) ==
    IF v = Bad \/ (a # <<>> /\ Len(a) # Len(v)) THEN {} ELSE {IF a = <<>> THEN v ELSE res}
AggrBitAnd(a, v) == Bits(a, v, BitAnd(a, v))
AggrBitOr(a, v) == Bits(a, v, BitOr(a, v))
AggrBitXor(a, v) == Bits(a, v, Xor(a, v))

set(op, a, v, arg) ==
    CASE op = "and" -> AggrAnd(a, v)
      [] op = "or" -> AggrOr(a, v)
      [] op = "unique" -> AggrUnique(a, v)
      [] op = "count_unique" -> AggrCountUnique(a, v)
      [] op = "group_count" -> AggrGroupCount(a, v)
      [] op = "union" -> AggrUnion(a, v)
      [] op = "intersection" -> AggrIntersection(a, v)
      [] op = "collect" -> AggrCollect(a, v, arg)
      [] op = "choice_rand" -> AggrChoiceRand(a, v)
      [] op = "count" -> AggrCount(a, v)
      [] op = "variance" -> AggrVariance(a, v)
      [] op = "std_dev" -> AggrStdDev(a, v)
      [] op = "mean" -> AggrMean(a, v)
      [] op = "sum" -> AggrSum(a, v)
      [] op = "product" -> AggrProduct(a, v)
      [] op = "min" -> AggrMin(a, v)
      [] op = "max" -> AggrMax(a, v)
      [] op = "latest_by" -> AggrLatestBy(a, v)
      [] op = "smallest_by" -> AggrSmallestBy(a, v)
      [] op = "min_cost" -> AggrMinCost(a, v)
      [] op = "shortest" -> AggrShortest(a, v)
      [] op = "choice" -> AggrChoice(a, v)
      [] op = "bit_and" -> AggrBitAnd(a, v)
      [] op = "bit_or" -> AggrBitOr(a, v)
      [] op = "bit_xor" -> AggrBitXor(a, v)

Quotient(p, q) == <<p, q>>
Variance(a) == Quotient(a.sum_sq * a.count - a.sum * a.sum, a.count * (a.count - 1))

\* The sorted keys of a BTreeSet or BTreeMap of numbers and Null.
Keys(S) == (IF Null \in S THEN <<Null>> ELSE <<>>) \o Ascending(S \ {Null})

\* std_dev is the root of what is given here.
get(op, a) ==
    CASE op \in {"unique", "union"} -> Keys(a)
      [] op = "count_unique" -> Cardinality(a)
      [] op = "group_count" -> LET k == Keys(DOMAIN a) IN [i \in DOMAIN k |-> <<k[i], a[k[i]]>>]
      [] op = "intersection" -> IF a = Null THEN <<>> ELSE Keys(a)
      [] op = "choice_rand" -> a.value
      [] op \in {"variance", "std_dev"} -> Variance(a)
      [] op = "mean" -> Quotient(a.sum, a.count)
      [] op \in {"latest_by", "smallest_by"} -> a.found
      [] op = "min_cost" -> <<a.found, a.cost>>
      [] OTHER -> a

-----------------------------------------------------------------------------
Init ==
    /\ \E j \in Jobs : job = [op |-> j[1], vals |-> j[2], arg |-> j[3]]
    /\ work = None /\ out = None

\* normal_init: `collect` checks its argument.
New ==
    /\ work = None /\ out = None
    /\ IF job.op = "collect" /\ job.arg # None /\ job.arg <= 0
       THEN out' = Refused /\ UNCHANGED work
       ELSE work' = [left |-> job.vals, acc |-> normal_init(job.op)] /\ UNCHANGED out
    /\ UNCHANGED job

Set ==
    /\ work # None /\ out = None /\ work.left # <<>>
    /\ LET next == set(job.op, work.acc, Head(work.left), job.arg)
       IN  IF next = {} THEN out' = Refused /\ UNCHANGED work
           ELSE \E a \in next : work' = [left |-> Tail(work.left), acc |-> a] /\ UNCHANGED out
    /\ UNCHANGED job

Get ==
    /\ work # None /\ out = None /\ work.left = <<>>
    /\ out' = get(job.op, work.acc)
    /\ UNCHANGED <<job, work>>

Done == out # None /\ UNCHANGED vars

Next == New \/ Set \/ Get \/ Done

Spec == Init /\ [][Next]_vars

-----------------------------------------------------------------------------
(* What the names of the aggregates promise for the values s of a group.   *)

SumOf(s) == FoldLeft(LAMBDA t, v : t + v, 0, s)
Times(v, s) == Cardinality({i \in DOMAIN s : s[i] = v})
Deviations(s) == SumOf([i \in DOMAIN s |-> SumOf([j \in DOMAIN s |-> (s[i] - s[j]) * (s[i] - s[j])])]) \div 2
Least(S) == CHOOSE v \in S : \A w \in S : v <= w
Most(S) == CHOOSE v \in S : \A w \in S : v >= w
Given(s) == SelectSeq(s, LAMBDA v : v # Null)
Costs(s) == {s[i][2] : i \in DOMAIN s} \ {Null}
FirstWith(s, c) == s[CHOOSE i \in DOMAIN s : s[i][2] = c /\ \A j \in 1..(i - 1) : s[j][2] # c]

\* A null cost starts the search for the smallest anew.
AfterNull(s) ==
    LET nulls == {i \in DOMAIN s : s[i][2] = Null}
    IN  IF nulls = {} THEN s ELSE IF Most(nulls) = Len(s) THEN <<Last(s)>> ELSE SubSeq(s, Most(nulls) + 1, Len(s))

IsAscending(q, S) == Elements(q) = S /\ \A i \in 1..(Len(q) - 1) : Below(q[i], q[i + 1])

\* The groups that an aggregate refuses.
Refuses(op, s, arg) ==
    CASE op \in {"and", "or"} -> \E i \in DOMAIN s : s[i] \notin BOOLEAN
      [] op \in {"sum", "product", "mean", "variance", "std_dev"} -> \E i \in DOMAIN s : ~Number(s[i])
      [] op \in {"union", "intersection", "shortest"} -> Bad \in Elements(s)
      [] op \in {"min", "max"} -> Bad \in Elements(s) /\ Len(Given(s)) > 1
      [] op \in {"latest_by", "smallest_by"} -> \E i \in DOMAIN s : ~Pair(s[i])
      [] op = "min_cost" -> \E i \in DOMAIN s : ~Pair(s[i]) \/ s[i][2] = Null
      [] op \in {"bit_and", "bit_or", "bit_xor"} ->
            \/ Bad \in Elements(s)
            \/ \E i, j \in DOMAIN s : i < j /\ s[i] # <<>> /\ Len(s[i]) # Len(s[j])
      [] op = "collect" -> arg # None /\ arg <= 0
      [] OTHER -> FALSE

Promised(op, s, arg, o) ==
    LET all == Elements(s) IN
    CASE op = "and" -> o = (FALSE \notin all)
      [] op = "or" -> o = (TRUE \in all)
      [] op = "unique" -> IsAscending(o, all)
      [] op = "count_unique" -> o = Cardinality(all)
      [] op = "group_count" -> /\ IsAscending([i \in DOMAIN o |-> o[i][1]], all)
                               /\ \A i \in DOMAIN o : o[i][2] = Times(o[i][1], s)
      [] op = "union" -> IsAscending(o, UNION {Elements(l) : l \in all})
      [] op = "intersection" ->
            IsAscending(o, IF s = <<>> THEN {} ELSE {v \in Elements(s[1]) : \A l \in all : v \in Elements(l)})
      [] op = "collect" -> o = SubSeq(s, 1, IF arg = None \/ arg > Len(s) THEN Len(s) ELSE arg)
      [] op = "choice_rand" -> IF s = <<>> THEN o = Null ELSE o \in all
      [] op = "count" -> o = Len(s)
      [] op = "sum" -> o = SumOf(s)
      [] op = "product" -> o = FoldLeft(LAMBDA t, v : t * v, 1, s)
      [] op = "mean" -> o = <<SumOf(s), Len(s)>>
      [] op \in {"variance", "std_dev"} -> o = <<Deviations(s), Len(s) * (Len(s) - 1)>>
      [] op \in {"min", "max"} ->
            LET g == Given(s)
            IN  o = IF g = <<>> THEN Null ELSE IF Len(g) = 1 THEN g[1]
                    ELSE IF op = "min" THEN Least(Elements(g)) ELSE Most(Elements(g))
      [] op = "latest_by" -> o = IF Costs(s) = {} THEN Null ELSE FirstWith(s, Most(Costs(s)))[1]
      [] op = "smallest_by" ->
            LET t == AfterNull(s)
            IN  o = IF t = <<>> THEN Null ELSE IF Costs(t) = {} THEN t[1][1] ELSE FirstWith(t, Least(Costs(t)))[1]
      [] op = "min_cost" -> o = IF Costs(s) \ {Infinity} = {} THEN <<Null, Infinity>> ELSE FirstWith(s, Least(Costs(s)))
      [] op = "shortest" ->
            o = IF s = <<>> THEN Null
                ELSE s[CHOOSE i \in DOMAIN s :
                         /\ \A j \in DOMAIN s : Len(s[i]) <= Len(s[j])
                         /\ \A j \in 1..(i - 1) : Len(s[j]) > Len(s[i])]
      [] op = "choice" -> LET g == Given(s) IN o = IF g = <<>> THEN Null ELSE g[1]
      [] op \in {"bit_and", "bit_or", "bit_xor"} ->
            LET given == SelectSeq(s, LAMBDA l : l # <<>>)
                Ones(i) == Cardinality({j \in DOMAIN given : given[j][i] = 1})
                Bit(i) == CASE op = "bit_and" -> Ones(i) = Len(given)
                            [] op = "bit_or" -> Ones(i) > 0
                            [] op = "bit_xor" -> Ones(i) % 2 = 1
            IN  o = IF given = <<>> THEN <<>> ELSE [i \in DOMAIN given[1] |-> IF Bit(i) THEN 1 ELSE 0]

\* What a recursive rule keeps for the group.
HasMeet(op) ==
    op \in {"and", "or", "union", "intersection", "min", "max", "min_cost", "shortest", "choice", "bit_and", "bit_or"}
MeetResult(op, s) ==
    LET Arg(v) == IF op \in {"union", "intersection"} THEN Elements(v) ELSE v
        last == FoldLeft(LAMBDA a, v : update(op, a, Arg(v)).val, init_val(op), s)
    IN  IF op \in {"union", "intersection"} THEN (IF last = Null THEN <<>> ELSE Keys(last)) ELSE last

TypeOK ==
    /\ work # None => Len(work.left) <= Len(job.vals)
    /\ out # None => out = Refused \/ (work # None /\ work.left = <<>>)

\* data/aggr.rs: a group is refused exactly for its values, whatever their
\* order does to the accumulator on the way; the result is what the name of
\* the aggregate promises, and the normal and the meet form of an aggregate
\* agree on it, so that making a rule recursive does not change its groups.
Exact ==
    /\ TypeOK
    /\ out # None =>
         IF Refuses(job.op, job.vals, job.arg) THEN out = Refused
         ELSE /\ out # Refused
              /\ Promised(job.op, job.vals, job.arg, out)
              /\ HasMeet(job.op) => out = MeetResult(job.op, job.vals)
=============================================================================
