------------------------------- MODULE MCQuery -------------------------------
(***************************************************************************)
(* The evaluation of queries for TLC: a behaviour is the stratification    *)
(* and the evaluation order of a program, the epochs of a recursive rule   *)
(* with a meet aggregate, the epochs of an entry rule with :limit and      *)
(* :offset, the normal form of a rule, the magic-set rewriting of a        *)
(* stratum, or the plan of a body (`part` says which).                     *)
(***************************************************************************)
EXTENDS Clauses

CONSTANTS
    None, Null, Infinity, Rounds,
    Parts,                     \* the parts that are checked
    Ops, MaxEdges,             \* meet aggregates, instances of a linear rule
    MaxRow, Limits, Offsets,   \* rows and options of a limited query
    Recursive,                 \* limited queries with a recursive entry
    RuleSets, MaxRefs          \* size of the stratified programs

VARIABLES
    part,
    kind, refs, phase, stratum, stores,                                  \* Stratify
    succ, calls, ids, low, stack,                                        \* Stratify
    edges, poisoned, in_degree, ret, current, safe, unsafe, kahnDone,
    total, epoch, out,                                          \* MeetEval, Limiter
    status,                                              \* MeetEval, Limiter, Joins
    program, delta, useTotal, pending,                                   \* MeetEval
    request, pos, counter,                                               \* Limiter
    written, normal, outcome,                                            \* Rewriting
    rules, exempt, facts, adorned, done, rewritten,                      \* Rewriting
    given, at, seen, plan, rows                                          \* Joins

-----------------------------------------------------------------------------
(* Programs to stratify: all kinds of rule sets, and more of them where the *)
(* only difference is negation.                                             *)

ProgramsOver(n, kinds, max) ==
    LET symb == 0..(n - 1)
        ref == symb \X (symb \ {0}) \X BOOLEAN
    IN  {[kind |-> k, refs |-> {f[i] : i \in 1..max}] :
            k \in [symb -> kinds], f \in [1..max -> ref]}

\* Fixed rules have no negated inputs, and at the entry, which no rule uses, one
\* aggregation is as another; of the larger programs those in which every rule
\* set is used.
MCPrograms ==
    {p \in ProgramsOver(RuleSets, {"none", "meet", "normal", "fixed"}, MaxRefs - 1) :
       /\ p.kind[0] \in {"none", "normal", "fixed"}
       /\ \A r \in p.refs : p.kind[r[1]] = "fixed" => ~r[3]}
    \cup {p \in ProgramsOver(RuleSets + 1, {"none"}, MaxRefs) :
            \A s \in 1..RuleSets : \E r \in p.refs : r[2] = s}

-----------------------------------------------------------------------------
(* Programs with a meet aggregate over three groups: one or two seeds, up  *)
(* to MaxEdges instances of a linear rule, possibly one of a rule that     *)
(* uses itself twice, and the same for a rule without grouping.            *)

Group == 1..3
Weight == 0..1

SumOf(vals) == FoldSeq(+, 0, vals)
Bits(l, r) == [i \in DOMAIN l |-> l[i] * r[i]]

\* What the bodies compute: path lengths, bottlenecks, unions, masks.
MCDerive(o, w, vals) ==
    CASE o \in {"min", "max", "intersection", "shortest", "choice"}
           /\ \E n \in DOMAIN vals : vals[n] = Null -> Null
      [] o = "min" -> w + SumOf(vals)
      [] o = "max" -> IF vals = <<>> THEN w ELSE Min({vals[n] : n \in DOMAIN vals})
      [] o = "union" -> {w} \cup UNION {vals[n] : n \in DOMAIN vals}
      [] o = "intersection" -> {v \in 0..2 : v # w /\ \A n \in DOMAIN vals : v \in vals[n]}
      [] o = "min_cost" -> <<w, w + SumOf([n \in DOMAIN vals |-> vals[n][2]])>>
      [] o = "shortest" -> <<w>> \o FlattenSeq(vals)
      [] o = "choice" -> w
      [] o \in {"and", "or"} -> IF vals = <<>> THEN w = 1 ELSE vals[1]
      [] o \in {"bit_and", "bit_or"} -> IF vals = <<>> THEN <<1, w>> ELSE Bits(vals[1], <<1, w>>)

GroundRule(h, b, w) == [head |-> h, body |-> b, weight |-> w]

Seeds == {{GroundRule(1, <<>>, w)} : w \in Weight}
         \cup {{GroundRule(1, <<>>, w), GroundRule(3, <<>>, v)} : w \in Weight, v \in Weight}
Edges == {GroundRule(h, <<g>>, w) : h \in Group, g \in Group, w \in Weight}
EdgeSets == UNION {kSubset(n, {e \in Edges : e.head # e.body[1]}) : n \in 0..MaxEdges}
            \cup {{e} : e \in Edges}
Doubles == {{}, {GroundRule(3, <<1, 2>>, 0)}}

MCProgram ==
    {[op |-> o, inst |-> s \cup es \cup d, ungrouped |-> Null] :
        o \in Ops, s \in Seeds, es \in EdgeSets, d \in Doubles}
    \cup {[op |-> o, inst |-> es, ungrouped |-> 1] :
            o \in Ops \ {"bit_and", "bit_or", "min_cost"},
            es \in SUBSET {GroundRule(1, b, w) : b \in {<<>>, <<1>>}, w \in Weight}}

-----------------------------------------------------------------------------
(* Queries with :limit and :offset.                                        *)

SeqUpTo(n) == UNION {[1..m -> 0..MaxRow] : m \in 0..n}

\* All the rows come in epoch 0, or there is no limit; with Recursive the rows
\* come from a recursive rule of the same stratum.
MCRequest ==
    IF Recursive
      THEN [items : {<< <<>>, s, t>> : s, t \in SeqUpTo(2)}, limit : Limits, offset : {None}]
      ELSE [items : {<<s>> : s \in SeqUpTo(4)}, limit : Limits, offset : Offsets]
           \cup [items : {<<s, t>> : s, t \in SeqUpTo(2)}, limit : {None}, offset : Offsets]

-----------------------------------------------------------------------------
(* Rules over variables 1..4, a stored relation e (or r) and an index.     *)

Atom(o, n, a) == [op |-> o, name |-> n, args |-> a]
E(x, y) == Atom("relation", "e", <<x, y>>)
Is(x, v) == Atom("unify", v, <<x>>)
Same(x, y) == Atom("unify", 0, <<x, y>>)
Differ(x, y) == Atom("pred", "ne", <<x, y>>)

-----------------------------------------------------------------------------
(* Written rules: up to three trees of a body in every order.              *)

V(x) == <<"var", x>>
R(x, y) == Atom("relation", "r", <<x, y>>)
S(x) == Atom("rule", "s", <<x>>)
Or(t, u) == [op |-> "or", inner |-> <<t, u>>]
And(t, u) == [op |-> "and", inner |-> <<t, u>>]
Not(t) == [op |-> "not", inner |-> <<t>>]

Trees ==
    {R(V(1), V(2)), R(V(1), V(1)), R(V(2), <<"const", 1>>), R(V(1), <<"_">>), S(V(2)),
     Atom("search", "i", <<1, 3>>), Is(2, 1), Same(2, 1), Same(3, 2), Differ(1, 2),
     Not(S(V(1))), Not(R(V(1), V(1))), Not(R(V(2), <<"_">>)), Or(S(V(1)), R(V(1), V(2))),
     Not(And(S(V(1)), Differ(1, 3))), Not(Or(S(V(2)), Not(R(V(1), V(3))))),
     Not(And(S(V(1)), Or(R(V(1), V(2)), Is(2, 2))))}

MCWritten ==
    [head : {<<1, 2>>, <<1, 3, 1>>}, body : UNION {[1..n -> Trees] : n \in 1..3}]
MCFacts ==
    [r |-> {<<1, 2>>, <<2, 2>>, <<2, 1>>}, s |-> {<<2>>}, i |-> {<<1, 1>>, <<2, 1>>}]

-----------------------------------------------------------------------------
(* Strata to rewrite: an entry, a rule p with two bodies, a rule q, and a  *)
(* rule low of a stratum below; q may be one that keeps its name.          *)

P(x, y) == Atom("rule", "p", <<x, y>>)
Q(x, y) == Atom("rule", "q", <<x, y>>)
Low(x) == Atom("rule", "low", <<x>>)

Entries ==
    {<< <<1>>, <<E(1, 2), P(1, 2)>> >>,
     << <<1>>, <<Is(3, 1), P(3, 1)>> >>,
     << <<2, 3>>, <<P(1, 2), P(2, 3)>> >>,
     << <<1>>, <<Is(3, 2), P(1, 3), Atom("not_rule", "low", <<1>>)>> >>,
     << <<1>>, <<Low(1), P(1, 2), Q(2, 3), Differ(1, 3)>> >>}

PBodies == <<
    << <<1, 2>>, <<E(1, 2)>> >>,
    << <<1, 4>>, <<E(1, 2), Same(4, 1)>> >>,
    << <<1, 2>>, <<E(1, 3), P(3, 2)>> >>,
    << <<1, 2>>, <<P(1, 3), P(3, 2)>> >>,
    << <<1, 2>>, <<Q(2, 1), Differ(1, 2)>> >>,
    << <<1, 2>>, <<P(1, 3), Atom("not_relation", "e", <<3, 4>>), E(3, 2), Q(1, 2)>> >>,
    << <<1, 4>>, <<Q(1, 2), Low(2), P(2, 3), Same(4, 3)>> >> >>

QBodies == {<< <<1, 2>>, <<E(1, 2)>> >>,
            << <<1, 2>>, <<E(1, 3), P(3, 2)>> >>,
            << <<1, 2>>, <<Low(3), P(2, 1), P(1, 3)>> >>}

StoredRows == {[e |-> {<<1, 2>>, <<2, 3>>}, low |-> {<<2>>}],
               [e |-> {<<1, 2>>, <<2, 1>>, <<2, 2>>}, low |-> {<<1>>, <<3>>}]}

ClauseOf(n, i, c) == [name |-> n, idx |-> i, head |-> c[1], body |-> c[2]]

MCMagicProgram ==
    {[rules |-> {ClauseOf("?", 0, e), ClauseOf("p", 0, PBodies[i]), ClauseOf("p", 1, PBodies[j]),
                 ClauseOf("q", 0, q)},
      exempt |-> x, facts |-> f] :
        e \in Entries, <<i, j>> \in {d \in (1..7) \X (1..7) : d[1] < d[2]},
        q \in QBodies, f \in StoredRows, x \in {{"?"}, {"?", "q"}}}

-----------------------------------------------------------------------------
(* Bodies to plan: a relation l, then r or its negation, each of its three *)
(* columns bound before, new or ignored, and a condition on what is new.   *)

Cond(o, x, v) == [op |-> "pred", name |-> o, args |-> <<x>>, val |-> v]
StoreOf(k, n, rs, is) ==
    [kind |-> k, keys |-> n, rows |-> rs, delta |-> {r \in rs : r[1] # 2}, indices |-> is]
IsRule(s) == s.kind \in {"temp", "meet"}

\* Of each column: the variable 1 or 2, new (10) or ignored (90).
Uses3 == {f \in [1..3 -> {1, 2, 10, 90}] : \A i, j \in 1..3 : i # j /\ f[i] = f[j] => f[i] >= 10}
Args3(f) == [i \in 1..3 |-> IF f[i] < 10 THEN f[i] ELSE f[i] + i]

\* Rows with integers and floats of the same number, and rows without.
Mixed == {<<1, 2, 4>>, <<2, 4, 5>>, <<4, 2, 5>>, <<5, 5, 1>>, <<4, 3, 4>>}
Plain == {<<1, 4, 4>>, <<1, 3, 1>>, <<3, 4, 1>>, <<4, 1, 3>>, <<4, 4, 4>>}
OneKey(rs) == {r \in rs : \A q \in rs : q[1] = r[1] => q[2] <= r[2]}

RStores ==
    {StoreOf("stored", 1, OneKey(rs), <<>>) : rs \in {Mixed, Plain}}
    \cup {StoreOf("stored", 1, OneKey(Plain), is) :
            is \in {<< <<2, 1>> >>, << <<2, 1>>, <<3, 2, 1>> >>, << <<2, 3, 1>>, <<3, 1>> >>}}
    \cup {StoreOf("stored", 2, Mixed, <<>>), StoreOf("meet", 2, Plain, <<>>)}
    \cup {StoreOf("stored", 2, Plain, << <<2, 1>> >>)}
    \cup {StoreOf("stored", 3, Plain, <<>>), StoreOf("temp", 3, Mixed, <<>>)}
    \cup {StoreOf("valid", 2, OneKey(Plain), is) : is \in {<<>>, << <<3, 2, 1>>, <<3, 1, 2>> >>}}

LStore(s) ==
    StoreOf("stored", 1, IF s.rows \subseteq Mixed THEN {<<1, 4>>, <<4, 5>>, <<5, 2>>}
                         ELSE {<<1, 4>>, <<4, 1>>, <<3, 4>>}, <<>>)

RAtom(s, f, negated) ==
    Atom(CASE IsRule(s) /\ negated -> "not_rule"
           [] IsRule(s) /\ ~negated -> "rule"
           [] ~IsRule(s) /\ negated -> "not_relation"
           [] ~IsRule(s) /\ ~negated -> "relation", "r", Args3(f))

Conditions == {"none", "at_least", "below", "range", "equal"}
Condition(k, x) ==
    CASE k = "none" -> <<>>
      [] k = "at_least" -> <<Cond(">=", x, 2)>>
      [] k = "below" -> <<Cond("<", x, 4)>>
      [] k = "range" -> <<Cond(">", x, 1), Cond("<=", x, 3)>>
      [] k = "equal" -> <<Atom("pred", "==", <<x, 2>>)>>

\* A negation has no new columns; the validity column of r is never bound.
MCPlanned ==
    {[body |-> (IF negated THEN <<Is(1, 4), Atom("relation", "l", <<3, 2>>)>>
                           ELSE <<Atom("relation", "l", <<1, 2>>)>>)
               \o <<RAtom(s, f, negated)>> \o Condition(k, 10 + x),
      head |-> IF negated \/ x = 2 THEN <<2>> ELSE SelectSeq(Args3(f), LAMBDA v : v \in 10..19) \o <<1>>,
      stores |-> [l |-> LStore(s), r |-> s],
      delta |-> d] :
        <<negated, s, f, k, x, d>> \in
          {q \in BOOLEAN \X RStores \X Uses3 \X Conditions \X (1..3) \X {None, "r"} :
             /\ IF q[4] = "none" THEN q[5] \in 1..2 ELSE q[3][q[5]] = 10
             /\ q[6] # None => IsRule(q[2])
             /\ q[1] => 10 \notin Range(q[3]) /\ q[5] = 1 /\ q[2].kind # "valid"
             /\ q[2].kind = "valid" => q[3][2] >= 10}}

-----------------------------------------------------------------------------

Strat == INSTANCE Stratify WITH Programs <- MCPrograms
Meet == INSTANCE MeetEval WITH Program <- MCProgram, Derive <- MCDerive
Limit == INSTANCE Limiter WITH Request <- MCRequest
Rewrite == INSTANCE Rewriting
             WITH WrittenRule <- MCWritten, Value <- 1..2, Facts <- MCFacts, FirstGenerated <- 4,
                  MagicProgram <- MCMagicProgram
Plan == INSTANCE Joins WITH Request <- MCPlanned

stratVars ==
    <<kind, refs, phase, stratum, stores, succ, calls, ids, low, stack,
      edges, poisoned, in_degree, ret, current, safe, unsafe, kahnDone>>
evalVars == <<total, epoch, out>>
meetVars == <<program, delta, useTotal>>
limitVars == <<request, pos, counter>>
formVars == <<written, normal, outcome>>
magicVars == <<rules, exempt, facts, adorned, done, rewritten>>
planVars == <<given, at, seen, plan, rows>>
vars == <<part, stratVars, evalVars, status, meetVars, pending, limitVars, formVars, magicVars, planVars>>

NoStrat ==
    /\ kind = None /\ refs = None /\ phase = None /\ stratum = None /\ stores = None
    /\ succ = None /\ calls = None /\ ids = None /\ low = None /\ stack = None
    /\ edges = None /\ poisoned = None /\ in_degree = None /\ ret = None
    /\ current = None /\ safe = None /\ unsafe = None /\ kahnDone = None
NoEval == total = None /\ epoch = None /\ out = None
NoMeet == program = None /\ delta = None /\ useTotal = None
NoLimit == request = None /\ pos = None /\ counter = None
NoForm == written = None /\ normal = None /\ outcome = None
NoMagic == rules = None /\ exempt = None /\ facts = None /\ adorned = None /\ done = None
           /\ rewritten = None
NoPlan == given = None /\ at = None /\ seen = None /\ plan = None /\ rows = None

Init ==
    /\ part \in Parts
    /\ \/ /\ part = "stratify" /\ Strat!Init
          /\ NoEval /\ status = None /\ NoMeet /\ pending = None /\ NoLimit /\ NoForm /\ NoMagic /\ NoPlan
       \/ /\ part = "meet" /\ Meet!Init
          /\ NoStrat /\ NoLimit /\ NoForm /\ NoMagic /\ NoPlan
       \/ /\ part = "limit" /\ Limit!Init
          /\ NoStrat /\ NoMeet /\ pending = None /\ NoForm /\ NoMagic /\ NoPlan
       \/ /\ part = "form" /\ Rewrite!FormInit
          /\ NoStrat /\ NoEval /\ status = None /\ NoMeet /\ pending = None /\ NoLimit /\ NoMagic /\ NoPlan
       \/ /\ part = "magic" /\ Rewrite!MagicInit
          /\ NoStrat /\ NoEval /\ status = None /\ NoMeet /\ NoLimit /\ NoForm /\ NoPlan
       \/ /\ part = "plan" /\ Plan!Init
          /\ NoStrat /\ NoEval /\ NoMeet /\ pending = None /\ NoLimit /\ NoForm /\ NoMagic

Next ==
    /\ UNCHANGED part
    /\ \/ /\ part = "stratify" /\ Strat!Next
          /\ UNCHANGED <<evalVars, status, meetVars, pending, limitVars, formVars, magicVars, planVars>>
       \/ /\ part = "meet" /\ Meet!Next
          /\ UNCHANGED <<stratVars, limitVars, formVars, magicVars, planVars>>
       \/ /\ part = "limit" /\ Limit!Next
          /\ UNCHANGED <<stratVars, meetVars, pending, formVars, magicVars, planVars>>
       \/ /\ part = "form" /\ Rewrite!FormNext
          /\ UNCHANGED <<stratVars, evalVars, status, meetVars, pending, limitVars, magicVars, planVars>>
       \/ /\ part = "magic" /\ Rewrite!MagicNext
          /\ UNCHANGED <<stratVars, evalVars, status, meetVars, limitVars, formVars, planVars>>
       \/ /\ part = "plan" /\ Plan!Next
          /\ UNCHANGED <<stratVars, evalVars, meetVars, pending, limitVars, formVars, magicVars>>

\* A query's thread goes on (the question is asked of the evaluations).
Evaluates == part \in {"stratify", "meet", "limit"}
Spec == Init /\ [][Next]_vars /\ WF_vars(Evaluates /\ Next)

-----------------------------------------------------------------------------
\* Every evaluation ends: the program is evaluated or refused, the values of a
\* meet aggregate are stable, the epochs of a limited query are over.
Ends == <>(\/ status = "done"
           \/ phase \in {"done", "unstratifiable"}
           \/ ~Evaluates)

\* The components that TarjanScc finds are the strongly connected ones, the
\* strata "simultaneously a topological ordering and a stratification", and a
\* program is refused exactly for recursion through a poisoned dependency.
Stratification ==
    part = "stratify" =>
      /\ phase = "scc" => Strat!SccExact
      /\ stratum = 0 => Strat!Stratification
      /\ Strat!Inv

\* Stores are there, and complete where they must be, when a stratum reads them;
\* those of earlier strata are there only if they are still read.
StoresExact == part = "stratify" => Strat!ReadsReady /\ Strat!StoresUseful

\* The result of a meet aggregate is the least fixpoint of its rules.
MeetLeastFixpoint == part = "meet" => Meet!Inv

\* The result of a meet aggregate is a fixpoint of its rules.
MeetFixpoint == part = "meet" => Meet!FixpointReached

\* A rule in normal form is well ordered and means what was written; it is
\* refused as unbound only if it is.
NormalExact == part = "form" => Rewrite!NormalExact /\ Rewrite!RefusedOnlyUnbound

\* The rewritten stratum has the answers of the stratum as it was written.
MagicExact == part = "magic" => Rewrite!MagicExact

\* Whatever its plan, a body yields each row as often as it is derived.
PlanExact == part = "plan" => Plan!Inv

\* A limited query has exactly the number of rows it asks for.
LimitExact == part = "limit" => Limit!Inv

\* A limited query never has more rows than :limit asks for.
AtMostLimit == part = "limit" => Limit!AtMostLimit
=============================================================================
