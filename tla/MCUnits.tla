------------------------------- MODULE MCUnits -------------------------------
(***************************************************************************)
(* Components that are checked each for itself, without fairness, for TLC: *)
(* a behaviour is one of the catalog, or one job of a component that       *)
(* computes: a fixed rule, an aggregation, a key or a column, an           *)
(* expression (`part` says which; the catalog is empty otherwise).         *)
(***************************************************************************)
EXTENDS Catalog, Integers, Sequences, TLC

CONSTANTS
    None,
    Infinity, NaN,       \* of the fixed rules
    NullVal, Bad,        \* of the aggregations
    Refused

VARIABLES part, job, work, out

-----------------------------------------------------------------------------
(* Calls of the fixed rules, on the relations over a set of arcs in which  *)
(* each arc is absent (9) or has one of the weights.                       *)

Relations(arcs, weights) ==
    LET Of(f) == {<<a[1], a[2], f[a]>> : a \in {x \in arcs : f[x] # 9}}
    IN  {Of(f) : f \in [arcs -> weights \cup {9}]}

Three == {<<1, 2>>, <<2, 1>>, <<1, 3>>, <<3, 1>>, <<2, 3>>, <<3, 2>>}
Diamond == {<<1, 2>>, <<1, 3>>, <<2, 3>>, <<3, 2>>, <<2, 4>>, <<3, 4>>}
Cyclic == {<<1, 2>>, <<3, 1>>, <<2, 3>>, <<3, 2>>, <<2, 4>>, <<4, 3>>, <<4, 4>>}

PathJobs ==
    {[rule |-> "ShortestPathDijkstra", rows |-> r, undirected |-> FALSE, starts |-> {1, 2}, goals |-> g,
      keep_ties |-> FALSE] : r \in Relations(Three, {0, 2}), g \in {None, {2, 3}}}
    \cup {[rule |-> "ShortestPathDijkstra", rows |-> r, undirected |-> u, starts |-> {1, 4, 5}, goals |-> g,
           keep_ties |-> TRUE] :
            <<r, u, g>> \in {q \in Relations(Diamond \cup {<<1, 4>>}, {1, 2}) \X BOOLEAN \X {None, {4, 5}} :
                              (q[2] \/ q[3] = None) => <<1, 4, 2>> \in q[1]}}
    \cup {[rule |-> "KShortestPathYen", rows |-> r, undirected |-> FALSE, starts |-> {1}, goals |-> {4}, k |-> k] :
            r \in Relations(Diamond, {1, 2}), k \in {1, 3}}
    \cup {[rule |-> "ShortestPathAStar", rows |-> r, starts |-> {1}, goals |-> {4}, undirected |-> FALSE,
           nodes |-> n, heuristic |-> <<0, h, i, 0>>] :
            r \in Relations(Diamond, {1, 3}), n \in {1..4, {1, 2, 4}}, h \in {0, 2}, i \in {0, 3}}
    \cup {[rule |-> "ShortestPathBFS", rows |-> r, undirected |-> FALSE, starts |-> {1, 2}, goals |-> g] :
            r \in Relations(Diamond \cup {<<4, 1>>, <<2, 2>>}, {None}), g \in {{4}, {1, 3}, {}}}
    \cup {[rule |-> u, rows |-> r, undirected |-> FALSE, starts |-> s, nodes |-> 1..3, condition |-> c,
           limit |-> l, by_key |-> c = {4}] :
            u \in {"BFS", "DFS"}, r \in Relations(Diamond \cup {<<4, 1>>, <<2, 2>>}, {None}),
            s \in {{2}, {1, 3}}, c \in {{4}, {1, 3}}, l \in {1, 2}}
    \cup {[rule |-> u, rows |-> r, undirected |-> FALSE, starts |-> {}] :
            u \in {"ClosenessCentrality", "BetweennessCentrality"},
            r \in Relations(Diamond, {1}) \cup {{<<1, 2, NaN>>}, {<<1, 2, 0 - 1>>}}}

Ring(n) == {<<i, (i % n) + 1, 1>> : i \in 1..n}

StructureJobs ==
    {[rule |-> "MinimumSpanningForestKruskal", rows |-> r] :
        r \in Relations({<<1, 2>>, <<1, 3>>, <<2, 3>>, <<3, 2>>}, {1, 2}) \cup {{<<1, 2, NaN>>}}}
    \cup {[rule |-> "MinimumSpanningTreePrim", rows |-> r, starts |-> s] :
            r \in Relations(Diamond, {1, 2}), s \in {None, {2}, {}}}
    \cup {[rule |-> u, rows |-> r, nodes |-> {1, 6, 7}] :
            u \in {"StronglyConnectedComponents", "ConnectedComponents", "TopSort", "ClusteringCoefficients",
                   "DegreeCentrality"}, r \in Relations(Cyclic, {None})}
    \cup {[rule |-> "CommunityDetectionLouvain", rows |-> r, undirected |-> u, keep_depth |-> k,
           options |-> [max_iter |-> None, delta |-> d]] :
            r \in Relations(Diamond \cup {<<4, 1>>}, {1}) \cup {Ring(n) \cup {<<1, 3, 1>>} : n \in 5..7},
            u \in BOOLEAN, k \in {None, 1}, d \in {None, 500, 20000}}
    \cup {[rule |-> "LabelPropagation", rows |-> r, undirected |-> u, options |-> [max_iter |-> m]] :
            r \in Relations({<<1, 2>>, <<2, 3>>, <<3, 1>>}, {1, 2}), u \in BOOLEAN, m \in {0, 3}}
    \cup {[rule |-> "RandomWalk", rows |-> r, nodes |-> 1..3, starts |-> {1, 3}, weighted |-> w,
           options |-> [iterations |-> i, steps |-> s]] :
            r \in Relations({<<1, 2>>, <<2, 3>>, <<3, 4>>, <<1, 1>>}, {0, 1}), w \in BOOLEAN,
            i \in {None, 2}, s \in {None, 2}}
    \cup {[rule |-> "ReorderSort", rows |-> {<<v, f[v]>> : v \in 1..n}, descending |-> d, break_ties |-> b,
           options |-> [skip |-> s, take |-> t]] :
            n \in {0, 4}, f \in [1..4 -> 1..2], d \in BOOLEAN, b \in BOOLEAN, s \in {None, 1, 5}, t \in {None, 2}}
    \cup {[rule |-> "Constant", data |-> d, head |-> h] :
            d \in {<<>>, <<2, 2>>, <<2, 3>>, <<2, NaN>>}, h \in {0, 2}}

-----------------------------------------------------------------------------
(* Aggregations: sequences of values with numbers, nulls and values of a   *)
(* type the aggregation does not take.                                     *)

Upto(n, S) == UNION {[1..k -> S] : k \in 0..n}
AggrJobs ==
    LET J(ops, vals, args) == {<<o, v, a>> : o \in ops, v \in Upto(3, vals), a \in args}
    IN  J({"and", "or"}, {TRUE, FALSE, Bad}, {None})
        \cup J({"unique", "group_count", "count_unique", "count", "choice", "choice_rand"}, {NullVal, 1, 2}, {None})
        \cup J({"collect"}, {1, 2}, {None, 0, 1, 2})
        \cup J({"union", "intersection", "shortest"}, {Bad, <<>>, <<2, 1>>, <<1>>, <<2>>}, {None})
        \cup J({"sum", "product", "mean", "variance", "std_dev", "min", "max"}, {Bad, NullVal, 1, 3, 4}, {None})
        \cup J({"latest_by", "smallest_by", "min_cost"},
               {Bad, <<1>>, <<1, 2>>, <<2, 2>>, <<3, 1>>, <<4, NullVal>>, <<5, Infinity>>}, {None})
        \cup J({"bit_and", "bit_or", "bit_xor"}, {Bad, <<>>, <<0>>, <<0, 1>>, <<1, 1>>}, {None})

-----------------------------------------------------------------------------
(* Values: every type, the bounds of the integers, the zeros, infinities   *)
(* and NaNs of both signs, numbers that only one of the formats holds.     *)

V == INSTANCE Builtins WITH JsonValues <- {}, Clock <- 0
Now == 3

JsonDocs ==
    LET ObjectOf(j) == V!JObject(<<<<<<1>>, j>>>>)
    IN  {V!JNull, V!JBool(TRUE), V!JInt(1), V!JInt(0), V!JFloat(0), V!JFloat(3), V!JString(<<2>>), V!JString(<<>>),
         V!JObject(<<>>), ObjectOf(V!JNull), V!JObject(<<<<<<1>>, V!JInt(1)>>, <<<<2>>, ObjectOf(V!JInt(2))>>>>),
         V!JArray(<<>>), V!JArray(<<V!JInt(1), V!JInt(2)>>), V!JArray(<<V!JNull>>),
         V!JArray(<<V!JInt(2), V!JBool(TRUE)>>), V!JArray(<<ObjectOf(V!JInt(2))>>)}
Documents == {V!Json(j) : j \in JsonDocs}
IntsOf(S) == {V!IntV(i) : i \in S}
Numbers == IntsOf({-16, -6, -1, 0, 1, 2, 3, 5, 7, 15})
           \cup {V!FloatV(f) : f \in {0, 1, 2, 3, 6, 10, 11, 12, 16, 17, 18, 23, 27, 28}}
Strings ==
    {V!Str(s) : s \in {<<>>, <<1>>, <<2>>, <<0>>, <<65, 32, 97>>, <<32, 65, 32>>, <<97, 97, 97>>, <<97>>, <<7, 1, 2>>,
                       <<8, 3>>, <<3, 4>>, <<9, 9>>, <<6, 3, 0>>, <<6, -3, 1>>}}
ByteStrings == {V!Bytes(s) : s \in {<<>>, <<5>>, <<0>>, <<7, 1>>, <<2, 6>>}}
Vectors == {V!Vec("F32", s) : s \in {<<>>, <<2>>, <<4, 0>>, <<18, 12>>}}
           \cup {V!Vec("F64", s) : s \in {<<3>>, <<2, 2>>, <<19, 2>>}}
Booleans == {V!Bool(b) : b \in BOOLEAN}

-----------------------------------------------------------------------------
(* Keys and columns *)

KeyNumbers == Numbers \cup IntsOf({-5, 4, 6}) \cup {V!FloatV(f) : f \in {4, 7, 26}}
KeyStrings == {V!Str(s) : s \in {<<>>, <<0>>, <<1>>, <<0, 0>>, <<1, 255>>, <<1, 255, 0>>, <<7, 1, 2>>, <<8, 3>>,
                                 <<6, 1>>, <<6, 0>>, <<5, 2>>, <<4, 4, 2>>}}
KeyScalars ==
    KeyNumbers \cup KeyStrings \cup Booleans \cup Documents \cup Vectors
    \cup {V!Null, V!Bot, V!Uuid(1), V!Uuid(3), V!Regex(<<1>>)}
    \cup {V!Bytes(s) : s \in {<<>>, <<0>>, <<1, 2>>, <<0, 0, 0>>}}
    \cup {V!Validity(t, a) : t \in {-16, 2, 3, 15}, a \in BOOLEAN}
Few == {V!IntV(1), V!FloatV(2), V!Str(<<1, 2>>), V!Json(V!JArray(<<V!JNull>>))}
KeyLists ==
    {V!List(s) : s \in Upto(2, Few \cup {V!Null, V!Str(<<>>)})}
    \cup {V!List(<<V!IntV(2), V!Bool(TRUE)>>), V!List(<<V!FloatV(4), V!FloatV(3)>>), V!List(<<V!FloatV(3)>>),
          V!List(<<V!IntV(7), V!IntV(5)>>), V!List(<<V!List(<<>>), V!Null>>), V!List(<<V!SetV(<<V!IntV(1)>>)>>),
          V!List(<<V!FloatV(11), V!Bool(TRUE)>>)}
    \cup {V!SetV(s) : s \in {<<>>, <<V!IntV(1)>>, <<V!IntV(1), V!FloatV(2)>>, <<V!Null, V!Str(<<1>>)>>}}
ColumnTypes ==
    LET scalars == {<<t>> : t \in {"Any", "Bool", "Int", "Float", "String", "Bytes", "Uuid", "Validity", "Json"}}
    IN  ((scalars \cup {<<"Vec", e, n>> : e \in {"F32", "F64"}, n \in {1, 2}}
          \cup {<<"List", <<<<t>>, n>>, l>> : t \in {"Any", "Int", "Float", "Json"}, n \in BOOLEAN, l \in {None, 2}})
         \X BOOLEAN)
        \cup {<<<<"Tuple", <<<<<<"Int">>, FALSE>>, <<<<"Bool">>, TRUE>>>>>>, FALSE>>,
              <<<<"Tuple", <<<<<<"Float">>, TRUE>>>>>>, TRUE>>}
EncJobs ==
    <<{<<"key", <<v>>, <<w>>>> : v, w \in KeyScalars \cup KeyLists},
      {<<"key", <<v, w>>, <<x, y>>>> : v, w, x, y \in Few \cup {V!List(<<>>), V!List(<<V!Null>>)}},
      {<<"coerce", t, v>> : t \in ColumnTypes, v \in KeyScalars \cup KeyLists},
      {<<"vector", v>> : v \in Vectors}>>

-----------------------------------------------------------------------------
(* Calls of the functions *)

Lists ==
    {V!List(s) : s \in Upto(3, {V!IntV(1), V!FloatV(2), V!Null})}
    \cup {V!List(s) : s \in Upto(4, Booleans)}
    \cup {V!List(<<V!List(<<V!IntV(1)>>), V!Str(<<1>>)>>), V!List(<<V!Str(<<1>>), V!Str(<<97>>)>>),
          V!SetV(<<V!IntV(1)>>), V!SetV(<<V!Bool(FALSE), V!Bool(TRUE)>>)}
Others == Strings \cup Documents \cup Booleans
          \cup {V!Null, V!Bot, V!Uuid(0), V!Uuid(1), V!Uuid(2), V!Regex(<<97>>), V!Regex(<<>>)}
          \cup {V!Validity(t, b) : t \in {-3, 2}, b \in BOOLEAN}
Sample ==
    {V!IntV(-1), V!IntV(2), V!FloatV(3), V!FloatV(12), V!Null, V!Bool(TRUE), V!Bool(FALSE), V!Str(<<1>>),
     V!Str(<<97, 97>>), V!Bytes(<<5>>), V!Uuid(1), V!Regex(<<97>>), V!List(<<V!IntV(1), V!FloatV(2)>>),
     V!List(<<V!Str(<<1>>)>>), V!SetV(<<V!Null>>), V!Vec("F32", <<2, 4>>), V!Json(V!JObject(<<<<<<1>>, V!JInt(1)>>>>)),
     V!Json(V!JArray(<<V!JInt(1)>>)), V!Validity(2, TRUE), V!Bot}
Patterns == {V!Regex(<<97>>), V!Regex(<<97, 97>>), V!Regex(<<>>)}
JsonPaths == {V!List(p) : p \in Upto(2, {V!Str(<<1>>), V!Str(<<2>>), V!IntV(0), V!IntV(1), V!IntV(-1)})}
SomeLists == {V!List(<<V!IntV(1), V!FloatV(2)>>), V!List(<<V!IntV(1)>>), V!SetV(<<V!Null>>)}
Terms3 == Booleans \cup {V!IntV(3), V!FloatV(3), V!Vec("F32", <<2, 4>>), V!Null}

B == INSTANCE Builtins WITH JsonValues <- JsonDocs, Clock <- Now
FunctionCalls ==
    LET arith == {"lt", "le", "gt", "ge", "eq", "neq", "add", "mul", "sub", "div", "max", "min", "pow"}
        twice(S) == <<S, S>>
    IN  <<<<B!Nullary \cup {"list", "and", "or", "add", "mul", "coalesce", "json_object"}, <<>>>>,
          <<B!Unary \cup {"regex", "vec", "assert", "int_range", "validity", "format_timestamp", "concat"},
            <<Numbers \cup Lists \cup ByteStrings \cup Vectors \cup Others>>>>,
          <<arith, twice(Numbers \cup Vectors)>>,
          <<B!Binary \cup {"vec", "concat", "union", "difference", "get", "and", "or", "validity", "format_timestamp",
                           "json_object"}, twice(Sample)>>,
          <<{"chunks", "chunks_exact", "windows", "get", "maybe_get"}, <<Lists, IntsOf(-1..3)>>>>,
          <<{"union", "difference", "intersection", "is_in"}, <<Lists, SomeLists>>>>,
          <<{"bit_and", "bit_or", "bit_xor", "starts_with", "ends_with"}, twice(ByteStrings)>>,
          <<{"regex_matches", "regex_extract", "regex_extract_first", "str_includes", "starts_with", "ends_with",
             "format_timestamp"}, <<Strings, Patterns \cup {V!Str(<<97>>), V!Str(<<1>>)}>>>>,
          <<{"get", "concat"}, <<Documents, Documents \cup {V!Str(<<1>>), V!IntV(1), V!IntV(-1)}>>>>,
          <<{"rand_vec"}, <<Sample>>>>,
          <<{"rand_vec"}, <<IntsOf({2, -1}), Sample>>>>,
          <<{"int_range"}, <<IntsOf({-16, -6, -1, 0, 2, 7, 15}), IntsOf({-16, -1, 0, 3, 5, 15}),
                             IntsOf({-16, -1, 0, 1, 2, 7, 15})>>>>,
          <<{"add", "mul", "and", "or"}, <<Terms3, Terms3, Terms3>>>>,
          <<{"slice"}, <<Lists, IntsOf(-4..4), IntsOf(-4..4)>>>>,
          <<{"slice_string"}, <<Others, IntsOf(-1..4), IntsOf(-1..4)>>>>,
          <<{"regex_replace", "regex_replace_all"}, <<Others, Patterns, {V!Str(<<>>), V!Str(<<97, 98>>), V!Null}>>>>,
          <<{"set_json_path", "remove_json_path"}, <<Others, JsonPaths, {V!IntV(5)}>>>>,
          <<{"union"}, <<SomeLists, SomeLists, SomeLists>>>>>>

-----------------------------------------------------------------------------
(* Texts of expressions *)

Term(t) == <<"term", t>>
Var(x) == Term(<<"var", x>>)
Infix(op) == <<"infix", op>>
Prefix(op) == <<"prefix", op>>
Operation(op, a, b) == a \o <<Infix(op)>> \o b
Literal(v) == <<Term(<<"literal", v>>)>>
Call(f, args) == <<Term(<<"apply", f, args>>)>>
Group(text) == Term(<<"grouping", text>>)

\* One operator of each level, with and without prefixes.
PlainTexts ==
    LET ops == {"or", "and", "gt", "eq", "mod", "add", "sub", "mul", "pow", "coalesce", "maybe_get"}
        prefixes == {<<>>, <<Prefix("minus")>>, <<Prefix("negate")>>, <<Prefix("negate"), Prefix("minus")>>}
    IN  <<{<<Var("x"), Infix(a), Var("y"), Infix(b), Var("z"), Infix(c), Var("u")>> : a, b, c \in ops},
          {p \o <<Var("x"), Infix(a)>> \o q \o <<Var("y"), Infix(b), Var("z")>> :
            p, q \in prefixes, a, b \in ops}>>

Atoms == {<<Var("x")>>, <<Var("y")>>, Literal(V!Bool(TRUE)), Literal(V!Bool(FALSE)), Literal(V!Null),
          <<Term(<<"pos_int", 3>>)>>}
Literals ==
    {<<Term(<<"pos_int", n>>)>> : n \in {0, 15, 16}} \cup {<<Term(<<"hex_pos_int", n>>)>> : n \in {15, 16}}
    \cup {<<Term(<<"param", p>>)>> : p \in {"p", "q"}}
    \cup {<<Term(<<"quoted_string", s>>)>> :
            s \in {<<>>, <<<<"char", 97>>, <<"escape", 98>>>>, <<<<"unicode", 65>>>>, <<<<"unicode", 55>>>>,
                   <<<<"invalid", 97>>>>}}
Unknown == <<Var("w")>>
Conditionals ==
    LET few == {<<Var("x")>>, <<Var("y")>>, Literal(V!Bool(FALSE)), Literal(V!IntV(1))}
    IN  {Call("cond", args) : args \in Upto(3, Atoms)}
        \cup {Call("cond", args) : args \in [1..4 -> Atoms \ {Literal(V!Null), <<Term(<<"pos_int", 3>>)>>}]}
        \cup {Call("if", args) : args \in Upto(3, Atoms)} \cup {Call("if", <<a, Unknown>>) : a \in Atoms}
        \cup {Call("cond", <<c, Call("if", <<a, b, Call("add", <<b, b>>)>>), Literal(V!Bool(FALSE)), a, d,
                             Call("list", <<Call("cond", <<a, b>>), c>>)>>) : a, b, c, d \in few}
        \cup {Call("if", <<Call("rand_bernoulli", <<Literal(V!FloatV(1))>>), a, b>>) : a, b \in Atoms}
Negations ==
    {<<Prefix("negate"), Prefix("negate")>> \o a : a \in Atoms}
    \cup {<<Prefix("negate"), Group(<<Prefix("negate")>> \o Operation("and", a, b))>> : a, b \in Atoms}
    \cup {<<Prefix("negate"), Group(<<Prefix("negate"), Group(Operation("and", a, b))>>)>> : a, b \in Atoms}
Applications ==
    {Call(f, args) : f \in {"add", "coalesce", "and", "list", "rand_int", "no_such_function", "regex_matches",
                            "is_null", "div", "concat"}, args \in Upto(2, Atoms \cup {<<Term(<<"param", "p">>)>>})}
    \cup {Call("regex_matches", <<<<Term(<<"quoted_string", <<<<"char", 97>>>>>>)>>, a>>) : a \in Atoms \cup Literals}
    \cup {<<Term(<<k, "", <<a, b>>>>)>> : k \in {"list", "object"}, a, b \in Atoms \cup Literals}
    \cup {Operation(op, a, b) : op \in {"add", "or", "maybe_get"}, a, b \in Atoms \cup Literals}
ExpressionJobs ==
    LET Jobs(texts) ==
            {<<p, t, [x |-> 1, y |-> 2], r>> : p \in {"extractor", "filter", "const", "fields"}, t \in texts,
                                               r \in {<<V!Bool(TRUE), V!Bool(FALSE)>>, <<V!IntV(1)>>}}
        Parses(texts) ==
            {<<"extractor", t, [x |-> 1, y |-> 2, z |-> 3, u |-> 4],
               <<V!Bool(TRUE), V!Bool(FALSE), V!Bool(TRUE), V!IntV(1)>>>> : t \in texts}
    IN  <<Parses(PlainTexts[1]), Parses(PlainTexts[2]), Jobs(Conditionals), Jobs(Negations), Jobs(Literals),
          Jobs(Applications)>>

-----------------------------------------------------------------------------

Path == INSTANCE Paths WITH Jobs <- PathJobs, Inf <- Infinity
Struct == INSTANCE Structures WITH Jobs <- StructureJobs
Aggr == INSTANCE Aggregates WITH Jobs <- AggrJobs, Null <- NullVal
Enc == INSTANCE Encoding WITH Jobs <- EncJobs, Clock <- Now, JsonValues <- JsonDocs
Expression ==
    INSTANCE Expressions WITH ExprJobs <- ExpressionJobs, Calls <- FunctionCalls, Params <- [p |-> V!Bool(TRUE)],
                              Clock <- Now, JsonValues <- JsonDocs

jobVars == <<job, work, out>>
allVars == <<part, catalogVars, jobVars>>

UnitsInit ==
    /\ CatalogInit
    /\ \/ part = "catalog" /\ job = None /\ work = None /\ out = None
       \/ part = "paths" /\ Path!Init
       \/ part = "structures" /\ Struct!Init
       \/ part = "aggregates" /\ Aggr!Init
       \/ part = "encoding" /\ Enc!Init
       \/ part = "expressions" /\ Expression!Init

UnitsNext ==
    /\ UNCHANGED part
    /\ \/ part = "catalog" /\ CatalogNext /\ UNCHANGED jobVars
       \/ /\ \/ part = "paths" /\ Path!Next
             \/ part = "structures" /\ Struct!Next
             \/ part = "aggregates" /\ Aggr!Next
             \/ part = "encoding" /\ Enc!Next
             \/ part = "expressions" /\ Expression!Next
          /\ UNCHANGED catalogVars

UnitsSpec == UnitsInit /\ [][UnitsNext]_allVars

Sym == Permutations(Name)

-----------------------------------------------------------------------------
\* The fixed rules about paths answer what all paths give, and the others
\* what their names promise.
RulesExact ==
    /\ part = "paths" => Path!Exact
    /\ part = "structures" => Struct!Exact

\* Keys keep the order and the identity of the values they encode, a column
\* keeps only values of its type and accepts what it gave, and JSON loses no
\* more than it must.  An aggregation refuses a group for its values only, gives
\* what its name promises, and gives the same in a recursive rule.  The parser
\* follows the precedence of the operators, bytecode gives what evaluating the
\* expression gives and keeps its stack, folding constants changes no value, and
\* every function keeps its laws.
DataExact ==
    /\ part = "aggregates" => Aggr!Exact
    /\ part = "encoding" => Enc!Exact
    /\ part = "expressions" => Expression!Exact
=============================================================================
