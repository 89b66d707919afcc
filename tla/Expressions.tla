---------------------------- MODULE Expressions ----------------------------
(***************************************************************************)
(* Expressions from their text to their value: the operator-precedence     *)
(* parser and the terms (retia-core/src/parse/expr.rs), constant folding,  *)
(* the filling in of tuple positions, the compiler to bytecode and the     *)
(* stack machine that runs it once per tuple (data/expr.rs).               *)
(*                                                                         *)
(* A text is the sequence of items that the grammar gives for an `expr`:   *)
(* prefix operators, terms and infix operators.  Positions in tuples and   *)
(* in code count from 1; position 0 is a binding that has none yet.  An    *)
(* expression, a value or an outcome that starts with one of Failures is   *)
(* an error (Err), a panic or a loop that never ends.                      *)
(***************************************************************************)
EXTENDS Builtins

CONSTANTS
    ExprJobs,       \* a sequence of sets of jobs
    Calls,          \* a sequence of pairs: functions, and a set for each argument
    Params,         \* the parameters of the script: a function from names to values
    None

VARIABLES
    job,            \* <<purpose, text, binding_map, tuple>>, or <<"call", op, args>>
    work,           \* <<stage, ...>>
    out             \* None, then the outcome

vars == <<job, work, out>>

Err == <<"Err", 0>>
Failures == {"Err", "Panic", "Endless"}
Failed(o) == o[1] \in Failures
FirstFailed(s) == s[MinOf({i \in DOMAIN s : Failed(s[i])})]
AnyFailed(s) == \E i \in DOMAIN s : Failed(s[i])

\* The sequences that take their i-th element from S[i].
Picks(S) == FoldLeft(LAMBDA acc, T : {Append(s, x) : s \in acc, x \in T}, {<<>>}, S)

-----------------------------------------------------------------------------
(* Expressions (enum Expr) *)

Binding(var, pos) == <<"Binding", var, pos>>
Const(val) == <<"Const", val>>
Apply(op, args) == <<"Apply", op, args>>
Cond(clauses) == <<"Cond", clauses>>
UnboundApply(op, args) == <<"UnboundApply", op, args>>

RECURSIVE Parts(_)
\* An expression and all that it is made of.
Parts(e) ==
    {e} \cup
    CASE e[1] \in {"Apply", "UnboundApply"} -> UNION {Parts(e[3][i]) : i \in DOMAIN e[3]}
      [] e[1] = "Cond" -> UNION {Parts(e[2][i][1]) \cup Parts(e[2][i][2]) : i \in DOMAIN e[2]}
      [] OTHER -> {}
collect_bindings(e) == {p[2] : p \in {q \in Parts(e) : q[1] = "Binding"}}
NoImplementation(e) == \E p \in Parts(e) : p[1] = "UnboundApply"

to_var_list(e) ==
    CASE e[1] = "Binding" -> <<e[2]>>
      [] e[1] = "Apply" /\ e[2] = "list" /\ (\A i \in DOMAIN e[3] : e[3][i][1] = "Binding") ->
            [i \in DOMAIN e[3] |-> e[3][i][2]]
      [] OTHER -> Err

RECURSIVE fill_binding_indices(_, _)
fill_binding_indices(e, binding_map) ==
    CASE e[1] = "Binding" -> Binding(e[2], binding_map[e[2]])
      [] e[1] = "Apply" -> Apply(e[2], [i \in DOMAIN e[3] |-> fill_binding_indices(e[3][i], binding_map)])
      [] e[1] = "Cond" -> Cond([i \in DOMAIN e[2] |-> <<fill_binding_indices(e[2][i][1], binding_map),
                                                        fill_binding_indices(e[2][i][2], binding_map)>>])
      [] OTHER -> e

-----------------------------------------------------------------------------
(* Parsing *)

\* Loosest first; operators of one level associate to the left, but pow.
Levels == <<{"or"}, {"and"}, {"gt", "lt", "ge", "le"}, {"eq", "neq"}, {"mod"}, {"add", "sub", "concat"},
            {"mul", "div"}, {"pow"}, {"coalesce"}, {"minus"}, {"negate"}, {"maybe_get"}>>
PRATT_PARSER == [op \in UNION Range(Levels) |-> CHOOSE l \in DOMAIN Levels : op \in Levels[l]]

build_expr_infix(op, lhs, rhs) ==
    CASE Panic \in {lhs, rhs} -> Panic
      [] Failed(lhs) \/ Failed(rhs) -> Err
      [] OTHER -> Apply(op, <<lhs, rhs>>)
build_expr_prefix(op, rhs) == IF Failed(rhs) THEN rhs ELSE Apply(op, <<rhs>>)

\* Every operator of a name that starts with OP_REGEX_ takes a pattern.
TakesPattern == {"regex_matches", "regex_replace", "regex_replace_all", "regex_extract", "regex_extract_first"}
post_process_args(op, args) ==
    IF op \in TakesPattern THEN [args EXCEPT ![2] = Apply("regex", <<@>>)] ELSE args

Clauses(args) == [i \in 1..(Len(args) \div 2) |-> <<args[2 * i - 1], args[2 * i]>>]
Otherwise == <<Const(Bool(TRUE)), Const(Null)>>
build_cond_open(args) ==
    IF args = <<>> THEN Err
    ELSE LET even == IF Len(args) % 2 = 1 THEN Front(args) \o <<Const(Null), Last(args)>> ELSE args
         IN  Cond(Clauses(even))
build_cond(args) ==
    IF args = <<>> THEN Err
    ELSE LET even == IF Len(args) % 2 = 1 THEN Front(args) \o <<Const(Null), Last(args)>> ELSE args
             clauses == Clauses(even)
         IN  Cond(IF Last(clauses)[1] = Const(Bool(TRUE)) THEN clauses ELSE Append(clauses, Otherwise))
build_if(args) ==
    IF Len(args) \in {2, 3}
    THEN Cond(<<<<args[1], args[2]>>, <<Const(Bool(TRUE)), IF Len(args) = 3 THEN args[3] ELSE Const(Null)>>>>)
    ELSE Err
build_apply(ident, args) ==
    CASE AnyFailed(args) -> FirstFailed(args)
      [] ident = "cond" -> build_cond(args)
      [] ident = "if" -> build_if(args)
      [] get_op(ident) = {} -> UnboundApply(ident, args)
      [] ident \in TakesPattern /\ Len(args) < 2 -> Panic
      [] OTHER ->
            LET op == CHOOSE o \in get_op(ident) : TRUE
            IN  IF IF op[2] THEN op[1] <= Len(args) ELSE op[1] = Len(args)
                THEN Apply(ident, post_process_args(ident, args)) ELSE Err

\* The pieces of a quoted string: characters, escapes, code points and
\* escapes that do not exist.
Surrogates == {55}
parse_string(pieces) ==
    IF \E i \in DOMAIN pieces : pieces[i][1] = "invalid" \/ (pieces[i][1] = "unicode" /\ pieces[i][2] \in Surrogates)
    THEN Err ELSE Const(Str([i \in DOMAIN pieces |-> pieces[i][2]]))

RECURSIVE build_expr(_)
build_term(t) ==
    CASE t[1] = "var" -> Binding(t[2], 0)
      [] t[1] = "param" -> IF t[2] \in DOMAIN Params THEN Const(Params[t[2]]) ELSE Err
      [] t[1] = "pos_int" -> IF t[2] <= IntMax THEN Const(IntV(t[2])) ELSE Err
      [] t[1] = "hex_pos_int" -> IF t[2] <= IntMax THEN Const(IntV(t[2])) ELSE Panic
      [] t[1] = "literal" -> Const(t[2])
      [] t[1] = "quoted_string" -> parse_string(t[2])
      [] t[1] = "grouping" -> build_expr(t[2])
      [] OTHER ->
            LET args == [i \in DOMAIN t[3] |-> build_expr(t[3][i])]
            IN  IF t[1] = "apply" THEN build_apply(t[2], args)
                ELSE IF AnyFailed(args) THEN FirstFailed(args)
                ELSE Apply(IF t[1] = "list" THEN "list" ELSE "json_object", args)

RECURSIVE Operand(_, _, _), Operators(_, _, _)
\* The expression from item i on whose operators bind tighter than rbp, and
\* the item after it.
Operand(text, i, rbp) ==
    IF text[i][1] = "prefix"
    THEN LET rhs == Operand(text, i + 1, PRATT_PARSER[text[i][2]] - 1)
         IN  Operators(text, <<build_expr_prefix(text[i][2], rhs[1]), rhs[2]>>, rbp)
    ELSE Operators(text, <<build_term(text[i][2]), i + 1>>, rbp)
Operators(text, lhs, rbp) ==
    IF lhs[2] > Len(text) \/ rbp >= PRATT_PARSER[text[lhs[2]][2]] THEN lhs
    ELSE LET op == text[lhs[2]][2]
             rhs == Operand(text, lhs[2] + 1, PRATT_PARSER[op] - IF op = "pow" THEN 1 ELSE 0)
         IN  Operators(text, <<build_expr_infix(op, lhs[1], rhs[1]), rhs[2]>>, rbp)
build_expr(text) == Operand(text, 1, 0)[1]

-----------------------------------------------------------------------------
(* Evaluation, constant folding, compilation *)

OrErr(results) == IF results = {} THEN {Err} ELSE results
Outcomes(op, args) == OrErr(inner(op, args))

RECURSIVE eval(_, _)
eval(e, tuple) ==
    CASE e[1] = "Binding" -> {IF e[3] \in DOMAIN tuple THEN tuple[e[3]] ELSE Err}
      [] e[1] = "Const" -> {e[2]}
      [] e[1] = "Apply" ->
            UNION {IF AnyFailed(s) THEN {FirstFailed(s)} ELSE Outcomes(e[2], s) :
                   s \in Picks([i \in DOMAIN e[3] |-> eval(e[3][i], tuple)])}
      [] e[1] = "Cond" ->
            IF e[2] = <<>> THEN {Null}
            ELSE UNION {CASE c = Bool(TRUE) -> eval(e[2][1][2], tuple)
                          [] c = Bool(FALSE) -> eval(Cond(Tail(e[2])), tuple)
                          [] Failed(c) -> {c}
                          [] OTHER -> {Err} : c \in eval(e[2][1][1], tuple)}
      [] OTHER -> {Err}

Unnegated(e) ==
    IF e[2] = "negate" /\ e[3][1][1] = "Apply" /\ e[3][1][2] = "negate" THEN e[3][1][3][1] ELSE e

RECURSIVE partial_eval(_)
partial_eval(e) ==
    IF e[1] # "Apply" THEN {e}
    ELSE UNION {CASE AnyFailed(s) -> {FirstFailed(s)}
                  [] \A i \in DOMAIN s : s[i][1] = "Const" ->
                        {IF Failed(v) THEN v ELSE Const(v) : v \in eval(Apply(e[2], s), <<>>)}
                  [] OTHER -> {Unnegated(Apply(e[2], s))} :
                s \in Picks([i \in DOMAIN e[3] |-> partial_eval(e[3][i])])}
\* Of the folded expression.
eval_to_const(f) == IF Failed(f) THEN f ELSE IF f[1] = "Const" THEN f[2] ELSE Err

RECURSIVE expr2bytecode(_, _)
expr2bytecode(e, code) ==
    CASE e[1] \in {"Binding", "Const"} -> Append(code, e)
      [] e[1] = "Apply" ->
            Append(FoldLeft(LAMBDA c, arg : expr2bytecode(arg, c), code, e[3]), <<"Apply", e[2], Len(e[3])>>)
      [] e[1] = "Cond" ->
            LET AddClause(acc, clause) ==
                    LET test == Append(expr2bytecode(clause[1], acc[1]), <<"JumpIfFalse", 0>>)
                        all == Append(expr2bytecode(clause[2], test), <<"Goto", 0>>)
                    IN  <<[all EXCEPT ![Len(test)] = <<"JumpIfFalse", Len(all) + 1>>], acc[2] \cup {Len(all)}>>
                done == FoldLeft(AddClause, <<code, {}>>, e[2])
            IN  [i \in DOMAIN done[1] |-> IF i \in done[2] THEN <<"Goto", Len(done[1]) + 1>> ELSE done[1][i]]

-----------------------------------------------------------------------------
Purpose == job[1]
Text == job[2]
BindingMap == job[3]
Tuple == job[4]

Init ==
    /\ \/ \E i \in DOMAIN ExprJobs : job \in ExprJobs[i]
       \/ \E i \in DOMAIN Calls :
            job \in {<<"call", op, args>> : op \in Calls[i][1], args \in Picks(Calls[i][2])}
    /\ work = <<"text">>
    /\ out = None

Give(o) == out' = o /\ UNCHANGED <<job, work>>
Working(stage) == out = None /\ work[1] = stage
Goes(w) == work' = w /\ UNCHANGED <<job, out>>

\* build_expr.
Build ==
    /\ Working("text")
    /\ Purpose # "call"
    /\ \E e \in {build_expr(Text)} : IF Failed(e) THEN Give(e) ELSE Goes(<<"built", e>>)

\* A call of a function with constant arguments, built by the program.
Call ==
    /\ Working("text")
    /\ Purpose = "call"
    /\ Goes(<<"built", Apply(job[2], [i \in DOMAIN job[3] |-> Const(job[3][i])])>>)

\* Expr::to_var_list: the fields of an index.
ToVarList ==
    /\ Working("built")
    /\ Purpose = "fields"
    /\ Give(to_var_list(work[2]))

\* Expr::eval_to_const: options, parameters of indices, constant rules.
EvalToConst(f) == Purpose \in {"const", "call"} /\ Give(eval_to_const(f))

\* Predicates are folded when a rule is normalised (InputAtom::Predicate in
\* query/logical.rs); unified expressions and the extractors of indices are not.
FoldFilter(f) == Purpose = "filter" /\ IF Failed(f) THEN Give(f) ELSE Goes(<<"folded", f>>)

\* Expr::partial_eval, for the two.
PartialEval ==
    /\ Working("built")
    /\ Purpose \in {"const", "call", "filter"}
    /\ \E f \in partial_eval(work[2]) : EvalToConst(f) \/ FoldFilter(f)

\* Expr::fill_binding_indices and Expr::compile.
Compile ==
    /\ \/ Working("built") /\ Purpose = "extractor"
       \/ Working("folded")
    /\ IF NoImplementation(work[2]) \/ ~(collect_bindings(work[2]) \subseteq DOMAIN BindingMap)
       THEN Give(Err)
       ELSE Goes(<<"run", expr2bytecode(fill_binding_indices(work[2], BindingMap), <<>>), 1, <<>>>>)

\* One instruction of eval_bytecode.
Code == work[2]
Pointer == work[3]
Stack == work[4]
Continue(pointer, stack) == Goes(<<"run", Code, pointer, stack>>)
Running(instruction) == Working("run") /\ Pointer <= Len(Code) /\ Code[Pointer][1] = instruction
PushBinding ==
    /\ Running("Binding")
    /\ LET pos == Code[Pointer][3]
       IN  IF pos \in DOMAIN Tuple THEN Continue(Pointer + 1, Append(Stack, Tuple[pos])) ELSE Give(Err)
PushConst == Running("Const") /\ Continue(Pointer + 1, Append(Stack, Code[Pointer][2]))
ApplyOp ==
    /\ Running("Apply")
    /\ LET base == Len(Stack) - Code[Pointer][3]
       IN  IF base < 0 THEN Give(Panic)
           ELSE \E o \in Outcomes(Code[Pointer][2], SubSeq(Stack, base + 1, Len(Stack))) :
                    IF Failed(o) THEN Give(o) ELSE Continue(Pointer + 1, Append(SubSeq(Stack, 1, base), o))
JumpIfFalse ==
    /\ Running("JumpIfFalse")
    /\ CASE Stack = <<>> -> Give(Panic)
         [] Stack # <<>> /\ Last(Stack) = Bool(TRUE) -> Continue(Pointer + 1, Front(Stack))
         [] Stack # <<>> /\ Last(Stack) = Bool(FALSE) -> Continue(Code[Pointer][2], Front(Stack))
         [] OTHER -> Give(Err)
Goto == Running("Goto") /\ Continue(Code[Pointer][2], Stack)

\* The end of eval_bytecode, and of eval_bytecode_pred for a filter.
Return ==
    /\ Working("run")
    /\ Pointer > Len(Code)
    /\ Give(CASE Stack = <<>> -> Panic
              [] Stack # <<>> /\ Purpose = "filter" /\ get_bool(Last(Stack)) = {} -> Err
              [] OTHER -> Last(Stack))

Done == out # None /\ UNCHANGED vars

Next ==
    \/ Build \/ Call \/ ToVarList \/ PartialEval \/ Compile
    \/ PushBinding \/ PushConst \/ ApplyOp \/ JumpIfFalse \/ Goto \/ Return \/ Done

Spec == Init /\ [][Next]_vars

-----------------------------------------------------------------------------
(* Properties *)

TypeOK ==
    /\ work[1] \in {"text", "built", "folded", "run"}
    /\ work[1] = "run" => Pointer \in 1..(Len(Code) + 1) /\ Stack \in Seq(Range(Stack))

\* The reference for the parser: an expression is right for a text of plain
\* variables if it reads as the text from left to right, and if every
\* operator that could reach its operand from the right, or from the left,
\* binds tighter than it, or as tight and to that side.
RECURSIVE Reading(_), LeftSpine(_), RightSpine(_)
Reading(e) ==
    IF e[1] = "Binding" THEN <<<<"term", <<"var", e[2]>>>>>>
    ELSE IF Len(e[3]) = 1 THEN <<<<"prefix", e[2]>>>> \o Reading(e[3][1])
    ELSE Reading(e[3][1]) \o <<<<"infix", e[2]>>>> \o Reading(e[3][2])
LeftSpine(e) ==
    IF e[1] = "Binding" \/ Len(e[3]) = 1 THEN {} ELSE {e[2]} \cup LeftSpine(e[3][1])
RightSpine(e) ==
    IF e[1] = "Binding" THEN {} ELSE {e[2]} \cup RightSpine(e[3][Len(e[3])])
Tighter(op, than, same) ==
    \/ PRATT_PARSER[op] > PRATT_PARSER[than]
    \/ PRATT_PARSER[op] = PRATT_PARSER[than] /\ same
WellBound(e) ==
    \A n \in {p \in Parts(e) : p[1] = "Apply"} :
        IF Len(n[3]) = 1 THEN \A op \in LeftSpine(n[3][1]) : Tighter(op, n[2], FALSE)
        ELSE /\ \A op \in RightSpine(n[3][1]) : Tighter(op, n[2], n[2] # "pow")
             /\ \A op \in LeftSpine(n[3][2]) : Tighter(op, n[2], n[2] = "pow")
Plain == \A i \in DOMAIN Text : Text[i][1] = "term" => Text[i][2][1] = "var"
ParseExact == work[1] = "built" /\ Purpose # "call" /\ Plain => Reading(work[2]) = Text /\ WellBound(work[2])

\* The reference for the rest: what Expr::eval gives for the expression as it
\* was written.
Source == IF Purpose = "call" THEN Apply(job[2], [i \in DOMAIN job[3] |-> Const(job[3][i])]) ELSE build_expr(Text)
Untupled == Purpose \in {"const", "call"}
Evaluable(source) ==
    Untupled \/ (~NoImplementation(source) /\ collect_bindings(source) \subseteq DOMAIN BindingMap)
Meaning(source) ==
    IF ~Evaluable(source) THEN {Err}
    ELSE eval(IF Untupled THEN source ELSE fill_binding_indices(source, BindingMap), IF Untupled THEN <<>> ELSE Tuple)
DoublyNegated(source) ==
    \E p \in Parts(source) : p[1] = "Apply" /\ p[2] = "negate" /\ p[3][1][1] = "Apply" /\ p[3][1][2] = "negate"

Agrees(source, meaning) ==
    CASE Purpose = "call" -> out \in meaning /\ Promised(job[2], job[3], meaning \ {Err})
      [] Purpose = "extractor" -> out \in meaning
      [] Purpose = "filter" /\ ~Failed(out) ->
            \/ out \in meaning
            \/ DoublyNegated(source) /\ \E o \in meaning : Failed(o)
      [] Purpose = "filter" /\ Failed(out) -> \E o \in meaning : get_bool(o) = {}
      [] Purpose = "const" /\ ~Failed(out) -> out \in meaning
      [] OTHER -> \/ \E o \in meaning : Failed(o)
                  \/ \E p \in Parts(source) : p[1] = "Cond"

\* - the bytecode gives what evaluating the tree gives, errors included, and
\*   leaves nothing else on the stack;
\* - folding constants keeps the value; it refuses a script only if evaluating
\*   the expression could not have given a value; it drops an error only
\*   together with a double negation;
\* - a constant is what evaluating the expression without a tuple gives;
\* - a function keeps its laws.
ValueExact ==
    /\ work[1] = "run" /\ Pointer > Len(Code) => Len(Stack) = 1
    /\ out # None /\ Purpose # "fields" =>
        \E source \in {Source} : ~Failed(source) => Agrees(source, Meaning(source))

\* parse/expr.rs, data/expr.rs, data/functions.rs: a text is parsed as its operators
\* bind, the bytecode gives the value of the expression that was written, and every
\* function keeps its laws for every argument.
Exact == TypeOK /\ ParseExact /\ ValueExact
=============================================================================
