----------------------------- MODULE Rewriting -----------------------------
(***************************************************************************)
(* The two rewritings of a program before it is compiled.                  *)
(*                                                                         *)
(* One inline rule goes from what was written to normal form:              *)
(* into_normalized_program of retia-core/src/data/program.rs, with the     *)
(* disjunctive normal form of query/logical.rs and the ordering of bodies  *)
(* of query/reorder.rs.  A written body is a tree: "and", "or" and "not"   *)
(* over atoms whose arguments are variables <<"var", n>>, the ignored      *)
(* <<"_">> or constants <<"const", v>> in an application, plain variables  *)
(* elsewhere; the inner trees of a node are a sequence.  Variables that    *)
(* the conversion makes up are numbers from FirstGenerated on.             *)
(*                                                                         *)
(* The rules of one stratum get their magic sets (query/magic.rs).  adorn  *)
(* follows the uses of the rules that may be rewritten, from those that    *)
(* may not, and notes which arguments are bound at each use;               *)
(* magic_rewrite splits the adorned rules so that a rule is evaluated only *)
(* for the arguments somebody asks for.  A clause is a rule with the       *)
(* symbol it belongs to; the bodies are in the order that reorder.rs gives *)
(* them.                                                                   *)
(***************************************************************************)
EXTENDS Clauses

CONSTANTS
    WrittenRule,    \* records [head: Seq(variables), body: Seq(trees)]
    Value, Facts,   \* values of variables; rows of the stores, [name -> rows]
    FirstGenerated  \* above every variable that is written

VARIABLES
    written,   \* the rule
    normal,    \* its conjunctions in normal form, ordered
    outcome    \* "parsed" | "normal" | "UnsafeNegation" | "UnboundVariable"

formVars == <<written, normal, outcome>>

Node(op, inner) == [op |-> op, inner |-> inner]
IsNode(t) == t.op \in {"and", "or", "not"}

-----------------------------------------------------------------------------
(* negation_normal_form                                                    *)

Opposite == [and |-> "or", or |-> "and"]
OppositePred == [eq |-> "ne", ne |-> "eq"]
NegatedOp == [rule |-> "not_rule", relation |-> "not_relation"]

\* Mutant of NegatedInner: the inner trees of a negation stay together.
NegatedInner_plain(n) == Node(n.op, [i \in DOMAIN n.inner |-> Node("not", <<n.inner[i]>>)])

NegatedInner(n) == Node(Opposite[n.op], [i \in DOMAIN n.inner |-> Node("not", <<n.inner[i]>>)])

RECURSIVE negation_normal_form(_)
negation_normal_form(t) ==
    CASE t.op \in {"and", "or"} ->
           [t EXCEPT !.inner = [i \in DOMAIN t.inner |-> negation_normal_form(t.inner[i])]]
      [] t.op = "not" /\ t.inner[1].op \in {"and", "or"} ->
           negation_normal_form(NegatedInner(t.inner[1]))
      [] t.op = "not" /\ t.inner[1].op = "not" -> negation_normal_form(t.inner[1].inner[1])
      [] t.op = "not" /\ t.inner[1].op = "pred" -> [t.inner[1] EXCEPT !.name = OppositePred[@]]
      [] OTHER -> t

\* A unification or a search is negated.
RECURSIVE Unsafe(_)
Unsafe(t) ==
    \/ t.op = "not" /\ t.inner[1].op \in {"unify", "search"}
    \/ t.op \in {"and", "or"} /\ \E i \in DOMAIN t.inner : Unsafe(t.inner[i])

-----------------------------------------------------------------------------
(* do_disjunctive_normal_form: [gen, conjs] with the next made-up variable. *)

\* One argument of an application: repeated variables and constants are taken
\* out into unifications before the atom.
NormalizeArg(acc, arg) ==
    LET v == IF arg[1] = "var" THEN arg[2] ELSE 0
        taken(unify) == [acc EXCEPT !.gen = @ + 1, !.args = Append(@, acc.gen),
                                    !.before = @ \o unify]
    IN  CASE arg[1] = "_" -> taken(<<>>)
          [] arg[1] = "const" ->
               taken(<<[op |-> "unify", name |-> arg[2], args |-> <<acc.gen>>]>>)
          [] arg[1] = "var" /\ v \in Vars(acc.args) ->
               taken(<<[op |-> "unify", name |-> 0, args |-> <<acc.gen, v>>]>>)
          [] arg[1] = "var" /\ v \notin Vars(acc.args) -> [acc EXCEPT !.args = Append(@, v)]

normalize(a, op, gen) ==
    LET end == FoldLeft(NormalizeArg, [gen |-> gen, args |-> <<>>, before |-> <<>>], a.args)
    IN  [gen |-> end.gen,
         conjs |-> <<Append(end.before, [op |-> op, name |-> a.name, args |-> end.args])>>]

\* conjunctive_to_disjunctive_de_morgen
Product(left, right) ==
    FlattenSeq([i \in DOMAIN left |-> [j \in DOMAIN right |-> left[i] \o right[j]]])

RECURSIVE Dnf(_, _)
Dnf(t, gen) ==
    LET step(acc, s) == LET d == Dnf(s, acc.gen)
                        IN  [conjs |-> Append(acc.conjs, d.conjs), gen |-> d.gen]
        parts == FoldLeft(step, [gen |-> gen, conjs |-> <<>>], t.inner)
    IN  CASE t.op = "or" -> [parts EXCEPT !.conjs = FlattenSeq(@)]
          [] t.op = "and" -> [parts EXCEPT !.conjs = FoldLeft(Product, Head(@), Tail(@))]
          [] t.op = "not" -> normalize(t.inner[1], NegatedOp[t.inner[1].op], gen)
          [] t.op \in {"rule", "relation"} -> normalize(t, t.op, gen)
          [] OTHER -> [gen |-> gen, conjs |-> << <<t>> >>]

-----------------------------------------------------------------------------
(* convert_to_well_ordered_rule                                            *)

\* First round: applications, and what is bound by then; the rest has to wait.
FirstRound(acc, a) ==
    IF a.op \in {"rule", "relation"} \/ (a.op \in {"unify", "search"} /\ Needs(a) \subseteq acc.seen)
      THEN [acc EXCEPT !.seen = @ \cup Binds(a), !.atoms = Append(@, a)]
      ELSE [acc EXCEPT !.pending = Append(@, a)]

Ready(a, seen) == (IF Negated(a) THEN Vars(a.args) ELSE Needs(a)) \subseteq seen

\* A pending atom after another one was placed.  What a unification placed here
\* binds is not noted as seen.
Retry(acc, a) ==
    IF Ready(a, acc.seen)
      THEN [acc EXCEPT !.atoms = Append(@, a),
                       !.seen = IF a.op = "search" THEN @ \cup Binds(a) ELSE @]
      ELSE [acc EXCEPT !.pending = Append(@, a)]

SecondRound(acc, a) ==
    FoldLeft(Retry,
             [acc EXCEPT !.atoms = Append(@, a), !.seen = @ \cup Binds(a), !.pending = <<>>],
             acc.pending)

\* What is still pending: a negation with some bound variable, or an error.
Leftover(acc, a) ==
    CASE acc.error # "none" -> acc
      [] acc.error = "none" /\ Negated(a) /\ Vars(a.args) \cap acc.seen # {} ->
           [acc EXCEPT !.atoms = Append(@, a)]
      [] acc.error = "none" /\ Negated(a) /\ Vars(a.args) \cap acc.seen = {} ->
           [acc EXCEPT !.error = "UnsafeNegation"]
      [] acc.error = "none" /\ ~Negated(a) -> [acc EXCEPT !.error = "UnboundVariable"]

convert_to_well_ordered_rule(body) ==
    LET start == [seen |-> {}, atoms |-> <<>>, pending |-> <<>>]
        first == FoldLeft(FirstRound, start, body)
        second == FoldLeft(SecondRound, [start EXCEPT !.pending = first.pending], first.atoms)
    IN  FoldLeft(Leftover, [atoms |-> second.atoms, seen |-> second.seen, error |-> "none"],
                 second.pending)

-----------------------------------------------------------------------------
(* into_normalized_program for one rule                                    *)

\* The variable at position i of the head was there before.
Repeated(head, i) == \E j \in 1..(i - 1) : head[j] = head[i]
Fresh(gen, i) == gen + i

NewHead(head, gen) ==
    [i \in DOMAIN head |-> IF Repeated(head, i) THEN Fresh(gen, i) ELSE head[i]]

HeadUnifications(head, gen) ==
    LET again == SelectSeq([i \in DOMAIN head |-> i], LAMBDA i : Repeated(head, i))
    IN  [k \in DOMAIN again |->
           [op |-> "unify", name |-> 0, args |-> <<Fresh(gen, again[k]), head[again[k]]>>]]

FormInit ==
    /\ written \in WrittenRule
    /\ normal = <<>>
    /\ outcome = "parsed"

into_normalized_program ==
    /\ outcome = "parsed"
    /\ \E nnf \in {negation_normal_form(Node("and", written.body))} :
         IF Unsafe(nnf) THEN outcome' = "UnsafeNegation" /\ UNCHANGED normal
         ELSE \E dnf \in {Dnf(nnf, FirstGenerated)} :
                LET bodies == [i \in DOMAIN dnf.conjs |->
                                 dnf.conjs[i] \o HeadUnifications(written.head, dnf.gen)]
                    conjs == [i \in DOMAIN bodies |-> convert_to_well_ordered_rule(bodies[i])]
                    failed == SelectSeq(conjs, LAMBDA c : c.error # "none")
                IN  IF failed # <<>>
                      THEN outcome' = failed[1].error /\ UNCHANGED normal
                      ELSE /\ outcome' = "normal"
                           /\ normal' = [i \in DOMAIN conjs |->
                                           [head |-> NewHead(written.head, dnf.gen),
                                            body |-> conjs[i].atoms]]
    /\ UNCHANGED written

FormNext == into_normalized_program

-----------------------------------------------------------------------------
(* Properties.  A written rule means the head under all values of its      *)
(* variables that satisfy its body.                                        *)

ArgIs(arg, env, val) ==
    CASE arg[1] = "_" -> TRUE
      [] arg[1] = "const" -> arg[2] = val
      [] arg[1] = "var" -> env[arg[2]] = val

RECURSIVE Holds(_, _)
Holds(t, env) ==
    CASE t.op = "and" -> \A i \in DOMAIN t.inner : Holds(t.inner[i], env)
      [] t.op = "or" -> \E i \in DOMAIN t.inner : Holds(t.inner[i], env)
      [] t.op = "not" -> ~Holds(t.inner[1], env)
      [] t.op \in {"rule", "relation"} ->
           \E row \in Facts[t.name] : \A i \in DOMAIN t.args : ArgIs(t.args[i], env, row[i])
      [] t.op = "search" -> <<env[t.args[1]], env[t.args[2]]>> \in Facts[t.name]
      [] t.op = "pred" -> (env[t.args[1]] = env[t.args[2]]) = (t.name = "eq")
      [] t.op = "unify" ->
           env[t.args[1]] = IF Len(t.args) = 2 THEN env[t.args[2]] ELSE t.name

Meaning ==
    {[i \in DOMAIN written.head |-> env[written.head[i]]] :
       env \in {e \in [1..(FirstGenerated - 1) -> Value] : Holds(Node("and", written.body), e)}}

Bound(body) == UNION {Binds(body[i]) : i \in DOMAIN body}
Before(body, i) == Bound(SubSeq(body, 1, i - 1))
IsGenerated(v) == v >= FirstGenerated

\* Every atom of the body comes after what it needs; a negation after all of its
\* variables that the body binds.
WellOrdered(body) ==
    \A i \in DOMAIN body :
       /\ Needs(body[i]) \subseteq Before(body, i)
       /\ Negated(body[i]) => /\ Vars(body[i].args) \cap Bound(body) \subseteq Before(body, i)
                              /\ Vars(body[i].args) \cap Bound(body) # {}

\* A variable that only occurs in negations, where "for no value" is meant.
OnlyNegated(body) ==
    {v \in UNION {Vars(body[i].args) : i \in DOMAIN body} : ~IsGenerated(v)} \ Bound(body)

\* Bodies are well ordered and applications repeat no variable, so that the
\* compilation of a body can join its atoms from left to right; the rules
\* together derive the rows that the written rule means.
NormalExact ==
    outcome = "normal" =>
       /\ \A c \in Range(normal) :
            /\ WellOrdered(c.body)
            /\ IsInjective(c.head)
            /\ \A i \in DOMAIN c.body : Positive(c.body[i]) => IsInjective(c.body[i].args)
       /\ (\A c \in Range(normal) : Vars(c.head) \subseteq Bound(c.body) /\ OnlyNegated(c.body) = {})
          => UNION {HeadRows(c.head, c.body, [i \in DOMAIN c.body |-> Facts[c.body[i].name]]) :
                      c \in Range(normal)} = Meaning

\* What can be bound in a conjunction at all, in whatever order.
Closure(body) ==
    CHOOSE S \in SUBSET Bound(body) :
       /\ \A i \in DOMAIN body : Needs(body[i]) \subseteq S => Binds(body[i]) \subseteq S
       /\ \A T \in SUBSET Bound(body) :
            (\A i \in DOMAIN body : Needs(body[i]) \subseteq T => Binds(body[i]) \subseteq T)
            => S \subseteq T

Bindable(body) ==
    \A i \in DOMAIN body :
       IF Negated(body[i]) THEN Vars(body[i].args) \cap Closure(body) # {}
                           ELSE Needs(body[i]) \subseteq Closure(body)

\* A unification or a search is written before what it needs.
Late(body) ==
    \E i \in DOMAIN body :
       body[i].op \in {"unify", "search"} /\ ~(Needs(body[i]) \subseteq Before(body, i))

Conjunctions ==
    LET dnf == Dnf(negation_normal_form(Node("and", written.body)), FirstGenerated)
    IN  {dnf.conjs[i] \o HeadUnifications(written.head, dnf.gen) : i \in DOMAIN dnf.conjs}

\* "Atom contains unbound variable": a rule is refused only if a variable of a
\* condition, or all of a negation, are bound nowhere.
RefusedUnbound ==
    outcome = "UnboundVariable" => \E body \in Conjunctions : ~Bindable(body)

\* ... of the rules whose unifications and searches are written after what they
\* need; those that have to wait do not help the others that wait.
RefusedOnlyUnbound ==
    outcome = "UnboundVariable" => \E body \in Conjunctions : ~Bindable(body) \/ Late(body)

-----------------------------------------------------------------------------
(* Magic sets                                                              *)

CONSTANT MagicProgram  \* records [rules, exempt, facts], see the variables

VARIABLES
    rules,    \* the stratum: clauses [name, idx, head, body]
    exempt,   \* rules that keep their name: entry, aggregates, those used above
    facts,    \* stored relations and rules of lower strata, [name -> tuples]
    pending,  \* pending_adornment
    adorned,  \* adorned_prog: clauses with adorned symbols
    done,     \* keys of adorned_prog
    rewritten \* ret_prog: clauses; {} before magic_rewrite

magicVars == <<rules, exempt, facts, pending, adorned, done, rewritten>>
given == <<rules, exempt, facts>>

-----------------------------------------------------------------------------
(* MagicSymbol                                                             *)

Muggle(n) == <<"muggle", n>>
Adorned(n, adornment) == <<"magic", n, adornment>>
Input(n, adornment) == <<"input", n, adornment>>
Sup(n, adornment, ruleIdx, supIdx) == <<"sup", n, adornment, ruleIdx, supIdx>>

magic_adornment(symb) == IF symb[1] = "muggle" THEN <<>> ELSE symb[3]
has_bound_adornment(symb) == \E i \in DOMAIN magic_adornment(symb) : magic_adornment(symb)[i]

\* The arguments at the bound positions.
BoundArgs(args, adornment) ==
    LET bound == SelectSeq([i \in DOMAIN adornment |-> i], LAMBDA i : adornment[i])
    IN  [k \in DOMAIN bound |-> args[bound[k]]]

RuleApp(symb, args) == [op |-> "rule", name |-> symb, args |-> args]

-----------------------------------------------------------------------------
(* adorn                                                                   *)

to_rewrite == {c.name : c \in rules} \ exempt

\* NormalFormAtom::adorn.  A use of a rule that keeps its name binds its
\* variables, but they are not noted as seen.
AdornAtom(acc, a) ==
    CASE a.op = "rule" /\ a.name \in to_rewrite ->
           LET symb == Adorned(a.name, [i \in DOMAIN a.args |-> a.args[i] \in acc.seen])
           IN  [seen |-> acc.seen \cup Vars(a.args),
                body |-> Append(acc.body, RuleApp(symb, a.args)),
                pending |-> Append(acc.pending, symb)]
      [] a.op = "not_rule" \/ (a.op = "rule" /\ a.name \notin to_rewrite) ->
           [acc EXCEPT !.body = Append(@, [a EXCEPT !.name = Muggle(a.name)])]
      [] OTHER -> [acc EXCEPT !.seen = @ \cup Binds(a), !.body = Append(@, a)]

\* NormalFormInlineRule::adorn
AdornRule(body, seen) ==
    FoldLeft(AdornAtom, [seen |-> seen, body |-> <<>>, pending |-> <<>>], body)

\* Mutant of SeenBindings: the adornment of a rule is taken for its own body
\* as if every argument were bound.
SeenBindings_all(c, adornment) == Vars(c.head)

SeenBindings(c, adornment) == Vars(BoundArgs(c.head, adornment))

\* The adorned clauses of the rule n under a symbol, and what they ask for.
AdornSet(n, symb) ==
    LET own == SetToSortSeq({c \in rules : c.name = n}, LAMBDA c, d : c.idx < d.idx)
        with == [i \in DOMAIN own |->
                   AdornRule(own[i].body, SeenBindings(own[i], magic_adornment(symb)))]
    IN  [clauses |-> {[own[i] EXCEPT !.name = symb, !.body = with[i].body] : i \in DOMAIN own},
         pending |-> FlattenSeq([i \in DOMAIN own |-> with[i].pending])]

\* Processing starts with the rules that are not rewritten.
Kept == {n \in exempt : \E c \in rules : c.name = n}

MagicInit ==
    /\ \E p \in MagicProgram : rules = p.rules /\ exempt = p.exempt /\ facts = p.facts
    /\ LET sets == {AdornSet(n, Muggle(n)) : n \in Kept}
       IN  /\ adorned = UNION {s.clauses : s \in sets}
           /\ pending = FlattenSeq(SetToSeq({s.pending : s \in sets}))
    /\ done = {Muggle(n) : n \in Kept}
    /\ rewritten = {}

\* One round of the loop over pending_adornment, a stack.
adorn ==
    /\ pending # <<>>
    /\ LET symb == Last(pending)
       IN  IF symb \in done
             THEN pending' = Front(pending) /\ UNCHANGED <<adorned, done>>
             ELSE \E s \in {AdornSet(symb[2], symb)} :
                     /\ adorned' = adorned \cup s.clauses
                     /\ pending' = Front(pending) \o s.pending
                     /\ done' = done \cup {symb}
    /\ UNCHANGED <<given, rewritten>>

-----------------------------------------------------------------------------
(* magic_rewrite_ruleset                                                   *)

\* seen_bindings, in the order of the symbols
Ordered(seen) == SetToSortSeq(seen, <)

\* One atom of the body.  A use with bound arguments ends the prefix collected
\* so far: it becomes a supplementary rule, which also feeds the input rule.
RewriteAtom(symb, idx, acc, a) ==
    IF a.op # "rule" \/ ~has_bound_adornment(a.name)
      THEN [acc EXCEPT !.atoms = Append(@, a),
                       !.seen = @ \cup Binds(a)]
      ELSE LET sup_kw == Sup(symb[2], magic_adornment(symb), idx, acc.sups)
               args == Ordered(acc.seen)
               app == RuleApp(sup_kw, args)
               wanted == magic_adornment(a.name)
           IN  [sups |-> acc.sups + 1,
                atoms |-> <<app, a>>,
                seen |-> acc.seen \cup Vars(a.args),
                out |-> acc.out \cup
                        {[name |-> sup_kw, idx |-> 0, head |-> args, body |-> acc.atoms],
                         [name |-> Input(a.name[2], wanted), idx |-> 0,
                          head |-> BoundArgs(a.args, wanted), body |-> <<app>>]}]

\* What is passed in from the input rule, if the head has bound arguments.
FromInput(c) ==
    LET adornment == magic_adornment(c.name)
        args == BoundArgs(c.head, adornment)
        sup_kw == Sup(c.name[2], adornment, c.idx, 0)
    IN  IF ~has_bound_adornment(c.name)
          THEN [sups |-> 0, atoms |-> <<>>, seen |-> {}, out |-> {}]
          ELSE [sups |-> 1, atoms |-> <<RuleApp(sup_kw, args)>>, seen |-> Vars(args),
                out |-> {[name |-> sup_kw, idx |-> 0, head |-> args,
                          body |-> <<RuleApp(Input(c.name[2], adornment), args)>>]}]

RewriteClause(c) ==
    LET end == FoldLeft(LAMBDA acc, a : RewriteAtom(c.name, c.idx, acc, a), FromInput(c), c.body)
    IN  end.out \cup {[c EXCEPT !.body = end.atoms]}

magic_rewrite ==
    /\ pending = <<>>
    /\ rewritten = {}
    /\ rewritten' = UNION {RewriteClause(c) : c \in adorned}
    /\ UNCHANGED <<given, pending, adorned, done>>

MagicNext == adorn \/ magic_rewrite

-----------------------------------------------------------------------------
(* What a program means: the least stores closed under its clauses.        *)

\* Rows in the store of an atom; `derived` is a set of <<symbol, row>>.
RowsOf(a, derived) ==
    IF a.op \in {"relation", "not_relation", "search"} THEN facts[a.name]
    ELSE {d[2] : d \in {e \in derived : e[1] = a.name}}

Derived(c, derived) ==
    {<<c.name, t>> : t \in HeadRows(c.head, c.body, [i \in DOMAIN c.body |-> RowsOf(c.body[i], derived)])}

RECURSIVE Close(_, _)
Close(clauses, derived) ==
    LET next == derived \cup UNION {Derived(c, derived) : c \in clauses}
    IN  IF next = derived THEN derived ELSE Close(clauses, next)

\* Stores of the strata below.
Below(symb(_)) == UNION {{<<symb(n), t>> : t \in facts[n]} : n \in DOMAIN facts}

Answers(clauses, symb(_)) ==
    {d[2] : d \in {e \in Close(clauses, Below(symb)) : e[1] = symb("?")}}

-----------------------------------------------------------------------------
(* Properties.                                                             *)

\* compile_magic_rule_body accepts a clause: the uses are of rules that exist,
\* and the head is bound by the body.
Compiles(c) ==
    /\ Vars(c.head) \subseteq UNION {Binds(c.body[i]) : i \in DOMAIN c.body}
    /\ \A i \in DOMAIN c.body :
         c.body[i].op \in {"rule", "not_rule"} =>
            \/ \E d \in rewritten : d.name = c.body[i].name
            \/ \E n \in DOMAIN facts : c.body[i].name = Muggle(n)

\* A use of a rule joins each variable once; Joiner::join_indices would panic on
\* one that is joined with a column of the same row.
JoinsOnce(a) == a.op = "rule" => IsInjective(a.args)

\* The rewritten stratum compiles, its joins are well formed, and it has the
\* answers of the stratum as it was written.
MagicExact ==
    rewritten # {} =>
       /\ \A c \in rewritten : Compiles(c) /\ \A i \in DOMAIN c.body : JoinsOnce(c.body[i])
       /\ Answers(rewritten, Muggle) = Answers(rules, LAMBDA n : n)
=============================================================================
