------------------------------- MODULE Clauses -------------------------------
(***************************************************************************)
(* Rules in normal form (NormalFormAtom and MagicAtom of retia-core/src/   *)
(* data/program.rs) and what a body means.                                 *)
(*                                                                         *)
(* An atom is [op, name, args] over variables 1, 2, ...: "rule",           *)
(* "relation" and their negations; "unify", which gives the constant       *)
(* `name`, or the value of args[2], to args[1]; "pred", a condition on the *)
(* values of args[1] and args[2], which are equal or not; "search", a      *)
(* query args[1] of an HNSW, FTS or LSH index that binds what it finds to  *)
(* args[2], with the answers of all queries for the rows of its store.     *)
(***************************************************************************)
EXTENDS Naturals, SequencesExt, TLC

Vars(args) == {args[i] : i \in DOMAIN args}
Positive(a) == a.op \in {"rule", "relation", "search"}
Negated(a) == a.op \in {"not_rule", "not_relation"}

\* Variables that an atom gives a value, and those that must have one before.
Binds(a) ==
    CASE a.op \in {"rule", "relation"} -> Vars(a.args)
      [] a.op = "search" -> {a.args[2]}
      [] a.op = "unify" -> {a.args[1]}
      [] OTHER -> {}
Needs(a) ==
    CASE a.op = "unify" -> Vars(Tail(a.args))
      [] a.op = "search" -> {a.args[1]}
      [] a.op = "pred" -> Vars(a.args)
      [] OTHER -> {}

\* The row t agrees with the binding b.
Agree(b, args, t) == \A i \in DOMAIN args : args[i] \in DOMAIN b => b[args[i]] = t[i]
Bind(b, args, t) == b @@ [v \in Vars(args) |-> t[CHOOSE i \in DOMAIN args : args[i] = v]]

\* The bindings bs after an atom whose store has these rows: join, neg_join,
\* filter and unify of query/ra.rs.
Joined(bs, a, rows) ==
    UNION {{Bind(b, a.args, t) : t \in {u \in rows : Agree(b, a.args, u)}} : b \in bs}
NegJoined(bs, a, rows) == {b \in bs : ~\E t \in rows : Agree(b, a.args, t)}
Filtered(bs, a) == {b \in bs : (b[a.args[1]] = b[a.args[2]]) = (a.name = "eq")}

\* A variable that has a value already is compared instead.
Unified(bs, a) ==
    LET val(b) == IF Len(a.args) = 2 THEN b[a.args[2]] ELSE a.name
    IN  {(a.args[1] :> val(b)) @@ b :
           b \in {c \in bs : a.args[1] \in DOMAIN c => c[a.args[1]] = val(c)}}

Extend(bs, a, rows) ==
    CASE Positive(a) -> Joined(bs, a, rows)
      [] Negated(a) -> NegJoined(bs, a, rows)
      [] a.op = "pred" -> Filtered(bs, a)
      [] a.op = "unify" -> Unified(bs, a)

\* The rows of the head; rows[i] are those of the store of the i-th atom.
HeadRows(head, body, rows) ==
    LET step(bs, i) == Extend(bs, body[i], rows[i])
    IN  {[i \in DOMAIN head |-> b[head[i]]] :
           b \in FoldLeft(step, {<<>>}, [i \in DOMAIN body |-> i])}
=============================================================================
