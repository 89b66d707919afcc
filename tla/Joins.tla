-------------------------------- MODULE Joins --------------------------------
(***************************************************************************)
(* The plan of a rule body and its evaluation: compile_magic_rule_body of  *)
(* retia-core/src/query/compile.rs, the operators of query/ra.rs, the      *)
(* choice of an index and the scans of runtime/relation.rs, the range of   *)
(* a filter of data/expr.rs and the stores of runtime/temp_store.rs.       *)
(*                                                                         *)
(* The tree of operators always grows on the left, so a plan is the        *)
(* sequence of its operators.  A row is a tuple; where a variable is in it *)
(* follows from the operators before, and from what they eliminated.       *)
(*                                                                         *)
(* A store is [kind, keys, rows, delta, indices]: "stored" relations,      *)
(* "valid" ones read at a point in time (rows are those valid then),       *)
(* "temp" and "meet" stores of rules; an index is the columns it keeps.    *)
(***************************************************************************)
EXTENDS Clauses, FiniteSets

CONSTANTS
    Request,  \* records [body, head, stores, delta]
    None      \* no delta rule; no index

VARIABLES
    given,    \* the rule, its stores and the delta rule of the epoch
    at,       \* the next atom of the body, then the next operator of the plan
    seen,     \* seen_variables
    plan,     \* RelAlgebra, from the innermost operator to the outermost
    rows,     \* the rows of the operators before `at`
    status    \* "compile" | "eval" | "done" | "refused"

vars == <<given, at, seen, plan, rows, status>>

-----------------------------------------------------------------------------
(* Values.  Numbers are ordered as Num::cmp orders them: an integer just   *)
(* before the equal float.  1 is Int 0, 2 Float 0.0, 3 Float 0.5, 4 Int 1, *)
(* 5 Float 1.0.                                                            *)

Value == 1..5
Number == <<0, 0, 1, 2, 2>>
NullValue == 0
Bot == 6

\* get_int where the number is integral, get_float.
get_int(v) == CHOOSE w \in Value : Number[w] = Number[v] /\ (w - 1 \notin Value \/ Number[w - 1] # Number[w])
get_float(v) == CHOOSE w \in Value : Number[w] = Number[v] /\ (w + 1 \notin Value \/ Number[w + 1] # Number[w])

\* A condition [op, name, args, val] is args[1] `name` val, or args[2] for val.
\* The operators compare an integer with a float by their numbers.
Holds(f, b) ==
    LET l == Number[b[f.args[1]]]
        r == Number[IF Len(f.args) = 2 THEN b[f.args[2]] ELSE f.val]
    IN  CASE f.name = "==" -> l = r
          [] f.name = ">=" -> l >= r
          [] f.name = ">" -> l > r
          [] f.name = "<=" -> l <= r
          [] f.name = "<" -> l < r

AllHold(filters, b) == \A k \in DOMAIN filters : Holds(filters[k], b)

extract_bound(f, symb) ==
    [lower |-> IF f.args = <<symb>> /\ f.name \in {">=", ">"} THEN get_int(f.val) ELSE NullValue,
     upper |-> IF f.args = <<symb>> /\ f.name \in {"<=", "<"} THEN get_float(f.val) ELSE Bot]

\* ValueRange::merge; an empty range is Bot to Bot.
Merge(r, s) ==
    LET lower == IF r.lower > s.lower THEN r.lower ELSE s.lower
        upper == IF r.upper < s.upper THEN r.upper ELSE s.upper
    IN  IF lower > upper THEN [lower |-> Bot, upper |-> Bot]
                         ELSE [lower |-> lower, upper |-> upper]

compute_bounds(filters, symbols) ==
    [i \in DOMAIN symbols |->
       FoldLeft(LAMBDA r, f : Merge(r, extract_bound(f, symbols[i])),
                [lower |-> NullValue, upper |-> Bot], filters)]

-----------------------------------------------------------------------------
(* Scans.  Rows are ordered column by column, a prefix before what         *)
(* continues it.                                                           *)

Before(s, t) ==
    \/ IsStrictPrefix(s, t)
    \/ \E i \in DOMAIN s \cap DOMAIN t :
         s[i] < t[i] /\ SubSeq(s, 1, i - 1) = SubSeq(t, 1, i - 1)

Sorted(S) == SortSeq(FoldSet(LAMBDA r, q : Append(q, r), <<>>, S), Before)
Key(s, r) == SubSeq(r, 1, s.keys)
Truncated(p, n) == SubSeq(p, 1, IF Len(p) < n THEN Len(p) ELSE n)

\* range_scan_tuple, range_skip_scan_tuple: keys from lower, before upper.
RangeScan(s, lower, upper) ==
    Sorted({r \in s.rows : ~Before(Key(s, r), lower) /\ Before(Key(s, r), upper)})

scan_prefix(s, prefix) ==
    LET lower == Truncated(prefix, s.keys)
    IN  RangeScan(s, lower, Append(lower, Bot))

scan_bounded_prefix(s, prefix, lower, upper) ==
    RangeScan(s, prefix \o lower, Append(prefix \o upper, Bot))

\* range_iter of the two temporary stores, the upper end included.
range_iter(s, held, lower, upper) ==
    Sorted({r \in held :
              /\ s.kind = "meet" => /\ ~Before(Key(s, r), Truncated(lower, s.keys))
                                    /\ ~Before(Truncated(upper, s.keys), Key(s, r))
              /\ ~Before(r, lower)
              /\ ~Before(upper, r)})

prefix_iter(s, held, prefix) == range_iter(s, held, prefix, Append(prefix, Bot))

-----------------------------------------------------------------------------
(* Operators.  `adds` are the variables an operator binds, `right` those   *)
(* of its store; `index` is the index read in place of the store.          *)

Join(name, index, right, left_keys, right_keys) ==
    [op |-> "join", name |-> name, index |-> index, adds |-> right, right |-> right,
     left_keys |-> left_keys, right_keys |-> right_keys, filters |-> <<>>, elim |-> {}]
Negative(join) == [join EXCEPT !.op = "neg", !.adds = <<>>]
Filtering(f) == [op |-> "filter", adds |-> <<>>, filters |-> <<f>>, elim |-> {}]
Unification(a) == [op |-> "unify", adds |-> <<a.args[1]>>, atom |-> a, elim |-> {}]
UnitJoin == [op |-> "unit", adds |-> <<>>, elim |-> {}]

eliminate(bindings, elim) == SelectSeq(bindings, LAMBDA s : s \notin elim)
bindings_after_eliminate(p) ==
    FoldLeft(LAMBDA bindings, o : eliminate(bindings \o o.adds, o.elim), <<>>, p)

\* RelAlgebra::filter: into the store it is about, when below a join.
RECURSIVE filter(_, _)
filter(p, f) ==
    IF p = <<>> THEN <<Filtering(f)>>
    ELSE LET left == Front(p)
             o == Last(p)
         IN  CASE o.op = "filter" -> Append(left, [o EXCEPT !.filters = Append(@, f)])
               [] o.op = "join" ->
                    IF Vars(f.args) \subseteq Range(bindings_after_eliminate(left))
                      THEN Append(filter(left, f), o)
                    ELSE IF Vars(f.args) \subseteq Range(o.right)
                      THEN Append(left, [o EXCEPT !.filters = Append(@, f)])
                    ELSE Append(p, Filtering(f))
               [] OTHER -> Append(p, Filtering(f))

VarsOf(filters) == UNION {Vars(filters[k].args) : k \in DOMAIN filters}

\* The variables an operator reads from its left.
Uses(o) ==
    CASE o.op \in {"join", "neg"} -> Range(o.left_keys)
      [] o.op = "filter" -> VarsOf(o.filters)
      [] o.op = "unify" -> Needs(o.atom)
      [] o.op = "unit" -> {}

\* A unification never eliminates the variable it binds.
RECURSIVE eliminate_temp_vars(_, _)
eliminate_temp_vars(p, used) ==
    IF p = <<>> THEN <<>>
    ELSE LET left == Front(p)
             o == Last(p)
             bound == bindings_after_eliminate(left) \o (IF o.op = "unify" THEN <<>> ELSE o.adds)
         IN  Append(eliminate_temp_vars(left, used \cup Uses(o)),
                    [o EXCEPT !.elim = @ \cup (Range(bound) \ used)])

-----------------------------------------------------------------------------
(* Compilation.                                                            *)

Init ==
    /\ given \in Request
    /\ at = 1
    /\ seen = {}
    /\ plan = <<>>
    /\ rows = << <<>> >>
    /\ status = "compile"

Atom == given.body[at]
Columns == [i \in DOMAIN Atom.args |-> i]

\* gen_symb for a column of the atom, and for a column of its index.
Symb(i) == 100 * at + i
IndexSymb(i) == 100 * at + 50 + i
Ignored(v) == v \in 90..99

Right(columns) ==
    [k \in DOMAIN columns |->
       IF Atom.args[columns[k]] \in seen THEN Symb(columns[k]) ELSE Atom.args[columns[k]]]
Left(columns) == [k \in DOMAIN columns |-> Atom.args[columns[k]]]
IndexSymbs(columns) == [k \in DOMAIN columns |-> IndexSymb(columns[k])]
JoinColumns(columns) == SelectSeq(columns, LAMBDA i : Atom.args[i] \in seen)

\* IndexPositionUse of a column.
Use(i) ==
    CASE Atom.args[i] \in seen -> "join"
      [] Atom.args[i] \notin seen /\ Ignored(Atom.args[i]) -> "ignored"
      [] OTHER -> "bind"

\* The columns at the start of an index that are joined.
PrefixLen(mapper) ==
    Cardinality({n \in DOMAIN mapper : \A k \in 1..n : Use(mapper[k]) = "join"})

\* need_join: the index does not have all columns that are used.
NeedJoin(mapper) == \E i \in DOMAIN Atom.args : Use(i) # "ignored" /\ i \notin Range(mapper)

\* The first index with the longest joined prefix, or none.
choose_index(s) ==
    LET usable == {n \in DOMAIN s.indices :
                     /\ PrefixLen(s.indices[n]) > 0
                     /\ s.kind = "valid" => Last(s.indices[n]) = s.keys}
    IN  IF Use(1) = "join" \/ usable = {} THEN None
        ELSE CHOOSE n \in usable : \A m \in usable :
               \/ PrefixLen(s.indices[m]) < PrefixLen(s.indices[n])
               \/ PrefixLen(s.indices[m]) = PrefixLen(s.indices[n]) /\ n <= m

\* Mutant of IndexThenStore: a bound column that is not in the index is dropped.
IndexThenStore_unchecked(p, n) ==
    LET s == given.stores[Atom.name]
        mapper == s.indices[n]
        keyed == SelectSeq(mapper, LAMBDA i : i <= s.keys)
    IN  p \o << Join(Atom.name, n, IndexSymbs(mapper), Left(JoinColumns(mapper)),
                     IndexSymbs(JoinColumns(mapper))),
                Join(Atom.name, None, Right(Columns), IndexSymbs(keyed), Right(keyed)) >>

\* Index-with-join: the index, then the relation by its key, then the bound
\* columns that the index does not have.
IndexThenStore(p, n) ==
    LET s == given.stores[Atom.name]
        mapper == s.indices[n]
        keyed == SelectSeq(mapper, LAMBDA i : i <= s.keys)
        not_bound == SelectSeq(JoinColumns(Columns), LAMBDA i : i \notin Range(mapper))
        equate(q, i) == filter(q, [op |-> "pred", name |-> "==", args |-> <<Atom.args[i], Symb(i)>>])
    IN  FoldLeft(equate,
                 p \o << Join(Atom.name, n, IndexSymbs(mapper), Left(JoinColumns(mapper)),
                              IndexSymbs(JoinColumns(mapper))),
                         Join(Atom.name, None, Right(Columns), IndexSymbs(keyed), Right(keyed)) >>,
                 not_bound)

ThroughIndex(n) ==
    n # None /\ ~NeedJoin(given.stores[Atom.name].indices[n])

\* A relation or a rule, or the negation of one; a rule has no indices.
StoreAtom(p) ==
    LET n == choose_index(given.stores[Atom.name])
        columns == IF ThroughIndex(n) THEN given.stores[Atom.name].indices[n] ELSE Columns
        joined == Join(Atom.name, IF ThroughIndex(n) THEN n ELSE None, Right(columns),
                       Left(JoinColumns(Columns)), Right(JoinColumns(Columns)))
    IN  IF Negated(Atom) THEN Append(p, Negative(joined))
        ELSE IF n # None /\ ~ThroughIndex(n) THEN IndexThenStore(p, n)
        ELSE Append(p, joined)

Equate(a) == [op |-> "pred", name |-> "==", args |-> a.args, val |-> a.name]

\* One atom of the body.
compile_atom ==
    /\ status = "compile"
    /\ at <= Len(given.body)
    /\ plan' = CASE Positive(Atom) \/ Negated(Atom) -> StoreAtom(plan)
                [] Atom.op = "pred" -> filter(plan, Atom)
                [] Atom.op = "unify" -> IF Atom.args[1] \in seen THEN filter(plan, Equate(Atom))
                                        ELSE Append(plan, Unification(Atom))
    /\ seen' = CASE Positive(Atom) \/ Atom.op = "not_relation" -> seen \cup Vars(Atom.args)
                [] Atom.op = "unify" -> seen \cup {Atom.args[1]}
                [] OTHER -> seen
    /\ at' = at + 1
    /\ UNCHANGED <<given, rows, status>>

\* The end of the body: only the variables of the head are left.
compile_head ==
    /\ status = "compile"
    /\ at > Len(given.body)
    /\ LET used == Range(given.head)
           p == eliminate_temp_vars(plan, used)
           q == IF Range(bindings_after_eliminate(p)) = used THEN p
                ELSE eliminate_temp_vars(Append(p, UnitJoin), used)
       IN  /\ plan' = q
           /\ status' = IF Range(bindings_after_eliminate(q)) = used THEN "eval" ELSE "refused"
    /\ at' = 1
    /\ UNCHANGED <<given, seen, rows>>

-----------------------------------------------------------------------------
(* Evaluation.                                                             *)

IndexOf(bindings, s) == CHOOSE i \in DOMAIN bindings : bindings[i] = s
Positions(bindings, symbols) == [k \in DOMAIN symbols |-> IndexOf(bindings, symbols[k])]
Pick(t, positions) == [k \in DOMAIN positions |-> t[positions[k]]]

Op == plan[at]
Bindings == bindings_after_eliminate(SubSeq(plan, 1, at - 1))
left_join == Positions(Bindings, Op.left_keys)
right_join == Positions(Op.right, Op.right_keys)

\* An index has the rows of its relation, cut to its columns, all of them keys.
Store ==
    LET s == given.stores[Op.name]
    IN  IF Op.index = None THEN s
        ELSE [s EXCEPT !.keys = Len(s.indices[Op.index]),
                       !.rows = {Pick(r, s.indices[Op.index]) : r \in s.rows}]

IsTemp == Store.kind \in {"temp", "meet"}

\* The rows to read: of a delta rule, those of the last epoch.
Held == IF given.delta = Op.name THEN Store.delta ELSE Store.rows

join_is_prefix == Range(right_join) = 1..Len(right_join)

\* The joined values of a row of the left, in the order of the right columns.
Prefix(t) ==
    [k \in DOMAIN right_join |-> t[left_join[CHOOSE j \in DOMAIN right_join : right_join[j] = k]]]

Matches(t, found) == Pick(t, left_join) = Pick(found, right_join)

point_lookup(t) == {r \in Store.rows : Key(Store, r) = Truncated(Prefix(t), Store.keys) /\ Matches(t, r)}

\* The bounds that the filters give the columns after the prefix: of the keys
\* in a relation, of all columns in a temporary store.
Bounds ==
    compute_bounds(Op.filters,
                   SubSeq(Op.right, Len(right_join) + 1, IF IsTemp THEN Len(Op.right) ELSE Store.keys))
Lower == [i \in DOMAIN Bounds |-> Bounds[i].lower]
Upper == [i \in DOMAIN Bounds |-> Bounds[i].upper]
Bounded == \E i \in DOMAIN Bounds : Lower[i] # NullValue \/ Upper[i] # Bot

\* prefix_join of the stores, for a row of the left.
prefix_join(t) ==
    IF Store.kind = "stored" /\ Len(right_join) >= Store.keys THEN Sorted(point_lookup(t))
    ELSE CASE IsTemp /\ Bounded -> range_iter(Store, Held, Prefix(t) \o Lower, Prefix(t) \o Upper)
           [] IsTemp /\ ~Bounded -> prefix_iter(Store, Held, Prefix(t))
           [] ~IsTemp /\ Bounded -> scan_bounded_prefix(Store, Prefix(t), Lower, Upper)
           [] ~IsTemp /\ ~Bounded -> scan_prefix(Store, Prefix(t))

Row(bindings, t) == [s \in Range(bindings) |-> t[IndexOf(bindings, s)]]
Kept(found) == AllHold(Op.filters, Row(Op.right, found))

\* right_store_indices, the joined columns first; the rows of the right in
\* that order.
right_store == right_join \o SelectSeq([i \in DOMAIN Op.right |-> i], LAMBDA i : i \notin Range(right_join))
Materialized == Sorted({Pick(r, right_store) : r \in {q \in Held : Kept(q)}})

\* CachedMaterializedIterator, for a row of the left: from where the joined
\* values would be, as long as a row starts with them.
materialized_join(t) ==
    LET mat == Materialized
        prefix == Pick(t, left_join)
        before == Cardinality({i \in DOMAIN mat : Before(mat[i], prefix)})
        upto == CHOOSE n \in before..Len(mat) :
                  /\ \A i \in (before + 1)..n : IsPrefix(prefix, mat[i])
                  /\ n < Len(mat) => ~IsPrefix(prefix, mat[n + 1])
        invert == Positions(right_store, [i \in DOMAIN Op.right |-> i])
    IN  [k \in 1..(upto - before) |-> Pick(mat[before + k], invert)]

\* neg_join of the stores: no row of the right matches.  A rule is complete.
neg_join(t) ==
    IF join_is_prefix
      THEN \A found \in Range(IF IsTemp THEN prefix_iter(Store, Store.rows, Prefix(t))
                                       ELSE scan_prefix(Store, Prefix(t))) : ~Matches(t, found)
      ELSE Pick(t, left_join) \notin {Pick(r, right_join) : r \in Store.rows}

\* What the operator makes of a row of its left.
Output(t) ==
    CASE Op.op = "join" ->
           LET found == IF join_is_prefix THEN SelectSeq(prefix_join(t), Kept) ELSE materialized_join(t)
           IN  [k \in DOMAIN found |-> t \o found[k]]
      [] Op.op = "neg" -> IF neg_join(t) THEN <<t>> ELSE <<>>
      [] Op.op = "filter" -> IF AllHold(Op.filters, Row(Bindings, t)) THEN <<t>> ELSE <<>>
      [] Op.op = "unify" -> <<Append(t, IF Len(Op.atom.args) = 1 THEN Op.atom.name
                                        ELSE t[IndexOf(Bindings, Op.atom.args[2])])>>
      [] Op.op = "unit" -> <<t>>

eliminate_from_tuple(t) ==
    LET all == Bindings \o Op.adds
    IN  Pick(t, Positions(all, eliminate(all, Op.elim)))

\* iter of the next operator.
iter ==
    /\ status = "eval"
    /\ at <= Len(plan)
    /\ LET out == FlattenSeq([i \in DOMAIN rows |-> Output(rows[i])])
       IN  rows' = [i \in DOMAIN out |-> eliminate_from_tuple(out[i])]
    /\ at' = at + 1
    /\ UNCHANGED <<given, seen, plan, status>>

\* ReorderRA: the columns in the order of the head.
reorder ==
    /\ status = "eval"
    /\ at > Len(plan)
    /\ rows' = LET order == Positions(bindings_after_eliminate(plan), given.head)
               IN  [i \in DOMAIN rows |-> Pick(rows[i], order)]
    /\ status' = "done"
    /\ UNCHANGED <<given, at, seen, plan>>

Next == compile_atom \/ compile_head \/ iter \/ reorder

-----------------------------------------------------------------------------
(* Properties.                                                             *)

RowsOf(a) ==
    IF given.delta = a.name /\ Positive(a) THEN given.stores[a.name].delta ELSE given.stores[a.name].rows

\* The bindings that satisfy the atoms, one after the other.
Satisfying ==
    LET step(bs, i) ==
          LET a == given.body[i]
          IN  CASE Positive(a) -> Joined(bs, a, RowsOf(a))
                [] Negated(a) -> NegJoined(bs, a, RowsOf(a))
                [] a.op = "pred" -> {b \in bs : Holds(a, b)}
                [] a.op = "unify" ->
                     {b \in bs : a.args[1] \in DOMAIN b /\ Holds(Equate(a), b)}
                     \cup {(a.args[1] :> (IF Len(a.args) = 2 THEN b[a.args[2]] ELSE a.name)) @@ b :
                             b \in {c \in bs : a.args[1] \notin DOMAIN c}}
    IN  FoldLeft(step, {<<>>}, [i \in DOMAIN given.body |-> i])

HeadOf(b) == [i \in DOMAIN given.head |-> b[given.head[i]]]

\* Two numbers that are equal as numbers and different as values.
MixedNumbers ==
    \E n \in DOMAIN given.stores : \E r, q \in given.stores[n].rows : \E i \in DOMAIN r : \E j \in DOMAIN q :
       r[i] # q[j] /\ Number[r[i]] = Number[q[j]]

Indexed == \E n \in DOMAIN given.stores : given.stores[n].indices # <<>>

\* Whatever the plan is (which index is read, if it has all columns, whether a
\* join looks up a key, scans a prefix within the bounds of the filters or
\* goes through a sorted copy, where a filter was pushed and which variables
\* are eliminated on the way), a body yields each row of the head exactly as
\* often as there are bindings that satisfy the atoms as they are written, and
\* a head whose variables are bound is never refused.  With an index, for numbers that are equal only if they are the same value.
PlanExact ==
    /\ status = "refused" => ~(Range(given.head) \subseteq seen)
    /\ status = "done" /\ (Indexed => ~MixedNumbers) =>
         LET wanted == Satisfying
         IN  \A h \in Range(rows) \cup {HeadOf(b) : b \in wanted} :
                Cardinality({i \in DOMAIN rows : rows[i] = h})
                   = Cardinality({b \in wanted : HeadOf(b) = h})

TypeOK ==
    /\ at \in 1..(1 + Len(IF status = "compile" THEN given.body ELSE plan))
    /\ \A i \in DOMAIN rows : \A k \in DOMAIN rows[i] : rows[i][k] \in Value
    /\ status \in {"compile", "eval", "done", "refused"}

Inv == TypeOK /\ PlanExact
=============================================================================
