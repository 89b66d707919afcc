------------------------------ MODULE MeetAggr ------------------------------
(***************************************************************************)
(* The meet aggregates of retia-core/src/data/aggr.rs: MeetAggrObj::update *)
(* combines a value into the one that is there and says whether it         *)
(* changed it.  Numbers are naturals, a list or a set of values is a       *)
(* sequence or a set, a byte string is the sequence of its bits; every     *)
(* value of one aggregate has the type it accepts.                         *)
(***************************************************************************)
EXTENDS Naturals, Sequences, FiniteSets

CONSTANTS
    Null,      \* DataValue::Null
    Infinity   \* f64::INFINITY, more than every number of the model

Ret(v, b) == [val |-> v, changed |-> b]

update_and(l, r) == Ret(l /\ r, l = (l /\ r))
update_or(l, r) == Ret(l \/ r, l = (l \/ r))

update_union(l, r) == Ret(l \cup r, \E v \in r : v \notin l)

update_intersection(l, r) ==
    IF r = Null THEN Ret(l, FALSE)
    ELSE IF l = Null THEN Ret(r, TRUE)
    ELSE Ret(l \cap r, Cardinality(l \cap r) # Cardinality(l))

update_min(l, r) ==
    IF r = Null THEN Ret(l, FALSE)
    ELSE IF l = Null \/ l > r THEN Ret(r, TRUE)
    ELSE Ret(l, FALSE)

\* Mutant of update_max: an equal value is reported as a change.
update_max_eager(l, r) ==
    IF r = Null THEN Ret(l, FALSE)
    ELSE IF l = Null \/ l <= r THEN Ret(r, TRUE)
    ELSE Ret(l, FALSE)

update_max(l, r) ==
    IF r = Null THEN Ret(l, FALSE)
    ELSE IF l = Null \/ l < r THEN Ret(r, TRUE)
    ELSE Ret(l, FALSE)

\* Lists of a payload and its cost.
update_min_cost(l, r) == IF l[2] <= r[2] THEN Ret(l, FALSE) ELSE Ret(r, TRUE)

update_shortest(l, r) ==
    IF r = Null THEN Ret(l, FALSE)
    ELSE IF l = Null \/ Len(r) < Len(l) THEN Ret(r, TRUE)
    ELSE Ret(l, FALSE)

update_choice(l, r) ==
    IF l = Null /\ r # Null THEN Ret(r, TRUE) ELSE Ret(l, FALSE)

\* The empty string is the initial value.
BitAnd(l, r) == [i \in DOMAIN l |-> l[i] * r[i]]
BitOr(l, r) == [i \in DOMAIN l |-> IF l[i] + r[i] > 0 THEN 1 ELSE 0]
update_bit_and(l, r) ==
    IF l = r THEN Ret(l, FALSE)
    ELSE Ret(IF l = <<>> THEN r ELSE BitAnd(l, r), TRUE)
update_bit_or(l, r) ==
    IF l = r THEN Ret(l, FALSE)
    ELSE Ret(IF l = <<>> THEN r ELSE BitOr(l, r), TRUE)

init_val(op) ==
    CASE op = "and" -> TRUE
      [] op = "or" -> FALSE
      [] op = "union" -> {}
      [] op = "min_cost" -> <<Null, Infinity>>
      [] op \in {"bit_and", "bit_or"} -> <<>>
      [] op \in {"intersection", "min", "max", "shortest", "choice"} -> Null

update(op, l, r) ==
    CASE op = "and" -> update_and(l, r)
      [] op = "or" -> update_or(l, r)
      [] op = "union" -> update_union(l, r)
      [] op = "intersection" -> update_intersection(l, r)
      [] op = "min" -> update_min(l, r)
      [] op = "max" -> update_max(l, r)
      [] op = "min_cost" -> update_min_cost(l, r)
      [] op = "shortest" -> update_shortest(l, r)
      [] op = "choice" -> update_choice(l, r)
      [] op = "bit_and" -> update_bit_and(l, r)
      [] op = "bit_or" -> update_bit_or(l, r)
=============================================================================
