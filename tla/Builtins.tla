------------------------------ MODULE Builtins ------------------------------
(***************************************************************************)
(* DataValue of retia-core/src/data/value.rs: its variants, their order,   *)
(* the getters, and the conversions to and from JSON of data/json.rs; and  *)
(* the functions that expressions call (retia-core/src/data/functions.rs   *)
(* and get_op of data/expr.rs).                                            *)
(*                                                                         *)
(* A value is a pair of its variant and its payload.  The widths are       *)
(* small but keep what the code depends on: i64 has IntBits bits; f64 is   *)
(* a sign, an exponent and one bit of mantissa, so that not every integer  *)
(* is a float, with both zeros, the infinities and a NaN of either sign.   *)
(* A float is its bit pattern: SignMark for the sign plus a magnitude.     *)
(* A set is the ascending sequence of its elements, a string the sequence  *)
(* of its characters.  The texts that some library parses are told by a    *)
(* first character of their own.                                           *)
(*                                                                         *)
(* A function takes the sequence a of its arguments and gives the set of   *)
(* its possible results: none where the code returns an error, one for     *)
(* most arguments, several for the random functions; Panic stands for a    *)
(* panic.  What the standard library and the other crates compute is a     *)
(* Term, left uninterpreted, or modelled on a toy alphabet.  Integers wrap *)
(* around, as they do in a release build.                                  *)
(***************************************************************************)
EXTENDS Integers, Sequences, FiniteSets, SequencesExt

CONSTANTS
    JsonValues,     \* the JSON documents
    Clock           \* the system time, in units of the timestamps

IntBits == 5
IntMax == 2 ^ (IntBits - 1) - 1
IntMin == -(2 ^ (IntBits - 1))

\* Two's complement.
Wrap(i) == ((i - IntMin) % (2 ^ IntBits)) + IntMin

-----------------------------------------------------------------------------
(* Floats *)

\* Twice the number that the magnitude m stands for is Doubled[m + 1].
Doubled == <<0, 1, 2, 3, 4, 6, 8, 12, 16, 24, 32>>
InfMag == Len(Doubled)
NanMag == InfMag + 1
SignMark == 16

is_sign_positive(f) == f < SignMark
Mag(f) == f % SignMark
is_nan(f) == Mag(f) = NanMag
is_infinite(f) == Mag(f) = InfMag
is_finite(f) == Mag(f) < InfMag
Negated(f) == (f + SignMark) % (2 * SignMark)
Twice(f) == IF is_sign_positive(f) THEN Doubled[Mag(f) + 1] ELSE -Doubled[Mag(f) + 1]

\* The magnitude in M nearest to n / (2 * d), to even between two.
Nearest(n, d, M) ==
    LET Off(m) == LET e == Doubled[m + 1] * d - n IN IF e < 0 THEN -e ELSE e
        Even(m) == Cardinality({k \in M : k < m}) % 2 = 0
    IN  CHOOSE m \in M : \A k \in M : Off(m) < Off(k) \/ (Off(m) = Off(k) /\ (m = k \/ Even(m)))

\* The float nearest to n / (2 * d), d > 0; beyond the range, an infinity.
Rounded(n, d) ==
    LET a == IF n < 0 THEN -n ELSE n
        m == IF a >= 40 * d THEN InfMag ELSE Nearest(a, d, 0..(InfMag - 1))
    IN  IF n < 0 THEN SignMark + m ELSE m

as_f64(i) == Rounded(2 * i, 1)

\* A saturating cast that truncates.
as_i64(f) ==
    IF is_nan(f) THEN 0
    ELSE IF is_infinite(f) THEN (IF is_sign_positive(f) THEN IntMax ELSE IntMin)
    ELSE LET i == IF Twice(f) < 0 THEN -((-Twice(f)) \div 2) ELSE Twice(f) \div 2
         IN  IF i > IntMax THEN IntMax ELSE IF i < IntMin THEN IntMin ELSE i

\* f32 has no mantissa: powers of two only.
SingleMags == {0, 1, 2, 4, 6, 8, 10}
as_f32(f) ==
    IF ~is_finite(f) THEN f
    ELSE (IF is_sign_positive(f) THEN 0 ELSE SignMark) + Nearest(Doubled[Mag(f) + 1], 1, SingleMags)

-----------------------------------------------------------------------------
(* Values *)

Null == <<"Null", 0>>
Bot == <<"Bot", 0>>
Bool(b) == <<"Bool", b>>
IntV(i) == <<"Int", i>>
FloatV(f) == <<"Float", f>>
Str(s) == <<"Str", s>>
Bytes(s) == <<"Bytes", s>>
Uuid(u) == <<"Uuid", u>>
Regex(s) == <<"Regex", s>>
List(s) == <<"List", s>>
SetV(s) == <<"Set", s>>
Vec(t, s) == <<"Vec", <<t, s>>>>
Json(j) == <<"Json", j>>
Validity(ts, is_assert) == <<"Validity", <<ts, is_assert>>>>

IsNum(v) == v[1] \in {"Int", "Float"}

get_bool(v) == IF v[1] = "Bool" THEN {v[2]} ELSE {}
get_float(v) == CASE v[1] = "Int" -> {as_f64(v[2])} [] v[1] = "Float" -> {v[2]} [] OTHER -> {}

\* A float counts as an integer when it is its own rounding, as an infinity is.
get_int(v) ==
    CASE v[1] = "Int" -> {v[2]}
      [] v[1] = "Float" -> IF is_nan(v[2]) \/ (is_finite(v[2]) /\ Twice(v[2]) % 2 # 0)
                           THEN {} ELSE {as_i64(v[2])}
      [] OTHER -> {}
get_non_neg_int(v) == {i \in get_int(v) : i >= 0}

\* uuid::Uuid::try_parse and its inverse, base64 and its inverse: texts with a
\* character of their own in front.
UuidText(u) == <<8, u>>
Base64Text(b) == <<7>> \o b
Unquoted(c, s) == IF s # <<>> /\ s[1] = c THEN {Tail(s)} ELSE {}
get_uuid(v) ==
    CASE v[1] = "Uuid" -> {v[2]}
      [] v[1] = "Str" -> {t[1] : t \in {u \in Unquoted(8, v[2]) : Len(u) = 1}}
      [] OTHER -> {}

-----------------------------------------------------------------------------
(* The order of values.  Comparisons give -1, 0 or 1.                      *)

Sign(i) == IF i < 0 THEN -1 ELSE IF i > 0 THEN 1 ELSE 0

\* The first difference of two sequences of numbers; a prefix comes first.
Lexical(s, t) ==
    LET n == IF Len(s) < Len(t) THEN Len(s) ELSE Len(t)
        diff == {i \in 1..n : s[i] # t[i]}
        first == CHOOSE i \in diff : \A k \in diff : i <= k
    IN  IF diff = {} THEN Sign(Len(s) - Len(t)) ELSE Sign(s[first] - t[first])

total_cmp(f, g) ==
    LET Place(x) == IF is_sign_positive(x) THEN Mag(x) ELSE -Mag(x) - 1 IN Sign(Place(f) - Place(g))

\* OrderedFloat, for the elements of vectors: one zero, one NaN, NaN on top.
OrderedFloat(f, g) ==
    LET Place(x) == IF is_nan(x) THEN 100 ELSE IF is_infinite(x) THEN (IF is_sign_positive(x) THEN 99 ELSE -99)
                    ELSE Twice(x)
    IN  Sign(Place(f) - Place(g))

Num_cmp(v, w) ==
    CASE v[1] = "Int" /\ w[1] = "Int" -> Sign(v[2] - w[2])
      [] v[1] = "Float" /\ w[1] = "Float" -> total_cmp(v[2], w[2])
      [] v[1] = "Int" /\ w[1] = "Float" -> IF total_cmp(as_f64(v[2]), w[2]) = 1 THEN 1 ELSE -1
      [] v[1] = "Float" /\ w[1] = "Int" -> IF total_cmp(v[2], as_f64(w[2])) = -1 THEN -1 ELSE 1

FirstDifference(orders) ==
    LET diff == {i \in DOMAIN orders : orders[i] # 0}
    IN  IF diff = {} THEN 0 ELSE orders[CHOOSE i \in diff : \A k \in diff : i <= k]

Vector_cmp(v, w) ==
    IF v[1] # w[1] THEN (IF v[1] = "F32" THEN -1 ELSE 1)
    ELSE IF Len(v[2]) # Len(w[2]) THEN Sign(Len(v[2]) - Len(w[2]))
    ELSE FirstDifference([i \in DOMAIN v[2] |-> OrderedFloat(v[2][i], w[2][i])])

\* Both parts of a validity are sorted descendingly.
Validity_cmp(v, w) ==
    IF v[1] # w[1] THEN Sign(w[1] - v[1])
    ELSE IF v[2] = w[2] THEN 0 ELSE IF v[2] THEN -1 ELSE 1

\* The order of the variants of the enum.
Variant ==
    [Null |-> 1, Bool |-> 2, Int |-> 3, Float |-> 3, Str |-> 4, Bytes |-> 5, Uuid |-> 6, Regex |-> 7, List |-> 8,
     Set |-> 9, Vec |-> 10, Json |-> 11, Validity |-> 12, Bot |-> 13]

\* The text of a JSON value, a sequence of tokens (serde_json's to_string).  Its
\* numbers are told by their kind.
RECURSIVE to_string(_)
to_string(j) ==
    CASE j[1] = "null" -> <<1>>
      [] j[1] = "bool" -> IF j[2] THEN <<2>> ELSE <<3>>
      [] j[1] = "int" -> <<40 + j[2]>>
      [] j[1] = "float" -> <<80 + j[2]>>
      [] j[1] = "string" -> <<4>> \o j[2] \o <<4>>
      [] j[1] = "array" -> <<5>> \o FlattenSeq([i \in DOMAIN j[2] |-> to_string(j[2][i])]) \o <<6>>
      [] j[1] = "object" -> <<7>> \o FlattenSeq([i \in DOMAIN j[2] |-> j[2][i][1] \o <<9>> \o to_string(j[2][i][2])])
                            \o <<8>>

RECURSIVE cmp(_, _), Tuple_cmp(_, _)
cmp(v, w) ==
    IF Variant[v[1]] # Variant[w[1]] THEN Sign(Variant[v[1]] - Variant[w[1]])
    ELSE CASE v[1] \in {"Null", "Bot"} -> 0
           [] v[1] = "Bool" -> IF v[2] = w[2] THEN 0 ELSE IF w[2] THEN -1 ELSE 1
           [] IsNum(v) -> Num_cmp(v, w)
           [] v[1] \in {"Str", "Bytes", "Regex"} -> Lexical(v[2], w[2])
           [] v[1] = "Uuid" -> Sign(v[2] - w[2])
           [] v[1] \in {"List", "Set"} -> Tuple_cmp(v[2], w[2])
           [] v[1] = "Vec" -> Vector_cmp(v[2], w[2])
           [] v[1] = "Json" -> Lexical(to_string(v[2]), to_string(w[2]))
           [] v[1] = "Validity" -> Validity_cmp(v[2], w[2])
Tuple_cmp(s, t) ==
    IF s = <<>> \/ t = <<>> THEN Sign(Len(s) - Len(t))
    ELSE LET c == cmp(s[1], t[1]) IN IF c # 0 THEN c ELSE Tuple_cmp(Tail(s), Tail(t))

\* BTreeSet::insert keeps the element that is there.
Inserted(S, v, orders) ==
    LET before == Cardinality({i \in DOMAIN S : orders[i] = -1})
    IN  IF \E i \in DOMAIN S : orders[i] = 0 THEN S ELSE SubSeq(S, 1, before) \o <<v>> \o SubSeq(S, before + 1, Len(S))
Insert(S, v) == Inserted(S, v, [i \in DOMAIN S |-> cmp(S[i], v)])
Collected(s) == FoldLeft(Insert, <<>>, s)

-----------------------------------------------------------------------------
(* JSON *)

JNull == <<"null">>
JBool(b) == <<"bool", b>>
JInt(i) == <<"int", i>>
JString(s) == <<"string", s>>
JArray(s) == <<"array", s>>
JObject(s) == <<"object", s>>          \* pairs of a key and a value, by key

\* json!(f): a number that is not finite has no JSON.
JFloat(f) == IF is_finite(f) THEN <<"float", f>> ELSE JNull
InfText(f) == IF is_sign_positive(f) THEN <<9>> ELSE <<9, 9>>

RECURSIVE FromJson(_)
FromJson(j) ==
    CASE j[1] = "null" -> Null
      [] j[1] = "bool" -> Bool(j[2])
      [] j[1] = "int" -> IntV(j[2])
      [] j[1] = "float" -> FloatV(j[2])
      [] j[1] = "string" -> Str(j[2])
      [] j[1] = "array" -> List([i \in DOMAIN j[2] |-> FromJson(j[2][i])])
      [] j[1] = "object" -> Json(j)

\* For every value but Bot, which panics.
RECURSIVE ToJson(_)
ToJson(v) ==
    CASE v[1] = "Null" -> JNull
      [] v[1] = "Bool" -> JBool(v[2])
      [] v[1] = "Int" -> JInt(v[2])
      [] v[1] = "Float" -> IF is_infinite(v[2]) THEN JString(InfText(v[2])) ELSE JFloat(v[2])
      [] v[1] \in {"Str", "Regex"} -> JString(v[2])
      [] v[1] = "Bytes" -> JString(Base64Text(v[2]))
      [] v[1] = "Uuid" -> JString(UuidText(v[2]))
      [] v[1] \in {"List", "Set"} -> JArray([i \in DOMAIN v[2] |-> ToJson(v[2][i])])
      [] v[1] = "Vec" -> JArray([i \in DOMAIN v[2][2] |-> JFloat(v[2][2][i])])
      [] v[1] = "Validity" -> JArray(<<JInt(v[2][1]), JBool(v[2][2])>>)
      [] v[1] = "Json" -> v[2]

-----------------------------------------------------------------------------
(* Functions *)

Panic == <<"Panic", 0>>
Term(f, x) == <<f, x>>

Abs(i) == IF i < 0 THEN -i ELSE i
MinOf(S) == CHOOSE i \in S : \A k \in S : i <= k
OneBool(b) == {Bool(b)}

-----------------------------------------------------------------------------
(* Arithmetic of floats (IEEE 754) *)

NaN64 == NanMag
NegZero == SignMark
IsZero(f) == Mag(f) = 0
Signed(f, positive) == IF positive THEN Mag(f) ELSE SignMark + Mag(f)
SameSign(f, g) == is_sign_positive(f) = is_sign_positive(g)

fadd(f, g) ==
    CASE is_nan(f) \/ is_nan(g) -> NaN64
      [] is_infinite(f) /\ is_infinite(g) -> IF SameSign(f, g) THEN f ELSE NaN64
      [] is_infinite(f) -> f
      [] is_infinite(g) -> g
      [] IsZero(f) /\ IsZero(g) /\ SameSign(f, g) -> f
      [] OTHER -> Rounded(Twice(f) + Twice(g), 1)
fmul(f, g) ==
    CASE is_nan(f) \/ is_nan(g) -> NaN64
      [] is_infinite(f) \/ is_infinite(g) ->
            IF IsZero(f) \/ IsZero(g) THEN NaN64 ELSE Signed(InfMag, SameSign(f, g))
      [] OTHER -> Signed(Rounded(Twice(f) * Twice(g), 2), SameSign(f, g))
fdiv(f, g) ==
    CASE is_nan(f) \/ is_nan(g) \/ (IsZero(f) /\ IsZero(g)) \/ (is_infinite(f) /\ is_infinite(g)) -> NaN64
      [] is_infinite(f) \/ IsZero(g) -> Signed(InfMag, SameSign(f, g))
      [] is_infinite(g) -> Signed(0, SameSign(f, g))
      [] OTHER -> Signed(Rounded(2 * Doubled[Mag(f) + 1], Doubled[Mag(g) + 1]), SameSign(f, g))
frem(f, g) ==
    CASE is_nan(f) \/ is_nan(g) \/ is_infinite(f) \/ IsZero(g) -> NaN64
      [] is_infinite(g) -> f
      [] OTHER -> Signed(Rounded(Doubled[Mag(f) + 1] % Doubled[Mag(g) + 1], 1), is_sign_positive(f))
fop(op, f, g) ==
    CASE op \in {"add", "sub"} -> fadd(f, IF op = "sub" THEN Negated(g) ELSE g)
      [] op = "mul" -> fmul(f, g)
      [] op = "div" -> fdiv(f, g)
      [] op = "mod" -> frem(f, g)

\* f < g of f64.
fless(f, g) == ~is_nan(f) /\ ~is_nan(g) /\ OrderedFloat(f, g) = -1
fequal(f, g) == ~is_nan(f) /\ ~is_nan(g) /\ OrderedFloat(f, g) = 0

Float(v) == CHOOSE f \in get_float(v) : TRUE

-----------------------------------------------------------------------------
(* Logic and comparison *)

op_coalesce(a) ==
    LET found == {i \in DOMAIN a : a[i] # Null} IN {IF found = {} THEN Null ELSE a[MinOf(found)]}

\* The first argument that decides ends the scan, so that what follows it may be
\* anything.
Decide(a, deciding) ==
    LET stops == {i \in DOMAIN a : get_bool(a[i]) # {~deciding}}
    IN  IF stops = {} THEN OneBool(~deciding)
        ELSE IF get_bool(a[MinOf(stops)]) = {} THEN {} ELSE OneBool(deciding)
op_and(a) == Decide(a, FALSE)
op_or(a) == Decide(a, TRUE)
op_negate(a) == {Bool(~b) : b \in get_bool(a[1])}
op_assert(a) == IF a[1] = Bool(TRUE) THEN {a[1]} ELSE {}

Mixed(v, w) == IsNum(v) /\ IsNum(w) /\ v[1] # w[1]

\* DataValue's ==.
Same(v, w) == cmp(v, w) = 0
op_eq(a) == OneBool(IF Mixed(a[1], a[2]) THEN fequal(Float(a[1]), Float(a[2])) ELSE Same(a[1], a[2]))
op_neq(a) == OneBool(IF Mixed(a[1], a[2]) THEN ~fequal(Float(a[1]), Float(a[2])) ELSE ~Same(a[1], a[2]))

ensure_same_value_type(v, w) ==
    /\ Variant[v[1]] = Variant[w[1]]
    /\ v[1] \notin {"Uuid", "Vec", "Json", "Validity"}

\* How two floats are ordered: not at all if one is NaN.
fcompare(f, g) == IF is_nan(f) \/ is_nan(g) THEN {} ELSE {OrderedFloat(f, g)}
Compared(op, order) ==
    CASE op = "lt" -> order = {-1}
      [] op = "le" -> order \in {{-1}, {0}}
      [] op = "gt" -> order = {1}
      [] op = "ge" -> order \in {{0}, {1}}
op_compare(op, a) ==
    IF ~ensure_same_value_type(a[1], a[2]) THEN {}
    ELSE OneBool(Compared(op, IF Mixed(a[1], a[2]) THEN fcompare(Float(a[1]), Float(a[2])) ELSE {cmp(a[1], a[2])}))

\* Num::max keeps the later of two equals, Num::min the earlier.
op_max(a) ==
    IF \A i \in DOMAIN a : IsNum(a[i])
    THEN {FoldLeft(LAMBDA x, y : IF cmp(x, y) = 1 THEN x ELSE y, a[1], Tail(a))} ELSE {}
op_min(a) ==
    IF \A i \in DOMAIN a : IsNum(a[i])
    THEN {FoldLeft(LAMBDA x, y : IF cmp(x, y) = 1 THEN y ELSE x, a[1], Tail(a))} ELSE {}

op_is_in(a) ==
    IF a[2][1] # "List" THEN {} ELSE OneBool(\E i \in DOMAIN a[2][2] : Same(a[2][2][i], a[1]))

\* The tests that only look at the variant.
op_is(op, a) ==
    LET v == a[1]
    IN  OneBool(CASE op = "is_null" -> v[1] = "Null"
                  [] op = "is_int" -> v[1] = "Int"
                  [] op = "is_float" -> v[1] = "Float"
                  [] op = "is_num" -> IsNum(v)
                  [] op = "is_finite" -> v[1] = "Int" \/ (v[1] = "Float" /\ is_finite(v[2]))
                  [] op = "is_infinite" -> v[1] = "Float" /\ is_infinite(v[2])
                  [] op = "is_nan" -> v[1] = "Float" /\ is_nan(v[2])
                  [] op = "is_string" -> v[1] = "Str"
                  [] op = "is_list" -> v[1] \in {"List", "Set"}
                  [] op = "is_vec" -> v[1] = "Vec"
                  [] op = "is_bytes" -> v[1] = "Bytes"
                  [] op = "is_uuid" -> v[1] = "Uuid"
                  [] op = "is_json" -> v[1] = "Json")

-----------------------------------------------------------------------------
(* Arithmetic *)

\* Two numbers, or what mapv makes of a vector: f32 results are rounded to f32.
Cast(t, f) == IF t = "F32" THEN as_f32(f) ELSE f
Scalars2(op, v, w) ==
    IF v[1] = "Int" /\ w[1] = "Int" THEN
        CASE op = "sub" -> {IntV(Wrap(v[2] - w[2]))}
          [] op = "div" -> {FloatV(fdiv(as_f64(v[2]), as_f64(w[2])))}
          [] op = "mod" -> IF w[2] = 0 THEN {} ELSE IF v[2] = IntMin /\ w[2] = -1 THEN {Panic}
                           ELSE LET r == Abs(v[2]) % Abs(w[2]) IN {IntV(IF v[2] < 0 THEN -r ELSE r)}
    ELSE {FloatV(fop(op, Float(v), Float(w)))}

\* Two vectors, of f64 unless both are of f32.  `add` and `mul` refuse different
\* lengths; `sub` and `div` leave it to ndarray, which stretches a vector of
\* one element and panics otherwise.
VecVec(op, x, y) ==
    LET t == IF x[1] = "F32" /\ y[1] = "F32" THEN "F32" ELSE "F64"
        m == Len(x[2])
        n == Len(y[2])
    IN  IF m # n /\ op \in {"add", "mul"} THEN {}
        ELSE IF m # n /\ m # 1 /\ n # 1 THEN {Panic}
        ELSE {<<t, x[2], y[2]>>}

\* The type of the result and the two sides.  A number is stretched too, and
\* number - vector is computed as -(vector - number).
Sides(op, v, w) ==
    CASE v[1] = "Vec" /\ w[1] = "Vec" -> VecVec(op, v[2], w[2])
      [] v[1] = "Vec" /\ w[1] # "Vec" -> {<<v[2][1], v[2][2], <<Cast(v[2][1], f)>>>> : f \in get_float(w)}
      [] v[1] # "Vec" /\ w[1] = "Vec" /\ op = "sub" -> {<<w[2][1], w[2][2], <<Cast(w[2][1], f)>>>> : f \in get_float(v)}
      [] v[1] # "Vec" /\ w[1] = "Vec" /\ op # "sub" -> {<<w[2][1], <<Cast(w[2][1], f)>>, w[2][2]>> : f \in get_float(v)}
      [] OTHER -> {}
Elementwise(op, t, x, y, negated) ==
    LET At(s, i) == IF Len(s) = 1 THEN s[1] ELSE s[i]
        Result(r) == IF negated THEN Negated(r) ELSE r
    IN  Vec(t, [i \in 1..(IF Len(x) = 1 THEN Len(y) ELSE Len(x)) |-> Result(Cast(t, fop(op, At(x, i), At(y, i))))])
Vectors2(op, v, w) ==
    {IF p = Panic THEN p ELSE Elementwise(op, p[1], p[2], p[3], op = "sub" /\ v[1] # "Vec") : p \in Sides(op, v, w)}

\* add_vecs(first) before the last argument, down to the first.
add_vecs(a) == FoldLeft(LAMBDA acc, w : UNION {Vectors2("add", v, w) : v \in acc}, {a[1]}, Tail(a))

\* mul_vecs adds up all arguments but the last.
mul_vecs(a) ==
    IF Len(a) = 1 THEN {a[1]} ELSE UNION {Vectors2("mul", v, Last(a)) : v \in add_vecs(Front(a))}

\* Integers and floats are accumulated apart; the result is an integer when the
\* floats come to nothing.
Ints(a) == SelectSeq(a, LAMBDA v : v[1] = "Int")
Floats(a) == SelectSeq(a, LAMBDA v : v[1] = "Float")
op_add(a) ==
    LET stops == {i \in DOMAIN a : ~IsNum(a[i])}
        i_accum == FoldLeft(LAMBDA s, v : Wrap(s + v[2]), 0, Ints(a))
        f_accum == FoldLeft(LAMBDA s, v : fadd(s, v[2]), 0, Floats(a))
    IN  IF stops # {} THEN (IF a[MinOf(stops)][1] = "Vec" THEN add_vecs(a) ELSE {})
        ELSE {IF IsZero(f_accum) THEN IntV(i_accum) ELSE FloatV(fadd(as_f64(i_accum), f_accum))}
op_mul(a) ==
    LET stops == {i \in DOMAIN a : ~IsNum(a[i])}
        i_accum == FoldLeft(LAMBDA s, v : Wrap(s * v[2]), 1, Ints(a))
        f_accum == FoldLeft(LAMBDA s, v : fmul(s, v[2]), as_f64(1), Floats(a))
    IN  IF stops # {} THEN (IF a[MinOf(stops)][1] = "Vec" THEN mul_vecs(a) ELSE {})
        ELSE {IF f_accum = as_f64(1) THEN IntV(i_accum) ELSE FloatV(fmul(as_f64(i_accum), f_accum))}

op_sub(a) == IF IsNum(a[1]) /\ IsNum(a[2]) THEN Scalars2("sub", a[1], a[2]) ELSE Vectors2("sub", a[1], a[2])
op_div(a) == IF IsNum(a[1]) /\ IsNum(a[2]) THEN Scalars2("div", a[1], a[2]) ELSE Vectors2("div", a[1], a[2])
op_mod(a) == IF IsNum(a[1]) /\ IsNum(a[2]) THEN Scalars2("mod", a[1], a[2]) ELSE {}

op_minus(a) ==
    CASE a[1][1] = "Int" -> {IntV(Wrap(-a[1][2]))}
      [] a[1][1] = "Float" -> {FloatV(Negated(a[1][2]))}
      [] a[1][1] = "Vec" -> {Vec(a[1][2][1], [i \in DOMAIN a[1][2][2] |-> fop("sub", 0, a[1][2][2][i])])}
      [] OTHER -> {}
op_abs(a) ==
    CASE a[1][1] = "Int" -> {IntV(Wrap(Abs(a[1][2])))}
      [] a[1][1] = "Float" -> {FloatV(Mag(a[1][2]))}
      [] a[1][1] = "Vec" -> {Vec(a[1][2][1], [i \in DOMAIN a[1][2][2] |-> Mag(a[1][2][2][i])])}
      [] OTHER -> {}

\* A negative zero has the signum of a negative number.
op_signum(a) ==
    CASE a[1][1] = "Int" -> {IntV(Sign(a[1][2]))}
      [] a[1][1] = "Float" ->
            {IF is_nan(a[1][2]) THEN FloatV(NaN64) ELSE IF ~is_sign_positive(a[1][2]) THEN IntV(-1)
             ELSE IF IsZero(a[1][2]) THEN IntV(0) ELSE IntV(1)}
      [] OTHER -> {}

\* To an integral float, with the sign of the argument also for zero.
Integral(op, f) ==
    LET t == Doubled[Mag(f) + 1]
        down == IF op = "round" THEN (t + 1) \div 2
                ELSE IF (op = "floor") = is_sign_positive(f) THEN t \div 2 ELSE (t + 1) \div 2
    IN  IF is_finite(f) THEN Signed(as_f64(down), is_sign_positive(f)) ELSE f
op_integral(op, a) ==
    CASE a[1][1] = "Int" -> {a[1]}
      [] a[1][1] = "Float" -> {FloatV(Integral(op, a[1][2]))}
      [] OTHER -> {}

\* The functions of libm: of a number, or of each element of a vector.
mapv(op, v) ==
    IF v[1] = "Vec" THEN {Vec(v[2][1], [i \in DOMAIN v[2][2] |-> Term(op, v[2][2][i])])}
    ELSE {FloatV(Term(op, f)) : f \in get_float(v)}
op_exponential(op, a) == mapv(op, a[1])
op_trigonometric(op, a) == mapv(op, a[1])
op_hyperbolic(op, a) == mapv(op, a[1])
op_sqrt(a) == mapv("sqrt", a[1])
op_atan2(a) == {FloatV(Term("atan2", <<f, g>>)) : f \in get_float(a[1]), g \in get_float(a[2])}
op_pow(a) ==
    IF a[1][1] = "Vec"
    THEN {Vec(a[1][2][1], [i \in DOMAIN a[1][2][2] |-> Term("pow", <<a[1][2][2][i], Cast(a[1][2][1], f)>>)]) :
            f \in get_float(a[2])}
    ELSE {FloatV(Term("pow", <<f, g>>)) : f \in get_float(a[1]), g \in get_float(a[2])}

\* haversine and haversine_deg_input; deg_to_rad and rad_to_deg.
op_haversine(op, a) ==
    IF \A i \in 1..4 : IsNum(a[i]) THEN {FloatV(Term(op, [i \in 1..4 |-> Float(a[i])]))} ELSE {}
op_angle(op, a) == {FloatV(Term(op, f)) : f \in get_float(a[1])}

-----------------------------------------------------------------------------
(* Bits.  A byte has ByteBits bits (8), the first the most significant.    *)

ByteBits == 3
BitOf(b, k) == (b \div 2 ^ (ByteBits - k)) % 2 = 1
ByteOf(bits) == FoldLeft(LAMBDA n, b : 2 * n + (IF b THEN 1 ELSE 0), 0, bits)
BitsOf(b) == [k \in 1..ByteBits |-> BitOf(b, k)]

\* bit_and, bit_or and bit_xor.
op_bitwise(op, a) ==
    LET Combined(x, y) ==
            CASE op = "bit_and" -> x /\ y [] op = "bit_or" -> x \/ y [] op = "bit_xor" -> x # y
    IN  IF a[1][1] = "Bytes" /\ a[2][1] = "Bytes" /\ Len(a[1][2]) = Len(a[2][2])
        THEN {Bytes([i \in DOMAIN a[1][2] |->
                       ByteOf([k \in 1..ByteBits |-> Combined(BitOf(a[1][2][i], k), BitOf(a[2][2][i], k))])])}
        ELSE {}
op_bit_not(a) ==
    IF a[1][1] = "Bytes" THEN {Bytes([i \in DOMAIN a[1][2] |-> 2 ^ ByteBits - 1 - a[1][2][i]])} ELSE {}
op_unpack_bits(a) ==
    IF a[1][1] = "Bytes"
    THEN {List([i \in 1..(ByteBits * Len(a[1][2])) |->
                  Bool(BitOf(a[1][2][((i - 1) \div ByteBits) + 1], ((i - 1) % ByteBits) + 1))])}
    ELSE {}

\* Padded with zeroes; a set of booleans is taken as the list of its elements.
op_pack_bits(a) ==
    LET v == a[1][2]
        l == (Len(v) + ByteBits - 1) \div ByteBits
        At(i) == i <= Len(v) /\ v[i][2]
    IN  IF a[1][1] \in {"List", "Set"} /\ \A i \in DOMAIN v : v[i][1] = "Bool"
        THEN {Bytes([c \in 1..l |-> ByteOf([k \in 1..ByteBits |-> At((c - 1) * ByteBits + k)])])}
        ELSE {}

-----------------------------------------------------------------------------
(* Strings.  The alphabet has a blank and two letters in both cases.       *)

Blank == 32
Lower(c) == IF c \in 65..66 THEN c + 32 ELSE c
Upper(c) == IF c \in 97..98 THEN c - 32 ELSE c
Mapped(s, lower) == [i \in DOMAIN s |-> IF lower THEN Lower(s[i]) ELSE Upper(s[i])]
Occurs(t, s, i) == i + Len(t) - 1 <= Len(s) /\ SubSeq(s, i, i + Len(t) - 1) = t
Places(t, s) == {i \in 1..(Len(s) + 1) : Occurs(t, s, i)}
Trimmed(s, start, end) ==
    LET ink == {i \in DOMAIN s : s[i] # Blank}
        from == IF start THEN MinOf(ink) ELSE 1
        to == IF end THEN CHOOSE i \in ink : \A k \in ink : k <= i ELSE Len(s)
    IN  IF ink = {} /\ s # <<>> THEN <<>> ELSE IF s = <<>> THEN s ELSE SubSeq(s, from, to)

\* lowercase, uppercase, trim, trim_start, trim_end.
op_letters(op, a) ==
    IF a[1][1] # "Str" THEN {}
    ELSE {Str(CASE op = "lowercase" -> Mapped(a[1][2], TRUE)
                [] op = "uppercase" -> Mapped(a[1][2], FALSE)
                [] op = "trim" -> Trimmed(a[1][2], TRUE, TRUE)
                [] op = "trim_start" -> Trimmed(a[1][2], TRUE, FALSE)
                [] op = "trim_end" -> Trimmed(a[1][2], FALSE, TRUE))}
op_str_includes(a) == IF a[1][1] = "Str" /\ a[2][1] = "Str" THEN OneBool(Places(a[2][2], a[1][2]) # {}) ELSE {}
op_starts_with(a) ==
    IF a[1][1] = a[2][1] /\ a[1][1] \in {"Str", "Bytes"} THEN OneBool(IsPrefix(a[2][2], a[1][2])) ELSE {}
op_ends_with(a) ==
    IF a[1][1] = a[2][1] /\ a[1][1] \in {"Str", "Bytes"} THEN OneBool(IsSuffix(a[2][2], a[1][2])) ELSE {}
op_unicode_normalize(a) ==
    IF a[1][1] = "Str" /\ a[2][1] = "Str" /\ a[2][2] \in {<<1>>, <<2>>, <<3>>, <<4>>}
    THEN {Str(Term(a[2][2], a[1][2]))} ELSE {}
op_t2s(a) == {IF a[1][1] = "Str" THEN Str(Term("t2s", a[1][2])) ELSE a[1]}
op_chars(a) == IF a[1][1] = "Str" THEN {List([i \in DOMAIN a[1][2] |-> Str(<<a[1][2][i]>>)])} ELSE {}
op_from_substrings(a) ==
    IF a[1][1] \in {"List", "Set"} /\ \A i \in DOMAIN a[1][2] : a[1][2][i][1] = "Str"
    THEN {Str(FlattenSeq([i \in DOMAIN a[1][2] |-> a[1][2][i][2]]))} ELSE {}
op_slice_string(a) ==
    {Str(SubSeq(a[1][2], m + 1, IF n < Len(a[1][2]) THEN n ELSE Len(a[1][2]))) :
        <<m, n>> \in {p \in get_int(a[2]) \X get_int(a[3]) : a[1][1] = "Str" /\ p[1] >= 0 /\ p[2] >= p[1]}}

\* Regular expressions: a pattern stands for itself, and <<0>> is none.
op_regex(a) ==
    IF a[1][1] = "Regex" THEN {a[1]}
    ELSE IF a[1][1] = "Str" /\ a[1][2] # <<0>> THEN {Regex(a[1][2])} ELSE {}
Applicable(a) == a[1][1] = "Str" /\ a[2][1] = "Regex" /\ (Len(a) = 3 => a[3][1] = "Str")

\* The matches from the left, none within another.
RECURSIVE find_iter(_, _, _)
find_iter(t, s, from) ==
    LET at == {i \in Places(t, s) : i >= from}
    IN  IF at = {} THEN <<>>
        ELSE <<MinOf(at)>> \o find_iter(t, s, MinOf(at) + (IF t = <<>> THEN 1 ELSE Len(t)))
op_regex_matches(a) == IF Applicable(a) THEN OneBool(Places(a[2][2], a[1][2]) # {}) ELSE {}
op_regex_replace(op, a) ==
    LET found == find_iter(a[2][2], a[1][2], 1)
        used == IF op = "regex_replace" /\ found # <<>> THEN <<found[1]>> ELSE found
        width == Len(a[2][2])
        End(i) == IF i = Len(used) THEN Len(a[1][2]) ELSE used[i + 1] - 1
    IN  IF ~Applicable(a) THEN {}
        ELSE IF used = <<>> THEN {a[1]}
        ELSE {Str(SubSeq(a[1][2], 1, used[1] - 1)
                  \o FlattenSeq([i \in DOMAIN used |-> a[3][2] \o SubSeq(a[1][2], used[i] + width, End(i))]))}
op_regex_extract(a) ==
    IF Applicable(a) THEN {List([i \in DOMAIN find_iter(a[2][2], a[1][2], 1) |-> Str(a[2][2])])} ELSE {}
op_regex_extract_first(a) ==
    IF ~Applicable(a) THEN {} ELSE {IF Places(a[2][2], a[1][2]) = {} THEN Null ELSE Str(a[2][2])}

-----------------------------------------------------------------------------
(* JSON.  An index is cast to usize: a negative one is beyond every array. *)

RECURSIVE to_json(_)
to_json(v) ==
    CASE v[1] = "Bytes" -> JArray([i \in DOMAIN v[2] |-> JInt(v[2][i])])
      [] v[1] = "Uuid" -> JArray(<<JInt(v[2])>>)
      [] v[1] = "Float" -> JFloat(v[2])
      [] v[1] \in {"List", "Set"} -> JArray([i \in DOMAIN v[2] |-> to_json(v[2][i])])
      [] v[1] = "Bot" -> JNull
      [] OTHER -> ToJson(v)

\* The text of a value, as a key of an object.
val2str(v) ==
    CASE v[1] = "Str" -> v[2]
      [] v[1] = "Json" /\ v[2][1] = "string" -> v[2][2]
      [] OTHER -> to_string(to_json(v))

Entry(o, k) == {p[2] : p \in {o[i] : i \in {n \in DOMAIN o : o[n][1] = k}}}
Without(o, k) == SelectSeq(o, LAMBDA p : p[1] # k)
With(o, k, j) ==
    SelectSeq(o, LAMBDA p : Lexical(p[1], k) = -1) \o <<<<k, j>>>> \o SelectSeq(o, LAMBDA p : Lexical(p[1], k) = 1)

json2val(j) == IF j[1] \in {"array", "object"} THEN Json(j) ELSE FromJson(j)

RECURSIVE get_json_path_immutable(_, _)
get_json_path_immutable(j, path) ==
    IF path = <<>> THEN {j}
    ELSE LET down == CASE j[1] = "object" -> Entry(j[2], val2str(path[1]))
                       [] j[1] = "array" -> {j[2][i + 1] : i \in {k \in get_int(path[1]) : k >= 0 /\ k < Len(j[2])}}
                       [] OTHER -> {}
         IN  UNION {get_json_path_immutable(d, Tail(path)) : d \in down}

\* get_json_path and the assignment through the pointer it returns: an object
\* gets the keys that it lacks, an array is filled up with null.  A negative
\* index asks for more room than there is.
RECURSIVE set_at(_, _, _)
set_at(j, path, new) ==
    IF path = <<>> THEN {new}
    ELSE CASE j[1] = "object" ->
                LET k == val2str(path[1])
                    child == IF Entry(j[2], k) = {} THEN JObject(<<>>) ELSE CHOOSE e \in Entry(j[2], k) : TRUE
                IN  {IF d = Panic THEN Panic ELSE JObject(With(j[2], k, d)) : d \in set_at(child, Tail(path), new)}
           [] j[1] = "array" ->
                UNION {IF i < 0 THEN {Panic}
                       ELSE LET arr == [n \in 1..(IF i + 1 > Len(j[2]) THEN i + 1 ELSE Len(j[2])) |->
                                          IF n <= Len(j[2]) THEN j[2][n] ELSE JNull]
                            IN  {IF d = Panic THEN Panic ELSE JArray([arr EXCEPT ![i + 1] = d]) :
                                   d \in set_at(arr[i + 1], Tail(path), new)} :
                       i \in get_int(path[1])}
           [] OTHER -> {}
Documents(S) == {IF d = Panic THEN d ELSE Json(d) : d \in S}

op_json(a) == {Json(to_json(a[1]))}
op_set_json_path(a) ==
    IF a[2][1] # "List" THEN {} ELSE Documents(set_at(to_json(a[1]), a[2][2], to_json(a[3])))

\* The way to the last key is made if it is not there; Vec::remove panics beyond
\* the end.
RECURSIVE remove_at(_, _)
RemoveBelow(j, path, made, child) ==
    LET from == IF child # {} THEN child ELSE IF j[1] = "object" THEN {JObject(<<>>)} ELSE {JNull}
    IN  IF made = {} \/ Panic \in made THEN made
        ELSE UNION {IF d = Panic THEN {Panic} ELSE set_at(j, <<path[1]>>, d) :
                      d \in UNION {remove_at(c, Tail(path)) : c \in from}}
remove_at(j, path) ==
    IF Len(path) = 1
    THEN CASE j[1] = "object" -> {JObject(Without(j[2], val2str(path[1])))}
           [] j[1] = "array" ->
                {IF i < 0 \/ i >= Len(j[2]) THEN Panic ELSE JArray(RemoveAt(j[2], i + 1)) : i \in get_int(path[1])}
           [] OTHER -> {}
    ELSE RemoveBelow(j, path, set_at(j, <<path[1]>>, JNull), get_json_path_immutable(j, <<path[1]>>))
op_remove_json_path(a) ==
    IF a[2][1] # "List" \/ a[2][2] = <<>> THEN {} ELSE Documents(remove_at(to_json(a[1]), a[2][2]))

op_json_object(a) ==
    IF Len(a) % 2 = 1 THEN {}
    ELSE {Json(JObject(FoldLeft(LAMBDA o, i : With(o, val2str(a[2 * i - 1]), to_json(a[2 * i])), <<>>,
                                [i \in 1..(Len(a) \div 2) |-> i])))}
op_json_to_scalar(a) == {IF a[1][1] = "Json" THEN json2val(a[1][2]) ELSE a[1]}

\* serde_json's parser knows the documents of JsonValues.
op_parse_json(a) == IF a[1][1] = "Str" THEN {Json(j) : j \in {d \in JsonValues : to_string(d) = a[1][2]}} ELSE {}
op_dump_json(a) == IF a[1][1] = "Json" THEN {Str(to_string(a[1][2]))} ELSE {}

RECURSIVE deep_merge_json(_, _)
deep_merge_json(i, j) ==
    CASE i[1] = "object" /\ j[1] = "object" ->
            JObject(FoldLeft(LAMBDA o, p : With(o, p[1],
                                                deep_merge_json(IF Entry(o, p[1]) = {} THEN JNull
                                                                ELSE CHOOSE e \in Entry(o, p[1]) : TRUE, p[2])),
                             i[2], j[2]))
      [] i[1] = "array" /\ j[1] = "array" -> JArray(i[2] \o j[2])
      [] OTHER -> j

-----------------------------------------------------------------------------
(* Lists *)

IsList(v) == v[1] \in {"List", "Set"}
get_slice(v) == IF v[1] = "List" THEN {v[2]} ELSE {}

op_list(a) == {List(a)}
op_append(a) == IF IsList(a[1]) THEN {List(Append(a[1][2], a[2]))} ELSE {}
op_prepend(a) == IF IsList(a[1]) THEN {List(<<a[2]>> \o a[1][2])} ELSE {}
op_concat(a) ==
    CASE a[1][1] = "Str" ->
            IF \A i \in DOMAIN a : a[i][1] = "Str" THEN {Str(FlattenSeq([i \in DOMAIN a |-> a[i][2]]))} ELSE {}
      [] IsList(a[1]) ->
            IF \A i \in DOMAIN a : IsList(a[i]) THEN {List(FlattenSeq([i \in DOMAIN a |-> a[i][2]]))} ELSE {}
      [] a[1][1] = "Json" ->
            IF \A i \in DOMAIN a : a[i][1] = "Json"
            THEN {Json(FoldLeft(LAMBDA j, v : deep_merge_json(j, v[2]), JNull, a))} ELSE {}
      [] OTHER -> {}
op_length(a) ==
    CASE a[1][1] \in {"Set", "List", "Str", "Bytes"} -> {IntV(Len(a[1][2]))}
      [] a[1][1] = "Vec" -> {IntV(Len(a[1][2][2]))}
      [] OTHER -> {}
op_sorted(a) == {List(SortSeq(s, LAMBDA v, w : cmp(v, w) = -1)) : s \in get_slice(a[1])}
op_reverse(a) == {List(Reverse(s)) : s \in get_slice(a[1])}
op_first(a) == {IF s = <<>> THEN Null ELSE s[1] : s \in get_slice(a[1])}
op_last(a) == {IF s = <<>> THEN Null ELSE Last(s) : s \in get_slice(a[1])}

Sizes(a) == {p \in get_slice(a[1]) \X get_int(a[2]) : p[2] > 0}
op_chunks(a) ==
    {List([c \in 1..((Len(p[1]) + p[2] - 1) \div p[2]) |->
             List(SubSeq(p[1], (c - 1) * p[2] + 1, IF c * p[2] < Len(p[1]) THEN c * p[2] ELSE Len(p[1])))]) :
        p \in Sizes(a)}
op_chunks_exact(a) ==
    {List([c \in 1..(Len(p[1]) \div p[2]) |-> List(SubSeq(p[1], (c - 1) * p[2] + 1, c * p[2]))]) : p \in Sizes(a)}
op_windows(a) ==
    {List([c \in 1..(IF p[2] > Len(p[1]) THEN 0 ELSE Len(p[1]) - p[2] + 1) |-> List(SubSeq(p[1], c, c + p[2] - 1))]) :
        p \in Sizes(a)}

get_index(i, total, is_upper) ==
    LET k == IF i < 0 THEN i + total ELSE i
    IN  IF k >= 0 /\ (k < total \/ (is_upper /\ k = total)) THEN {k} ELSE {}

AtIndex(l, n) == {l[k + 1] : k \in get_index(n, Len(l), FALSE)}
get_impl(a) ==
    CASE a[1][1] = "List" ->
            UNION {AtIndex(a[1][2], n) : n \in get_int(a[2])}
      [] a[1][1] = "Json" ->
            LET j == a[1][2]
                found == CASE a[2][1] = "Str" -> IF j[1] = "object" THEN Entry(j[2], a[2][2]) ELSE {}
                           [] IsNum(a[2]) ->
                                IF j[1] = "array" THEN {j[2][i + 1] : i \in {k \in get_int(a[2]) : k >= 0 /\ k < Len(j[2])}}
                                ELSE {}
                           [] a[2][1] = "List" -> get_json_path_immutable(j, a[2][2])
                           [] OTHER -> {}
            IN  {json2val(d) : d \in found}
      [] OTHER -> {}
Found(S, default) == IF S = {} THEN default ELSE S
op_get(a) == Found(get_impl(a), IF Len(a) >= 3 THEN {a[3]} ELSE {})
op_maybe_get(a) == Found(get_impl(a), {Null})

\* l[m..n] panics when m > n.
op_slice(a) ==
    {IF b[1] > b[2] THEN Panic ELSE List(SubSeq(a[1][2], b[1] + 1, b[2])) :
        b \in UNION {get_index(p[2], Len(p[1]), FALSE) \X get_index(p[3], Len(p[1]), TRUE) :
                       p \in get_slice(a[1]) \X get_int(a[2]) \X get_int(a[3])}}

AllLists(a) == \A i \in DOMAIN a : IsList(a[i])
Holds(s, v) == \E i \in DOMAIN s : cmp(s[i], v) = 0
op_union(a) == IF AllLists(a) THEN {List(Collected(FlattenSeq([i \in DOMAIN a |-> a[i][2]])))} ELSE {}
op_difference(a) ==
    IF AllLists(a)
    THEN {List(SelectSeq(Collected(a[1][2]), LAMBDA v : \A i \in 2..Len(a) : ~Holds(a[i][2], v)))} ELSE {}
op_intersection(a) ==
    IF AllLists(a)
    THEN {List(SelectSeq(Collected(a[1][2]), LAMBDA v : \A i \in 2..Len(a) : Holds(a[i][2], v)))} ELSE {}

\* With a step the loop adds it, wrapping around, until the end is passed; a
\* loop that meets more numbers than there are never ends.
Endless == <<"Endless", 0>>
RECURSIVE range_loop(_, _, _, _)
range_loop(current, end, step, result) ==
    IF (step > 0 /\ current < end) \/ (step <= 0 /\ current > end)
    THEN IF Len(result) = 2 ^ IntBits THEN {Endless}
         ELSE range_loop(Wrap(current + step), end, step, Append(result, IntV(current)))
    ELSE {List(result)}
op_int_range(a) ==
    LET ints == [i \in DOMAIN a |-> get_int(a[i])]
        I(i) == CHOOSE n \in ints[i] : TRUE
        From(start, end) == {List([i \in 1..(IF end < start THEN 0 ELSE end - start) |-> IntV(start + i - 1)])}
    IN  IF Len(a) > 3 \/ \E i \in DOMAIN a : ints[i] = {} THEN {}
        ELSE CASE Len(a) = 1 -> From(0, I(1))
               [] Len(a) = 2 -> From(I(1), I(2))
               [] Len(a) = 3 -> range_loop(I(1), I(2), I(3), <<>>)

-----------------------------------------------------------------------------
(* Conversions.  A decimal text is the character Digits and the number.    *)

Digits == 3
IntText(s) == {t[1] : t \in {u \in Unquoted(Digits, s) : Len(u) = 1}}

op_encode_base64(a) == IF a[1][1] = "Bytes" THEN {Str(Base64Text(a[1][2]))} ELSE {}
op_decode_base64(a) == IF a[1][1] = "Str" THEN {Bytes(b) : b \in Unquoted(7, a[1][2])} ELSE {}

NonEmptyJson(j) ==
    CASE j[1] = "null" -> FALSE
      [] j[1] = "bool" -> j[2]
      [] j[1] = "int" -> j[2] # 0
      [] j[1] = "float" -> TRUE
      [] OTHER -> j[2] # <<>>
op_to_bool(a) ==
    LET v == a[1]
    IN  OneBool(CASE v[1] \in {"Null", "Bot"} -> FALSE
                  [] v[1] = "Bool" -> v[2]
                  [] IsNum(v) -> get_int(v) # {0}
                  [] v[1] \in {"Str", "Bytes", "Regex", "List", "Set"} -> v[2] # <<>>
                  [] v[1] = "Uuid" -> v[2] # 0
                  [] v[1] = "Vec" -> TRUE
                  [] v[1] = "Validity" -> v[2][2]
                  [] v[1] = "Json" -> NonEmptyJson(v[2]))
op_to_unity(a) ==
    LET v == a[1]
        One(b) == IF b THEN {IntV(1)} ELSE {IntV(0)}
    IN  CASE v[1] \in {"Null", "Bot"} -> One(FALSE)
          [] v[1] = "Bool" -> One(v[2])
          [] IsNum(v) -> One(~fequal(Float(v), 0))
          [] v[1] \in {"Str", "Bytes", "Regex", "List", "Set"} -> One(v[2] # <<>>)
          [] v[1] = "Uuid" -> One(v[2] # 0)
          [] v[1] = "Vec" -> One(TRUE)
          [] v[1] = "Validity" -> One(v[2][2])
          [] v[1] = "Json" -> One(NonEmptyJson(v[2]))
op_to_int(a) ==
    LET v == a[1]
    IN  CASE IsNum(v) -> IF get_int(v) = {} THEN {IntV(as_i64(Float(v)))} ELSE {IntV(i) : i \in get_int(v)}
          [] v[1] = "Null" -> {IntV(0)}
          [] v[1] = "Bool" -> {IntV(IF v[2] THEN 1 ELSE 0)}
          [] v[1] = "Str" -> {IntV(i) : i \in {n \in IntText(v[2]) : n \in IntMin..IntMax}}
          [] v[1] = "Validity" -> {IntV(v[2][1])}
          [] OTHER -> {}

\* The named texts (PI and E stand for other floats) come before the parser.
NamedFloat == [t \in {<<9>>, <<9, 9>>, <<9, 9, 9>>} |->
                 IF t = <<9>> THEN InfMag ELSE IF t = <<9, 9>> THEN SignMark + InfMag ELSE NaN64]
op_to_float(a) ==
    LET v == a[1]
    IN  CASE IsNum(v) -> {FloatV(Float(v))}
          [] v[1] = "Null" -> {FloatV(0)}
          [] v[1] = "Bool" -> {FloatV(as_f64(IF v[2] THEN 1 ELSE 0))}
          [] v[1] = "Str" -> IF v[2] \in DOMAIN NamedFloat THEN {FloatV(NamedFloat[v[2]])}
                             ELSE {FloatV(as_f64(i)) : i \in IntText(v[2])}
          [] OTHER -> {}
op_to_string(a) == {Str(val2str(a[1]))}
op_to_uuid(a) == {Uuid(u) : u \in get_uuid(a[1])}

\* A type name is <<1>> or <<2>>; without one, F32.
ElementType(a) ==
    IF Len(a) < 2 THEN {"F32"}
    ELSE {IF a[2][2] = <<1>> THEN "F32" ELSE "F64" : v \in {w \in {a[2]} : w[1] = "Str" /\ w[2] \in {<<1>>, <<2>>}}}

\* Of a JSON value only an array will do: anything else panics.  The bytes of a
\* base64 text are read SizeOf[t] at a time, a rest is dropped.
SizeOf == [F32 |-> 1, F64 |-> 2]
op_vec(a) ==
    LET v == a[1]
        Of(t, vals) == {Vec(t, [i \in DOMAIN vals |-> Cast(t, Float(vals[i]))]) :
                          x \in {y \in {vals} : \A i \in DOMAIN y : IsNum(y[i])}}
        Of2(t) == CASE v[1] = "Json" ->
                         IF v[2][1] # "array" THEN {Panic} ELSE Of(t, [i \in DOMAIN v[2][2] |-> FromJson(v[2][2][i])])
                    [] v[1] = "List" -> Of(t, v[2])
                    [] v[1] = "Vec" -> {Vec(t, [i \in DOMAIN v[2][2] |-> Cast(t, v[2][2][i])])}
                    [] v[1] = "Str" -> {Vec(t, [i \in 1..(Len(b) \div SizeOf[t]) |-> Term("bits", <<b, i>>)]) :
                                          b \in Unquoted(7, v[2])}
                    [] OTHER -> {}
    IN  UNION {Of2(t) : t \in ElementType(a)}

dot(t, x, y) == FoldLeft(LAMBDA s, i : Cast(t, fadd(s, Cast(t, fmul(x[i], y[i])))), 0, [i \in DOMAIN x |-> i])
Squared(t, x) == dot(t, x, x)
SameShape(v, w) == v[1] = "Vec" /\ w[1] = "Vec" /\ v[2][1] = w[2][1] /\ Len(v[2][2]) = Len(w[2][2])
op_l2_normalize(a) ==
    IF a[1][1] # "Vec" THEN {}
    ELSE LET x == a[1][2]
             norm == Term("sqrt", dot(x[1], x[2], x[2]))
         IN  {Vec(x[1], [i \in DOMAIN x[2] |-> Term("div", <<x[2][i], norm>>)])}
op_l2_dist(a) ==
    IF ~SameShape(a[1], a[2]) THEN {}
    ELSE LET t == a[1][2][1]
         IN  {FloatV(Squared(t, [i \in DOMAIN a[1][2][2] |-> Cast(t, fop("sub", a[1][2][2][i], a[2][2][2][i]))]))}
op_ip_dist(a) ==
    IF ~SameShape(a[1], a[2]) THEN {}
    ELSE {FloatV(fop("sub", as_f64(1), dot(a[1][2][1], a[1][2][2], a[2][2][2])))}
op_cos_dist(a) ==
    IF ~SameShape(a[1], a[2]) THEN {}
    ELSE LET t == a[1][2][1]
             x == a[1][2][2]
             y == a[2][2][2]
         IN  {FloatV(Term("cos_dist", <<dot(t, x, y), fmul(Squared(t, x), Squared(t, y))>>))}

-----------------------------------------------------------------------------
(* Chance and time *)

\* rng.random: an arbitrary float from 0 to below 1.
Unit == {f \in 0..(InfMag - 1) : fless(f, as_f64(1))}
op_rand_float(a) == {FloatV(f) : f \in Unit}

\* A length that does not fit panics; it is cast to usize.
op_rand_vec(a) ==
    UNION {IF p[1] < 0 THEN {Panic} ELSE {Vec(p[2], s) : s \in [1..p[1] -> {Cast(p[2], f) : f \in Unit}]} :
             p \in get_int(a[1]) \X ElementType(a)}
op_rand_bernoulli(a) ==
    IF IsNum(a[1]) /\ (fless(0, Float(a[1])) \/ IsZero(Float(a[1]))) /\ ~fless(as_f64(1), Float(a[1]))
    THEN {Bool(b) : b \in {c \in BOOLEAN : IF c THEN ~IsZero(Float(a[1])) ELSE Float(a[1]) # as_f64(1)}} ELSE {}
op_rand_int(a) ==
    UNION {IF p[1] > p[2] THEN {Panic} ELSE {IntV(i) : i \in p[1]..p[2]} : p \in get_int(a[1]) \X get_int(a[2])}
op_rand_choose(a) ==
    IF ~IsList(a[1]) THEN {} ELSE IF a[1][2] = <<>> THEN {Null} ELSE {a[1][2][i] : i \in DOMAIN a[1][2]}

\* A UUID of each version; only those of versions 1 and 7 hold a time.
UuidOf == [rand_uuid_v1 |-> {1, 5}, rand_uuid_v4 |-> {2}, rand_uuid_v7 |-> {3}, rand_uuid |-> {3}]
op_rand_uuid(op, a) == {Uuid(u) : u \in UuidOf[op]}
op_uuid_timestamp(a) ==
    IF a[1][1] # "Uuid" THEN {} ELSE {IF a[1][2] \in {1, 3, 5} THEN FloatV(Term("time", a[1][2])) ELSE Null}

op_now(a) == {FloatV(as_f64(Clock))}
op_validity(a) ==
    IF Len(a) = 1 THEN {Validity(ts, TRUE) : ts \in get_int(a[1])}
    ELSE {Validity(ts, b) : ts \in get_int(a[1]), b \in get_bool(a[2])}

\* Time: MILLIS milliseconds to the second, MICROS microseconds to the millisecond
\* (1000 each); chrono knows the times up to TimeBound milliseconds.  A text in RFC
\* 3339 is the character 6, the milliseconds and the zone, in which the instant
\* is written; the zones are <<1>> and <<2>>, UTC is 0.
MILLIS == 2
MICROS == 2
TimeBound == 12
TimeText(ms, zone) == <<6, ms, zone>>
op_format_timestamp(a) ==
    LET millis == IF a[1][1] = "Validity" THEN {IF a[1][2][1] < 0 THEN -((-a[1][2][1]) \div MICROS) ELSE a[1][2][1] \div MICROS}
                  ELSE {as_i64(fmul(f, as_f64(MILLIS))) : f \in get_float(a[1])}
        zones == IF Len(a) < 2 THEN {0}
                 ELSE {v[2][1] : v \in {w \in {a[2]} : w[1] = "Str" /\ w[2] \in {<<1>>, <<2>>}}}
    IN  {Str(TimeText(ms, z)) : ms \in {m \in millis : Abs(m) <= TimeBound}, z \in zones}

\* A time before 1970 panics.
op_parse_timestamp(a) ==
    IF a[1][1] # "Str" THEN {}
    ELSE {IF t[1] < 0 THEN Panic ELSE FloatV(Rounded(2 * t[1], MILLIS)) :
            t \in {u \in Unquoted(6, a[1][2]) : Len(u) = 2}}

-----------------------------------------------------------------------------
(* The table of functions *)

MinArity ==
    [list |-> 0, json_object |-> 0, coalesce |-> 0, add |-> 0, mul |-> 0, and |-> 0, or |-> 0,
     max |-> 1, min |-> 1, concat |-> 1, vec |-> 1, rand_vec |-> 1, int_range |-> 1, assert |-> 1, union |-> 1,
     intersection |-> 1, format_timestamp |-> 1, validity |-> 1, get |-> 2, difference |-> 2]
Nullary == {"rand_float", "now"} \cup DOMAIN UuidOf
Tests == {"is_null", "is_int", "is_float", "is_num", "is_finite", "is_infinite", "is_nan", "is_string", "is_list",
          "is_vec", "is_bytes", "is_uuid", "is_json"}
Exponentials == {"exp", "exp2", "ln", "log2", "log10"}
Trigonometrics == {"sin", "cos", "tan", "asin", "acos", "atan"}
Hyperbolics == {"sinh", "cosh", "tanh", "asinh", "acosh", "atanh"}
Letters == {"lowercase", "uppercase", "trim", "trim_start", "trim_end"}
Unary ==
    Tests \cup Exponentials \cup Trigonometrics \cup Hyperbolics \cup Letters
    \cup {"json", "parse_json", "dump_json", "json_to_scalar", "minus", "abs", "signum", "floor", "ceil", "round",
          "sqrt", "negate", "bit_not", "pack_bits", "unpack_bits", "length", "sorted", "reverse", "deg_to_rad",
          "rad_to_deg", "chars", "from_substrings", "t2s", "encode_base64", "decode_base64", "first", "last", "to_int",
          "to_float", "to_string", "l2_normalize", "rand_bernoulli", "rand_choose", "to_uuid", "to_bool", "to_unity",
          "uuid_timestamp", "parse_timestamp"}
Ternary == {"set_json_path", "slice_string", "slice", "regex_replace", "regex_replace_all"}
Binary ==
    {"remove_json_path", "sub", "div", "mod", "pow", "atan2", "eq", "neq", "gt", "ge", "lt", "le", "bit_and", "bit_or",
     "bit_xor", "str_includes", "starts_with", "ends_with", "is_in", "append", "prepend", "unicode_normalize",
     "maybe_get", "regex_matches", "regex_extract", "regex_extract_first", "chunks", "chunks_exact", "windows",
     "l2_dist", "ip_dist", "cos_dist", "rand_int"}

\* The least number of arguments and whether there may be more; "regex" is no
\* name, post_process_args puts it around patterns.
get_op(name) ==
    CASE name \in DOMAIN MinArity -> {<<MinArity[name], TRUE>>}
      [] name \in Nullary -> {<<0, FALSE>>}
      [] name \in Unary -> {<<1, FALSE>>}
      [] name \in Binary -> {<<2, FALSE>>}
      [] name \in Ternary -> {<<3, FALSE>>}
      [] name \in {"haversine", "haversine_deg_input"} -> {<<4, FALSE>>}
      [] OTHER -> {}

inner(op, a) ==
    CASE op = "list" -> op_list(a) [] op = "json" -> op_json(a) [] op = "coalesce" -> op_coalesce(a)
      [] op = "set_json_path" -> op_set_json_path(a) [] op = "remove_json_path" -> op_remove_json_path(a)
      [] op = "json_object" -> op_json_object(a) [] op = "json_to_scalar" -> op_json_to_scalar(a)
      [] op = "parse_json" -> op_parse_json(a) [] op = "dump_json" -> op_dump_json(a)
      [] op = "eq" -> op_eq(a) [] op = "neq" -> op_neq(a) [] op \in {"lt", "le", "gt", "ge"} -> op_compare(op, a)
      [] op \in Tests -> op_is(op, a) [] op = "is_in" -> op_is_in(a)
      [] op = "add" -> op_add(a) [] op = "sub" -> op_sub(a) [] op = "mul" -> op_mul(a) [] op = "div" -> op_div(a)
      [] op = "mod" -> op_mod(a) [] op = "minus" -> op_minus(a) [] op = "abs" -> op_abs(a)
      [] op = "signum" -> op_signum(a) [] op \in {"floor", "ceil", "round"} -> op_integral(op, a)
      [] op = "max" -> op_max(a) [] op = "min" -> op_min(a) [] op = "pow" -> op_pow(a) [] op = "sqrt" -> op_sqrt(a)
      [] op \in Exponentials -> op_exponential(op, a) [] op \in Trigonometrics -> op_trigonometric(op, a)
      [] op \in Hyperbolics -> op_hyperbolic(op, a) [] op = "atan2" -> op_atan2(a)
      [] op \in {"haversine", "haversine_deg_input"} -> op_haversine(op, a)
      [] op \in {"deg_to_rad", "rad_to_deg"} -> op_angle(op, a)
      [] op = "and" -> op_and(a) [] op = "or" -> op_or(a) [] op = "negate" -> op_negate(a)
      [] op = "assert" -> op_assert(a) [] op \in {"bit_and", "bit_or", "bit_xor"} -> op_bitwise(op, a)
      [] op = "bit_not" -> op_bit_not(a) [] op = "pack_bits" -> op_pack_bits(a)
      [] op = "unpack_bits" -> op_unpack_bits(a) [] op = "concat" -> op_concat(a)
      [] op = "str_includes" -> op_str_includes(a) [] op \in Letters -> op_letters(op, a)
      [] op = "starts_with" -> op_starts_with(a) [] op = "ends_with" -> op_ends_with(a)
      [] op = "unicode_normalize" -> op_unicode_normalize(a) [] op = "t2s" -> op_t2s(a)
      [] op = "chars" -> op_chars(a) [] op = "slice_string" -> op_slice_string(a)
      [] op = "from_substrings" -> op_from_substrings(a) [] op = "regex" -> op_regex(a)
      [] op = "regex_matches" -> op_regex_matches(a) [] op = "regex_extract" -> op_regex_extract(a)
      [] op \in {"regex_replace", "regex_replace_all"} -> op_regex_replace(op, a)
      [] op = "regex_extract_first" -> op_regex_extract_first(a)
      [] op = "length" -> op_length(a) [] op = "sorted" -> op_sorted(a) [] op = "reverse" -> op_reverse(a)
      [] op = "append" -> op_append(a) [] op = "prepend" -> op_prepend(a) [] op = "get" -> op_get(a)
      [] op = "maybe_get" -> op_maybe_get(a) [] op = "slice" -> op_slice(a) [] op = "first" -> op_first(a)
      [] op = "last" -> op_last(a) [] op = "chunks" -> op_chunks(a) [] op = "chunks_exact" -> op_chunks_exact(a)
      [] op = "windows" -> op_windows(a) [] op = "union" -> op_union(a) [] op = "difference" -> op_difference(a)
      [] op = "intersection" -> op_intersection(a) [] op = "int_range" -> op_int_range(a)
      [] op = "encode_base64" -> op_encode_base64(a) [] op = "decode_base64" -> op_decode_base64(a)
      [] op = "to_int" -> op_to_int(a) [] op = "to_float" -> op_to_float(a) [] op = "to_string" -> op_to_string(a)
      [] op = "to_bool" -> op_to_bool(a) [] op = "to_unity" -> op_to_unity(a) [] op = "to_uuid" -> op_to_uuid(a)
      [] op = "vec" -> op_vec(a) [] op = "rand_vec" -> op_rand_vec(a) [] op = "l2_normalize" -> op_l2_normalize(a)
      [] op = "l2_dist" -> op_l2_dist(a) [] op = "ip_dist" -> op_ip_dist(a) [] op = "cos_dist" -> op_cos_dist(a)
      [] op = "rand_float" -> op_rand_float(a) [] op = "rand_bernoulli" -> op_rand_bernoulli(a)
      [] op = "rand_int" -> op_rand_int(a) [] op = "rand_choose" -> op_rand_choose(a)
      [] op \in DOMAIN UuidOf -> op_rand_uuid(op, a) [] op = "uuid_timestamp" -> op_uuid_timestamp(a)
      [] op = "now" -> op_now(a) [] op = "validity" -> op_validity(a)
      [] op = "format_timestamp" -> op_format_timestamp(a) [] op = "parse_timestamp" -> op_parse_timestamp(a)

-----------------------------------------------------------------------------
(* What the functions promise of each other and of a reference: Promised   *)
(* relates the set R of the results of op(a) to it.                        *)

Sole(R) == CHOOSE v \in R : TRUE
Two(v) == IF v[1] = "Int" THEN 2 * v[2] ELSE Twice(v[2])
Finite(v) == v[1] = "Int" \/ (v[1] = "Float" /\ is_finite(v[2]))
IsNaN(v) == v[1] = "Float" /\ is_nan(v[2])

\* The comparisons are those of the numbers themselves, but that an integer is
\* rounded before it is compared with a float, and the zeros of two floats are
\* told apart.  A comparison is the negation of its opposite, except that NaN
\* is not comparable with an integer.
ComparisonPromise(op, a, R) ==
    /\ (R = {}) = ~ensure_same_value_type(a[1], a[2])
    /\ R # {} =>
         LET opposite == CASE op = "lt" -> "ge" [] op = "le" -> "gt" [] op = "gt" -> "le" [] op = "ge" -> "lt"
             mirror == CASE op = "lt" -> "gt" [] op = "le" -> "ge" [] op = "gt" -> "lt" [] op = "ge" -> "le"
         IN  /\ op_compare(mirror, <<a[2], a[1]>>) = R
             /\ ~(Mixed(a[1], a[2]) /\ (IsNaN(a[1]) \/ IsNaN(a[2]))) => op_compare(opposite, a) # R
             /\ op = "le" => R = op_or(<<Sole(op_compare("lt", a)), Sole(op_eq(a))>>)
             /\ op = "lt" /\ IsNum(a[1]) /\ Finite(a[1]) /\ Finite(a[2]) =>
                  /\ R = {Bool(TRUE)} => Two(a[1]) < Two(a[2]) \/ (IsZero(Float(a[1])) /\ IsZero(Float(a[2])))
                  /\ R = {Bool(FALSE)} /\ Two(a[1]) < Two(a[2]) => Float(a[1]) = Float(a[2])

\* Integer results are exact modulo the width; subtraction undoes addition, and
\* a remainder has the sign of the dividend and is less than the divisor.
ArithmeticPromise(op, a, R) ==
    LET ints == \A i \in DOMAIN a : a[i][1] = "Int"
    IN  /\ op = "add" /\ ints => R = {IntV(Wrap(FoldLeft(LAMBDA s, v : s + v[2], 0, a)))}
        /\ op = "mul" /\ ints => R = {IntV(Wrap(FoldLeft(LAMBDA s, v : s * v[2], 1, a)))}
        /\ op = "sub" /\ ints => Wrap(Sole(R)[2] + a[2][2]) = a[1][2]
        /\ op = "mod" /\ ints => IF a[2][2] = 0 THEN R = {}
                                 ELSE R # {Panic} => LET r == Sole(R)[2]
                                      IN  /\ Abs(r) < Abs(a[2][2]) /\ Sign(r) \in {0, Sign(a[1][2])}
                                          /\ (a[1][2] - r) % Abs(a[2][2]) = 0
        /\ op \in {"add", "mul", "sub", "div"} /\ Len(a) = 2 /\ R # {} /\ R # {Panic} =>
             /\ op = "add" => op_add(<<a[2], a[1]>>) = R
             /\ op = "mul" => op_mul(<<a[2], a[1]>>) = R
             /\ \A v \in R : v[1] = "Vec" =>
                  \A i \in DOMAIN v[2][2] :
                     LET At(x) == IF x[1] # "Vec" THEN Float(x)
                                  ELSE IF Len(x[2][2]) = 1 THEN x[2][2][1] ELSE x[2][2][i]
                     IN  OrderedFloat(v[2][2][i], Cast(v[2][1], fop(op, Cast(v[2][1], At(a[1])), Cast(v[2][1], At(a[2]))))) = 0

\* Packing and unpacking bits are inverse up to the padding; De Morgan.
BitPromise(op, a, R) ==
    /\ op = "unpack_bits" /\ R # {} => op_pack_bits(<<Sole(R)>>) = {a[1]}
    /\ op = "pack_bits" /\ a[1][1] = "List" /\ R # {} =>
         LET l == Sole(op_unpack_bits(<<Sole(R)>>))[2]
         IN  /\ IsPrefix(a[1][2], l) /\ Len(l) < Len(a[1][2]) + ByteBits
             /\ \A i \in (Len(a[1][2]) + 1)..Len(l) : l[i] = Bool(FALSE)
    /\ op = "bit_and" /\ R # {} =>
         op_bit_not(<<Sole(R)>>) = op_bitwise("bit_or", <<Sole(op_bit_not(<<a[1]>>)), Sole(op_bit_not(<<a[2]>>))>>)
    /\ op = "bit_xor" /\ R # {} => op_bitwise("bit_xor", <<Sole(R), a[2]>>) = {a[1]}

\* A string is its characters; what replaces all matches changes its length by
\* as much as the matches are many; a match is a substring.
StringPromise(op, a, R) ==
    /\ op = "chars" /\ R # {} => op_from_substrings(<<Sole(R)>>) = {a[1]}
    /\ op \in {"trim", "trim_start", "trim_end"} /\ R # {} =>
         /\ op_letters(op, <<Sole(R)>>) = R
         /\ op = "trim" => op_letters("trim_start", <<Sole(op_letters("trim_end", a))>>) = R
    /\ op = "slice_string" /\ R # {} =>
         /\ Len(Sole(R)[2]) = MinOf({a[3][2] - a[2][2], IF a[2][2] < Len(a[1][2]) THEN Len(a[1][2]) - a[2][2] ELSE 0})
         /\ a[2] = IntV(0) => IsPrefix(Sole(R)[2], a[1][2])
    /\ op = "regex_matches" /\ R # {} => R = op_str_includes(<<a[1], Str(a[2][2])>>)
    /\ op = "regex_extract" /\ R # {} => op_regex_matches(a) = OneBool(Sole(R)[2] # <<>>)
    /\ op = "regex_replace_all" /\ R # {} =>
         Len(Sole(R)[2]) = Len(a[1][2])
                              + Len(Sole(op_regex_extract(<<a[1], a[2]>>))[2]) * (Len(a[3][2]) - Len(a[2][2]))

\* Indices count from either end; the pieces of a list make up the list.
ListPromise(op, a, R) ==
    LET l == a[1][2]
        n == Len(a[1][2])
        At(v, i) == Found(AtIndex(v[2], i), {Null})
    IN  /\ op = "reverse" => \A i \in 0..(n - 1) : At(Sole(R), i) = At(a[1], -1 - i)
        /\ op = "first" => R = At(a[1], 0)
        /\ op = "last" => R = At(a[1], -1)
        /\ op = "sorted" =>
             LET r == Sole(R)[2]
             IN  /\ \A i \in 1..(Len(r) - 1) : cmp(r[i], r[i + 1]) # 1
                 /\ \A x \in Range(l) \cup Range(r) : Cardinality({i \in DOMAIN l : l[i] = x})
                                                      = Cardinality({i \in DOMAIN r : r[i] = x})
        /\ op = "slice" =>
             LET Place(i) == IF i < 0 THEN i + n ELSE i
                 m == Place(a[2][2])
                 k == Place(a[3][2])
             IN  IF 0 <= m /\ m < n /\ m <= k /\ k <= n
                 THEN \A i \in 0..n : At(Sole(R), i) = IF i < k - m THEN At(a[1], m + i) ELSE {Null}
                 ELSE R \subseteq {Panic}
        /\ op = "chunks" /\ R # {} =>
             LET r == Sole(R)[2]
             IN  /\ op_concat(<<List(<<>>)>> \o r) = {a[1]}
                 /\ \A i \in DOMAIN r : IF i < Len(r) THEN Len(r[i][2]) = a[2][2] ELSE Len(r[i][2]) \in 1..a[2][2]
        /\ op = "chunks_exact" /\ R # {} =>
             LET r == SelectSeq(Sole(op_chunks(a))[2], LAMBDA c : Len(c[2]) = a[2][2]) IN R = {List(r)}
        /\ op = "windows" /\ R # {} =>
             \A i \in 0..n : At(Sole(R), i) = IF i + a[2][2] > n THEN {Null}
                                                ELSE op_slice(<<a[1], IntV(i), IntV(i + a[2][2])>>)

\* The results are the sets they are named after, ascending and without
\* repetition.
Belongs(op, in) ==
    CASE op = "union" -> \E i \in DOMAIN in : in[i]
      [] op = "intersection" -> \A i \in DOMAIN in : in[i]
      [] op = "difference" -> in[1] /\ \A i \in 2..Len(in) : ~in[i]
SetPromise(op, a, R) ==
    R # {} =>
       LET r == Sole(R)[2]
           all == UNION {Range(a[i][2]) : i \in DOMAIN a}
       IN  /\ \A i \in 1..(Len(r) - 1) : cmp(r[i], r[i + 1]) = -1
           /\ Range(r) \subseteq all
           /\ \A x \in all : Holds(r, x) = Belongs(op, [i \in DOMAIN a |-> Holds(a[i][2], x)])

\* A value that is set is found at its path, every path that leads elsewhere
\* finds what it found before; a key that is removed is not found.
Elsewhere(path) ==
    LET Keys == {Str(<<1>>), Str(<<2>>), IntV(0), IntV(1)}
        Apart(p, q) == \E i \in 1..(IF Len(p) < Len(q) THEN Len(p) ELSE Len(q)) : val2str(p[i]) # val2str(q[i])
    IN  {q \in {<<k>> : k \in Keys} \cup (Keys \X Keys) : Apart(path, q)}
SameElsewhere(doc, d, path) ==
    \A q \in Elsewhere(path) :
        LET before == get_json_path_immutable(doc, q) IN before # {} => get_json_path_immutable(d, q) = before
Shortened(before, after) == \A d \in before : \A e \in after : Len(e[2]) = Len(d[2]) - 1
Changed(op, doc, path, d, new) ==
    LET parent == get_json_path_immutable(doc, Front(path))
    IN  IF op = "remove_json_path" /\ \E e \in parent : e[1] = "array"
        THEN Shortened(parent, get_json_path_immutable(d, Front(path)))
        ELSE get_json_path_immutable(d, path) = new /\ SameElsewhere(doc, d, path)
JsonPromise(op, a, R) ==
    \A r \in R \ {Panic} :
        Changed(op, to_json(a[1]), a[2][2], r[2], IF op = "set_json_path" THEN {to_json(a[3])} ELSE {})

\* Conversions there and back; the two notions of truth agree.
ConversionPromise(op, a, R) ==
    /\ op = "to_bool" => R = OneBool(op_to_unity(a) = {IntV(1)})
    /\ op = "dump_json" /\ R # {} => op_parse_json(<<Sole(R)>>) = {a[1]}
    /\ op = "encode_base64" /\ R # {} => op_decode_base64(<<Sole(R)>>) = {a[1]}
    /\ op = "to_float" /\ a[1][1] = "Int" => Same(Sole(op_to_int(<<Sole(R)>>)), a[1]) \/ Abs(a[1][2]) > 4
    /\ op = "to_string" => op_to_string(<<Sole(R)>>) = R
    /\ op = "format_timestamp" /\ a[1][1] = "Float" /\ R # {} /\ is_sign_positive(a[1][2]) =>
         op_format_timestamp(<<Sole(op_parse_timestamp(<<Sole(R)>>))>> \o Tail(a)) = R

\* The numbers from the start in steps up to the end, which is left out; the loop
\* does not end when the step is zero or wraps around before the end.
RangePromise(a, R) ==
    Len(a) = 3 =>
       LET b == a[1][2]
           e == a[2][2]
           d == a[3][2]
           n == IF d > 0 /\ b < e THEN (e - b + d - 1) \div d ELSE IF d < 0 /\ b > e THEN (b - e - d - 1) \div (-d) ELSE 0
       IN  IF d = 0 THEN R = (IF b > e THEN {Endless} ELSE {List(<<>>)})
           ELSE IF b + n * d \in IntMin..IntMax THEN R = {List([i \in 1..n |-> IntV(b + (i - 1) * d)])}
           ELSE \A r \in R : r # Endless => Len(r[2]) > n

DistancePromise(op, a, R) ==
    R # {} => /\ R = CASE op = "l2_dist" -> op_l2_dist(<<a[2], a[1]>>)
                        [] op = "ip_dist" -> op_ip_dist(<<a[2], a[1]>>)
                        [] op = "cos_dist" -> op_cos_dist(<<a[2], a[1]>>)
              /\ op = "l2_dist" => \A r \in R : is_nan(r[2]) \/ is_sign_positive(r[2])
              /\ op = "l2_dist" /\ a[1] = a[2] => \A r \in R : IsZero(r[2]) \/ is_nan(r[2])

Promised(op, a, R) ==
    CASE op \in {"lt", "le", "gt", "ge"} -> ComparisonPromise(op, a, R)
      [] op \in {"add", "mul", "sub", "div", "mod"} -> ArithmeticPromise(op, a, R)
      [] op \in {"bit_and", "bit_xor", "pack_bits", "unpack_bits"} -> BitPromise(op, a, R)
      [] op \in {"chars", "trim", "trim_start", "trim_end", "slice_string", "regex_matches", "regex_extract",
                 "regex_replace_all"} -> StringPromise(op, a, R)
      [] op \in {"reverse", "first", "last", "sorted", "slice", "chunks", "chunks_exact", "windows"} ->
            a[1][1] = "List" => ListPromise(op, a, R)
      [] op \in {"union", "intersection", "difference"} -> SetPromise(op, a, R)
      [] op \in {"set_json_path", "remove_json_path"} -> JsonPromise(op, a, R)
      [] op \in {"to_bool", "dump_json", "encode_base64", "to_float", "to_string", "format_timestamp"} ->
            ConversionPromise(op, a, R)
      [] op = "int_range" -> RangePromise(a, R)
      [] op \in {"l2_dist", "ip_dist", "cos_dist"} -> DistancePromise(op, a, R)
      [] op \in {"max", "min"} ->
            \A r \in R : /\ r \in Range(a)
                         /\ \A i \in DOMAIN a : cmp(r, a[i]) # (IF op = "max" THEN -1 ELSE 1)
      [] OTHER -> TRUE
=============================================================================
