------------------------------ MODULE Encoding ------------------------------
(***************************************************************************)
(* How values reach the store and come back: the order-preserving keys of  *)
(* retia-core/src/data/memcmp.rs and data/tuple.rs, the coercion to the    *)
(* type of a column (NullableColType::coerce of data/relation.rs), and the *)
(* form in which vectors are serialised (data/value.rs).  The values are   *)
(* those of Builtins.                                                      *)
(*                                                                         *)
(* A key is a sequence of numbers: a byte is a number, and a big-endian    *)
(* word is one number too, for it is compared as one.                      *)
(***************************************************************************)
EXTENDS Builtins

CONSTANTS
    Jobs,       \* a sequence of sets of jobs: <<"key", t, u>>, <<"coerce", type, v>>, <<"vector", v>>
    Refused, None

VARIABLES
    job,
    work,       \* <<rest of the key, decoded values>> while a key is decoded
    out

vars == <<job, work, out>>

-----------------------------------------------------------------------------
(* Keys *)

INIT_TAG == 0
Tag ==
    [Null |-> 1, False |-> 2, True |-> 3, Vec |-> 4, Num |-> 5, Str |-> 6, Bytes |-> 7, Uuid |-> 8, Regex |-> 9,
     List |-> 10, Set |-> 11, Validity |-> 12, Json |-> 13, Bot |-> 255]
IS_EXACT_INT == 0
IS_APPROX_INT == 4
IS_FLOAT == 16
EXACT_INT_BOUND == 4      \* 2^53: from here on a float can stand for two integers
ENC_GROUP_SIZE == 2       \* 8
ENC_MARKER == 255

IntMark == 2 ^ (IntBits - 1)
order_encode_i64(i) == i + IntMark
order_decode_i64(u) == u - IntMark

\* Mutant of order_encode_f64: negative floats keep their bits.
order_encode_f64_raw(f) == IF is_sign_positive(f) THEN f + SignMark ELSE f - SignMark

order_encode_f64(f) == IF is_sign_positive(f) THEN f + SignMark ELSE 2 * SignMark - 1 - f
order_decode_f64(u) == IF u >= SignMark THEN u - SignMark ELSE 2 * SignMark - 1 - u

encode_num(v) ==
    LET f == CHOOSE x \in get_float(v) : TRUE
    IN  <<order_encode_f64(f)>>
        \o IF v[1] = "Float" THEN <<IS_FLOAT>>
           ELSE IF v[2] > -EXACT_INT_BOUND /\ v[2] < EXACT_INT_BOUND THEN <<IS_EXACT_INT>>
           ELSE <<IS_APPROX_INT, order_encode_i64(v[2])>>

\* Groups of ENC_GROUP_SIZE bytes, each with a marker that counts the padding;
\* there is always a group with padding, the last.
encode_bytes(s) ==
    LET Group(k) ==
            LET i == k * ENC_GROUP_SIZE
                remain == Len(s) - i
                pad == IF remain > ENC_GROUP_SIZE THEN 0 ELSE ENC_GROUP_SIZE - remain
            IN  [n \in 1..ENC_GROUP_SIZE |-> IF i + n <= Len(s) THEN s[i + n] ELSE 0] \o <<ENC_MARKER - pad>>
    IN  FlattenSeq([k \in 1..((Len(s) \div ENC_GROUP_SIZE) + 1) |-> Group(k - 1)])

RECURSIVE encode_datavalue(_)
encode_datavalue(v) ==
    CASE v[1] = "Null" -> <<Tag.Null>>
      [] v[1] = "Bot" -> <<Tag.Bot>>
      [] v[1] = "Bool" -> IF v[2] THEN <<Tag.True>> ELSE <<Tag.False>>
      [] v[1] = "Vec" -> <<Tag.Vec, IF v[2][1] = "F32" THEN 1 ELSE 2, Len(v[2][2])>> \o v[2][2]
      [] IsNum(v) -> <<Tag.Num>> \o encode_num(v)
      [] v[1] \in {"Str", "Bytes", "Regex"} -> <<Tag[v[1]]>> \o encode_bytes(v[2])
      [] v[1] = "Json" -> <<Tag.Json>> \o encode_bytes(to_string(v[2]))
      [] v[1] = "Uuid" -> <<Tag.Uuid, v[2]>>
      [] v[1] \in {"List", "Set"} ->
            <<Tag[v[1]]>> \o FlattenSeq([i \in DOMAIN v[2] |-> encode_datavalue(v[2][i])]) \o <<INIT_TAG>>
      [] v[1] = "Validity" ->
            <<Tag.Validity, 2 * IntMark - 1 - order_encode_i64(v[2][1]), IF v[2][2] THEN 0 ELSE 1>>

encode_as_key(t) == FlattenSeq([i \in DOMAIN t |-> encode_datavalue(t[i])])

-----------------------------------------------------------------------------
(* Decoding gives a value and the rest of the key.                         *)

From(s, i) == SubSeq(s, i, Len(s))

RECURSIVE decode_bytes(_)
decode_bytes(s) ==
    LET pad == ENC_MARKER - s[ENC_GROUP_SIZE + 1]
        bytes == SubSeq(s, 1, ENC_GROUP_SIZE - pad)
        rest == From(s, ENC_GROUP_SIZE + 2)
        more == decode_bytes(rest)
    IN  IF pad = 0 THEN <<bytes \o more[1], more[2]>> ELSE <<bytes, rest>>

Num_decode_from_key(s) ==
    LET f == order_decode_f64(s[1])
    IN  CASE s[2] = IS_FLOAT -> <<FloatV(f), From(s, 3)>>
          [] s[2] = IS_EXACT_INT -> <<IntV(as_i64(f)), From(s, 3)>>
          [] s[2] = IS_APPROX_INT -> <<IntV(order_decode_i64(s[3])), From(s, 4)>>

RECURSIVE decode_from_key(_), Elements(_)
decode_from_key(s) ==
    LET rest == Tail(s)
        text == decode_bytes(rest)
        els == Elements(rest)
    IN  CASE s[1] = Tag.Null -> <<Null, rest>>
          [] s[1] = Tag.Bot -> <<Bot, rest>>
          [] s[1] = Tag.False -> <<Bool(FALSE), rest>>
          [] s[1] = Tag.True -> <<Bool(TRUE), rest>>
          [] s[1] = Tag.Num -> Num_decode_from_key(rest)
          [] s[1] = Tag.Str -> <<Str(text[1]), text[2]>>
          [] s[1] = Tag.Bytes -> <<Bytes(text[1]), text[2]>>
          [] s[1] = Tag.Regex -> <<Regex(text[1]), text[2]>>
          [] s[1] = Tag.Json -> <<Json(CHOOSE j \in JsonValues : to_string(j) = text[1]), text[2]>>
          [] s[1] = Tag.Uuid -> <<Uuid(rest[1]), Tail(rest)>>
          [] s[1] = Tag.List -> <<List(els[1]), els[2]>>
          [] s[1] = Tag.Set -> <<SetV(Collected(els[1])), els[2]>>
          [] s[1] = Tag.Validity ->
                <<Validity(order_decode_i64(2 * IntMark - 1 - rest[1]), rest[2] = 0), From(rest, 3)>>
          [] s[1] = Tag.Vec ->
                <<Vec(IF rest[1] = 1 THEN "F32" ELSE "F64", SubSeq(rest, 3, 2 + rest[2])), From(rest, 3 + rest[2])>>

\* The values up to the mark that ends a list.
Elements(s) ==
    IF s[1] = INIT_TAG THEN <<<<>>, Tail(s)>>
    ELSE LET el == decode_from_key(s)
             els == Elements(el[2])
         IN  <<<<el[1]>> \o els[1], els[2]>>

-----------------------------------------------------------------------------
(* Vectors serialised: a mark of the type and the bytes of the elements,   *)
(* one unit for an f32 and two for an f64.                                 *)

Units(t, f) == IF t = "F32" THEN <<f>> ELSE <<f \div 8, f % 8>>
serialize(v) ==
    <<IF v[2][1] = "F32" THEN 0 ELSE 1, FlattenSeq([i \in DOMAIN v[2][2] |-> Units(v[2][1], v[2][2][i])])>>

\* Bytes that do not fill an element are dropped.
AsFloats(t, b) ==
    IF t = "F32" THEN b ELSE [i \in 1..(Len(b) \div 2) |-> 8 * b[2 * i - 1] + b[2 * i]]
deserialize(s) == LET t == IF s[1] = 0 THEN "F32" ELSE "F64" IN Vec(t, AsFloats(t, s[2]))

-----------------------------------------------------------------------------
(* Coercion to <<column type, nullable>>.  No result is a refusal.         *)

\* The results of all elements, or none.
Each(res) == IF \E i \in DOMAIN res : res[i] = {} THEN {} ELSE {[i \in DOMAIN res |-> CHOOSE v \in res[i] : TRUE]}

\* chrono's parse of a time, and the two words.
coerce_validity(v) ==
    CASE v[1] = "Validity" -> {v}
      [] v[1] = "Str" ->
            CASE v[2] = <<6, 1>> -> {Validity(Clock, TRUE)}
              [] v[2] = <<6, 0>> -> {Validity(Clock, FALSE)}
              [] OTHER -> {Validity(t[1], TRUE) : t \in Unquoted(5, v[2])}
                          \cup {Validity(t[2], FALSE) : t \in Unquoted(4, v[2])}
      [] v[1] = "List" ->
            IF Len(v[2]) # 2 THEN {}
            ELSE {Validity(ts, a) : ts \in get_int(v[2][1]) \ {IntMax, IntMin}, a \in get_bool(v[2][2])}
      [] OTHER -> {}

coerce_vec(t, len, v) ==
    CASE v[1] = "List" ->
            IF Len(v[2]) # len THEN {}
            ELSE {Vec(t, s) : s \in Each([i \in DOMAIN v[2] |-> {Cast(t, f) : f \in get_float(v[2][i])}])}
      [] v[1] = "Vec" -> IF v[2][1] = t /\ Len(v[2][2]) = len THEN {v} ELSE {}
      [] v[1] = "Str" -> {Vec(t, x) : x \in {y \in {AsFloats(t, b) : b \in Unquoted(7, v[2])} : Len(y) = len}}
      [] OTHER -> {}

RECURSIVE coerce(_, _)

\* A list is coerced element by element to the type of the column itself.
coerce_json(type, v) ==
    CASE v[1] = "Bool" -> {Json(JBool(v[2]))}
      [] v[1] = "Int" -> {Json(JInt(v[2]))}
      [] v[1] = "Float" -> {Json(JFloat(v[2]))}
      [] v[1] \in {"Str", "Regex"} -> {Json(JString(v[2]))}
      [] v[1] = "Bytes" -> {Json(JArray([i \in DOMAIN v[2] |-> JInt(v[2][i])]))}
      [] v[1] = "Uuid" -> {Json(JArray(<<JInt(v[2])>>))}
      [] v[1] \in {"List", "Set"} ->
            {Json(JArray([i \in DOMAIN s |-> ToJson(s[i])])) : s \in Each([i \in DOMAIN v[2] |-> coerce(type, v[2][i])])}
      [] v[1] = "Vec" -> {Json(JArray([i \in DOMAIN v[2][2] |-> JFloat(v[2][2][i])]))}
      [] v[1] = "Json" -> {v}
      [] v[1] = "Validity" -> {Json(JArray(<<JInt(v[2][1]), JBool(v[2][2])>>))}
      [] v[1] = "Bot" -> {Json(JNull)}

coerce(type, v) ==
    LET t == type[1] IN
    IF v = Null THEN (IF type[2] THEN {v} ELSE {})
    ELSE CASE t[1] = "Any" -> CASE v[1] = "Set" -> {List(v[2])} [] v[1] = "Bot" -> {} [] OTHER -> {v}
           [] t[1] = "Bool" -> {Bool(b) : b \in get_bool(v)}
           [] t[1] = "Int" -> {IntV(i) : i \in get_int(v)}
           [] t[1] = "Float" -> {FloatV(f) : f \in get_float(v)}
           [] t[1] = "String" -> IF v[1] = "Str" THEN {v} ELSE {}
           [] t[1] = "Bytes" ->
                CASE v[1] = "Bytes" -> {v} [] v[1] = "Str" -> {Bytes(b) : b \in Unquoted(7, v[2])} [] OTHER -> {}
           [] t[1] = "Uuid" -> {Uuid(u) : u \in get_uuid(v)}
           [] t[1] = "List" ->
                IF v[1] # "List" \/ (t[3] # None /\ Len(v[2]) # t[3]) THEN {}
                ELSE {List(s) : s \in Each([i \in DOMAIN v[2] |-> coerce(t[2], v[2][i])])}
           [] t[1] = "Vec" -> coerce_vec(t[2], t[3], v)
           [] t[1] = "Tuple" ->
                IF v[1] # "List" \/ Len(v[2]) # Len(t[2]) THEN {}
                ELSE {List(s) : s \in Each([i \in DOMAIN v[2] |-> coerce(t[2][i], v[2][i])])}
           [] t[1] = "Validity" -> coerce_validity(v)
           [] t[1] = "Json" -> coerce_json(type, v)

-----------------------------------------------------------------------------
Init ==
    /\ \E i \in DOMAIN Jobs : job \in Jobs[i]
    /\ out = None
    /\ work = IF job[1] = "key" THEN <<encode_as_key(job[2]), <<>>>> ELSE None

\* decode_tuple_from_key: one value after the other.
DecodeNext ==
    /\ job[1] = "key" /\ out = None
    /\ IF work[1] = <<>> THEN out' = work[2] /\ UNCHANGED work
       ELSE LET d == decode_from_key(work[1])
            IN  work' = <<d[2], Append(work[2], d[1])>> /\ UNCHANGED out
    /\ UNCHANGED job

Coerce ==
    /\ job[1] = "coerce" /\ out = None
    /\ out' = LET c == coerce(job[2], job[3]) IN IF c = {} THEN Refused ELSE CHOOSE v \in c : TRUE
    /\ UNCHANGED <<job, work>>

Serialise ==
    /\ job[1] = "vector" /\ out = None
    /\ out' = deserialize(serialize(job[2]))
    /\ UNCHANGED <<job, work>>

Done == out # None /\ UNCHANGED vars

Next == DecodeNext \/ Coerce \/ Serialise \/ Done

Spec == Init /\ [][Next]_vars

-----------------------------------------------------------------------------
TypeOK == job[1] = "key" => Len(work[2]) <= Len(job[2])

\* The keys order two values as memory does, except that vectors come before the
\* numbers and JSON behind the validities, and that vectors compare by the bits of
\* their elements.
RECURSIVE SameOrder(_, _)
SameOrder(s, t) ==
    \/ s = <<>> \/ t = <<>>
    \/ LET v == s[1] w == t[1]
           Plain(x) == x[1] \notin {"Vec", "Json", "Validity"}
       IN  /\ \/ v[1] \in {"List", "Set"} /\ w[1] = v[1] /\ SameOrder(v[2], w[2])
              \/ v[1] \notin {"List", "Set"} /\ w[1] = v[1] /\ v[1] # "Vec"
              \/ v[1] # w[1] /\ (Plain(v) \/ Plain(w)) /\ "Vec" \notin {v[1], w[1]}
              \/ /\ v[1] = "Vec" /\ w[1] = "Vec"
                 /\ \A x \in {v, w} : \A i \in DOMAIN x[2][2] : x[2][2][i] < NanMag
           /\ cmp(v, w) = 0 => SameOrder(Tail(s), Tail(t))

\* data/memcmp.rs, data/tuple.rs: a key is decoded to the tuple it was made of,
\* value by value and with nothing left over, no key is a part of another tuple's
\* in a way that confuses them, and the keys of a relation are in the order of
\* their tuples: a prefix scan finds what a scan in memory finds.
KeysExact ==
    job[1] = "key" =>
      /\ out # None => out = job[2]
      /\ out = None => \E n \in 0..Len(job[2]) : /\ work[2] = SubSeq(job[2], 1, n)
                                                 /\ work[1] = encode_as_key(SubSeq(job[2], n + 1, Len(job[2])))
      /\ SameOrder(job[2], job[3]) =>
           Lexical(encode_as_key(job[2]), encode_as_key(job[3])) = Tuple_cmp(job[2], job[3])

RECURSIVE HasType(_, _)
HasType(type, v) ==
    LET t == type[1] IN
    \/ v = Null /\ type[2]
    \/ /\ v # Null
       /\ CASE t[1] = "Any" -> v[1] \notin {"Set", "Bot"}
            [] t[1] \in {"Bool", "Int", "Float", "Bytes", "Uuid", "Validity", "Json"} -> v[1] = t[1]
            [] t[1] = "String" -> v[1] = "Str"
            [] t[1] = "List" -> /\ v[1] = "List" /\ (t[3] # None => Len(v[2]) = t[3])
                                /\ \A i \in DOMAIN v[2] : HasType(t[2], v[2][i])
            [] t[1] = "Tuple" -> /\ v[1] = "List" /\ Len(v[2]) = Len(t[2])
                                 /\ \A i \in DOMAIN v[2] : HasType(t[2][i], v[2][i])
            [] t[1] = "Vec" -> v[1] = "Vec" /\ v[2][1] = t[2] /\ Len(v[2][2]) = t[3]

\* What JSON cannot carry: numbers that are not finite, the limits of time, and the
\* null documents in a column of JSON, which come back as null values.
RECURSIVE HasNull(_)
HasNull(j) == j[1] = "null" \/ (j[1] = "array" /\ \E i \in DOMAIN j[2] : HasNull(j[2][i]))
RECURSIVE Carried(_)
Carried(v) ==
    CASE v[1] = "Float" -> is_finite(v[2])
      [] v[1] = "Vec" -> \A i \in DOMAIN v[2][2] : is_finite(v[2][2][i])
      [] v[1] = "Validity" -> v[2][1] \notin {IntMin, IntMax}
      [] v[1] = "Json" -> ~HasNull(v[2])
      [] v[1] = "List" -> \A i \in DOMAIN v[2] : Carried(v[2][i])
      [] OTHER -> TRUE
Untyped(type) == type[1][1] = "Any" \/ (type[1][1] = "List" /\ type[1][2][1][1] = "Any")

\* data/relation.rs coerce: what is accepted has the type of the column, a value of
\* that type is accepted unchanged, so that coercing twice changes nothing; and a
\* value of a typed column that is exported as JSON and imported again is the
\* value that was there.
CoercionExact ==
    /\ job[1] = "coerce" =>
         /\ HasType(job[2], job[3]) => coerce(job[2], job[3]) = {job[3]}
         /\ out \notin {None, Refused} =>
              /\ HasType(job[2], out)
              /\ Carried(out) /\ ~Untyped(job[2]) => coerce(job[2], FromJson(ToJson(out))) = {out}
    /\ job[1] = "vector" /\ out # None => out = job[2]

Exact == TypeOK /\ KeysExact /\ CoercionExact
=============================================================================
