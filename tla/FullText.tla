------------------------------ MODULE FullText ------------------------------
(***************************************************************************)
(* Full-text search (fts/, parse/fts.rs, FtsSearchRA of query/ra.rs).       *)
(*                                                                         *)
(* A job is one of                                                         *)
(*   <<"text", tokenizer, filters, text>>    what an analyzer makes of a    *)
(*       text;                                                             *)
(*   <<"search", analyzer, changes, queries, options>>   documents are put  *)
(*       and replaced and the index is created, then a query is parsed,     *)
(*       tokenized, flattened, evaluated against the postings and ranked;   *)
(*   <<"cache", index names, programs>>      threads that fetch analyzers   *)
(*       from the shared TokenizerCache while indices are dropped.          *)
(*                                                                         *)
(* Characters are numbers, ordered as code points: 1 is a space, 2 a        *)
(* punctuation mark, 10..14 and 20..24 ASCII capitals and small letters,    *)
(* 40..42 and 45..47 their two-byte accented forms, 50 a three-byte letter  *)
(* without case or ASCII form.  A token is                                 *)
(* <<text, offset_from, offset_to, position>>.                             *)
(***************************************************************************)
EXTENDS Integers, Sequences, FiniteSets, SequencesExt, FiniteSetsExt

CONSTANTS Jobs,      \* a sequence of sets of jobs
          Refused,   \* the answer that stands for an error or a panic
          Bad,       \* an argument of a type the tokenizer does not take
          None       \* not there

VARIABLES job, work, out

vars == <<job, work, out>>

(***************************************************************************)
(* Characters and texts.                                                   *)
(***************************************************************************)
is_alphanumeric(c) == c >= 10

is_ascii(c) == c < 40

Width(c) == IF c < 40 THEN 1 ELSE IF c < 50 THEN 2 ELSE 3

to_lowercase(c) ==
  CASE c \in 10..14 -> c + 10
    [] c \in 40..42 -> c + 5
    [] OTHER        -> c

\* 42 and 47 are ligatures: they fold to two letters.
fold_non_ascii_char(c) ==
  CASE c \in {40, 41} -> <<c - 30>>
    [] c \in {45, 46} -> <<c - 25>>
    [] c = 42         -> <<10, 14>>
    [] c = 47         -> <<20, 24>>
    [] OTHER          -> <<c>>

\* The byte offset of the i-th character of a text (frontier Len + 1: its end).
Frontier(text, i) ==
  LET at[j \in 1..i] == IF j = 1 THEN 0 ELSE at[j - 1] + Width(text[j - 1]) IN at[i]

ByteLen(text) == Frontier(text, Len(text) + 1)

(***************************************************************************)
(* Tokenizers.  Simple and Whitespace pull one token at a time; the end of  *)
(* a token swallows the character after it.                                *)
(***************************************************************************)
InWord(kind, c) == IF kind = "Simple" THEN is_alphanumeric(c) ELSE c # 1

RECURSIVE word_tokens(_, _, _, _)
word_tokens(kind, text, next, position) ==
  LET starts == {i \in next..Len(text) : InWord(kind, text[i])} IN
  IF starts = {}
  THEN <<>>
  ELSE LET from == Min(starts)
           to   == Min({i \in (from + 1)..Len(text) : ~InWord(kind, text[i])}
                       \cup {Len(text) + 1})
       IN  <<<<SubSeq(text, from, to - 1), Frontier(text, from), Frontier(text, to), position>>>>
             \o word_tokens(kind, text, to + 1, position + 1)

raw_tokens(text) == <<<<text, 0, ByteLen(text), 0>>>>

(***************************************************************************)
(* The n-gram tokenizer keeps the last max_gram + 1 codepoint frontiers in  *)
(* a ring: r is [mem, rest, min, max, cursor, len] (cursor from 0).         *)
(***************************************************************************)
StutteringIterator(text, min, max) ==
  LET all == [i \in 1..(Len(text) + 1) |-> Frontier(text, i)]
      mem == SubSeq(all, 1, IF max + 1 < Len(all) THEN max + 1 ELSE Len(all))
      rest == SubSeq(all, Len(mem) + 1, Len(all))
  IN  IF Len(mem) <= min
      THEN [mem |-> mem, rest |-> rest, min |-> 1, max |-> 0, cursor |-> 0, len |-> 0]
      ELSE [mem |-> mem, rest |-> rest, min |-> min, max |-> Len(mem) - 1,
            cursor |-> 0, len |-> min]

StutterStart(r) ==
  IF r.len <= r.max
  THEN r
  ELSE [r EXCEPT !.len = r.min,
                 !.mem = IF r.rest = <<>> THEN @ ELSE [@ EXCEPT ![r.cursor + 1] = Head(r.rest)],
                 !.max = IF r.rest = <<>> THEN @ - 1 ELSE @,
                 !.rest = IF @ = <<>> THEN @ ELSE Tail(@),
                 !.cursor = (@ + 1) % Len(r.mem)]

\* The text between two byte offsets.
Slice(text, from, to) ==
  SelectSeq([i \in 1..Len(text) |-> <<text[i], Frontier(text, i)>>],
            LAMBDA x : from <= x[2] /\ x[2] < to)

RECURSIVE ngram_tokens(_, _, _)
ngram_tokens(text, ring, prefix_only) ==
  LET r == StutterStart(ring) IN
  IF r.max < r.min
  THEN <<>>
  ELSE LET from == r.mem[(r.cursor % Len(r.mem)) + 1]
           to   == r.mem[((r.cursor + r.len) % Len(r.mem)) + 1]
           part == Slice(text, from, to)
       IN  IF prefix_only /\ from > 0
           THEN <<>>
           ELSE <<<<[i \in DOMAIN part |-> part[i][1]], from, to, 0>>>>
                  \o ngram_tokens(text, [r EXCEPT !.len = @ + 1], prefix_only)

(***************************************************************************)
(* Construction.  A tokenizer is <<name, args>>, a filter <<name, args>>;   *)
(* a missing argument takes its default or is an error.                    *)
(***************************************************************************)
Arg(args, i, default) == IF i <= Len(args) THEN args[i] ELSE default

construct_tokenizer(t) ==
  CASE t[1] \in {"Raw", "Simple", "Whitespace"} -> <<t[1]>>
    [] t[1] = "NGram" ->
         LET min    == Arg(t[2], 1, 1)
             max    == Arg(t[2], 2, min)
             prefix == Arg(t[2], 3, 0)
         IN  IF Bad \in {min, max, prefix}
             THEN Refused
             ELSE IF min >= 1 /\ max >= min THEN <<"NGram", min, max, prefix = 1>> ELSE Refused
    [] OTHER -> Refused

construct_token_filter(f) ==
  CASE f[1] \in {"AlphaNumOnly", "AsciiFolding", "LowerCase"} -> <<f[1]>>
    [] f[1] \in {"RemoveLong", "SplitCompoundWords", "Stopwords", "Stemmer"} ->
         IF f[2] = <<>> \/ f[2] = <<Bad>> THEN Refused ELSE <<f[1], f[2][1]>>
    [] OTHER -> Refused

build(analyzer) ==
  LET t  == construct_tokenizer(analyzer[1])
      fs == [i \in DOMAIN analyzer[2] |-> construct_token_filter(analyzer[2][i])]
  IN  IF t = Refused \/ \E i \in DOMAIN fs : fs[i] = Refused THEN Refused ELSE <<t, fs>>

(***************************************************************************)
(* Filters: each takes a token and yields the tokens that replace it.       *)
(***************************************************************************)
\* The cuts of the greedy leftmost-longest matches that follow one another
\* from the start of the text, and where the last of them ends.
RECURSIVE Cuts(_, _, _)
Cuts(text, dict, pos) ==
  LET here == {w \in dict : Len(w) > 0 /\ pos + Len(w) <= Len(text)
                            /\ SubSeq(text, pos + 1, pos + Len(w)) = w}
  IN  IF here = {}
      THEN [cuts |-> <<>>, end |-> pos]
      ELSE LET longest == Max({Len(w) : w \in here})
               more    == Cuts(text, dict, pos + longest)
           IN  [cuts |-> <<pos>> \o more.cuts, end |-> more.end]

split(t, dict) ==
  LET c == Cuts(t[1], dict, 0)
      n == Len(c.cuts)
  IN  IF n = 0 \/ c.end # Len(t[1])
      THEN <<t>>
      ELSE [i \in 1..n |->
              [t EXCEPT ![1] = SubSeq(t[1], c.cuts[i] + 1,
                                      IF i = n THEN Len(t[1]) ELSE c.cuts[i + 1])]]

\* The stemming library: here, it takes a trailing 24 off a word.
Stem(text) ==
  IF Len(text) > 1 /\ text[Len(text)] = 24 THEN SubSeq(text, 1, Len(text) - 1) ELSE text

Keep(t, yes) == IF yes THEN <<t>> ELSE <<>>

AlphaNumOnlyFilter(t) == Keep(t, \A i \in DOMAIN t[1] : is_alphanumeric(t[1][i]) /\ is_ascii(t[1][i]))

AsciiFoldingFilter(t) ==
  <<[t EXCEPT ![1] = FlattenSeq([i \in DOMAIN @ |-> fold_non_ascii_char(@[i])])]>>

LowerCaser(t) == <<[t EXCEPT ![1] = [i \in DOMAIN @ |-> to_lowercase(@[i])]]>>

\* Tokens of limit bytes and more go.  A negative limit is a huge unsigned one.
RemoveLongFilter(t, limit) == Keep(t, limit < 0 \/ ByteLen(t[1]) < limit)

StopWordFilter(t, words) == Keep(t, t[1] \notin words)

Stemmer(t) == <<[t EXCEPT ![1] = Stem(@)]>>

transform(f, t) ==
  CASE f[1] = "AlphaNumOnly"       -> AlphaNumOnlyFilter(t)
    [] f[1] = "AsciiFolding"       -> AsciiFoldingFilter(t)
    [] f[1] = "LowerCase"          -> LowerCaser(t)
    [] f[1] = "RemoveLong"         -> RemoveLongFilter(t, f[2])
    [] f[1] = "SplitCompoundWords" -> split(t, f[2])
    [] f[1] = "Stopwords"          -> StopWordFilter(t, f[2])
    [] f[1] = "Stemmer"            -> Stemmer(t)

Tokens(t, text) ==
  CASE t[1] = "Raw"   -> raw_tokens(text)
    [] t[1] = "NGram" -> ngram_tokens(text, StutteringIterator(text, t[2], t[3]), t[4])
    [] OTHER          -> word_tokens(t[1], text, 1, 0)

token_stream(analyzer, text) ==
  FoldLeft(LAMBDA toks, f : FlattenSeq([i \in DOMAIN toks |-> transform(f, toks[i])]),
           Tokens(analyzer[1], text), analyzer[2])

(***************************************************************************)
(* Queries.  A query is a sequence of expressions, an expression is         *)
(* <<terms, operators>>, a term a phrase <<"phrase", text, prefix, booster>>*)
(* (booster <<>>, <<"float", n>> or <<"int", n>>), a group                 *)
(* <<"group", expressions>> or <<"near", distance or <<>>, phrases>>.      *)
(* The syntax tree has the nodes <<"lit", value, is_prefix, booster>>,      *)
(* <<"near", literals, distance>>, <<"and", nodes>>, <<"or", nodes>> and    *)
(* <<"not", lhs, rhs>>.                                                    *)
(***************************************************************************)
build_phrase(p) == <<"lit", p[2], p[3], IF p[4] = <<>> THEN 1 ELSE p[4][2]>>

build_infix(lhs, op, rhs) ==
  CASE op = "AND" -> <<"and", <<lhs, rhs>>>>
    [] op = "OR"  -> <<"or", <<lhs, rhs>>>>
    [] op = "NOT" -> <<"not", lhs, rhs>>

\* The operator declared last binds tightest.
Prec(op) == CASE op = "NOT" -> 1 [] op = "AND" -> 2 [] op = "OR" -> 3

RECURSIVE build_term(_), Climb(_, _, _, _)
Exprs(es) ==
  LET nodes == [i \in DOMAIN es |-> Climb(es[i], build_term(es[i][1][1]), 1, 0)[1]]
  IN  IF Len(nodes) = 1 THEN nodes[1] ELSE <<"and", nodes>>

build_term(t) ==
  CASE t[1] = "group"  -> Exprs(t[2])
    [] t[1] = "near"   -> <<"near", [i \in DOMAIN t[3] |-> build_phrase(t[3][i])],
                            IF t[2] = <<>> THEN 10 ELSE t[2][1]>>
    [] t[1] = "phrase" -> build_phrase(t)

\* The Pratt loop: lhs is read, i is the operator after it, rbp the binding
\* power of the operator before it.
Climb(e, lhs, i, rbp) ==
  IF i > Len(e[2]) \/ Prec(e[2][i]) <= rbp
  THEN <<lhs, i>>
  ELSE LET rhs == Climb(e, build_term(e[1][i + 1]), i + 1, Prec(e[2][i]))
       IN  Climb(e, build_infix(lhs, e[2][i], rhs[1]), rhs[2], rbp)

\* An integer booster reaches the unreachable! of build_phrase: the grammar
\* yields pos_int where the code expects int, a silent rule.
RECURSIVE HasIntBooster(_)
HasIntBooster(es) ==
  \E i \in DOMAIN es : \E j \in DOMAIN es[i][1] :
    LET t == es[i][1][j] IN
      CASE t[1] = "group"  -> HasIntBooster(t[2])
        [] t[1] = "near"   -> \E k \in DOMAIN t[3] : t[3][k][4] # <<>> /\ t[3][k][4][1] = "int"
        [] t[1] = "phrase" -> t[4] # <<>> /\ t[4][1] = "int"

parse_fts_query(q) == IF HasIntBooster(q) THEN Refused ELSE Exprs(q)

\* A list of query strings is joined by OR into one string before it is
\* parsed: the last expression of one and the first of the next become one.
JoinQueries(qs) ==
  FoldLeft(LAMBDA acc, q :
             LET l == acc[Len(acc)] IN
               Front(acc) \o <<<<l[1] \o q[1][1], l[2] \o <<"OR">> \o q[1][2]>>>> \o Tail(q),
           Head(qs), Tail(qs))

(***************************************************************************)
(* Tokenizing and flattening.                                              *)
(***************************************************************************)
literal_tokenize(analyzer, l) ==
  IF l[3]
  THEN <<l>>
  ELSE LET toks == token_stream(analyzer, l[2])
       IN  [i \in DOMAIN toks |-> <<"lit", toks[i][1], FALSE, l[4]>>]

RECURSIVE do_tokenize(_, _)
do_tokenize(analyzer, e) ==
  CASE e[1] = "lit" ->
         LET ls == literal_tokenize(analyzer, e) IN
           IF Len(ls) = 1 THEN ls[1] ELSE <<"and", ls>>
    [] e[1] = "near" ->
         <<"near", FlattenSeq([i \in DOMAIN e[2] |-> literal_tokenize(analyzer, e[2][i])]), e[3]>>
    [] e[1] = "not" -> <<"not", do_tokenize(analyzer, e[2]), do_tokenize(analyzer, e[3])>>
    [] OTHER -> <<e[1], [i \in DOMAIN e[2] |-> do_tokenize(analyzer, e[2][i])]>>

RECURSIVE is_empty(_)
is_empty(e) ==
  CASE e[1] = "lit" -> e[4] = 0 \/ e[2] = <<>>
    [] e[1] = "not" -> is_empty(e[2])
    [] OTHER        -> e[2] = <<>>

RECURSIVE flatten(_)
flatten(e) ==
  CASE e[1] \in {"and", "or"} ->
         LET parts == [i \in DOMAIN e[2] |->
                         LET f == flatten(e[2][i]) IN
                           IF f[1] = e[1] THEN f[2] ELSE IF is_empty(f) THEN <<>> ELSE <<f>>]
             all   == FlattenSeq(parts)
         IN  IF Len(all) = 1 THEN all[1] ELSE <<e[1], all>>
    [] e[1] = "not" ->
         LET lhs == flatten(e[2])
             rhs == flatten(e[3])
         IN  IF is_empty(rhs) THEN lhs ELSE <<"not", lhs, rhs>>
    [] OTHER -> e

(***************************************************************************)
(* Postings: idx maps <<word, document>> to the positions of the word.      *)
(***************************************************************************)
Positions(toks, w) ==
  LET mine == SelectSeq(toks, LAMBDA t : t[1] = w) IN [i \in DOMAIN mine |-> mine[i][4]]

Posted(toks, idx, doc) ==
  [k \in {<<toks[i][1], doc>> : i \in DOMAIN toks} |-> Positions(toks, k[1])] @@ idx

put_fts_index_item(analyzer, idx, doc, text) ==
  IF text = None THEN idx ELSE Posted(token_stream(analyzer, text), idx, doc)

Unposted(toks, idx, doc) ==
  [k \in DOMAIN idx \ {<<toks[i][1], doc>> : i \in DOMAIN toks} |-> idx[k]]

del_fts_index_item(analyzer, idx, doc, text) ==
  IF text = None THEN idx ELSE Unposted(token_stream(analyzer, text), idx, doc)

StartsWith(w, p) == Len(p) <= Len(w) /\ SubSeq(w, 1, Len(p)) = p

RECURSIVE WordLess(_, _)
WordLess(v, w) ==
  IF v = <<>> \/ w = <<>>
  THEN v = <<>> /\ w # <<>>
  ELSE IF v[1] = w[1] THEN WordLess(Tail(v), Tail(w)) ELSE v[1] < w[1]

KeyLess(a, b) == IF a[1] = b[1] THEN a[2] < b[2] ELSE WordLess(a[1], b[1])

RECURSIVE InKeyOrder(_)
InKeyOrder(ks) ==
  IF ks = {}
  THEN <<>>
  ELSE LET least == CHOOSE k \in ks : \A other \in ks \ {k} : KeyLess(k, other)
       IN  <<least>> \o InKeyOrder(ks \ {least})

\* The keys of the scanned range, in key order, up to the first that fails.
fts_search_literal(idx, l) ==
  InKeyOrder({k \in DOMAIN idx : IF l[3] THEN StartsWith(k[1], l[2]) ELSE k[1] = l[2]})

(***************************************************************************)
(* Scores.  Term frequency is a whole number; ln(1 + (N - n + .5)/(n + .5)) *)
(* is the logarithm of (2N + 2)/(2n + 1), so that a tf_idf score is kept as *)
(* the fraction whose logarithm it is.                                     *)
(***************************************************************************)
RECURSIVE Power(_, _)
Power(b, n) == IF n = 0 THEN 1 ELSE b * Power(b, n - 1)

fts_compute_score(kind, tf, n_found, n_total, booster) ==
  IF kind = "tf"
  THEN <<tf * booster, 1>>
  ELSE <<Power(2 * n_total + 2, tf * booster), Power(2 * n_found + 1, tf * booster)>>

ScoreSum(kind, a, b) == IF kind = "tf" THEN <<a[1] + b[1], 1>> ELSE <<a[1] * b[1], a[2] * b[2]>>

ScoreLess(a, b) == a[1] * b[2] < b[1] * a[2]

ScoreMax(a, b) == IF ScoreLess(a, b) THEN b ELSE a

(***************************************************************************)
(* Evaluation: the documents found, with their scores.                     *)
(***************************************************************************)
SearchLiteral(idx, l, kind, n) ==
  LET found == fts_search_literal(idx, l) IN
  FoldLeft(LAMBDA res, k :
             (k[2] :> fts_compute_score(kind, Len(idx[k]), Len(found), n, l[4])) @@ res,
           <<>>, found)

\* One literal of a NEAR: each document is taken out of coll once, and the
\* lesser of two positions within the distance is kept.
NearStep(idx, coll, l, distance) ==
  FoldLeft(LAMBDA acc, k :
             IF k[2] \notin DOMAIN acc.coll
             THEN acc
             ELSE LET near == {p \in acc.coll[k[2]] \cup Range(idx[k]) :
                                 \E q \in acc.coll[k[2]], r \in Range(idx[k]) :
                                   /\ p = (IF r > q THEN q ELSE r)
                                   /\ (IF r > q THEN r - q ELSE q - r) <= distance}
                      rest == [d \in DOMAIN acc.coll \ {k[2]} |-> acc.coll[d]]
                  IN  [coll |-> rest,
                       got  |-> IF near = {} THEN acc.got ELSE (k[2] :> near) @@ acc.got],
           [coll |-> coll, got |-> <<>>], fts_search_literal(idx, l)).got

SearchNear(idx, ls, distance, kind, n) ==
  LET first == FoldLeft(LAMBDA res, k : (k[2] :> Range(idx[k])) @@ res,
                        <<>>, fts_search_literal(idx, ls[1]))
      coll  == FoldLeft(LAMBDA c, l : NearStep(idx, c, l, distance), first, ls)
      boost == FoldLeft(LAMBDA s, l : s + l[4], 0, ls)
  IN  [d \in DOMAIN coll |->
         fts_compute_score(kind, Cardinality(coll[d]), Cardinality(DOMAIN coll), n, boost)]

RECURSIVE fts_search_impl(_, _, _, _)
fts_search_impl(idx, e, kind, n) ==
  LET Sub(i) == fts_search_impl(idx, e[2][i], kind, n)
      Both(a, b) == [d \in DOMAIN a \cap DOMAIN b |-> ScoreSum(kind, a[d], b[d])]
      Either(a, b) == [d \in DOMAIN a \cup DOMAIN b |->
                         CASE d \notin DOMAIN a -> b[d]
                           [] d \notin DOMAIN b -> a[d]
                           [] OTHER -> ScoreMax(a[d], b[d])]
  IN  CASE e[1] = "lit"  -> SearchLiteral(idx, e, kind, n)
        [] e[1] = "near" -> SearchNear(idx, e[2], e[3], kind, n)
        [] e[1] = "and"  -> FoldLeft(LAMBDA a, i : Both(a, Sub(i)), Sub(1),
                                     [i \in 1..(Len(e[2]) - 1) |-> i + 1])
        [] e[1] = "or"   -> FoldLeft(LAMBDA a, i : Either(a, Sub(i)), <<>>,
                                     [i \in DOMAIN e[2] |-> i])
        [] e[1] = "not"  -> LET res  == fts_search_impl(idx, e[2], kind, n)
                                gone == DOMAIN fts_search_impl(idx, e[3], kind, n)
                            IN  [d \in DOMAIN res \ gone |-> res[d]]

\* The best k rows, without a filter; with one, rows in score order until k
\* of them have passed.  Equal scores come in any order.
Rankings(found) ==
  {s \in [1..Cardinality(DOMAIN found) -> DOMAIN found] :
     /\ Range(s) = DOMAIN found
     /\ \A i, j \in DOMAIN s : i < j => ~ScoreLess(found[s[i]], found[s[j]])}

Best(order, options) ==
  LET passed == IF options.filter = None
                THEN order
                ELSE SelectSeq(order, LAMBDA d : d \in options.filter)
  IN  SubSeq(passed, 1, IF options.k < Len(passed) THEN options.k ELSE Len(passed))

\* The rows that are fetched: those before the k-th that passes.
Examined(order, options) ==
  {order[i] : i \in {i \in DOMAIN order :
                       Len(Best(SubSeq(order, 1, i - 1), options)) < options.k}}

(***************************************************************************)
(* The tokenizer cache.  A program is a sequence of <<"put", relation,      *)
(* analyzer>>, <<"search", relation, analyzer>> (creating an index fetches  *)
(* its analyzer the same way) and <<"drop">>.  Mutations look analyzers up  *)
(* under the bare name of the index, searches under relation:index.         *)
(***************************************************************************)
CacheKey(names, op) == IF op[1] = "put" THEN <<names[op[2]]>> ELSE <<op[2], names[op[2]]>>

Threads == DOMAIN job[3]

\* The operation a thread is in.
Now(t) == job[3][t][work.at[t]]

Busy(t) == work.at[t] <= Len(job[3][t])

Answer(t, analyzer) ==
  [work EXCEPT !.got = @ \cup {<<t, work.at[t], analyzer>>}, !.at[t] = @ + 1, !.pc[t] = "named"]

\* First critical section: the cache by name, under its read lock.
GetNamed(t) ==
  /\ job[1] = "cache" /\ Busy(t) /\ work.pc[t] = "named" /\ Now(t)[1] # "drop"
  /\ LET key == CacheKey(job[2], Now(t)) IN
       work' = IF key \in DOMAIN work.named
               THEN Answer(t, work.named[key])
               ELSE [work EXCEPT !.pc[t] = "hashed"]
  /\ UNCHANGED <<job, out>>

\* Second: the cache by configuration, under its read lock, and on a hit the
\* cache by name.
GetHashed(t) ==
  /\ job[1] = "cache" /\ Busy(t) /\ work.pc[t] = "hashed"
  /\ LET key == CacheKey(job[2], Now(t))
         cfg == Now(t)[3]
     IN  work' = IF cfg \in work.hashed
                 THEN [Answer(t, cfg) EXCEPT !.named = (key :> cfg) @@ @]
                 ELSE [work EXCEPT !.pc[t] = "build"]
  /\ UNCHANGED <<job, out>>

\* Third: the analyzer is built outside any lock and entered in both caches.
GetBuild(t) ==
  /\ job[1] = "cache" /\ Busy(t) /\ work.pc[t] = "build"
  /\ LET key == CacheKey(job[2], Now(t))
         cfg == Now(t)[3]
     IN  work' = IF build(cfg) = Refused
                 THEN Answer(t, Refused)
                 ELSE [Answer(t, cfg) EXCEPT !.named = (key :> cfg) @@ @, !.hashed = @ \cup {cfg}]
  /\ UNCHANGED <<job, out>>

\* Mutant of DropNamed: the cache by name is left as it is.
DropNamed_kept(t) ==
  /\ job[1] = "cache" /\ Busy(t) /\ work.pc[t] = "named" /\ Now(t)[1] = "drop"
  /\ work' = [work EXCEPT !.pc[t] = "drop"]
  /\ UNCHANGED <<job, out>>

\* remove_index empties one cache, then the other.
DropNamed(t) ==
  /\ job[1] = "cache" /\ Busy(t) /\ work.pc[t] = "named" /\ Now(t)[1] = "drop"
  /\ work' = [work EXCEPT !.named = <<>>, !.pc[t] = "drop"]
  /\ UNCHANGED <<job, out>>

DropHashed(t) ==
  /\ job[1] = "cache" /\ Busy(t) /\ work.pc[t] = "drop"
  /\ work' = [work EXCEPT !.hashed = {}, !.at[t] = @ + 1, !.pc[t] = "named"]
  /\ UNCHANGED <<job, out>>

(***************************************************************************)
(* The specification.                                                      *)
(***************************************************************************)
Start(j) ==
  CASE j[1] = "text"   -> None
    [] j[1] = "search" -> [stage |-> "docs", base |-> <<>>, idx |-> <<>>, left |-> j[3],
                           indexed |-> FALSE, outdated |-> {},
                           ast |-> None, found |-> None]
    [] j[1] = "cache"  -> [named |-> <<>>, hashed |-> {}, got |-> {},
                           at |-> [t \in DOMAIN j[3] |-> 1],
                           pc |-> [t \in DOMAIN j[3] |-> "named"]]

Init ==
  /\ \E i \in DOMAIN Jobs : job \in Jobs[i]
  /\ work = Start(job)
  /\ out = None

Analyze ==
  /\ job[1] = "text" /\ out = None
  /\ LET a == build(<<job[2], job[3]>>) IN
       out' = IF a = Refused THEN Refused ELSE token_stream(a, job[4])
  /\ UNCHANGED <<job, work>>

\* A row is put or removed.  The postings of a row that changes are deleted only
\* with a plain index beside the full-text one; `outdated` notes the rows whose
\* old postings stay.
ChangeDoc ==
  /\ job[1] = "search" /\ work.stage = "docs" /\ work.left # <<>>
  /\ Head(work.left)[1] # "create"
  /\ LET c     == Head(work.left)
         a     == build(job[2])
         there == c[2] \in DOMAIN work.base
         kept  == there /\ c[1] = "put" /\ (~job[5].has_indices \/ c[3] = work.base[c[2]])
         freed == IF there /\ ~kept
                  THEN del_fts_index_item(a, work.idx, c[2], work.base[c[2]])
                  ELSE work.idx
     IN  work' = [work EXCEPT !.left = Tail(@),
                    !.idx = CASE ~work.indexed -> @
                              [] c[1] = "put"  -> put_fts_index_item(a, freed, c[2], c[3])
                              [] OTHER         -> freed,
                    !.outdated = IF work.indexed /\ kept /\ c[3] # work.base[c[2]]
                                 THEN @ \cup {c[2]} ELSE @,
                    !.base = IF c[1] = "put"
                             THEN (c[2] :> c[3]) @@ @
                             ELSE [d \in DOMAIN @ \ {c[2]} |-> @[d]]]
  /\ UNCHANGED <<job, out>>

\* The index is created and filled from the rows that are there.
create_fts_index ==
  /\ job[1] = "search" /\ work.stage = "docs" /\ work.left # <<>>
  /\ Head(work.left)[1] = "create"
  /\ LET a == build(job[2])
         Fill(d, idx) == put_fts_index_item(a, del_fts_index_item(a, idx, d, work.base[d]),
                                            d, work.base[d])
     IN  work' = [work EXCEPT !.left = Tail(@), !.indexed = TRUE,
                              !.idx = FoldSet(Fill, @, DOMAIN work.base)]
  /\ UNCHANGED <<job, out>>

ParseQuery ==
  /\ job[1] = "search" /\ work.stage = "docs" /\ work.left = <<>>
  /\ \E e \in {parse_fts_query(JoinQueries(job[4]))} :
       IF e = Refused
       THEN out' = Refused /\ work' = [work EXCEPT !.stage = "end"]
       ELSE out' = out /\ work' = [work EXCEPT !.stage = "parsed", !.ast = e]
  /\ UNCHANGED job

TokenizeQuery ==
  /\ job[1] = "search" /\ work.stage = "parsed"
  /\ \E e \in {flatten(do_tokenize(build(job[2]), work.ast))} :
       IF is_empty(e)
       THEN out' = <<>> /\ work' = [work EXCEPT !.stage = "end", !.ast = e]
       ELSE out' = out /\ work' = [work EXCEPT !.stage = "ready", !.ast = e]
  /\ UNCHANGED job

Evaluate ==
  /\ job[1] = "search" /\ work.stage = "ready"
  /\ work' = [work EXCEPT !.stage = "found",
                !.found = fts_search_impl(work.idx, work.ast, job[5].kind,
                                          Cardinality(DOMAIN work.base))]
  /\ UNCHANGED <<job, out>>

\* A posting whose row is gone is the error "corrupted index".
RankRows ==
  /\ job[1] = "search" /\ work.stage = "found"
  /\ \E order \in Rankings(work.found) :
       out' = IF Examined(order, job[5]) \subseteq DOMAIN work.base
              THEN [i \in DOMAIN Best(order, job[5]) |->
                      <<Best(order, job[5])[i], work.found[Best(order, job[5])[i]]>>]
              ELSE Refused
  /\ work' = [work EXCEPT !.stage = "end"]
  /\ UNCHANGED job

Ended ==
  IF job[1] = "cache" THEN \A t \in Threads : ~Busy(t) ELSE out # None

Done == Ended /\ UNCHANGED vars

Next ==
  \/ Analyze
  \/ ChangeDoc \/ create_fts_index \/ ParseQuery \/ TokenizeQuery \/ Evaluate \/ RankRows
  \/ \E t \in 1..2 :
       /\ job[1] = "cache" /\ t \in Threads
       /\ \/ GetNamed(t) \/ GetHashed(t) \/ GetBuild(t)
          \/ DropNamed(t) \/ DropHashed(t)
  \/ Done

Spec == Init /\ [][Next]_vars

(***************************************************************************)
(* What an analyzer should make of a text.                                 *)
(***************************************************************************)
\* The maximal runs <<first, last>> of characters that belong to words.
Runs(kind, text) ==
  {r \in (DOMAIN text) \X (DOMAIN text) :
     /\ r[1] <= r[2]
     /\ \A i \in r[1]..r[2] : InWord(kind, text[i])
     /\ r[1] > 1 => ~InWord(kind, text[r[1] - 1])
     /\ r[2] < Len(text) => ~InWord(kind, text[r[2] + 1])}

RunToken(kind, text, r) ==
  <<SubSeq(text, r[1], r[2]), Frontier(text, r[1]), Frontier(text, r[2] + 1),
    Cardinality({q \in Runs(kind, text) : q[1] < r[1]})>>

\* The substrings of min to max characters, by where they start and end.
Grams(text, min, max, prefix_only) ==
  {<<SubSeq(text, i, j), Frontier(text, i), Frontier(text, j + 1), 0>> :
     <<i, j>> \in {p \in (DOMAIN text) \X (DOMAIN text) :
                     /\ p[2] - p[1] + 1 \in min..max
                     /\ prefix_only => p[1] = 1}}

Before(s, t) == s[2] < t[2] \/ (s[2] = t[2] /\ s[3] < t[3])

PlainTokens(t, text) ==
  CASE t[1] = "Raw"   -> {<<text, 0, ByteLen(text), 0>>}
    [] t[1] = "NGram" -> Grams(text, t[2], t[3], t[4])
    [] OTHER          -> {RunToken(t[1], text, r) : r \in Runs(t[1], text)}

\* An analyzer without filters yields exactly the maximal runs of word
\* characters with their byte offsets and ranks, or exactly the substrings of
\* the configured lengths, in text order (simple_tokenizer.rs,
\* whitespace_tokenizer.rs and the ring buffer of ngram_tokenizer.rs); and
\* whatever stands before it in the chain, what a filter promises holds for
\* every token it lets through: filtering again changes nothing.
TextExact ==
  (job[1] = "text" /\ out \notin {None, Refused}) =>
    LET t == construct_tokenizer(job[2])
        n == Len(job[3])
    IN  /\ n = 0 => /\ Range(out) = PlainTokens(t, job[4])
                    /\ \A i, j \in DOMAIN out : i < j => Before(out[i], out[j])
        /\ n > 0 => LET f == construct_token_filter(job[3][n]) IN
                      /\ f[1] # "Stemmer" =>
                           \A i \in DOMAIN out : transform(f, out[i]) = <<out[i]>>
                      /\ \A i, j \in DOMAIN out :
                           i < j => out[i][4] <= out[j][4] /\ out[i][2] <= out[j][2]

(***************************************************************************)
(* What a query should find: a meaning [blank, res] for every expression,   *)
(* read off the texts of the documents.                                    *)
(***************************************************************************)
Words(d) ==
  IF work.base[d] = None
  THEN <<>>
  ELSE LET toks == token_stream(build(job[2]), work.base[d])
       IN  [i \in DOMAIN toks |-> <<toks[i][1], toks[i][4]>>]

Hit(l, w) == IF l[3] THEN StartsWith(w, l[2]) ELSE w = l[2]

\* In the words of a document: those that a literal asks for, where they are,
\* and how often one is there.
Matching(words, l) == {words[i][1] : i \in {i \in DOMAIN words : Hit(l, words[i][1])}}

Places(words, l) == {words[i][2] : i \in {i \in DOMAIN words : Hit(l, words[i][1])}}

Count(words, w) == Cardinality({i \in DOMAIN words : words[i][1] = w})

Docs == DOMAIN work.base

Score(tf, found, boost) == fts_compute_score(job[5].kind, tf, found, Cardinality(Docs), boost)

\* A prefix that several words of a document have counts the last of them.
LiteralMeaning(W, l) ==
  LET pairs == {<<d, w>> \in Docs \X UNION {Matching(W[d], l) : d \in Docs} : w \in Matching(W[d], l)}
      last(d) == CHOOSE w \in Matching(W[d], l) : \A v \in Matching(W[d], l) : ~WordLess(w, v)
  IN  [blank |-> l[4] = 0 \/ l[2] = <<>>,
       res   |-> [d \in {p[1] : p \in pairs} |-> Score(Count(W[d], last(d)), Cardinality(pairs), l[4])]]

\* Positions of the literals in turn, each within the distance of the least
\* position before it.
NearMeaning(W, ls, distance) ==
  LET n == Len(ls)
      Least(x, i) == Min({x[j] : j \in 1..i})
      Chains(d) == {x \in [1..n -> UNION {Places(W[d], ls[i]) : i \in 1..n}] :
                      /\ \A i \in 1..n : x[i] \in Places(W[d], ls[i])
                      /\ \A i \in 2..n : x[i] - Least(x, i - 1) \in (-distance)..distance}
      found == {d \in Docs : Chains(d) # {}}
      boost == FoldLeft(LAMBDA s, l : s + l[4], 0, ls)
  IN  IF n = 0
      THEN [blank |-> TRUE, res |-> <<>>]
      ELSE [blank |-> FALSE,
            res   |-> [d \in found |-> Score(Cardinality({Least(x, n) : x \in Chains(d)}),
                                             Cardinality(found), boost)]]

\* Parts that mean nothing (stop words, boosted by zero) do not count.
AllOf(ms) ==
  LET real == SelectSeq(ms, LAMBDA m : ~m.blank) IN
  IF real = <<>>
  THEN [blank |-> TRUE, res |-> <<>>]
  ELSE [blank |-> FALSE,
        res   |-> [d \in {d \in Docs : \A i \in DOMAIN real : d \in DOMAIN real[i].res} |->
                     FoldLeft(LAMBDA s, m : ScoreSum(job[5].kind, s, m.res[d]),
                              Head(real).res[d], Tail(real))]]

AnyOf(a, b) ==
  IF a.blank THEN b ELSE IF b.blank THEN a ELSE
  [blank |-> FALSE,
   res   |-> [d \in DOMAIN a.res \cup DOMAIN b.res |->
                IF d \notin DOMAIN a.res THEN b.res[d]
                ELSE IF d \notin DOMAIN b.res THEN a.res[d]
                ELSE ScoreMax(a.res[d], b.res[d])]]

ButNot(a, b) ==
  IF a.blank \/ b.blank THEN a ELSE
  [blank |-> FALSE, res |-> [d \in DOMAIN a.res \ DOMAIN b.res |-> a.res[d]]]

Literals(p) == literal_tokenize(build(job[2]), build_phrase(p))

PhraseMeaning(W, ls) == AllOf([i \in DOMAIN ls |-> LiteralMeaning(W, ls[i])])

RECURSIVE Meaning(_, _, _)
TermMeaning(W, t) ==
  CASE t[1] = "group"  -> AllOf([i \in DOMAIN t[2] |-> Meaning(W, t[2][i][1], t[2][i][2])])
    [] t[1] = "near"   -> NearMeaning(W, FlattenSeq([i \in DOMAIN t[3] |-> Literals(t[3][i])]),
                                      IF t[2] = <<>> THEN 10 ELSE t[2][1])
    [] t[1] = "phrase" -> PhraseMeaning(W, Literals(t))

\* Split at the last of the loosest operators: NOT, then AND, then OR.
Meaning(W, terms, ops) ==
  IF ops = <<>>
  THEN TermMeaning(W, terms[1])
  ELSE LET op == IF "NOT" \in Range(ops) THEN "NOT" ELSE IF "AND" \in Range(ops) THEN "AND" ELSE "OR"
           i  == Max({j \in DOMAIN ops : ops[j] = op})
           l  == Meaning(W, SubSeq(terms, 1, i), SubSeq(ops, 1, i - 1))
           r  == Meaning(W, SubSeq(terms, i + 1, Len(terms)), SubSeq(ops, i + 1, Len(ops)))
       IN  CASE op = "NOT" -> ButNot(l, r)
             [] op = "AND" -> AllOf(<<l, r>>)
             [] op = "OR"  -> AnyOf(l, r)

\* A prefix inside NEAR follows only one of several words of a document.
RECURSIVE OneWordEach(_, _)
OneWordEach(W, es) ==
  \A i \in DOMAIN es : \A j \in DOMAIN es[i][1] :
    LET t == es[i][1][j] IN
      CASE t[1] = "group"  -> OneWordEach(W, t[2])
        [] t[1] = "near"   -> \A k \in DOMAIN t[3] : \A d \in Docs :
                                t[3][k][3] => Cardinality(Matching(W[d], build_phrase(t[3][k]))) <= 1
        [] t[1] = "phrase" -> TRUE

Passing(all) == {d \in DOMAIN all.res : job[5].filter = None \/ d \in job[5].filter}

OutRows == {out[i][1] : i \in DOMAIN out}

\* The rows of the answer are the best k of those that pass, best first.
RankedBest(all, pass) ==
  IF all.blank
  THEN out = <<>>
  ELSE /\ OutRows \subseteq pass
       /\ Len(out) = Cardinality(OutRows)
       /\ Len(out) = Min({job[5].k, Cardinality(pass)})
       /\ \A i \in DOMAIN out : out[i][2][1] * all.res[out[i][1]][2]
                                  = all.res[out[i][1]][1] * out[i][2][2]
       /\ \A i \in DOMAIN out : \A d \in pass \ {out[j][1] : j \in 1..i} :
            ~ScoreLess(out[i][2], all.res[d])

Answers(all, q, oneWordEach) ==
  IF oneWordEach
  THEN RankedBest(all, Passing(all))
  ELSE (Len(q) = 1 /\ q[1][2] = <<>>) => OutRows \subseteq Passing(all)

AnswersQuery(W, q) ==
  Answers(AllOf([i \in DOMAIN q |-> Meaning(W, q[i][1], q[i][2])]), q, OneWordEach(W, q))

\* The index has the postings of the rows as they are and, beyond them, only
\* postings of rows that were replaced without a plain index beside it: those
\* stay when the row is replaced again or removed (stored.rs:311).
PostingsKept ==
  (job[1] = "search" /\ work.indexed) =>
    /\ \A d \in Docs : \A w \in Range(Words(d)) :
         /\ <<w[1], d>> \in DOMAIN work.idx
         /\ Range(work.idx[<<w[1], d>>]) = {v[2] : v \in {v \in Range(Words(d)) : v[1] = w[1]}}
    /\ \A k \in DOMAIN work.idx :
         k[2] \in work.outdated \/ (k[2] \in Docs /\ k[1] \in {w[1] : w \in Range(Words(k[2]))})

\* While no row keeps old postings, a search that does not meet an integer
\* booster answers with documents that
\* satisfy the query as written, whatever was put, replaced and removed before,
\* whatever parts of the query the analyzer empties, and however parsing and
\* flattening regroup it; each with its score, best first, at most k, and
\* never a worse one in place of a better one (parse/fts.rs, fts/ast.rs,
\* fts_search of fts/indexing.rs).  It never reports a corrupted index.
SearchExact ==
  (job[1] = "search" /\ out # None /\ work.outdated = {}) =>
    LET q == JoinQueries(job[4])
    IN  IF HasIntBooster(q)
        THEN out = Refused
        ELSE out # Refused /\ AnswersQuery([d \in Docs |-> Words(d)], q)

(***************************************************************************)
(* The cache.                                                              *)
(***************************************************************************)
Ops == {<<t, i>> \in {1, 2} \X (1..4) : t \in Threads /\ i \in DOMAIN job[3][t]}

OpAt(p) == job[3][p[1]][p[2]]

SameKey(p, q) ==
  /\ OpAt(p)[1] # "drop" /\ OpAt(q)[1] # "drop"
  /\ CacheKey(job[2], OpAt(p)) = CacheKey(job[2], OpAt(q))

\* A lookup that earlier or concurrent lookups under the same name ask another
\* analyzer for, with no drop in between that this thread waited for.
Contended(p) ==
  \E q \in Ops :
    /\ SameKey(p, q) /\ OpAt(p)[3] # OpAt(q)[3]
    /\ \/ p[1] # q[1]
       \/ q[2] < p[2] /\ ~\E i \in (q[2] + 1)..(p[2] - 1) : job[3][p[1]][i][1] = "drop"

\* TokenizerCache::get answers with the analyzer that was asked for, unless the
\* name it is cached under is also used for another one: by another thread
\* around a drop, or by an index of the same bare name on another relation.
\* Even then the analyzer is one that somebody asked for under that name.
CacheExact ==
  job[1] = "cache" =>
    \A g \in work.got :
      LET p == <<g[1], g[2]>> IN
        /\ g[3] = Refused => build(OpAt(p)[3]) = Refused
        /\ (g[3] # Refused /\ ~Contended(p)) => g[3] = OpAt(p)[3]
        /\ g[3] # Refused => \E q \in Ops : SameKey(p, q) /\ g[3] = OpAt(q)[3]

TypeOK ==
  /\ job[1] \in {"text", "search", "cache"}
  /\ job[1] # "text" => work # None
  /\ job[1] = "cache" => out = None

\* Full-text search as a whole.
Exact == TypeOK /\ TextExact /\ PostingsKept /\ SearchExact /\ CacheExact
=============================================================================
