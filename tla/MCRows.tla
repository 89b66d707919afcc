------------------------------- MODULE MCRows -------------------------------
(***************************************************************************)
(* Rows of one stored relation, for TLC: a behaviour is a script of        *)
(* mutations with what is attached to the relation, changes and scans of   *)
(* the versions of rows, full-text searches, a proximity index or one of   *)
(* near duplicates, the collector that indices are built from, or imports  *)
(* and exports of whole relations (`part` says which).                     *)
(***************************************************************************)
EXTENDS Integers, Sequences, FiniteSets, TLC

CONSTANTS
    None,
    Parts,                              \* the parts that are checked
    Key, Val, MaxTuples, MaxStmts,      \* Mutation
    MaxTs, Untouched,                   \* TimeTravel
    Refused, Bad,                       \* FullText
    MaxOps                              \* Transfer

VARIABLES
    part,
    config, before, rows, idx, fts, mirror, collector, stmt, count, returned, status,
    stored, delta, writes, scan,
    job, work, out,
    db, backup, last, ops, reordered,
    manifest, table, index, outcome, calls, removed, spoilt,
    phase, vector, batches, batch_index, current_batch, last_elements_index, tempfile, pushed

Conf(i, f, t, c, l) == [index |-> i, fts |-> f, triggers |-> t, callback |-> c, level |-> l]

\* Indices (a full-text one only beside a plain one), triggers and callbacks
\* with each other and alone, and everything at the lower levels.
Configs ==
    {Conf(i, i, t, i = t, IF i /\ t THEN "protected" ELSE "normal") : i \in BOOLEAN, t \in BOOLEAN}
    \cup {Conf(TRUE, TRUE, TRUE, TRUE, l) : l \in {"hidden", "read_only"}}

AllOps == {"put", "insert", "update", "rm", "delete", "ensure", "ensure_not"}

Muts == INSTANCE Mutation WITH Config <- Configs, Op <- AllOps, Ignore <- {FALSE}

\* Three versions of one key, or two of two keys with other values.
Deep == INSTANCE TimeTravel WITH Form <- {"list"}, Keys <- 1, MaxWrites <- 3, Val <- {1}
Wide == INSTANCE TimeTravel WITH Form <- {"list"}, Keys <- 2, MaxWrites <- 2

-----------------------------------------------------------------------------
(* Texts for every tokenizer and chain of filters.                         *)

TextsUpTo(n, chars) == UNION {[1..k -> chars] : k \in 0..n}

Plain(name) == <<name, <<>>>>

Tokenizers == {Plain(n) : n \in {"Raw", "Simple", "Whitespace", "Other"}}

GramArgs ==
    {<<>>, <<2>>, <<1, 2>>, <<1, 3, 0>>, <<2, 3, 1>>, <<1, 2, 1>>, <<3, 3, 0>>}
    \cup {<<0, 2>>, <<3, 2>>, <<Bad>>, <<1, 2, Bad>>}

Compounds == {<<10>>, <<10, 24>>, <<24, 24>>}

Chains ==
    {<<Plain(f)>> : f \in {"AlphaNumOnly", "AsciiFolding", "RemoveLong", "Other"}}
    \cup {<<<<f, <<Bad>>>>>> : f \in {"Stopwords", "SplitCompoundWords"}}
    \cup {<<Plain("LowerCase"), Plain("AlphaNumOnly")>>, <<Plain("AsciiFolding"), Plain("LowerCase")>>,
          <<<<"RemoveLong", <<2>>>>>>, <<<<"RemoveLong", <<-1>>>>>>,
          <<Plain("AsciiFolding"), <<"RemoveLong", <<3>>>>>>,
          <<<<"SplitCompoundWords", <<Compounds>>>>>>,
          <<Plain("LowerCase"), <<"Stopwords", <<{<<20>>, <<24>>}>>>>>>,
          <<<<"Stopwords", <<{<<20>>, <<24>>}>>>>, Plain("LowerCase")>>,
          <<<<"Stemmer", <<"english">>>>>>}

TextJobs == <<
    {<<"text", t, <<>>, x>> : t \in Tokenizers, x \in TextsUpTo(4, {1, 2, 45})},
    {<<"text", <<"NGram", a>>, <<>>, x>> : a \in GramArgs, x \in TextsUpTo(4, {20, 45})},
    {<<"text", Plain("Simple"), c, x>> : c \in Chains, x \in TextsUpTo(3, {1, 10, 24, 42})}>>

(* Queries over the words a = <<20>>, b = <<21>>, ab and a stop word.       *)

Analyzer == <<Plain("Simple"), <<<<"Stopwords", <<{<<24>>}>>>>>>>>
Options(k, kind, f) == [k |-> k, kind |-> kind, filter |-> f, has_indices |-> TRUE]
Alone(o) == [o EXCEPT !.has_indices = FALSE]

Phrase(w) == <<"phrase", w, FALSE, <<>>>>
Prefix(w) == <<"phrase", w, TRUE, <<>>>>
Boosted(w, b) == <<"phrase", w, FALSE, b>>
Single(t) == <<<<<<t>>, <<>>>>>>
Infix(x, o, y) == <<<<<<x, y>>, <<o>>>>>>
Group(q) == <<"group", q>>

wa == Phrase(<<20>>)
wb == Phrase(<<21>>)
stop == Phrase(<<24>>)
Leaves == {wa, wb, stop, Prefix(<<20>>), Boosted(<<20>>, <<"float", 0>>), Boosted(<<21>>, <<"float", 2>>),
           Phrase(<<20, 1, 21>>)}
Operators == {"AND", "OR", "NOT"}

Pairs == {Single(t) : t \in Leaves} \cup {Infix(x, o, y) : x \in Leaves, y \in Leaves, o \in Operators}
Triples ==
    {<<<<<<x, y, z>>, <<o, p>>>>>> : x \in {wa, wb, stop}, y \in {wa, wb, stop},
                                   z \in {wb, stop, Prefix(<<20>>)}, o \in Operators, p \in Operators}
Nears ==
    {Single(<<"near", d, ls>>) :
       d \in {<<>>, <<0>>, <<1>>},
       ls \in {<<wa>>, <<wa, wb>>, <<wb, wa, Phrase(<<20, 21>>)>>, <<stop>>, <<wa, Prefix(<<20>>)>>,
               <<Prefix(<<20>>)>>, <<wa, wb, wa>>}}
Nested ==
    {Single(Boosted(<<20>>, <<"int", 2>>)), Single(<<"near", <<>>, <<Boosted(<<20>>, <<"int", 1>>)>>>>),
     Single(Group(Single(wa) \o Single(wb))), Single(wa) \o Single(wb),
     Infix(wa, "AND", Group(Infix(stop, "NOT", wb))), Infix(wa, "NOT", Group(Infix(wb, "AND", wa)))}

Texts == {<<20, 1, 21>>, <<21, 1, 20, 1, 20>>, <<20, 21, 1, 20>>, <<24, 1, 21>>}
Put(d, x) == <<"put", d, x>>
Create == <<"create">>

Corpora == {<<Put(1, x), Create, Put(2, y)>> : x \in {<<20, 1, 21>>, None}, y \in Texts}
Corpora3 == {<<Put(1, <<20, 1, 21>>), Create, Put(2, y), Put(3, <<21>>)>> : y \in Texts}
Replaced ==
    {<<Put(3, None), Create, Put(1, x), Put(1, <<21, 1, 20, 1, 20>>), Put(2, <<20>>), <<"rm", 2>>>> :
       x \in Texts}
RemovedLast == {Append(c, <<"rm", 1>>) : c \in Replaced}

SearchJobs == <<
    {<<"search", Analyzer, c, <<q>>, o>> : c \in Corpora, q \in Pairs,
                                           o \in {Options(1, "tf", None), Options(2, "tf_idf", None)}},
    {<<"search", Analyzer, c, <<q>>, Options(2, "tf", None)>> : c \in Corpora3, q \in Triples},
    {<<"search", Analyzer, c, <<q>>, o>> : c \in Corpora \cup Replaced, q \in Nears \cup Nested,
                                           o \in {Options(1, "tf", {2}), Options(2, "tf", None)}},
    {<<"search", Analyzer, c, <<q>>, Alone(Options(2, "tf", None))>> :
       c \in Replaced \cup RemovedLast, q \in {Single(t) : t \in Leaves}},
    {<<"search", Analyzer, c, <<q, r>>, Options(2, "tf", None)>> : c \in Corpora, q \in Nested, r \in Nested}>>

(* Threads that fetch analyzers, for indices of one name or of two.        *)

RawAnalyzer == <<Plain("Raw"), <<>>>>
BadAnalyzer == <<Plain("Other"), <<>>>>

Fetches ==
    {<<"put", r, a>> : r \in {"r", "s"}, a \in {Analyzer, RawAnalyzer}}
    \cup {<<"search", "r", a>> : a \in {Analyzer, RawAnalyzer}}
    \cup {<<"search", "s", BadAnalyzer>>, <<"drop">>}

CacheJobs == <<
    {<<"cache", n, <<p, <<o>>>>>> : n \in {[r |-> "i", s |-> "i"], [r |-> "i", s |-> "j"]},
                                    p \in [1..2 -> Fetches], o \in Fetches},
    {<<"cache", [r |-> "i", s |-> "j"], <<p>>>> :
       p \in [1..4 -> {f \in Fetches : f[1] = "drop" \/ (f[2] = "r" /\ f # <<"put", "r", RawAnalyzer>>)}]}>>

Search == INSTANCE FullText WITH Jobs <- TextJobs \o SearchJobs \o CacheJobs

-----------------------------------------------------------------------------
(* A relation r(k => v, w) with an index on v, s(k => v) without, and a      *)
(* backup in which s may have other columns.                                *)

Keyed(set) == [k \in {<<x[1]>> : x \in set} |-> Tail(CHOOSE x \in set : x[1] = k[1])]
Db(r, level, s, cols) ==
    ("r" :> [cols |-> <<"k", "v", "w">>, nkeys |-> 1, level |-> level, rows |-> Keyed(r),
             indices |-> <<[name |-> "r:i", extractor |-> <<2, 1>>]>>])
    @@ ("r:i" :> [cols |-> <<"v", "k">>, nkeys |-> 2, level |-> 3, indices |-> <<>>,
                  rows |-> [e \in {<<x[2], x[1]>> : x \in r} |-> <<>>]])
    @@ ("s" :> [cols |-> cols, nkeys |-> 1, level |-> level, indices |-> <<>>, rows |-> Keyed(s)])
Stores ==
    {Db(r, l, {<<1, 1>>}, <<"k", "v">>) :
       r \in {{}, {<<1, 1, 2>>}, {<<1, 1, 2>>, <<2, 2, 2>>}}, l \in 0..3}
Files ==
    {Db({<<1, 1, 2>>}, 3, {<<1, 2, 2>>}, <<"k", "v", "w">>),
     Db({}, 3, {<<1, 2>>, <<2, 2>>}, <<"k", "v">>)}

\* Rows in the order of the columns or not, too short, with values that are
\* coerced or refused; deletions before rows; indices and unknown relations.
Item(n, d, h, rs) == [name |-> n, delete |-> d, colon |-> n = "r:i", headers |-> h, rows |-> rs]
All == <<"k", "v", "w">>
Data ==
    {<<Item("r", FALSE, h, rs)>> :
       h \in {All, <<"k", "w", "v">>},
       rs \in {<<<<1, 1, 2>>>>, <<<<1, 2, 1>>>>, <<<<1, 11, 2>>, <<1, 2, 2>>>>,
               <<<<2, 1, 1>>, <<1, 0, 1>>>>, <<<<2, 2>>>>}}
    \cup {<<Item("r", TRUE, <<"k">>, <<<<1>>, <<2>>>>), Item("r", FALSE, All, <<<<2, 2, 1>>>>),
            Item("s", FALSE, <<"v", "k">>, <<<<1, 2>>>>)>>,
          <<Item("r", TRUE, All, <<<<1, 1, 2>>>>)>>,
          <<Item("r", FALSE, All, <<<<2, 2, 1>>>>), Item("r:i", FALSE, <<"v", "k">>, <<<<1, 2>>>>)>>,
          <<Item("r", FALSE, <<"k", "v">>, <<<<1, 2>>>>)>>,
          <<Item("r", FALSE, <<"k", "v", "w", "v">>, <<<<1, 2, 1, 1>>>>),
            Item("s", TRUE, <<"k">>, <<<<1>>>>)>>,
          <<Item("q", FALSE, All, <<>>)>>}

Moves == INSTANCE Transfer WITH Databases <- Stores, Backups <- Files, Payloads <- Data,
                                Lists <- {<<"r">>, <<"r", "r:i", "s">>, <<"s">>, <<"q">>, <<"s", "r">>}

-----------------------------------------------------------------------------
(* Vectors on a line: rows with one vector, and one that changes; two       *)
(* transactions at a time; other distances and choices of neighbours; rows  *)
(* with two vectors, with none, and refused by the filter of the index; six *)
(* rows, one of which gets more links than it may have.                     *)

Vectors(vs) == [pass |-> TRUE, vecs |-> vs]
Hidden(vs) == [pass |-> FALSE, vecs |-> vs]
Manifest(d, extend, keep, concurrent, c, ts) ==
    [m_neighbours |-> 2, ef_construction |-> 2, depth |-> 1, distance |-> d, extend_candidates |-> extend,
     keep_pruned |-> keep, concurrent |-> concurrent, calls |-> c, tuples |-> ts, table |-> <<>>]
Line == <<{Vectors(<<0>>)}, {Vectors(<<8>>)}, {Vectors(<<4>>)}, {Vectors(<<2>>), Vectors(<<1>>)}>>
Crowd == <<Vectors(<<0>>), Vectors(<<100>>), Vectors(<<110>>), Vectors(<<90>>), Vectors(<<95>>), Vectors(<<102>>)>>
Crowded == [Manifest("L2", FALSE, FALSE, FALSE, 3, [r \in 1..6 |-> {Crowd[r]}]) EXCEPT !.table = Crowd]
Doubles == <<{Vectors(<<0>>), Hidden(<<0>>)}, {Vectors(<<8, 1>>), Hidden(<<8, 1>>)}, {Vectors(<<4, Bad>>)}>>

Proximity ==
    INSTANCE Hnsw WITH
        Manifests <- {Manifest("L2", FALSE, FALSE, FALSE, 6, Line), Manifest("L2", FALSE, FALSE, TRUE, 4, Line),
                      Manifest("L2", TRUE, TRUE, FALSE, 5, Line), Manifest("L2", FALSE, FALSE, FALSE, 5, Doubles),
                      Manifest("IP", FALSE, TRUE, FALSE, 5, <<{Vectors(<<0>>)}, {Vectors(<<-2>>)}, {Vectors(<<1>>)},
                                                              {Vectors(<<3>>)}>>), Crowded},
        Queries <- {5, 109}, Null <- Bad

\* Lists, texts and values that are not indexed, with and without a plain index.
Banded(n, b, r, plain) == [n_gram |-> n, n_bands |-> b, n_rows_in_band |-> r, has_indices |-> plain]
List(es) == <<"list", es>>
Str(ts) == <<"str", ts>>

Duplicates ==
    INSTANCE Lsh WITH
        Manifests <- {Banded(1, 2, 1, TRUE), Banded(2, 1, 2, FALSE)},
        Tables <- {<<>>, <<List(<<1, 2>>), Str(<<1, 2>>), <<"null">>>>, <<<<"other">>>>},
        Row <- 1..3,
        Value <- {<<"null">>, <<"other">>, List(<<1, 2>>), List(<<>>), Str(<<1, 2>>), Str(<<2, 1, 2>>), Str(<<>>)},
        Seeds <- {3, 5}, MaxCalls <- 3

\* Up to seven elements in batches of two, the first written after four.
Spill == INSTANCE SwapVec WITH Element <- {1, 2}, batch_size <- 2, swap_after <- 3, MaxLen <- 7

-----------------------------------------------------------------------------
mutsVars == <<config, before, rows, idx, fts, mirror, collector, stmt, count, returned, status>>
travelVars == <<stored, delta, writes, scan>>
jobVars == <<job, work, out>>
moveVars == <<db, backup, last, ops, reordered>>
vectorVars == <<manifest, table, index, outcome, calls, removed, spoilt>>
spillVars == <<phase, vector, batches, batch_index, current_batch, last_elements_index, tempfile, pushed>>
vars == <<part, mutsVars, travelVars, jobVars, moveVars, vectorVars, spillVars>>

NoMuts ==
    /\ config = None /\ before = None /\ rows = None /\ idx = None /\ fts = None
    /\ mirror = None /\ collector = None /\ stmt = None /\ count = None
    /\ returned = None /\ status = None
NoTravel == stored = None /\ delta = None /\ writes = None /\ scan = None
NoJob == job = None /\ work = None /\ out = None
NoMove == db = None /\ backup = None /\ last = None /\ ops = None /\ reordered = None
NoVectors ==
    /\ manifest = None /\ table = None /\ index = None /\ outcome = None /\ calls = None
    /\ removed = None /\ spoilt = None
NoSpill ==
    /\ phase = None /\ vector = None /\ batches = None /\ batch_index = None /\ current_batch = None
    /\ last_elements_index = None /\ tempfile = None /\ pushed = None

Init ==
    /\ part \in Parts
    /\ part # "spill" => NoSpill
    /\ \/ part = "mutation" /\ Muts!Init /\ NoTravel /\ NoJob /\ NoMove /\ NoVectors
       \/ part = "versions" /\ Deep!Init /\ NoMuts /\ NoJob /\ NoMove /\ NoVectors
       \/ part = "keys" /\ Wide!Init /\ NoMuts /\ NoJob /\ NoMove /\ NoVectors
       \/ part = "search" /\ Search!Init /\ NoMuts /\ NoTravel /\ NoMove /\ NoVectors
       \/ part = "moves" /\ Moves!Init /\ NoMuts /\ NoTravel /\ NoJob /\ NoVectors
       \/ part = "vectors" /\ Proximity!Init /\ NoMuts /\ NoTravel /\ NoJob /\ NoMove
       \/ part = "duplicates" /\ Duplicates!Init /\ removed = None /\ spoilt = None /\ NoMuts /\ NoTravel /\ NoJob /\ NoMove
       \/ part = "spill" /\ Spill!CollectorInit /\ job = None /\ work = None /\ NoMuts /\ NoTravel /\ NoMove /\ NoVectors

Next ==
    /\ UNCHANGED part
    /\ part # "spill" => UNCHANGED spillVars
    /\ \/ part = "mutation" /\ Muts!Next /\ UNCHANGED <<travelVars, jobVars, moveVars, vectorVars>>
       \/ part = "versions" /\ Deep!Next /\ UNCHANGED <<mutsVars, jobVars, moveVars, vectorVars>>
       \/ part = "keys" /\ Wide!Next /\ UNCHANGED <<mutsVars, jobVars, moveVars, vectorVars>>
       \/ part = "search" /\ Search!Next /\ UNCHANGED <<mutsVars, travelVars, moveVars, vectorVars>>
       \/ part = "moves" /\ Moves!Next /\ UNCHANGED <<mutsVars, travelVars, jobVars, vectorVars>>
       \/ part = "vectors" /\ Proximity!Next /\ UNCHANGED <<mutsVars, travelVars, jobVars, moveVars>>
       \/ part = "duplicates" /\ Duplicates!Next /\ UNCHANGED <<removed, spoilt, mutsVars, travelVars, jobVars, moveVars>>
       \/ part = "spill" /\ Spill!CollectorNext /\ UNCHANGED <<job, work, mutsVars, travelVars, moveVars, vectorVars>>

\* A scan goes on until its iterator is at the end.
Fairness ==
    /\ WF_travelVars(part = "versions" /\ Deep!Scanning)
    /\ WF_travelVars(part = "keys" /\ Wide!Scanning)

Spec == Init /\ [][Next]_vars /\ Fairness

-----------------------------------------------------------------------------
\* The plain index has an entry for every row and for no other, and the events
\* of a committed script are its changes, with the rows they replaced.
ChangesExact == part = "mutation" => Muts!Inv

\* The full-text index, beside a plain one, has the postings of the rows, and
\* the relation that the triggers write stays a copy.
AttachedAgree == part = "mutation" => (Muts!FtsAgrees /\ Muts!MirrorAgrees)

\* Analyzers find the words of a text, a full-text search the documents that
\* satisfy the query, best first, and the cache gives the analyzer asked for.
FullTextExact == part = "search" => Search!Exact

\* An import leaves the rows that its data say or, refused, nothing changed; an
\* index has the entries of the rows; what is exported can be imported again.
TransferExact == part = "moves" => Moves!Exact

\* The proximity index has the vectors of the rows as nodes and no others, its
\* links lead both ways, degrees stay within their bound, no statement fails, and
\* a search that may look at everything finds the nearest vectors.  The index of
\* near duplicates has the bands of the rows as they are, and a search finds the
\* rows that agree in a band.
ProximityExact ==
    /\ part = "vectors" => Proximity!Exact
    /\ part = "duplicates" => Duplicates!Exact

\* No statement meets what hnsw.rs:343 says "signifies a bug in the index
\* implementation": a link to a vector that is not on the level.
NoIndexBug == part = "vectors" => Proximity!NoIndexBug

\* A scan at a time gives for each key the version that counts, if it asserts;
\* a scan of all versions in a writing transaction gives what it sees, in order;
\* a scan that is collected, also through a file, gives back what it put in.
ScansExact ==
    /\ part = "versions" => Deep!Inv
    /\ part = "keys" => Wide!Inv
    /\ part = "spill" => (Spill!CollectorIInv /\ Spill!AllBack)

\* Every scan comes to its end.  It rests on coerce: the retraction at the least
\* timestamp is the bound itself, and a scan that meets it does not move.
ScanEnds ==
    [](scan # None => <>(scan # None => scan.done))
=============================================================================
