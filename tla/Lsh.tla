--------------------------------- MODULE Lsh ---------------------------------
(***************************************************************************)
(* The near-duplicate index of runtime/minhash_lsh.rs, as the mutations of *)
(* query/stored.rs keep it and searches read it.                           *)
(*                                                                         *)
(* An indexed value becomes the least hashes of its elements under several *)
(* permutations, cut into bands; rows that agree with a query in all of a  *)
(* band are found.  The index has an entry for each band of each row       *)
(* (`fwd`) and, to be able to delete them, the bands of each row (`inv`).  *)
(*                                                                         *)
(* A value is tagged: <<"null">>, <<"list", elements>>, <<"str", tokens>>   *)
(* (what an analyzer makes of a text is in FullText) or <<"other">>.       *)
(* Elements and tokens are numbers.                                        *)
(***************************************************************************)
EXTENDS Integers, Sequences, FiniteSetsExt, SequencesExt

CONSTANTS
    Manifests,   \* the indices a relation may get: see create_minhash_lsh_index
    Tables,      \* the rows before the index is made
    Row, Value,  \* what is put, and where
    Seeds,       \* of the hash functions
    MaxCalls,    \* bound of the model
    None, Refused

VARIABLES
    manifest,  \* of the index, None without one
    table,     \* the rows: a function from keys to values
    index,     \* [fwd, inv]
    outcome,   \* of the last statement
    calls

vars == <<manifest, table, index, outcome, calls>>

-----------------------------------------------------------------------------
(* Hashing *)

MAX == 7

\* XxHash32, which is given a seed and an element or the tokens of an n-gram.
XxHash32(seed, v) == (seed * (FoldLeft(LAMBDA a, t : 2 * a + t, Len(v), v) + 1)) % MAX

\* HashValues::new
HashValues(values, perms) ==
    [i \in DOMAIN perms |-> Min({MAX} \cup {XxHash32(perms[i], v) : v \in values})]

unique_ngrams(coll, n) ==
    IF n = 1 THEN {<<t>> : t \in ToSet(coll)}
    ELSE IF n >= Len(coll) THEN {coll}
    ELSE {SubSeq(coll, i, i + n - 1) : i \in 1..(Len(coll) - n + 1)}

\* What a value that is not null is hashed to.
min_hash(m, v) ==
    IF v[1] = "list" THEN HashValues({<<e>> : e \in ToSet(v[2])}, m.perms)
    ELSE HashValues(unique_ngrams(v[2], m.n_gram), m.perms)

Hashable(v) == v[1] \in {"list", "str"}

\* The bands of a value, each with its number.
Chunks(m, v) ==
    LET bytes == min_hash(m, v)
        r == m.n_rows_in_band
    IN  {<<i, SubSeq(bytes, (i - 1) * r + 1, i * r)>> : i \in 1..m.n_bands}

-----------------------------------------------------------------------------
(* The entries of one row *)

Without(ix, row) == [k \in DOMAIN ix.inv \ {row} |-> ix.inv[k]]

\* del_lsh_index_item with the bands it is given.
DelForward(ix, row) == [ix EXCEPT !.fwd = @ \ (ix.inv[row] \X {row})]

\* del_lsh_index_item, which looks them up.
del_lsh_index_item(ix, row) ==
    IF row \in DOMAIN ix.inv THEN [DelForward(ix, row) EXCEPT !.inv = Without(ix, row)] ELSE ix

\* A value that became null leaves its bands in `inv`.
put_lsh_index_item(m, ix, row, v) ==
    LET cleared == IF row \in DOMAIN ix.inv THEN DelForward(ix, row) ELSE ix
        chunks == Chunks(m, v)
    IN  IF v[1] = "null" THEN cleared
        ELSE IF ~Hashable(v) THEN Refused
        ELSE [fwd |-> cleared.fwd \cup (chunks \X {row}),
              inv |-> [k \in DOMAIN ix.inv \cup {row} |-> IF k = row THEN chunks ELSE ix.inv[k]]]

-----------------------------------------------------------------------------
(* Statements.  One that is refused is rolled back.                        *)

Empty == [fwd |-> {}, inv |-> <<>>]

Init ==
    /\ manifest = None /\ table \in Tables /\ index = Empty
    /\ outcome = "ok" /\ calls = 0

Concluded(ix, rows) ==
    IF ix = Refused THEN outcome' = "refused" /\ UNCHANGED <<table, index>>
    ELSE outcome' = "ok" /\ table' = rows /\ index' = ix

Call == calls < MaxCalls /\ calls' = calls + 1

\* create_minhash_lsh_index.  The parameters that find_optimal_params chose are
\* in m, the seeds of the permutations are random.
create_minhash_lsh_index(m) ==
    /\ Call /\ manifest = None
    /\ \E perms \in [1..(m.n_bands * m.n_rows_in_band) -> Seeds] :
          LET made == [n_gram |-> m.n_gram, n_bands |-> m.n_bands, n_rows_in_band |-> m.n_rows_in_band,
                       has_indices |-> m.has_indices, perms |-> perms]
              Add(ix, row) == IF ix = Refused THEN Refused ELSE put_lsh_index_item(made, ix, row, table[row])
              ix == FoldLeft(Add, Empty, SetToSortSeq(DOMAIN table, <))
          IN  /\ Concluded(ix, table)
              /\ manifest' = IF ix = Refused THEN None ELSE made

\* remove_index, of both relations
remove_index ==
    /\ Call /\ manifest # None
    /\ manifest' = None /\ index' = Empty /\ outcome' = "ok"
    /\ UNCHANGED table

Stored(row, v) == [k \in DOMAIN table \cup {row} |-> IF k = row THEN v ELSE table[k]]

\* :put of a row.  Only with a plain index beside it is the entry of a row that
\* changes deleted first; the insertion deletes what it finds.
put(row, v) ==
    /\ Call
    /\ LET changed == row \in DOMAIN table /\ table[row] # v
           ix == IF manifest.has_indices /\ changed THEN del_lsh_index_item(index, row) ELSE index
       IN  Concluded(IF manifest = None THEN index ELSE put_lsh_index_item(manifest, ix, row, v), Stored(row, v))
    /\ UNCHANGED manifest

\* :update of a row, which must be there.
update(row, v) ==
    /\ Call
    /\ IF row \notin DOMAIN table THEN Concluded(Refused, table)
       ELSE LET ix == del_lsh_index_item(index, row)
            IN  Concluded(IF manifest = None THEN index ELSE put_lsh_index_item(manifest, ix, row, v), Stored(row, v))
    /\ UNCHANGED manifest

\* :rm of a row.
rm(row) ==
    /\ Call
    /\ LET ix == IF manifest # None /\ row \in DOMAIN table THEN del_lsh_index_item(index, row) ELSE index
       IN  Concluded(ix, [k \in DOMAIN table \ {row} |-> table[k]])
    /\ UNCHANGED manifest

Next ==
    \/ \E m \in Manifests : create_minhash_lsh_index(m)
    \/ remove_index
    \/ \E row \in Row, v \in Value : put(row, v) \/ update(row, v)
    \/ \E row \in Row : rm(row)

Spec == Init /\ [][Next]_vars

-----------------------------------------------------------------------------
(* Search *)

\* The scan of one band adds rows in the order of their keys, at least one, and
\* stops when there are k; the next band is scanned all the same.
ScanBand(found, hits, k) ==
    LET upto(n) == found \cup ToSet(SubSeq(hits, 1, n))
        enough == {n \in 1..Len(hits) : k # None /\ Cardinality(upto(n)) >= k}
    IN  upto(IF enough = {} THEN Len(hits) ELSE Min(enough))

found_tuples(q, k) ==
    LET chunks == SetToSortSeq(Chunks(manifest, q), LAMBDA c, d : c[1] < d[1])
        hits(c) == SetToSortSeq({e[2] : e \in {e \in index.fwd : e[1] = c}}, <)
    IN  FoldLeft(LAMBDA found, c : ScanBand(found, hits(c), k), {}, chunks)

\* The answers there may be: the rows found are looked at in the order of a hash
\* set.  With a filter (the rows it lets pass) all are found before k are taken.
lsh_search(q, k, filter) ==
    IF q[1] = "null" THEN {{}}
    ELSE IF ~Hashable(q) THEN {Refused}
    ELSE LET found == found_tuples(q, IF filter = None THEN k ELSE None)
             ret == IF filter = None THEN found ELSE found \cap filter
         IN  IF ~(found \subseteq DOMAIN table) THEN {Refused}  \* "Tuple not found in base LSH relation"
             ELSE IF k = None THEN {ret}
             ELSE {r \in SUBSET ret : Cardinality(r) = Min({k, Cardinality(ret)})}

-----------------------------------------------------------------------------
(* Properties *)

Indexed == {row \in DOMAIN table : Hashable(table[row])}

\* The index has the bands of the rows and of no others, whatever values they had
\* before, and can find them again to delete them.
EntriesExact ==
    manifest # None =>
        /\ index.fwd = UNION {Chunks(manifest, table[row]) \X {row} : row \in Indexed}
        /\ DOMAIN index.inv \subseteq DOMAIN table
        /\ \A row \in Indexed : row \in DOMAIN index.inv /\ index.inv[row] = Chunks(manifest, table[row])

\* Equal hashes in all of a band
Alike(v, w) ==
    \E band \in 0..(manifest.n_bands - 1) :
       \A i \in 1..manifest.n_rows_in_band :
          LET p == band * manifest.n_rows_in_band + i
          IN  min_hash(manifest, v)[p] = min_hash(manifest, w)[p]

\* A search gives rows that are alike, as many as there are up to k, of those that
\* the filter lets pass, and finds the rows that have the value it asks for.
SearchExact ==
    manifest # None =>
        \A q \in Value, k \in {None, 1, 2}, filter \in {None, {1, 3}} :
            LET pass == {row \in Indexed : filter # None => row \in filter}
                alike == {row \in pass : Hashable(q) /\ Alike(q, table[row])}
            IN  \A answer \in lsh_search(q, k, filter) :
                  IF q[1] = "other" THEN answer = Refused
                  ELSE /\ answer # Refused /\ answer \subseteq alike
                       /\ Cardinality(answer) = IF k = None THEN Cardinality(alike)
                                                ELSE Min({k, Cardinality(alike)})
                       /\ k = None => {row \in pass : table[row] = q} \subseteq answer

Exact == EntriesExact /\ SearchExact
=============================================================================
