----------------------------- MODULE TimeTravel -----------------------------
(***************************************************************************)
(* Versions of rows and the scans over them: the iterators of              *)
(* retia-core/src/storage/mem.rs, check_key_for_validity of                *)
(* retia-core/src/data/tuple.rs, and the coercion to Validity of           *)
(* retia-core/src/data/relation.rs.                                        *)
(*                                                                         *)
(* A version is <<key, timestamp, is_assert>>.  Its encoded key orders by  *)
(* key, then by descending timestamp, asserts before retracts; Rank is     *)
(* that order.  A transaction holds its changes in a delta beside the      *)
(* store.  A scan is one of                                                *)
(*   "reader"  SkipIterator over the store,                                *)
(*   "writer"  SkipDualIterator over store and delta,                      *)
(*   "merge"   CacheIter over store and delta, all versions.               *)
(***************************************************************************)
EXTENDS Naturals, Sequences, FiniteSets, FiniteSetsExt

CONSTANTS
    Keys,      \* keys are 0..Keys-1
    MaxTs,     \* timestamps are 0..MaxTs: 0 is i64::MIN, MaxTs is i64::MAX
    Val,
    None,      \* no row, a deleted row
    Untouched, \* a row that the delta does not know
    Form,      \* how timestamps are written: "list", "validity"
    MaxWrites  \* bound: writes in a behaviour

KeyNo == 0..(Keys - 1)
Ts == 0..MaxTs
Version == KeyNo \X Ts \X BOOLEAN
TERMINAL_VALIDITY == <<0, FALSE>>

VARIABLES
    stored,  \* [Version -> Val \cup {None}]
    delta,   \* [Version -> Val \cup {None, Untouched}]
    writes,  \* so far
    scan     \* None or [kind, at, bound, out, done]

vars == <<stored, delta, writes, scan>>

NoDelta == [v \in Version |-> Untouched]
Init ==
    /\ stored = [v \in Version |-> None]
    /\ delta = NoDelta
    /\ writes = 0
    /\ scan = None

\* The order of encoded keys.
Width == 2 * (MaxTs + 1)
Rank(k, ts, assert) == k * Width + 2 * (MaxTs - ts) + (IF assert THEN 0 ELSE 1)
RankOf(v) == Rank(v[1], v[2], v[3])
Upper == Keys * Width

\* What a transaction sees.
View == [v \in Version |-> IF delta[v] = Untouched THEN stored[v] ELSE delta[v]]
Present(f) == {v \in Version : f[v] # None}

-----------------------------------------------------------------------------
(* Changes                                                                 *)

\* Mutant of coerce: the bounds are not tested.
coerce_any(ts, form) == TRUE

\* The two timestamps that scans use for themselves are refused in a list,
\* but not in a value made by the function validity.
coerce(ts, form) == form = "list" => ts \notin {0, MaxTs}

put(k, ts, assert, val, form) ==
    /\ scan = None
    /\ writes < MaxWrites
    /\ coerce(ts, form)
    /\ writes' = writes + 1
    /\ delta' = [delta EXCEPT ![<<k, ts, assert>>] = val]
    /\ UNCHANGED <<stored, scan>>

rm(v) ==
    /\ scan = None
    /\ writes < MaxWrites
    /\ View[v] # None
    /\ writes' = writes + 1
    /\ delta' = [delta EXCEPT ![v] = None]
    /\ UNCHANGED <<stored, scan>>

commit ==
    /\ scan = None
    /\ stored' = View
    /\ delta' = NoDelta
    /\ UNCHANGED <<writes, scan>>

-----------------------------------------------------------------------------
(* Scans                                                                   *)

begin_scan(kind, at) ==
    /\ scan = None
    /\ kind = "reader" => delta = NoDelta
    /\ scan' = [kind |-> kind, at |-> at, bound |-> 0, out |-> <<>>, done |-> FALSE]
    /\ UNCHANGED <<stored, delta, writes>>

\* The first of a set of versions at or after the bound, None if there is none.
First(S) ==
    LET after == {v \in S : scan.bound <= RankOf(v) /\ RankOf(v) < Upper}
    IN  IF after = {} THEN None
        ELSE CHOOSE v \in after : \A w \in after : RankOf(v) <= RankOf(w)

\* Mutant of check_key_for_validity: a retraction is passed over, not the key.
check_key_for_validity_next(v) ==
    IF v[2] > scan.at
      THEN [ret |-> FALSE, next |-> Rank(v[1], scan.at, TRUE)]
      ELSE IF ~v[3] THEN [ret |-> FALSE, next |-> RankOf(v) + 1]
      ELSE [ret |-> TRUE, next |-> Rank(v[1], TERMINAL_VALIDITY[1], TERMINAL_VALIDITY[2])]

check_key_for_validity(v) ==
    IF v[2] > scan.at
      THEN [ret |-> FALSE, next |-> Rank(v[1], scan.at, TRUE)]
      ELSE [ret |-> v[3], next |-> Rank(v[1], TERMINAL_VALIDITY[1], TERMINAL_VALIDITY[2])]

Finish == scan' = [scan EXCEPT !.done = TRUE]
Consider(v, val) ==
    LET c == check_key_for_validity(v)
    IN  scan' = [scan EXCEPT !.bound = c.next,
                             !.out = IF c.ret THEN Append(@, <<v, val>>) ELSE @]
Seek(v) == scan' = [scan EXCEPT !.bound = check_key_for_validity(v).next]

\* SkipIterator::next
SkipIterator ==
    /\ scan # None /\ ~scan.done
    /\ scan.kind = "reader"
    /\ LET v == First(Present(stored))
       IN  IF v = None THEN Finish ELSE Consider(v, stored[v])
    /\ UNCHANGED <<stored, delta, writes>>

\* SkipDualIterator::next
SkipDualIterator ==
    /\ scan # None /\ ~scan.done
    /\ scan.kind = "writer"
    /\ LET s == First(Present(stored))
           d == First({v \in Version : delta[v] # Untouched})
       IN  IF s = None /\ d = None THEN Finish
           ELSE IF d = None \/ (s # None /\ RankOf(s) < RankOf(d)) THEN Consider(s, stored[s])
           ELSE IF delta[d] = None THEN Seek(d)
           ELSE Consider(d, delta[d])
    /\ UNCHANGED <<stored, delta, writes>>

\* Mutant of CacheIter: a deleted row does not hide the stored one.
CacheIter_shows_deleted ==
    /\ scan # None /\ ~scan.done
    /\ scan.kind = "merge"
    /\ LET s == First(Present(stored))
           d == First({v \in Version : delta[v] # Untouched})
           Emit(v, val) == scan' = [scan EXCEPT !.bound = RankOf(v) + 1,
                                                !.out = IF val = None THEN @ ELSE Append(@, <<v, val>>)]
       IN  IF s = None /\ d = None THEN Finish
           ELSE IF d = None \/ (s # None /\ RankOf(s) < RankOf(d)) THEN Emit(s, stored[s])
           ELSE IF s = d /\ delta[d] = None THEN Emit(s, stored[s])
           ELSE Emit(d, delta[d])
    /\ UNCHANGED <<stored, delta, writes>>

\* CacheIter::next and CacheIterRaw::next; of equal keys the stored one is dropped.
CacheIter ==
    /\ scan # None /\ ~scan.done
    /\ scan.kind = "merge"
    /\ LET s == First(Present(stored))
           d == First({v \in Version : delta[v] # Untouched})
           Emit(v, val) == scan' = [scan EXCEPT !.bound = RankOf(v) + 1,
                                                !.out = IF val = None THEN @ ELSE Append(@, <<v, val>>)]
       IN  IF s = None /\ d = None THEN Finish
           ELSE IF d = None \/ (s # None /\ RankOf(s) < RankOf(d)) THEN Emit(s, stored[s])
           ELSE Emit(d, delta[d])
    /\ UNCHANGED <<stored, delta, writes>>

end_scan ==
    /\ scan # None /\ scan.done
    /\ scan' = None
    /\ UNCHANGED <<stored, delta, writes>>

Scanning == SkipIterator \/ SkipDualIterator \/ CacheIter

Next ==
    \/ \E k \in KeyNo, ts \in Ts, assert \in BOOLEAN, val \in Val, form \in Form :
          put(k, ts, assert, val, form)
    \/ \E v \in Version : rm(v)
    \/ commit
    \/ \E kind \in {"reader", "writer", "merge"}, at \in Ts : begin_scan(kind, at)
    \/ Scanning \/ end_scan

Spec == Init /\ [][Next]_vars /\ WF_vars(Scanning)

-----------------------------------------------------------------------------
(* Properties                                                              *)

TypeOK ==
    /\ stored \in [Version -> Val \cup {None}]
    /\ delta \in [Version -> Val \cup {None, Untouched}]
    /\ writes \in 0..MaxWrites
    /\ scan # None => scan.at \in Ts /\ scan.bound \in 0..Upper

\* The rows of a view in key order, each version with its value.
Listed(f) ==
    LET S == Present(f)
    IN  [n \in 1..Cardinality(S) |->
           LET v == CHOOSE w \in S : Cardinality({u \in S : RankOf(u) < RankOf(w)}) = n - 1
           IN  <<v, f[v]>>]

\* The version of a key that counts at a time: the latest one not after it,
\* an assertion before a retraction of the same time.
Current(f, at) ==
    {v \in Present(f) :
        /\ v[2] <= at
        /\ v[3]
        /\ \A w \in Present(f) : w[1] = v[1] /\ w[2] <= at => RankOf(v) <= RankOf(w)}

ValidAt(f, at) == Listed([v \in Version |-> IF v \in Current(f, at) THEN f[v] ELSE None])

Done(kind) == scan # None /\ scan.done /\ scan.kind = kind

\* A scan of all versions in a writing transaction gives exactly what the
\* transaction sees, in order: its own changes over the store.
MergeExact == Done("merge") => scan.out = Listed(View)

\* A scan at a time gives for each key the version that counts, if it asserts.
ReaderExact == Done("reader") => scan.out = ValidAt(stored, scan.at)

\* So does a scan of a writing transaction that has not removed a version.
WriterExact ==
    Done("writer") /\ (\A v \in Version : delta[v] # None) => scan.out = ValidAt(View, scan.at)

\* Every scan is exact, over states of the right type.
Inv == TypeOK /\ MergeExact /\ ReaderExact /\ WriterExact

\* The contract of StoreTx::range_skip_scan_tuple for every writing
\* transaction: of the versions of a key "only the tuple that has validity
\* equal to or earlier than valid_at should be considered for returning".
SkipScanExact == Done("writer") => scan.out = ValidAt(View, scan.at)
=============================================================================
