------------------------------- MODULE Limiter -------------------------------
(***************************************************************************)
(* :limit and :offset of a query without :order, retia-core/src/query/     *)
(* eval.rs (QueryLimiter and the entry rule `?` in the semi-naive loop)    *)
(* and runtime/db.rs (run_query, the selection of the result).             *)
(*                                                                         *)
(* `?` is evaluated in every epoch of its stratum, with the recursive      *)
(* rules it uses; what its bodies yield in an epoch is a sequence of rows, *)
(* repetitions included, that the limiter may cut short.  A request is     *)
(* those sequences, the limit and the offset.                              *)
(***************************************************************************)
EXTENDS Naturals, Sequences, FiniteSets, TLC

CONSTANTS
    Request,  \* records [items: Seq(Seq(Nat)), limit, offset]
    None      \* no :limit, no :offset

VARIABLES
    request,  \* the query
    epoch,    \* the epoch of the semi-naive loop, from 0
    pos,      \* items of the epoch already seen
    counter,  \* QueryLimiter.counter
    out,      \* out_store: rows to their skip flag
    total,    \* the store of `?`
    status    \* "running" | "done"

vars == <<request, epoch, pos, counter, out, total, status>>

NoRows == [r \in {} |-> FALSE]

num_to_take ==
    IF request.limit = None THEN None
    ELSE request.limit + (IF request.offset = None THEN 0 ELSE request.offset)

should_skip_next == request.offset # None /\ request.offset > counter

\* Mutant of incr_and_should_stop: stops one row late.
incr_and_should_stop_late == counter + 1 > num_to_take

incr_and_should_stop == counter + 1 >= num_to_take

Items == request.items[epoch + 1]

Init ==
    /\ request \in Request
    /\ epoch = 0
    /\ pos = 0
    /\ counter = 0
    /\ out = NoRows
    /\ total = NoRows
    /\ status = "running"

\* The item does not count: already put (epoch 0, with a limit), or already in
\* the store of `?` (later epochs, "rederived").
Seen(row) ==
    IF epoch = 0 THEN num_to_take # None /\ row \in DOMAIN out
                 ELSE row \in DOMAIN total

\* Mutant of Put: the row after the offset is skipped as well.
Put_skips_more(row) ==
    (row :> (request.offset # None /\ request.offset >= counter)) @@ out

\* put or put_with_skip; without a limit epoch 0 never asks to skip.
Put(row) ==
    (row :> (should_skip_next /\ (epoch > 0 \/ num_to_take # None))) @@ out

\* One item of the entry rule; the limiter may end the epoch of the rule.
item ==
    /\ status = "running"
    /\ pos < Len(Items)
    /\ LET row == Items[pos + 1]
       IN  IF Seen(row)
             THEN /\ pos' = pos + 1
                  /\ UNCHANGED <<counter, out>>
             ELSE /\ out' = Put(row)
                  /\ counter' = IF num_to_take = None THEN counter ELSE counter + 1
                  /\ pos' = IF num_to_take # None /\ incr_and_should_stop
                              THEN Len(Items) ELSE pos + 1
    /\ UNCHANGED <<request, epoch, total, status>>

\* The end of an epoch: merge_in, then the next epoch if any store changed.
merge_in ==
    /\ status = "running"
    /\ pos = Len(Items)
    /\ total' = out @@ total
    /\ out' = NoRows
    /\ IF epoch + 1 < Len(request.items)
         THEN /\ epoch' = epoch + 1
              /\ pos' = 0
              /\ UNCHANGED status
         ELSE /\ status' = "done"
              /\ UNCHANGED <<epoch, pos>>
    /\ UNCHANGED <<request, counter>>

Next == item \/ merge_in

\* A running query is not abandoned by its thread.
Spec == Init /\ [][Next]_vars /\ WF_vars(Next)

\* early_returned_iter when the limiter was used, else all_iter with skip:
\* the rows in order without the first `offset`.
Result ==
    IF num_to_take # None THEN {r \in DOMAIN total : ~total[r]}
    ELSE IF request.offset = None THEN DOMAIN total
    ELSE {r \in DOMAIN total :
            Cardinality({q \in DOMAIN total : q < r}) >= request.offset}

-----------------------------------------------------------------------------
(* Properties.                                                             *)

\* All rows the program derives.
AllRows ==
    UNION {{request.items[e][i] : i \in DOMAIN request.items[e]} :
             e \in DOMAIN request.items}

Offset == IF request.offset = None THEN 0 ELSE request.offset
Available == IF Cardinality(AllRows) > Offset THEN Cardinality(AllRows) - Offset ELSE 0

\* Never more rows than :limit asks for.
AtMostLimit ==
    status = "done" /\ request.limit # None => Cardinality(Result) <= request.limit

\* Never fewer rows than there are, up to the limit.
AtLeastAvailable ==
    status = "done" =>
       \/ Cardinality(Result) >= Available
       \/ request.limit # None /\ Cardinality(Result) >= request.limit

\* The result is some rows of the program, as many as the limit and the offset
\* allow (the expectations of test_limit_offset for every order of the items).
LimitExact ==
    /\ Result \subseteq AllRows
    /\ AtMostLimit
    /\ AtLeastAvailable
    /\ status = "done" /\ request.limit = None => Cardinality(Result) = Available

TypeOK ==
    /\ request \in Request
    /\ epoch \in 0..(Len(request.items) - 1)
    /\ pos \in 0..Len(Items)
    /\ counter \in Nat
    /\ \A s \in {out, total} : \A r \in DOMAIN s : s[r] \in BOOLEAN
    /\ status \in {"running", "done"}

\* Types and the exact result.
Inv == TypeOK /\ LimitExact
=============================================================================
