------------------------------ MODULE SwapVec ------------------------------
(***************************************************************************)
(* SwapVec of retia-core/src/swapvec.rs, the vector that spills to a file, *)
(* as TempCollector of utils.rs uses it: the rows of a relation are pushed *)
(* while the relation is scanned, and read back once while an index is     *)
(* built from them (runtime/relation.rs).  TempCollector panics on every   *)
(* error.                                                                  *)
(*                                                                         *)
(* The file is the sequence of the batches that were written to it; what   *)
(* rmp_serde makes of a batch and reads back is the batch.                 *)
(***************************************************************************)
EXTENDS Integers, Sequences

CONSTANTS
    Element,
    batch_size, swap_after,  \* SwapVecConfig
    MaxLen                   \* bound of the model: how many elements are pushed

VARIABLES
    phase,               \* "push" | "iterate" | "done" | "panic"
    vector,              \* the elements in memory
    batches,             \* the batches in the file; there is a file if any
    batch_index,         \* of BatchReader
    current_batch,       \* what is left of the batch that was read
    last_elements_index,
    tempfile,            \* whether the iterator has the file
    pushed, out          \* history: what was pushed and what came back

collectorVars == <<phase, vector, batches, batch_index, current_batch, last_elements_index, tempfile, pushed, out>>
readerVars == <<batch_index, current_batch, last_elements_index, tempfile, out>>

CollectorInit ==
    /\ phase = "push" /\ vector = <<>> /\ batches = <<>>
    /\ batch_index = 0 /\ current_batch = <<>> /\ last_elements_index = 0 /\ tempfile = FALSE
    /\ pushed = <<>> /\ out = <<>>

Stays(n) == n <= batch_size \/ (batches = <<>> /\ n <= swap_after)

\* push and after_push_work: one batch goes to the file.  The file may not be
\* made, or the batch not be written.
push(e) ==
    LET grown == Append(vector, e)
    IN  /\ phase = "push" /\ Len(pushed) < MaxLen
        /\ pushed' = Append(pushed, e)
        /\ \/ /\ Stays(Len(grown))
              /\ vector' = grown
              /\ UNCHANGED <<phase, batches>>
           \/ /\ ~Stays(Len(grown))
              /\ vector' = SubSeq(grown, batch_size + 1, Len(grown))
              /\ \/ batches' = Append(batches, SubSeq(grown, 1, batch_size)) /\ UNCHANGED phase
                 \/ phase' = "panic" /\ UNCHANGED batches
        /\ UNCHANGED readerVars

\* into_iter.  If the file cannot be rewound the iterator has no file, and
\* read_batch returns before it would report the error.
into_iter ==
    /\ phase = "push"
    /\ phase' = "iterate"
    /\ \/ tempfile' = (batches # <<>>)
       \/ tempfile' = FALSE
    /\ UNCHANGED <<vector, batches, batch_index, current_batch, last_elements_index, pushed, out>>

\* The three sources of SwapVecIter::next
next_of_batch ==
    /\ phase = "iterate" /\ current_batch # <<>>
    /\ out' = Append(out, Head(current_batch))
    /\ current_batch' = Tail(current_batch)
    /\ UNCHANGED <<phase, vector, batches, batch_index, last_elements_index, tempfile, pushed>>

read_batch ==
    /\ phase = "iterate" /\ current_batch = <<>>
    /\ tempfile /\ batch_index < Len(batches)
    /\ \/ /\ batch_index' = batch_index + 1
          /\ out' = Append(out, Head(batches[batch_index + 1]))
          /\ current_batch' = Tail(batches[batch_index + 1])
          /\ UNCHANGED phase
       \/ phase' = "panic" /\ UNCHANGED <<batch_index, out, current_batch>>
    /\ UNCHANGED <<vector, batches, last_elements_index, tempfile, pushed>>

next_of_last ==
    /\ phase = "iterate" /\ current_batch = <<>>
    /\ ~(tempfile /\ batch_index < Len(batches))
    /\ IF last_elements_index < Len(vector)
       THEN /\ out' = Append(out, vector[last_elements_index + 1])
            /\ last_elements_index' = last_elements_index + 1
            /\ UNCHANGED phase
       ELSE phase' = "done" /\ UNCHANGED <<out, last_elements_index>>
    /\ UNCHANGED <<vector, batches, batch_index, current_batch, tempfile, pushed>>

iterate == next_of_batch \/ read_batch \/ next_of_last

CollectorNext == (\E e \in Element : push(e)) \/ into_iter \/ iterate

CollectorSpec == CollectorInit /\ [][CollectorNext]_collectorVars

-----------------------------------------------------------------------------
(* Properties *)

CollectorTypeOK ==
    /\ phase \in {"push", "iterate", "done", "panic"}
    /\ vector \in Seq(Element) /\ batches \in Seq(Seq(Element))
    /\ batch_index \in 0..Len(batches) /\ current_batch \in Seq(Element)
    /\ last_elements_index \in 0..Len(vector)
    /\ tempfile \in BOOLEAN
    /\ pushed \in Seq(Element) /\ out \in Seq(Element)

\* The file and the vector hold what was pushed, cut into batches.
Kept ==
    phase # "panic" =>
        /\ Len(pushed) = Len(batches) * batch_size + Len(vector)
        /\ \A b \in DOMAIN batches :
              /\ Len(batches[b]) = batch_size
              /\ \A i \in 1..batch_size : batches[b][i] = pushed[(b - 1) * batch_size + i]
        /\ \A i \in DOMAIN vector : vector[i] = pushed[Len(batches) * batch_size + i]

\* The iterator has the file, if there is one.
Rewound == batches # <<>> => tempfile

\* What came back is the beginning of what was pushed.
Returned ==
    /\ phase = "push" => out = <<>> /\ batch_index = 0 /\ current_batch = <<>> /\ last_elements_index = 0
    /\ phase \in {"iterate", "done"} /\ Rewound =>
        /\ Len(out) = batch_index * batch_size - Len(current_batch) + last_elements_index
        /\ Len(out) <= Len(pushed)
        /\ \A i \in DOMAIN out : out[i] = pushed[i]
        /\ \A i \in DOMAIN current_batch : current_batch[i] = pushed[Len(out) + i]
        /\ last_elements_index > 0 => batch_index = Len(batches) /\ current_batch = <<>>
    /\ phase = "done" /\ Rewound => Len(out) = Len(pushed)

CollectorIInv == CollectorTypeOK /\ Kept /\ Returned

\* A collector that is read to its end without a panic, from a file that could be
\* rewound, has given back exactly the elements pushed, in their order, whatever
\* the sizes of batches and the limit of memory: an index is built from all rows
\* of its relation.
AllBack == phase = "done" /\ Rewound => out = pushed
=============================================================================
