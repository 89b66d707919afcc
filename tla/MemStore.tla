------------------------------ MODULE MemStore ------------------------------
(***************************************************************************)
(* The in-memory engine, retia-core/src/storage/mem.rs.                    *)
(*                                                                         *)
(* MemStorage is one BTreeMap behind a reader-writer lock.  A transaction  *)
(* holds the lock for its whole life: MemTx::Reader the read guard,        *)
(* MemTx::Writer the write guard and a cache of its changes (a value, or   *)
(* None for a deletion) that commit() applies to the map.  A transaction   *)
(* that is dropped without commit() drops its cache.                       *)
(*                                                                         *)
(* del_range_from_persisted is the exception: it removes from the map at   *)
(* once.  Its callers use it in two ways.  execute_single,                 *)
(* run_multi_transaction and execute_imperative call it for their          *)
(* `cleanups` with nothing but commit() after it (mode "cleanup").  The    *)
(* system operations ::remove and ::index drop call it when they run,      *)
(* which inside an imperative script is before the script's later          *)
(* statements (EagerRangeDel).                                             *)
(***************************************************************************)
EXTENDS Naturals

CONSTANTS Tx, Key, Val, NoVal, Refused,
    NoEntry,        \* no cache entry for the key
    EagerRangeDel   \* TRUE: range deletions may be followed by other work

ASSUME KeyAssumption == Key \subseteq Nat
ASSUME NoValAssumption == NoVal \notin Val
ASSUME NoEntryAssumption == NoEntry \notin Val \cup {NoVal}
ASSUME EagerAssumption == EagerRangeDel \in BOOLEAN

VARIABLES
    store,   \* the BTreeMap
    mode,    \* "idle" | "read" | "write" | "cleanup" | "done" | "ended"
             \* (a writer, a reader after commit(), still holding its guard)
    cache,   \* the change cache of each transaction
    asked,   \* history: keys each transaction read with for_update
    base,    \* history: the map when each transaction began
    ret      \* what the last operation of each transaction returned

vars == <<store, mode, cache, asked, base, ret>>

Slot == Val \cup {NoVal}
Map == [Key -> Slot]
KeyRange == {<<lo, hi + 1>> : lo, hi \in Key}
InRange(r) == {k \in Key : r[1] <= k /\ k < r[2]}
Contents(m, r) == {<<k, m[k]>> : k \in {j \in InRange(r) : m[j] # NoVal}}
Unset == [k \in Key |-> NoVal]
EmptyCache == [k \in Key |-> NoEntry]
Writing == {"write", "cleanup"}

\* What a transaction reads: the cache entry if there is one, else the map.
\* A Reader has no cache.
View(t) == [k \in Key |-> IF cache[t][k] = NoEntry THEN store[k] ELSE cache[t][k]]

Init ==
    /\ store \in Map
    /\ mode = [t \in Tx |-> "idle"]
    /\ cache = [t \in Tx |-> EmptyCache]
    /\ asked = [t \in Tx |-> {}]
    /\ base = [t \in Tx |-> Unset]
    /\ ret = [t \in Tx |-> NoVal]

\* Mutant of transact: a writer takes the read guard.
transact_shared(t, write) ==
    /\ mode[t] = "idle"
    /\ \A u \in Tx : mode[u] \in {"idle", "read", "ended"}
    /\ mode' = [mode EXCEPT ![t] = IF write THEN "write" ELSE "read"]
    /\ base' = [base EXCEPT ![t] = store]
    /\ UNCHANGED <<store, cache, asked, ret>>

\* Waits for the lock: the write guard excludes every other transaction, the
\* read guard only a writer.  The guard is held until the drop.
transact(t, write) ==
    /\ mode[t] = "idle"
    /\ \A u \in Tx : mode[u] = "idle" \/ (~write /\ mode[u] \in {"read", "ended"})
    /\ mode' = [mode EXCEPT ![t] = IF write THEN "write" ELSE "read"]
    /\ base' = [base EXCEPT ![t] = store]
    /\ UNCHANGED <<store, cache, asked, ret>>

\* Mutant of get: reads the map past the transaction's own deletions.
get_past_deletion(t, k, for_update) ==
    /\ mode[t] \in {"read", "write"}
    /\ for_update => mode[t] = "write"
    /\ ret' = [ret EXCEPT ![t] = IF View(t)[k] = NoVal THEN store[k] ELSE View(t)[k]]
    /\ asked' = [asked EXCEPT ![t] = IF for_update THEN @ \cup {k} ELSE @]
    /\ UNCHANGED <<store, mode, cache, base>>

\* get() and exists(); for_update needs nothing more under the write guard.
get(t, k, for_update) ==
    /\ mode[t] \in {"read", "write"}
    /\ for_update => mode[t] = "write"
    /\ ret' = [ret EXCEPT ![t] = View(t)[k]]
    /\ asked' = [asked EXCEPT ![t] = IF for_update THEN @ \cup {k} ELSE @]
    /\ UNCHANGED <<store, mode, cache, base>>

range_scan(t, r) ==
    /\ mode[t] \in {"read", "write"}
    /\ ret' = [ret EXCEPT ![t] = Contents(View(t), r)]
    /\ UNCHANGED <<store, mode, cache, asked, base>>

\* "write in read transaction"
refuse_write(t) ==
    /\ mode[t] = "read"
    /\ ret' = [ret EXCEPT ![t] = Refused]
    /\ UNCHANGED <<store, mode, cache, asked, base>>

\* Mutant of put: writes through to the map.
put_through(t, k, v) ==
    /\ mode[t] = "write"
    /\ store' = [store EXCEPT ![k] = v]
    /\ ret' = [ret EXCEPT ![t] = NoVal]
    /\ UNCHANGED <<mode, cache, asked, base>>

put(t, k, v) ==
    /\ mode[t] = "write"
    /\ cache' = [cache EXCEPT ![t][k] = v]
    /\ ret' = [ret EXCEPT ![t] = NoVal]
    /\ UNCHANGED <<store, mode, asked, base>>

del(t, k) ==
    /\ mode[t] = "write"
    /\ cache' = [cache EXCEPT ![t][k] = NoVal]
    /\ ret' = [ret EXCEPT ![t] = NoVal]
    /\ UNCHANGED <<store, mode, asked, base>>

del_range_from_persisted(t, r) ==
    /\ mode[t] \in Writing
    /\ store' = [k \in Key |-> IF k \in InRange(r) THEN NoVal ELSE store[k]]
    /\ mode' = [mode EXCEPT ![t] = IF EagerRangeDel THEN @ ELSE "cleanup"]
    /\ ret' = [ret EXCEPT ![t] = NoVal]
    /\ UNCHANGED <<cache, asked, base>>

\* Mutant of commit: the cache replaces the map instead of being merged.
commit_replaces(t) ==
    /\ mode[t] \in {"read"} \cup Writing
    /\ mode' = [mode EXCEPT ![t] = IF @ = "read" THEN "ended" ELSE "done"]
    /\ store' = IF mode[t] = "read" THEN store ELSE cache[t]
    /\ cache' = [cache EXCEPT ![t] = EmptyCache]
    /\ ret' = [ret EXCEPT ![t] = NoVal]
    /\ UNCHANGED <<asked, base>>

commit(t) ==
    /\ mode[t] \in {"read"} \cup Writing
    /\ mode' = [mode EXCEPT ![t] = IF @ = "read" THEN "ended" ELSE "done"]
    /\ store' = IF mode[t] = "read" THEN store ELSE View(t)
    /\ cache' = [cache EXCEPT ![t] = EmptyCache]
    /\ ret' = [ret EXCEPT ![t] = NoVal]
    /\ UNCHANGED <<asked, base>>

\* The guard goes with the transaction object.  After the first cleanup only
\* commit() follows, and neither can fail on this engine.
drop(t) ==
    /\ mode[t] \in {"read", "write", "done", "ended"}
    /\ mode' = [mode EXCEPT ![t] = "idle"]
    /\ cache' = [cache EXCEPT ![t] = EmptyCache]
    /\ asked' = [asked EXCEPT ![t] = {}]
    /\ base' = [base EXCEPT ![t] = Unset]
    /\ ret' = [ret EXCEPT ![t] = NoVal]
    /\ UNCHANGED store

Step(t) ==
    \/ \E write \in BOOLEAN : transact(t, write)
    \/ \E k \in Key, for_update \in BOOLEAN : get(t, k, for_update)
    \/ \E r \in KeyRange : range_scan(t, r)
    \/ refuse_write(t)
    \/ \E k \in Key, v \in Val : put(t, k, v)
    \/ \E k \in Key : del(t, k)
    \/ \E r \in KeyRange : del_range_from_persisted(t, r)
    \/ commit(t)
    \/ drop(t)

Next == \E t \in Tx : Step(t)

Spec == Init /\ [][Next]_vars

-----------------------------------------------------------------------------
(* Properties.                                                             *)

TypeOK ==
    /\ store \in Map
    /\ mode \in [Tx -> {"idle", "read", "write", "cleanup", "done", "ended"}]
    /\ cache \in [Tx -> [Key -> Slot \cup {NoEntry}]]
    /\ asked \in [Tx -> SUBSET Key]
    /\ base \in [Tx -> Map]
    /\ ret \in [Tx -> Slot \cup {Refused} \cup SUBSET (Key \X Val)]

\* A transaction that ends without commit() leaves the database exactly as it
\* found it, whatever it did in between (MemTx::Writer dropped with its cache).
AbortRestores ==
    [][\A t \in Tx :
          mode[t] \in {"read", "write"} /\ mode'[t] = "idle" => store' = base[t]]_vars

\* While a transaction is open nobody else changes what it reads: the map seen
\* by every open transaction is the one it began with, its own changes apart.
Isolated ==
    \A t \in Tx : mode[t] \in {"read", "write"} => store = base[t]

\* The reader-writer lock: a transaction with the write guard is alone.
LockInv ==
    \A t, u \in Tx : mode[t] \in Writing \cup {"done"} /\ u # t => mode[u] = "idle"

\* Only a writer that has not committed has cached changes.
CacheInv ==
    \A t \in Tx :
       /\ mode[t] \notin Writing => cache[t] = EmptyCache
       /\ mode[t] = "idle" => asked[t] = {} /\ ret[t] = NoVal

\* A writer in its cleanup has only removed keys from the map.
CleanInv ==
    \A t \in Tx : mode[t] = "cleanup" =>
       \A k \in Key : store[k] \in {base[t][k], NoVal}

\* The inductive invariant: what makes Isolated and the refinement hold.
IInv == TypeOK /\ LockInv /\ CacheInv /\ CleanInv /\ Isolated

-----------------------------------------------------------------------------
(* The engine implements the contract.  During the cleanup of a writer the *)
(* map is already without the deleted ranges; nobody can look, and what is *)
(* committed is still the map the writer began with.                       *)

Cleaning == {t \in Tx : mode[t] = "cleanup"}

dbBar == IF Cleaning = {} THEN store ELSE base[CHOOSE t \in Cleaning : TRUE]
modeBar == [t \in Tx |-> CASE mode[t] = "cleanup" -> "write"
                            [] mode[t] = "ended" -> "done"
                            [] OTHER -> mode[t]]
viewBar == [t \in Tx |-> IF mode[t] = "idle" THEN Unset ELSE View(t)]
writtenBar ==
    [t \in Tx |-> {k \in Key : \/ cache[t][k] # NoEntry
                               \/ mode[t] = "cleanup" /\ store[k] # base[t][k]}]
foreignBar == [t \in Tx |-> {}]

Contract == INSTANCE StoreTx WITH db <- dbBar, mode <- modeBar, view <- viewBar,
                                  written <- writtenBar, foreign <- foreignBar,
                                  SnapshotReads <- TRUE

\* Every behaviour of the memory engine is one the StoreTx trait promises.
ImplementsStoreTx == Contract!Spec
=============================================================================
