# Retia in TLA+

A verification development for Retia, the embeddable transactional Datalog
database in this repository (`src/`): TLA+ modules of its components, TLC
configurations that check them on small instances, and TLAPS proofs of the
properties that matter most for every instance. Paths below are relative to
`src/retia-core/src/` unless they say otherwise; `PROJECT.json` gives for every
definition the lines it models.

## 1. The system

A script goes through these parts:

1. `Db::run_script` (runtime/db.rs) parses it into a single program, an
   imperative program or a system operation, takes the locks of the relations it
   changes and begins a transaction (`SessionTx`: a transaction of the storage
   engine and one of a private temporary store).
2. A program is normalised, stratified (query/stratify.rs, query/graph.rs),
   rewritten with magic sets (query/magic.rs), compiled to relational algebra
   (query/compile.rs, query/ra.rs) and evaluated semi-naively, stratum by stratum
   (query/eval.rs over the stores of runtime/temp_store.rs), with expressions
   (data/expr.rs, data/functions.rs), aggregates (data/aggr.rs), fixed rules
   (fixed_rule/) and `:limit`/`:offset`.
3. The result is returned or changes a stored relation (query/stored.rs): rows,
   plain, full-text, LSH and HNSW indices, triggers, events for callbacks and
   `:returning`.
4. The transaction is committed or dropped; after a commit the collected events
   are sent to registered callbacks (runtime/callback.rs).

Around it: the catalog of relations and indices (runtime/relation.rs), backup,
restore, import and export, imperative scripts (runtime/imperative.rs), the
registry of running queries with `::kill` and `:timeout`, multi-statement
transactions driven over channels (`run_multi_transaction`, lib.rs), four storage
engines (storage/*.rs), values and their order-preserving keys (data/value.rs,
data/memcmp.rs), versioned rows with validity, and an HTTP server whose clients
can compute rules (`src/retia-bin`).

### State, operations, and what is hard about them

| part | state | operations | hard behaviour |
|---|---|---|---|
| storage engines | map, guards, caches, batches, row locks, connection pool | begin, get, put, del, scans, range deletion, commit, drop | isolation, lost updates, abort after partial work, statements that outlive their transaction |
| semi-naive evaluation | stores with total and delta per symbol, epoch | run a rule set, merge | facts lost between deltas, parallel rule sets, termination |
| aggregates | value per group, delta | set, get; update, merge | when a change is reported; order of items; refusals |
| rules | trees, conjunctions, adorned clauses | normalise, order, adorn, rewrite | a variable used before it is bound, answers lost or added by a rewriting |
| plans | operators of a body, rows | compile an atom, eliminate columns, join, negate, filter | an index, a scan or a pushed filter that loses or repeats rows |
| limiter | counter, skip flags | item, epoch | duplicates, offset, limits of recursive entries |
| stratification | graph, strata, store lifetimes | components, strata, evaluate | refusing exactly the unstratifiable, stores dropped too early |
| relation locks | lock per relation, engine guard, row locks | scripts as sequences of lock steps | deadlock, an index built beside writers |
| imperative scripts | stack of blocks, temporary relations, registry, poison, timers | statements, kill, timeout | control codes through nested blocks, a poison that reaches the wrong query |
| multi-transactions | two channels, handler thread | query, commit, abort, drop of the handle | shared handles, failures, hang-ups |
| callbacks | registry, bounded channels | register, unregister, send, receive | delivery once and in order; waiting with a lock held |
| rules of clients | registry, task, channels, kept senders | register, ask, forward, post, disconnect | an answer that overtakes its request, a client that leaves |
| mutations | rows, indices, mirror of triggers, event collector | put, insert, update, rm, delete, ensure, ensure_not | old entries, failed statements, events that replay |
| versions | store and delta of versions | put, rm, commit, scans | skip scans over two sorted sources |
| catalog | entries, handles, ids, counter, backup | create, replace, remove, rename, index, restart, restore | ids reused, rows orphaned, indices of the wrong relation |
| imports, exports | relations with indices, a backup | import, export, copy from a backup | partial failure, index entries of replaced rows |
| full-text search | postings, analyzer cache | put, rm, create, search, fetch, drop | queries that parsing and flattening regroup, a stale analyzer |
| HNSW and LSH indices | layered graph; bands and their inverse | create, put, update, rm, search | nodes and links that outlive their vectors, concurrent first insertions |
| spilled vectors | memory, batches in a file, iterator | push, into_iter, next | rows lost or repeated at the ends of batches, failures of the file |
| algorithms and functions | none | fixed rules, functions, conversions | ties, zero weights, overflow, NaN, texts of several bytes |

## 2. Modules

Each component is one module; `StoreTx` is the abstract specification of what a
transaction promises (the documentation of the trait in storage/mod.rs), which the
engines are compared with by refinement. The modules of pure computations have a
`job` (a call with its inputs), a `work` in progress and an `out`; they take one
step for each step of the code whose order or outcome is not fixed.

| module | models | state, and how actions correspond to the code |
|---|---|---|
| `StoreTx` | contract of `Storage`/`StoreTx` | `db`, and per transaction a view, the keys written and asked for `for_update`, and `foreign`, the keys others committed since. `SnapshotReads = FALSE` weakens plain reads to what is committed. |
| `MemStore` | storage/mem.rs | the `BTreeMap`, the guard as `mode`, the cache of a writer; one action per method of `StoreTx`. Range deletion goes to the map at once, as in the code. |
| `RocksStore` | storage/rocks.rs, retia-rocks | write batch, row locks, snapshot validation; the loop of `del_range_from_persisted` is one step per key. RocksDB is external. |
| `NewRocksStore` | storage/newrocks.rs | optimistic transactions: sequence numbers as the set `overtaken`. |
| `SqliteStore` | storage/sqlite.rs | pool, guard, snapshot of a connection, active statements, the three steps of a drop. SQLite is external. |
| `SemiNaive` | query/eval.rs, runtime/temp_store.rs | a rule set of the epoch runs per step, then `merge_in`; relational algebra is abstracted to ground instances. |
| `MeetAggr`, `MeetEval` | data/aggr.rs, meet evaluation in eval.rs and temp_store.rs | `update` of all eleven aggregates with its `changed` flag; items of an epoch in any order. |
| `Aggregates` | `NormalAggrObj` of data/aggr.rs | `set` of one value per step, then `get`, beside the meet form of the same aggregate. |
| `Limiter` | `QueryLimiter`, entry rule, result selection | one item of the entry rule per step. |
| `Stratify` | query/graph.rs, query/stratify.rs, store names and lifetimes of magic.rs and eval.rs | recursion of `dfs` as a stack, then strata one step per node, then the stores while strata are evaluated. |
| `Clauses` | `MagicAtom`, compile.rs | atoms of rules in normal form and what a body means when it is joined from left to right. |
| `Rewriting` | query/logical.rs, query/reorder.rs, `into_normalized_program`; query/magic.rs | a written rule to its conjunctions in one step: negation and disjunctive normal form, generated variables, the two rounds of the ordering. Of a stratum, `adorn` is one round of the loop over `pending_adornment`, then `magic_rewrite`; compared with the fixpoint of the rules as written. |
| `Joins` | compile.rs, query/ra.rs, `choose_index`, scans of relation.rs, bounds of data/expr.rs | one step per atom compiled and per operator evaluated: index-only and index-with-join plans, key lookups, prefix and bounded scans, materialised joins, pushed filters, elimination of columns. |
| `Encoding` | data/memcmp.rs, data/tuple.rs, coercion in data/relation.rs | keys are sequences of bytes and words, decoded value by value. |
| `Builtins`, `Expressions` | data/value.rs, data/json.rs, data/functions.rs; parse/expr.rs, data/expr.rs | a value is its variant and payload; a function gives the set of its results; a text is parsed, folded, compiled and run one instruction per step. |
| `Paths`, `Structures` | fixed_rule/ | starting nodes in any order, rounds of loops that chance or ties decide; the rest in one step. |
| `DbLocks` | locks of runtime/db.rs and imperative.rs | a script is its sequence of lock, transaction and work steps (`Steps`). |
| `Imperative` | runtime/imperative.rs, `needs_write_locks`, running queries and `Poison` of runtime/db.rs | the recursion over blocks as a stack of frames, a statement per step, a query in two; `kill` and `timeout` at any time. |
| `MultiTx` | `run_multi_transaction`, lib.rs handle | channels of capacity one, handler on a pool worker, calls of a handle in send and receive steps. |
| `Callbacks` | runtime/callback.rs, `register_callback` | registry and directory, sending with the registry locked; a channel is all that was ever put into it (`sent`) and how much of it was taken (`received`), full when the difference is its capacity. |
| `RuleServer` | `rule_with_channel`, `register_rule`, `post_rule_result`, `post_rule_err` | the steps of the task between its channels, the client and the waiting query. |
| `Mutation` | query/stored.rs, runtime/transact.rs | one step per row of a statement; failure undoes the script; `collect_mutations` ends a statement. |
| `TimeTravel` | iterators of storage/mem.rs, data/tuple.rs, coercion in data/relation.rs | a version is `<<key, timestamp, is_assert>>` ordered by its encoding (`Rank`); one step per `next()`. |
| `Catalog` | runtime/relation.rs, counter in db.rs and transact.rs, backup and restore | entries, copies of index handles, rows as `<<id, key>>`. |
| `Transfer` | `export_relations`, `import_relations`, `import_from_backup` | one transaction per operation. |
| `FullText` | fts/, parse/fts.rs, `FtsSearchRA` | analyzers on an alphabet with characters of one to three bytes; a search step by step from documents to the ranked answer; threads at the tokenizer cache, a step per lock. |
| `Hnsw` | runtime/hnsw.rs and its callers | the rows of the index relation as `<<level, from, to>>`; a statement, or two transactions side by side, per step; the random level is a choice. |
| `Lsh` | runtime/minhash_lsh.rs and its callers | forward and inverse relation; seeds and hashes are parameters. |
| `SwapVec` | swapvec.rs, `TempCollector` of utils.rs | `push`, `into_iter` and `next` with the failures of the file. |

`MCCore`, `MCQuery`, `MCSessions`, `MCRows`, `MCEngines` and `MCUnits` are sums of
components: a variable `part` says which component a behaviour is of, and the
variables of the others rest. A component whose theorems speak of the properties of
a run is extended by the sum: `MemStore` and `SemiNaive` by `MCCore`, `RocksStore` by
`MCEngines`, `Catalog` by `MCUnits`, `DbLocks`, `MultiTx`, `RuleServer` and `Callbacks` by `MCSessions`; it rests in an
initial state, where its properties hold. The others are instances, and their
properties are guarded by `part`. A configuration can choose components with `Parts`.

## 3. What is checked

| run | instance | shows |
|---|---|---|
| `core` | 2 transactions, 2 keys, 2 values of the memory engine; every graph of 3 nodes, mutually recursive rules, a repeated symbol, a negation | memory engine: `Isolated`, `AbortRestores`, the inductive invariant `IInv`, and that it implements `StoreTx`; semi-naive evaluation: the result is the least model (`Complete`, `Minimal`), every epoch equals the naive one (`NaiveAgrees`), `Terminates` |
| `engines` | 3 transactions (SQLite: 2), 1 key, for each of three engines | RocksDB: `ForUpdateHolds`, `NoLostUpdate`, `IInv`, and `StoreTx` with read-committed plain reads; SQLite (default journal): pool and reads (`EnginesSound`), `StoreTx`; newrocksdb: `FirstCommitterWins` |
| `query` | programs of 3 rule sets of every kind with 3 references and of 4 with 4; programs of up to 5 ground instances for 7 aggregates; 4 rows, limits to 3, offsets to 2; written rules of up to 3 of 17 trees; strata of an entry, 2 bodies of 7 for `p`, 3 for `q`; bodies that join, negate and filter 12 stores of every kind, each column bound, new or ignored | `Stratification` (components, strata, refusals), `StoresExact`, `MeetLeastFixpoint`, `LimitExact`, `NormalExact`, `MagicExact`, `PlanExact`, `Ends` |
| `units` | 2 relations, 1 index name, 1 row, ids to 4, up to the first shared id; fixed rules on all relations over 3 to 4 nodes with up to 8 possible arcs and 2 weights; groups of up to 3 values; pairs of keys over all types, 5-bit integers and floats of 1 bit of mantissa; columns of every type; expressions of up to 3 operators; functions on values of every type | `Inv`, `OthersKept` (catalog), `RulesExact`, `DataExact` |
| `sessions` | 3 scripts of 7 kinds; 2 multi-transactions or 2 callers of one; 2 callbacks of capacity 1; 2 imperative scripts of 9 programs, 6 query ids and 1 kill or timeout; 2 clients with 2 queries and up to 2 threads | `LocksSafe`, `MultiTxAnswers`, `ToldExactly`, `ScriptsExact`, `RulesServed`, and that everything ends (`Returns`) |
| `rows` | 2 statements of up to 2 rows on 2 keys; 3 changes of 1 key or 2 of 2 keys at 4 timestamps; texts of up to 4 characters, queries of up to 3 words on 3 documents; 2 imports or exports; up to 6 statements on 4 vectors, and insertions among 6; 3 statements on 3 rows of 7 values for LSH; 7 elements in batches of 2 | `ChangesExact`, `AttachedAgree`, `FullTextExact`, `TransferExact`, `ProximityExact`, `ScansExact`, `ScanEnds` |

What the properties of the larger sums say:

- `EnginesSound`: the inductive invariants of the SQLite and of the optimistic RocksDB
  engine; no connection serves two transactions or is lost, a reader sees the table
  it found, a key is tracked from its first write on.
- `LocksSafe`: a script that is over holds no lock and no transaction, and with one
  writer at a time an index agrees with the rows whenever no transaction is open;
  with the inductive invariant `LocksIInv`.
- `MultiTxAnswers`: an answer goes to the call that asked for it, once, while the
  calls on a handle do not overlap; a transaction is committed only on request, and
  callbacks are told all it wrote; with the inductive invariant.
- `ScriptsExact`: an uninterrupted script does what a direct definition of its
  statements (`Meaning` of `Imperative`) says, and has the lock of all it changes;
  the registry has exactly what runs; a poison reaches only what it was meant for.
- `RulesServed`: every waiting query has its sending end in exactly one place, and
  gets the answer to its own inputs; a rule stays registered while its client reads.
- `AttachedAgree`: after every statement the postings are those of the rows, and the
  relation that triggers write is a copy.
- `Inv`, `OthersKept`: the catalog in any order of its operations. Three of them can
  break it and are part of it; `mishaps` records that they have happened. Creating a
  relation after a restore without a restart, and restoring over data, give two
  relations one id; until then ids are unique, and no operation changes the rows of
  two relations. Renaming a relation with indices leaves their entries behind; until
  that too, rows have owners, and indices agree and can be dropped.
- `FullTextExact`: tokens are exactly the words or n-grams, with byte offsets; a
  search gives documents that satisfy the query as written, best first; the cache
  gives an analyzer asked for under its name. Without a plain index beside it the
  index keeps the old postings of a row whose text is replaced (`outdated`): from then
  on the property claims that the postings of the rows are there, and that all
  others are of rows that were replaced.
- `TransferExact`: an import is all or nothing and leaves what a definition by column
  names says; what is exported can be imported again.
- `ProximityExact`: the HNSW graph has exactly the vectors of the rows, links both
  ways, degrees that count them, and an exhaustive search finds the nearest of the
  vectors that can be reached from the entry point: all of them, until a node of the
  lowest level sheds a link or a row is removed, either of which can cut vectors off.
  LSH has exactly the bands of the rows and finds what agrees in one.
- `ScansExact`: scans over versions give what counts at a time, in order; collected
  rows come back in order.
- `RulesExact`: the answers are compared with definitions over all paths, trees,
  partitions and orders.
- `DataExact`: keys keep order and identity, columns accept exactly their types,
  aggregates and functions keep their laws, bytecode agrees with the tree.

**Why the bounds are enough.** Conflicts between transactions need two, and three
show a late one meeting the end of another; keys only meet in range operations,
which the two keys of `core` and the proofs cover. A repeated symbol needs a
pair of an old and a new fact, which three nodes give in the third epoch. Cycles
through a third rule set appear with three, two paths of different length to one
rule set with four. A statement needs two rows to write a key twice, a script two
statements to see its own changes. Three changes make an assertion, its
retraction and a removal. Three trees are an atom, one that waits for it and one
that waits for that. The bodies of `p` and `q` have each kind of use: recursive on
the left, on the right and twice, with bound and free arguments, of a rule that
keeps its name, behind a negation. Three columns give every case of a plan: a bound
prefix, a gap, an index with and without what is asked for, keys and values on both
sides of a bound. A circle of waits on one relation needs two scripts; the third is
the one that suffers. The diamond of four nodes is the least graph with ties and
detours. One bit of mantissa is enough for integers that no float is equal to, which
is what 53 bits are to 64. Four vectors with two neighbours on an upper level are
the first to make a node shed a link there, six with four neighbours on the lowest
one. Four ids give a relation, its index and a replacement of each, before and after
a restore. Four elements in batches of two have been written once
the limit of three is passed; seven leave a rest beside two batches.

**Deadlock** is checked where the system never stops (`engines`, the
catalog in `units`) and for the computations of `units`, none of which may get stuck
before its answer; elsewhere behaviours end when the work is done, and the liveness
properties say that it gets done.

**Fairness.** Weak fairness of each thread's next step: a thread that is not
blocked runs, a lock that stays free is taken, a channel that stays ready is used.
Nothing is assumed of the choices a client makes (which call, when it drops a
handle, when a callback is unregistered, whether a query is killed), except that
receivers of callbacks go on receiving, as the server's task does, that a client
which is connected reads its requests and answers them, and that a scan that was
begun is read to its end.

**Mutants.** For each property of a passing run a definition `X_something` beside
`X` is a plausible defect of the code that the property catches.

## 4. Where the code and its documentation disagree

Six disagreements are runs whose property TLC finds violated:

- `mem_store_eager`: `del_range_from_persisted` of the memory engine is not undone
  when the transaction fails after it (storage/mem.rs:134).
- `restore_twice`: `restore_backup` takes a database as empty when the id counter in
  memory is 0, and a restore leaves it at 0 (runtime/db.rs:669), so that a second one is
  accepted although "target database must be empty" (`src/retia-bin/README.md:61`).
- `meet_or`: the aggregate `or` reports a change exactly when there is none
  (data/aggr.rs:152), and a recursive rule stops before its fixpoint.
- `limit_recursive`: `:limit` of an entry in a recursive stratum is exceeded, since
  each later epoch adds a row (query/eval.rs:599).
- `locks_deadlock`: `::index create` begins its transaction before it locks the
  relation, mutations do the opposite; with one writer at a time both wait and
  all readers with them (runtime/db.rs:1272).
- `hnsw_rows`: `hnsw_get_neighbours` hides the links between vectors of one row also
  when they are to be removed (runtime/hnsw.rs:620); after the row is removed and
  put again a statement fails with an error that "signifies a bug in the index
  implementation".

Others were met while modelling. Where a property states the promise it is named;
the passing runs leave the case out, or claim less once it has happened, and the
hazard in `PROJECT.json` says so.

*Storage and transactions*

- `RocksStore!ImplementsStoreTx`: plain reads are not from one snapshot.
- `NewRocksStore!ForUpdateHolds`: `for_update` is ignored.
- `SqliteStore` with `Wal`: a reader can get the snapshot of a transaction that
  has ended (`ReadsAgree`).
- `TimeTravel`: a version removed by the running transaction hides older ones
  (`SkipScanExact`); a retraction at the least timestamp, made with the function
  `validity`, stops a scan (`Form`).
- `SwapVec`: when the file cannot be rewound, `read_batch` returns `Ok(None)` before
  it would report the error (swapvec.rs:342-349), and the spilled rows are lost
  without notice (`Rewound`). The hash of a batch that does not match is ignored on
  purpose.
- `Catalog`: the id counter is stale after a restore without a restart, so that the
  next relation shares the id, and the rows, of a restored one (`stale_id`); renaming a
  relation with indices leaves their entries behind (`indexed_rename`).
- `Transfer`: `old != row` (runtime/db.rs:601) compares a stored row with the row as
  it came, neither reordered nor coerced, so that a stale index entry can stay
  (`reordered`); imports do not update search indices although db.rs:499 says "Any
  associated indices will be updated."; `import_from_backup` copies pairs without
  comparing columns; a name with a leading minus is locked with the minus.

*Queries*

- `Limiter`: `:limit 0` returns a row; duplicates in a later epoch make a result
  too short (`AtLeastAvailable`).
- `MeetAggr`: `and`, `bit_and` and `bit_or` report changes for ever on a cycle.
- `Aggregates`: `bit_*` treat an empty byte string as no value yet, so what is
  refused depends on the order; `variance` and `std_dev` of one value are NaN; the
  normal `union`, `intersection` and `shortest` refuse null, the meet forms of the
  last two accept it; meet and normal `min_cost` can differ in Int or Float.
- `Rewriting!RefusedUnbound`: what a unification binds that had to wait does not
  help other atoms that wait (query/reorder.rs:188), so a rule such as
  `?[x, z] := z = x + 1, *r[x], z > 0` is refused with an unbound variable.
- `Joins!PlanExact`: an index without a bound column has the column compared by
  number (`op_eq`, query/compile.rs:352-372), other joins compare values, so the
  same body has more rows with such an index where integers and floats meet. The
  bodies leave the validity of a time-travel atom unbound: with it bound, columns
  after the keys are not compared again (query/ra.rs:1155), and a negated
  time-travel atom ends in `unreachable!` (query/ra.rs:2028). The bound of
  `x >= 0` starts a scan after a stored float -0.0, which `>=` accepts.
- `Expressions`: folding drops a double negation with the error it would raise;
  `cond` with an odd number of arguments gets a null condition that raises; a hex,
  octal or binary literal beyond i64 panics; a regex function with one argument
  panics.
- `Builtins`: `mul` of vectors folds all but the last with addition; `add(1, 2, vec)`
  is refused while `add(vec, 1, 2)` is not; `sub` and `div` panic on vectors of
  different lengths; `i64::MIN mod -1` panics; `int_range` with step 0 and start
  above end, or with a step that wraps, never ends; `slice` with reversed bounds,
  `rand_int` with reversed bounds, timestamps before 1970 and JSON array indices out
  of range panic.
- `Encoding`: vectors as keys are ordered by raw bits; infinity in an Int column
  becomes the greatest integer; NaN and the infinities do not survive JSON; a
  non-nullable Json column refuses lists with nulls.
- `Paths`, `Structures`: `keep_ties` without a termination relation is ignored, and
  with a cycle of weight zero it never ends; Yen's rule underflows for a goal out of
  reach (yen.rs:148); parallel edges skew betweenness, clustering coefficients and
  Louvain's degrees; of parallel edges Kruskal keeps the last; a random walk panics
  where all weights of a node are zero; the topological order leaves out nodes on
  and behind cycles.

*Sessions and server*

- `DbLocks` with overlapping writers: an index created beside a put can lack its
  row (`IndexAgrees`).
- `Imperative`: `%swap` skips the rest of its block (runtime/imperative.rs:249);
  `%return` of a query in braces reaches `unreachable!` (parse/imperative.rs:103);
  system operations inside scripts other than the listed ones take no locks.
- `MultiTx`: `commit()` returns Ok when the commit failed (`CommitTold`), a failed
  query does not end the transaction (`FailedEnds`), callbacks are told after a
  failed commit (`NotifiedCommitted`).
- `RuleServer!Stranded`: an answer that comes before the sending end is kept meets
  404 and its query waits for ever, for `rule_with_channel` does not look at the
  poison; so does a query whose client leaves, or whose task gets no thread of the
  pool. A stream that is dropped before it is first polled never unregisters.

*Indices*

- `Mutation`: under `%ignore_error` rows of a failed statement stay and are not
  in the events; a second `:returning` repeats the first (`ReturningExact`); a
  full-text index without a plain one keeps old postings (`FtsAgrees`; `outdated` of
  `FullText`).
- `FullText`: an integer booster (`word^2`) reaches `unreachable!` (parse/fts.rs:118);
  a prefix inside NEAR follows one word of a document only; `RemoveLong` also removes
  tokens of exactly the limit; mutations fetch analyzers under the bare name of an
  index (query/stored.rs:471), searches under the full one, and a lookup beside a drop
  can bring an old analyzer back (`Contended`).
- `Hnsw`: a put that replaces a vector by null leaves its node (718); extended
  candidates get links one way only; the degree of a neighbour is taken down even for
  a link that was ignored, removals may disconnect the graph (the comment at 796 says
  so), and so may links that are shed (six vectors 0, 100, 110, 90, 95, 102 with
  `m_neighbours` 2 and `ef_construction` 2 leave 110 out of reach); and `m_neighbours` of 1 never ends.
- `Lsh`: a value that becomes null leaves its bands in the inverse relation only
  (harmless); with `n_gram` 1 all texts without tokens match each other.

## 5. What is proved

Eight modules hold proofs, each for every value of the constants.

- **`StorageProofs`**, what is stored: the memory engine and the catalog.
  *Memory engine* (for `~EagerRangeDel`: range deletions come last, as in the
  `cleanups` of scripts). `IInv` adds to the types that a writer is alone
  (`LockInv`), that only writers have cached changes (`CacheInv`), and that a
  cleanup only removed keys (`CleanInv`); without `LockInv` another commit could
  change the map under a reader. It is inductive (`Invariance`), and from it follow
  `IsolationTheorem`, `AbortTheorem`, and `RefinementTheorem`: each step is a step of
  `StoreTx` or a stutter, with the map of the beginning as the database while a
  cleanup runs.
  *Catalog* (every sequence of its operations; no assumption on restarts or
  renames). `Inv` is inductive as it stands, also for the backup, which a restore
  brings back: ids are unique and at most the persisted one, and the counter is ahead
  of them unless a restore has left it behind, as long as `mishaps` has no `stale_id`
  and no `second_restore`; rows have an owner and indices agree as long as it is empty.
  `CatalogConsistent` and `RelationsApart` follow.
- **`EnginesProofs`.** RocksDB: `IInv` says that what a transaction wrote or asked
  for is locked by it and not committed by others since (`LockInv`), and that what
  others have not committed is as it was at the beginning (`BaseInv`). From it
  `ForUpdateTheorem`, `LostUpdateTheorem`, `RefinementTheorem` (read-committed
  contract). Optimistic RocksDB: as long as nobody overtakes the transaction, each
  key it wrote has the value found at its first write (`TrackInv`); commit checks
  exactly that, so `FirstCommitterTheorem`. SQLite: the results of the next module,
  carried over to the names that `MCEngines` gives the engine
  (`EnginesSoundTheorem`, `SqliteRefinement`). The carrying over is by lemmas
  `Same...`: each definition under the one prefix equals the definition under the
  other.
- **`SqliteStoreProofs`** (for the default journal, any finite number of
  transactions). `IInv`: each connection that was opened is in the pool once or
  belongs to one transaction (`PoolInv`), a writer has the lock for itself
  (`GuardInv`), a snapshot is the table except for the writer's keys (`SnapInv`), and
  a reader's table does not change (`BaseInv`). `SnapInv` needs `PoolInv`: if two
  transactions shared a connection, one would read what the other has not committed.
  Each step maps to a step of `StoreTx` or a stutter, also the three steps of a drop,
  of which only the first is the contract's.
- **`DbLocksProofs`** (any number of sessions, any script in each, either kind of
  engine). `LocksIInv`: each script holds exactly what its program counter says it
  took and has not given back (`HoldInv`), and with one writer at a time the buffer of
  a writer fits the rows and the handle as they are now (`WriteInv`), since nobody
  else could change them. `LocksTheorem` is the whole of `LocksSafe`. That scripts
  come to an end is not part of it: with `::index create` they need not
  (`locks_deadlock`).
- **`MultiTxProofs`** (any number of transactions, callers, calls and workers).
  `OnePlace` follows an id: with the caller about to send it, in a channel, with the
  handler, or in an answer, and nowhere twice. With the stages of the handler
  (`StageInv`) and, while the calls on a handle do not overlap, the call that waits
  for what is on its way (`OwnInv`), it is inductive. `MultiTheorem` is the whole of
  `MultiTxAnswers`.
- **`TempProofs`**, what a query keeps while it runs: the stores of semi-naive
  evaluation and the collector. *Semi-naive evaluation*: `OldDone`, an instance
  whose body has no fact of a delta has already run. With `StoreInv` it is
  inductive and gives `CompletenessTheorem`; `SoundnessTheorem` shows that the
  stores stay below every closed model, so that the result is the least one.
  *The collector* (`SwapVec`, for `Sizes`: a batch has at least one element).
  `CollectorIInv` says which elements of what was pushed are in the batches of the file, in the vector
  and in the batch being read; whole batches are before the place where the vector
  begins (`Multiples`, `Within`). `CollectorTheorem`: the iterator gives back
  exactly what was pushed, in order, unless the collector panics or its file cannot
  be rewound. The run `rows` checks `CollectorIInv` and `AllBack` within `ScansExact`.
- **`RuleServerProofs`** (any finite number of registrations, queries, rules and
  workers). `RulesServed` is inductive as it is stated, because it follows a request
  from the task that takes it to the answer: a waiting query has its sending end in
  exactly one place, in the hands of a task or kept under its id (`OwnAnswers`). An
  id is not given again, for all that are somewhere are below the counter (`IdsOnce`),
  and the counter is the number of queries taken (`Stages`); the task of a waiting
  query has not ended, for the query holds its rule (`StaysRegistered`). `RulesTheorem` is the whole of `RulesServed`.
- **`CallbacksProofs`** (any number of sessions, callbacks and events, any capacity of
  at least one). `ToldAll` speaks only of sessions that are over, so `CallsIInv` says
  what holds on the way: a callback that was there from the beginning has been told
  the earlier events and has been told the one being sent or is still on its list
  (`ToldSoFar`); it has been told nothing that it would be told again (`NotAgain`);
  a step of a session has the earlier ones behind it (`SessionSteps`). It is
  inductive, and with it `CallbacksTheorem`, the whole of `ToldExactly`. The order of
  sending is what makes the list one without repetitions (`OrderIs`).

The assumptions are the named `ASSUME`s of the modules, and `Sizes`: sentinels differ
from values, keys are numbers, transactions of the SQLite engine are finitely many, a
ground instance has a fact per atom of its rule, registrations and queries of clients
are finitely many, a case of locks, calls, rules or callbacks is a record of the right
shape. TLC evaluates them in the runs.

**Only model-checked**:

- liveness (`Terminates`, `Ends`, `Returns`, `ScanEnds`): fairness and `ENABLED` are
  beyond the prover;
- what a recursive definition or a fold computes, which needs an induction over data
  with an operator as a parameter: `RulesExact`, `DataExact`, all of `query`
  (`Stratification`, `StoresExact`, `MeetLeastFixpoint`, `LimitExact`, `NormalExact`,
  `MagicExact`, `PlanExact`), `ScriptsExact` (the meaning of a script is recursive),
  and in `rows`
  `ChangesExact`, `AttachedAgree`, `FullTextExact`, `TransferExact`,
  `ProximityExact` and the merged order of `TimeTravel` in `ScansExact`;
- `NaiveAgrees`, which compares an epoch with a naive one that `MCCore` defines
  for its instance: `Complete` and `Minimal` are the statements about every program.

## 6. Abstractions

- Integers that wrap do so at 5 bits in `Builtins`; elsewhere they are unbounded where
  the code could not overflow on the instance. The builds that differ (a debug build
  panics where a release build wraps) are told apart where they meet: `Builtins` has
  the release build.
- Floats: bit patterns in `Encoding` and `Builtins`; integers in
  `Aggregates`, `Paths`, `Structures`, `Hnsw` and in the scores of `FullText`, so that
  rounding is not modelled there.
- Hashes, seeds, regular expressions, dates, geography, Unicode normalisation, stemmers,
  the Cangjie tokenizer and PageRank are calls of libraries: uninterpreted, or a toy
  version on the alphabet of the model.
- A query inside `Imperative`, `MultiTx`, `DbLocks` and `RuleServer` is one or two steps
  on sets of rows; how it is evaluated is in the modules of `query`.
- The vectors of `Hnsw` have one coordinate.

## 7. Not modelled

- The grammar of scripts and the construction of their syntax trees (parse/query.rs,
  parse/sys.rs, parse/schema.rs) are pure and have no reference but themselves;
  expressions, search queries and the locks of imperative scripts, where parsing
  decides something, are modelled.
- query/sort.rs is a call of a library's sort. The readers of CSV and JSON lines,
  the REPL, the command line, the WASM binding and the examples are input and output
  around `run_script`. The tables of stop words and of ASCII foldings, a third of the
  repository's lines, are data.
- The RocksDB bridge and its build are glue for foreign functions; RocksDB and SQLite
  are external and modelled by what the engines rely on. `batch_put`,
  `range_compact`, option files, busy timeouts and pragmas other than the journal are
  left out.
- Scripts that lock several relations (they take these locks for reading, which is
  shared; for writing only one is taken at a time) and `::rename` are not part of
  `DbLocks`; errors in the middle of a
  statement under `%ignore_error` are not part of `Imperative` (they are of
  `Mutation`); the authorization of the server is left out.
- The operators that call the LSH and HNSW searches from a plan, and unifications
  over lists, are not part of `Joins`; the cosine distance is not part of `Hnsw`; the
  numerical integration that chooses the bands is not part of `Lsh`.
- PageRank, transcendental functions and statistics beyond the quotient of two sums
  are floating-point numbers, out of TLC's reach.

`PROJECT.json` lists every component with its status and the reason.
