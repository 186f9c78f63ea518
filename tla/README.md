# LoreDB in TLA+

LoreDB is an in-process graph database in C++20: nodes and edges with
properties, stored in pages, versioned by an MVCC layer, queried in Cypher.
This directory models it from the page file up to the shell, checks the models
with TLC and proves with TLAPS what the transactions, the locks, the page file,
the log, the graph store, the searches and a session guarantee. Paths below are relative to `src/src/`
unless they start with `src/`.

## 1. The system

| Part | State it keeps | Operations | Talks to |
|---|---|---|---|
| `TransactionManager` (`transaction/mvcc.*`) | next identifier and clock (atomics), active and completed tables (one shared mutex), the `Transaction` handles given to callers | begin, commit, abort, is_transaction_committed | called by the executors and by `MVCCManager` |
| `MVCCManager` (`transaction/mvcc_manager.*`) | a chain of versions per key (one shared mutex) | write_version, read_version, garbage_collect | asks `TransactionManager` about every version it looks at; takes the key's lock in `LockManager` around a write |
| `LockManager` (`transaction/lock_manager.*`) | granted requests per resource, waits-for graph (one mutex, one condition variable) | lock, unlock, unlock_all | `write_version`; the executor's `unlock_all` |
| `GraphStore` (`storage/graph_store.*`) | page index of nodes and of edges, adjacency lists, counts, next identifiers (a mutex each, or atomics) | create, get, update, delete of nodes and edges, each plain and with a transaction; batches | `PageStore`, then `MVCCManager`, then `WALManager` |
| `FilePageStore` (`storage/file_page_store.*`) | file, next page, free set, one read buffer (one mutex) | allocate, deallocate, read, write, sync, close | the file |
| `WALManager` (`storage/wal_manager.*`) | log file, next LSN, last checkpoint | log_*, checkpoint, force_sync, recover_from_log | the file; nothing in `src/src/` constructs one, the tests do |
| `SimpleIndexManager` (`storage/simple_index_manager.*`) | property indexes, a copy of the adjacency | index, remove, find, clear | filled by the shell, asked by `QueryExecutor` |
| `CypherExecutor` (`query/cypher/executor.cpp`) | none between queries | execute_query: begin, clauses, commit or abort, unlock_all | everything above |
| `QueryExecutor` (`query/executor.cpp`), planner | a transaction of its own manager | lookups, two graph searches | `GraphStore`, index |
| REPL (`cli/repl.cpp`) | the objects above, without MVCC in the store | one command after another | both executors, the index |
| parser, evaluator, records, varints, CRC, logger | | translation, output | |

What is hard here, and hard to test:

- begin, commit and abort take their identifier, their timestamps and their
  table entry in separate steps; readers learn of a commit from the tables,
  writers of a key from its chain, and nothing ties the two together;
- `read_version` keeps the chains still but asks the tables anew for each
  version, so commits fall between two steps of one scan;
- visibility compares identifiers (handed out at begin) where it means the order
  of commits, and deletion marks of aborted writers stay;
- lock waiters re-evaluate after every release, the waits-for graph is partly
  out of date, and there is neither a queue nor a timeout;
- `GraphStore` has no lock over an operation: index, page, adjacency and count
  change one after the other, and every reader parses the one page buffer after
  it has been unlocked;
- with MVCC, page and version of a record are written apart, and an abort undoes
  neither; node and edge identifiers share the version chains;
- a restart forgets which pages are in use; failed writes look like good ones;
- log records take their number before the mutex, not everything that is
  written to the log can be read back, and a commit whose flush failed returns
  like any other.

What makes each part correct:

- `TransactionManager`: one outcome per transaction, published once and for
  good; an unknown identifier never belongs to a transaction that could have
  written; timestamps totally ordered.
- `MVCCManager`: no dirty reads; a reader's answer moves only for a stated
  reason; only the newest version is live; collection removes what nobody
  reads; in the serial case the last write is read.
- `LockManager`: exclusion, no lost wakeup, no deadlock that lasts.
- `GraphStore`: a page belongs to one record; index, page, adjacency and counts
  agree between calls; page, chain and lists agree about the last writer.
- `FilePageStore`: a page is given out once; a write reaches its own page only;
  the books match what callers hold.
- `WALManager`: a commit that returned, its flush having succeeded, is in the
  file with all its records; numbers are not used twice; the header never runs ahead of the log.
- searches and `MATCH`: what they return is what their definition says;
  `DELETE` and the index do what the query asked.

`PROJECT.json` lists every component, and under "hazards" each danger at the
line where it bites, with the properties that watch it.

## 2. Modules

| Module | What it is |
|---|---|
| `TransactionOutcome` | abstract: a transaction is unknown, then running, then committed or aborted for good |
| `TransactionManager` | `mvcc.cpp`; implements `TransactionOutcome` |
| `MVCCManager` | `mvcc_manager.cpp` over `TransactionManager` (EXTENDS it: the tables are shared state, `IsTransactionCommitted` is the call) |
| `MVCCDocumented` | a sentence of the README about `MVCCManager` where the code differs, with a history variable recording who had committed when each transaction began |
| `Reachability` | abstract: what can be reached in a graph, and when a cycle can |
| `LockManager`, `MC_LockManager` | `lock_manager.cpp`; the instance for TLC |
| `CycleSearch` | `detect_deadlock` and `has_cycle`, call by call, against what `LockManager` says they decide |
| `KeyMutex` | abstract: a key has one holder, a transaction holds one key |
| `WriteLocks` | `LockManager` as `write_version`, its one caller, uses it; implements `KeyMutex` |
| `PageMap` | abstract: pages taken, given back and written one at a time |
| `FilePageStore` | `file_page_store.cpp` with failing writes and restarts; implements `PageMap` |
| `GraphStore`, `MC_GraphStore` | `graph_store.cpp` without transactions, over an INSTANCE of `FilePageStore`, under threads |
| `VersionedGraph`, `MC_VersionedGraph` | `graph_store.cpp` with transactions, over `MVCCManager` |
| `WALManager` | `wal_manager.cpp` with failing writes and crashes |
| `MC_Storage` | `FilePageStore` and `WALManager` for TLC, side by side |
| `Paths` | abstract: the walks and paths that the two searches of `query/executor.cpp` are asked for |
| `ShortestPath`, `BoundedPaths` | those two searches, step by step |
| `Rows` | abstract: the rows that a `MATCH` with an arrow is to find |
| `Matching` | the evaluation of `MATCH` in `query/cypher/executor.cpp`, step by step |
| `MC_GraphSearch` | the four searches (`CycleSearch`, `ShortestPath`, `BoundedPaths`, `Matching`) for TLC, one in each behaviour |
| `Session`, `MC_Session` | a shell session: `repl.cpp`, the executor's writes, the property index; the rows are those of `Rows`, and for a pattern without an arrow those the code adds |
| `MVCCManager_proofs` | theorems on transactions and versions |
| `LockManager_proofs` | theorems on `LockManager` and `WriteLocks` |
| `FilePageStore_proofs`, `GraphStore_proofs`, `VersionedGraph_proofs`, `WALManager_proofs` | theorems on storage |
| `GraphSearch_proofs`, `Session_proofs` | theorems on the searches and on sessions |

How they fit: `MVCCManager` rests on `TransactionManager` and on a mutex per
key; `WriteLocks` shows that `LockManager` is that mutex. `VersionedGraph` puts
`MVCCManager` under the transactional calls and takes the first half of each, a
plain call, as one step; `GraphStore` takes that plain call apart over
`FilePageStore`. `Session` takes the plain calls as single steps again, which is
what one thread sees of them, and puts the executors on top. Where a component
uses a search, it states what the search is to find (`Reachability` in
`LockManager`, `Rows` in `Session`); that the code's search finds just that is
shown apart, on any graph (`CycleSearch`, `Matching`).

### TransactionManager

`step[t]` is the program counter of the thread that drives `t`.
`begin_transaction` is `FetchId`, `Stamp`, `Track`: the two `fetch_add`s and
the critical section. `commit_transaction` is `CommitMark` (the check, the
timestamp and the state, all outside the mutex) and `Complete` (the critical
section), `abort_transaction` `AbortMark` and `Complete`. A client may call
either on a finished handle; the state check makes it a no-op. One thread drives
each transaction, as in the executor. Everything lives in memory, so a restart
is `Init`. Commit's timestamp and its state are one step: only the calling
thread looks at either before the critical section.

### MVCCManager

A chain is a set of versions ordered by `pos`, the order of `push_back`; `pos`
also stands for the payload. `LockKey` and `InstallVersion` are `write_version`
(the lock, then the critical section under `mutex_`, whose last act here is the
unlock by the scope guard). `StartRead`, `SkipVersion`, `ReturnVersion` and
`ReturnNotFound` are `read_version`: it holds `mutex_` shared (`MutexFree` in
the writers' guards) and looks at one version per step, since the call into the
transaction tables takes and drops another mutex each time. A tombstone is a
version written with `deleted_tx_id` set, as `GraphStore::delete_node` does.
`GarbageCollect` may run whenever its parameter honours its name. A client does
one thing at a time (`Idle`) and commits or aborts between its calls, as
`CypherExecutor::execute_query` does.

### LockManager, CycleSearch, WriteLocks

Every function runs under `mutex_`; an action is one critical section. `Call`
enters `lock()`. The loop body is `Sleep`, `Deny` or `Grant` by what
`has_conflict` and `detect_deadlock` say, and `cv_.wait` leaves the thread
"sleeping" until a release or a spurious wakeup makes it "trying" again.
`waits_for_graph` keeps the edges a thread had when it last ran. `LockManager`
states what the search finds, a cycle among the reachable transactions
(`Reachability`); `CycleSearch` runs the recursion, with its shared `visited` and
its `recursion_stack`, in every order of the edges: `calls` are the calls of
`has_cycle` under way, `Enter`, `PassOver` and `CloseCycle` what a call does with
the next edge, `Leave` its `return false`. After a denial the
client calls `unlock_all`, as every error path of `execute_query` does.
`write_version` locks one key exclusively when its transaction holds none
(`EnterWrite`) and unlocks it before it returns: `WriteLocks`.

### FilePageStore

One action per operation, each under `file_mutex_`. A page's bytes are one
member of `Data`; `Torn` is a page the system wrote in part, and `bytes` is the
file (`GraphStore`'s INSTANCE calls it `file`). `WritePage` may
fail in both ways without telling (the flags are cleared before they are
tested), `ExtendFile` may fail without anyone asking. `OpenStore` is the end of one
process and the constructor of the next, on the same file. `held` is a history
variable: the pages callers were given and have not given back.

### GraphStore

`pc[th]` is the critical section that thread `th`'s call enters next:
`fetch` (the identifier), `lookup` and `read` and `parse` (index, `read_page`,
and the span parsed after the page store has unlocked), `allocate`, `write`,
`index`, `adjacency`, `outgoing` and `incoming` (the two checks of
`delete_node`), `erase`, `erase_lists`, `count`. `seen[th]` collects the images
the shared buffer has held since the thread's `read_page`; `Parse` may find any
mixture of them. The counters wrap (`CountLimit`). `raced` is a history variable
set when two conflicting calls overlap, and `Conflict` says which do: it is the
precise list of what a client must not do at the same time for the store to stay
in order. The store starts on a file that may hold an earlier process's pages.

### VersionedGraph

A transactional call is its plain namesake, one step (`Create`, `Update`,
`Delete`), then `Lock` and `WriteVersion`, the two steps of `write_version`.
`page` keeps who last wrote the record on a page, `data` what each version
holds. `Get` scans the chain with `MVCCManager`'s own actions; `Answer` is what
`get_node` or `get_edge` makes of the result: the version, or NOT_FOUND, or, if
the version is of the other kind, the page. `overlapped` is a history variable:
the records that two writers were at together.

### WALManager

The log is a sequence of units: records, the lines of text that `GraphStore`
writes through `log_operation`, and what a crash or a failed write leaves of a
unit it cut. A log call is `Begin` (the `fetch_add`, outside the mutex) and
`WriteRecord`; a commit goes on to `ForceSync`, a checkpoint to `WriteHeader` and
`ForceSync`. `pending` is the stream's buffer; `Crash` keeps any prefix of it,
perhaps cut in the middle of a unit, perhaps without the header of a new file.
`ReadableAt` says what `read_record` can read back: no edge record, no line of
text, and nothing right after a DELETE_NODE, whose property count is written and
not read. Records that differ in nothing the log does are one kind ("plain").

Every write may fail: the append of a record (when the buffer is full), the
flush, both seeks of `checkpoint`, the flush of the destructor. The stream's
error flag (`failed`) is then set until the object is destroyed, and nothing
more is appended. `log_commit_transaction` and `checkpoint` do not look at what
`force_sync` returns, so `ForceSync` puts a transaction into `committed` (the
call has returned success) in either case, and into `synced` only if the flush
did not fail. `broken` tells a stream that failed at work from one that found no
header when it was opened. What a `std::fstream` does then is the library's and
external to the model: it keeps its buffer, part of which the file may hold
already, and closing the file tries the buffer once more, so that units may be
in the file twice, whole or in part (`WrittenAgain`). A write fails only if
something is unwritten, and the header (40 bytes) is in the file whole or not at
all.

### ShortestPath, BoundedPaths, Matching

These are searches by one thread that change nothing but their own locals, so
their variables are those locals, and each step takes one node, path or edge.
`ShortestPath` is `bfs_shortest_path`: `Pop`, then `PassBy` or `Discover` for each
neighbour, `ReadBack` for each node of the path. `BoundedPaths` is
`bfs_paths_with_length`, which searches depth first: `path` is the code's path,
`untried` the neighbours that the calls of `dfs` under way have not looked at
yet. `Matching` is one MATCH of two nodes and an edge between them: `TryNode` is
`find_nodes_by_pattern`'s loop, `StartAt` the loop over the nodes found, `Expand`
`expand_results` for one edge, `TakePath` and `Extend` the breadth-first queue of
`match_variable_length_path`. Without an arrow the code also takes the edges into
a node, and follows each, as it does the others, to its `to_node`; the model does
so too, and `MatchExact` speaks of patterns with an arrow only (section 4). The order in which the code
meets neighbours, identifiers and edges (that of a hash map, or of insertion) is
left open. `depth`, the layer of each node, is a history variable. `max_length`
is below SIZE_MAX (`max_length + 1` would be 0), and the variables of a pattern
differ: for `(a)-[r]->(a)` the executor drops the rows whose ends differ.

### Session

The shell reads a command, runs it and prints. `CmdCreateNode` and
`CmdCreateEdge` are the shell's own commands, `ExecuteCreate` the Cypher clause,
one step each: one thread runs them, and `GraphStore` is about what others may
see in between. A query that matches begins with its rows (`ExecuteMatchNode`,
`ExecuteMatchEdge`) and then goes through them on what the rows before left:
`SetRow`, or `SetFails` where an expression has no value and the query ends;
`DeleteRow`, and `DeleteBound` for each variable the clause names, passing over
what fails. `rows` is a set, which loses nothing, since no row is listed twice (proved for
patterns of either kind, `RowsInv` in `GraphSearch_proofs`), and it is gone
through in any order. A row has `way`, since a pattern without an arrow finds an
edge at both its ends. Once deletes of absent nodes have taken the node count
below zero, which makes it 2^64 - 1, the loop of `MATCH` over the identifiers
does not end in practice (`query/cypher/executor.cpp:368`); the model lets it
return the nodes there are, which only adds behaviours. The index is filled by
`create-node` alone, as in the code. A node's properties are one value or none.
`origin` (who gave a node its value) and `matched` (the rows of a DELETE that
names its edges first) are history variables.

## 3. Runs

| Run | Instance | Shows |
|---|---|---|
| `mvcc_manager` | 3 transactions, 1 key, 2 writes | the tables agree with the threads, timestamps order everything, `TransactionOutcome` is implemented; no dirty reads, isolation, live versions, collection, the serial case |
| `lock_manager` | 3 transactions, 2 resources, both modes, symmetric | exclusion, no lost wakeup, no deadlock among sleepers |
| `lock_liveness` | the same, with t1 and t2 crossing over r1 and r2 and t3 sharing both | a deadlock hidden by a third holder is broken |
| `write_locks` | 4 writers, 3 keys | `write_version` is never refused a key; `KeyMutex` is implemented |
| `graph_store` | 2 threads, 2 nodes, 1 edge, 4 pages, symmetric | pages are never shared; records, lists and counters agree unless conflicting calls overlap; no dangling delete |
| `storage` | the page file: 3 pages, 2 contents, 1 fault, 1 reopening; or the log: 2 threads, 2 transactions, 4 numbers, 3 units, 1 reopening, symmetric | the books match, held pages lie in the file, `PageMap` is implemented; flushed commits are durable, numbers unique, the header is behind the log, refusal loses nothing, through failed writes |
| `versioned_graph` | 2 transactions, 1 node and 1 edge of one identifier, 4 versions | no uncommitted answer, page and newest version agree, lists and reads agree |
| `graph_search` | all graphs of 4 transactions; all undirected graphs of 4 nodes with lengths 1 to 3; all graphs of 3 nodes and up to 3 edges with 4 pairs of hops; symmetric | each of the four searches returns what its definition says, `MATCH` for patterns with an arrow |
| `session` | 3 nodes, 2 edges of 4 pairs of ends, 2 values | the index is right about what the shell wrote; DELETE sweeps what MATCH found |
| `persistent`, `match_finds_all`, `committed_is_found` | | each ends in a counterexample to a sentence of the repository |

Where a property is conditional, the condition is the finding. `RecordsMatchKeys`,
`AdjacencyMatches`, `CountersMatch` and `NoDanglingDelete` hold unless
conflicting calls overlap; without `raced` TLC breaks each of them.
`CountersMatch` also says by how much deletes of absent nodes put the node count
out. `AnswersCommitted` holds for identifiers given to a node or to an edge and
not to both. `PageIsNewest` holds unless two writers were at the record
together. `ListsMatchReads` lists what a transaction must see for a traversal
and a read to agree. `LsnUnique` holds for logs that can be read back, recovered
with nothing unwritten. `CommitDurable` is about commits whose flush did not
fail; said of every commit that returned success, TLC breaks it.
`RefusalLosesNothing` is about streams that refuse from their opening on.
`HeldInFile` holds while no extension of the file has failed. `MatchExact` is
about patterns with an arrow. `FindNodesRight` is about nodes whose value
`create-node` gave. `ReadsLatestWhenSerial` needs the writers in identifier
order and settled, and (`Unbroken`) each overwritten version still followed by
the one that overwrote it. `garbage_collect` can take away the second of three
versions when its writer and its deleter are out of order; the first then shows
again to a reader between them. That takes four transactions and four writes,
more than `mvcc_manager` has; the attempt to prove the property found it, and TLC
confirmed it on an instance of that size.

### Bounds

- `MaxTx`, `MaxWrites`, `MaxPage`, `MaxNode`, `MaxEdge`, `MaxId`, `MaxLsn`,
  `MaxUnits`, `MaxOpens`, `MaxReopened` and `MaxFaults` bound counters in the guards of the
  action that would raise them, and change nothing else.
- Three transactions are the least at which a reader meets two writers; two
  writes give a chain whose scan has a step before and after a commit. Keys share
  only the transaction tables and the reader's mutex, so one is enough for
  properties stated per key. `mvcc_manager` was also run with three writes (6.6
  million states) and with two keys, with the same result. Three transactions
  make cycles of two and of three in the waits-for graph, and a shared holder
  who is in none; two resources are needed for a cycle at all. `lock_liveness`
  narrows the clients because TLC does liveness without symmetry; the narrowed
  requests contain both crosswise deadlocks, upgrades, and a third holder granted
  past a sleeper.
- `graph_store`: every hazard of the store is between two calls, so two threads;
  two nodes, because an edge may be a loop or not; one edge, deleted and created
  by different threads; four pages, so that records are rewritten (each rewrite
  takes a page). `AfterRace` = FALSE lets the calls in progress end and begins no
  others once two have conflicted: the properties that hold without condition are
  still checked on all that these calls leave. `CountLimit` is above every count
  that is not a wrap. TLC's VIEW leaves out the buffer's bytes (what matters of
  them is in `seen`) and the page store's own books (checked by
  `storage`); no guard or property reads either.
- `storage`: page file and log know nothing of each other, so each behaviour has
  one of them at work. Three pages give a free set with a choice; one failed
  write and one reopening suffice for a state after each. Four numbers and three
  units give two records of one transaction with another thread's between them,
  and a record after a reopening. Writes of the log may fail at any time, and as
  often as they are tried: the first failure stops the stream until it is
  reopened, so no bound is needed.
- `versioned_graph`: one identifier, because chains of different identifiers
  share nothing; as node and as edge, because that is how they meet. Four
  versions are a create and three rewrites by two transactions. TLC's VIEW drops
  timestamps and the results of reads that have returned, which no guard or
  property reads.
- `graph_search`: four nodes have cycles and paths that meet, two shortest paths
  of one length and paths of every length asked for. `lock()` puts no transaction
  behind itself, and adjacency is symmetric: `Init` says so for the instance, the
  theorems need neither. For `MATCH`, three nodes and three edges have loops,
  parallel edges and a cycle; of one edge at a time graphs of up to two edges are
  enough, for no edge's rows depend on another's. At most one node is missed, for
  one reason (`OneReason`), which is each way in which a row can fail to be
  wanted. The pairs of hops have a minimum of zero, of one and of the maximum;
  `<<1, 1>>` is the plain edge, which the code evaluates apart.
- `session`: three nodes and two edges are the least at which rows share a node
  and an edge from outside the match holds one. `MC_Pairs` has a loop, and an edge
  with its reverse. `CountLimit` = 8 lets the node count wrap below 0, as deletes
  of absent nodes may make it do.

Deadlock checking is off where everything may have ended or a bound is reached,
and on for `LockManager`, where somebody can always move.

### Fairness

Only the locks claim liveness. `LMFairness`: a thread awake in `lock()` goes on;
every transaction ends with `unlock_all`, as every path of `execute_query` does,
strongly fair because it may take further locks before it ends. Nobody is
obliged to ask for a lock or to release one early.

## 4. What the models showed of the code

With a run (PROJECT.json "findings"):

- `persistent`: a store opened on an existing file cannot read a page written
  before (`storage/file_page_store.cpp:10`), against `src/README.md:105`.
- `match_finds_all`: after a delete, `MATCH (n)` misses the newest node
  (`query/cypher/executor.cpp:368`).
- `committed_is_found`: a commit during a scan hides a committed key
  (`transaction/mvcc_manager.cpp:20`), against `src/README.md:107`.

Without one:

- Visibility by identifier is not snapshot isolation: a commit of an earlier
  transaction becomes visible in the middle of a later one; own writes can be
  hidden by an older transaction; a tombstone above an aborted update's mark
  deletes nothing; two running transactions may both write a key
  (`mvcc_manager.cpp:45` speaks of conflicts, none is reported).
- `garbage_collect` decides version by version. After writers that came out of
  identifier order it may remove a version from between another and the version
  of its deleter, and a later reader gets the older one or NOT_FOUND
  (`mvcc_manager.cpp:62`).
- `lock()` may report a deadlock that is over, and may wait for ever behind
  shared locks (`lock_manager.h:23` mentions a timeout; there is none).
- Once node n and edge n both exist, `get_node` can return an uncommitted page,
  against `src/tests/transaction/test_mvcc_graph.cpp:41`, and a node's tombstone
  hides the edge of its number. A delete that races the create of an edge leaves
  it readable and unlisted.
- The shared page buffer lets one thread parse another's page
  (`src/README.md:107` says "Thread-Safe").
- Edge records and whatever follows a DELETE_NODE cannot be read back, so the
  next LSN after reopening repeats one in the file
  (`src/tests/storage/test_wal_manager.cpp:98` expects the opposite for the
  records it writes); so may the next LSN after a `recover_from_log` beside
  records not yet flushed (`storage/wal_manager.cpp:318`). Two threads' checkpoints may set `last_checkpoint_lsn_`
  back.
- `storage/wal_manager.cpp:120` says "Ensure commit is durable" and drops the
  error of `force_sync`. With a flush that fails, `log_commit_transaction` returns
  success for a commit that never reaches the file: a new log, one commit, a
  failed flush and a crash leave an empty file, which the next opening finds
  without a header and refuses to write to. `CommitDurable` and
  `RefusalLosesNothing` hold of the commits in `synced` and not of all those in
  `committed`. `FilePageStore` is alike: `write_page` clears the flags before it
  tests them (`storage/file_page_store.cpp:160`), so a write that failed is
  reported as done, and nobody asks whether an extension of the file failed.
- A `MATCH` without an arrow does not find the other ends of edges. For
  `x->y`, `MATCH (a)-[r]-(b)` has the row from `x` to `y`, and where it starts
  from `y` it has `y` again for b (`query/cypher/executor.cpp:423`), though `:523`
  says "If the edge is undirected, also get incoming edges" and `:548` accepts
  the other end; a variable length goes along the arrows alone (`:298`).
- `find-nodes` does not find what SET or Cypher CREATE wrote, for only
  `create-node` fills the index (`cli/repl.cpp:198`).
- A create of an edge beside a delete of one of its nodes may leave the edge
  dangling (`storage/graph_store.cpp:602`).
- Cypher: CREATE counts edges and stores none; DETACH and DISTINCT are ignored;
  the type in `-[r:KNOWS]->` is compared with a property named "type", not with
  the label; `DELETE n, n`
  takes two off the node count; a SET that ends in an error leaves the rows it
  had written. With MVCC, `delete_node` ignores edges, page and count, and
  `update_edge` writes a version without ends; `update_node` rewrites the page at
  once, and neither an abort nor a SET that fails takes it back
  (`storage/graph_store.cpp:66`); an edge is in the adjacency lists before its
  creator commits, and out of them before its deleter does (`:188`).

## 5. Proofs

All are for any value of the constants that satisfies the named assumptions:
`MaxTxAssumption`, `KeyAssumption`, `MaxWritesAssumption`, `NoRequestAssumption`,
`NoTxAssumption`, `PageAssumption`, `DataAssumption`, `GraphAssumption`,
`LeftoverAssumption`, `WALAssumption`, `KeysAreIdentifiers`,
`MaxLengthAssumption`, `HopsAssumption`, `SessionAssumption`. They say that bounds are numbers, that a
value standing for "none" is not one of the things it may be missing from, that
the counters do not wrap before `MaxNode` and `MaxEdge`, and that the file of
`GraphStore` starts with pages the store could have written. The sets of
transactions, resources, keys, threads, contents and graph nodes need not be
finite.

Transactions and versions:

- `TMInvariant`: `TMTypeOK /\ TablesMatch` is inductive by itself once
  `RowMatches` ties a row of the tables to the thread's place, plus one fact
  that is not in the run: identifiers from `next_transaction_id` on are unborn.
- `TimestampOrder`: `StampInv` adds that every stamp is below the clock and that
  stamps are 0 exactly until taken; then a new one differs from all others.
- `ImplementsOutcome`: initial states map to initial states, `Track` to Begin,
  `Complete` to Decide, and every other step to a stutter.
- `DirtyReadFree`, `NewestLive`, `DefaultUnused`, `TypeCorrect`: conjuncts of
  `MVInv`. Beside the transaction invariant it says that a lock's holder is
  running (`LockHolders`: so whoever a version names has an outcome when it is
  written, and outcomes never become unknown again), and that every `pos` is
  below the next one (`Appended`: so a push does not tie with the newest
  version). One lemma per group of actions.
- `ReadersIsolated`: from `MVInv`, by cases. A finish changes the visibility of
  a version for `t` only if the finisher has a smaller identifier and commits;
  a write by another hides and shows nothing to `t` until its writer commits.
- `CollectionUnread`: a version is collected when its deleter is finished and
  below the bound, so below every running reader; if the deleter committed, the
  reader saw the deletion already, unless the version was its own.
- `SerialReadsLatest`: positions in a chain differ (`PositionsDiffer`, inductive
  with `MVInv`), so the versions up to `t` have a last one. Whatever precedes it
  has a version directly after it, written by its deleter, who by the order of
  identifiers is no later than the last one's writer, hence settled and
  committed: `t` sees the mark. The last one's own mark, if any, is of a later
  writer.

Locks:

- `LockTypes`, `LocksExclude`, `WakeupsArrive`, `DeadlocksAreSeen`: from `LMInv`.
  The graph as a whole is out of date, but a sleeper's edges are not: a release
  wakes everybody, so while a thread sleeps locks are only added and its edges
  stay among its conflicts (`EdgesHold`). A set of sleepers closed under edges
  would have been complete when the last of them went to sleep, and its search
  would have found a cycle in it (`NoClosedSleepers`).
- `WritesNeverDenied`, `ImplementsMutex`: from `WInv`. A holder is idle and has no
  edges (`HoldersIdle`), so edges added by a sleeper lead to dead ends and the
  graph, however old, has no cycle (`Acyclic`); each key has one holder.

The page file:

- `FPTypes`, `PageBooks`, `HeldPagesReadable`: from `FPInv`. A page that is freed
  and reused is held again without the file being extended, so `HeldInFile` is
  not inductive; what is, is that every page issued since the store was opened
  lies in the file (`IssuedInFile`), and that only issued pages are free.
- `PageMapRefined`: each step of the store is one of `PageMap` or a stutter.

The plain store, by layers, each proved on top of the one below. What a step of
one thread leaves of the others' calls is stated once (`Bystander`) and used in
every layer:

- `GSTypes`: `G1` ties a thread's place to what its call has in hand, and says
  that the page store below is open, has no fault and frees nothing.
- `PagesApart`: `Owned` counts as owners of a page the record an index names and
  the thread that is about to write or index it. A page just allocated is above
  all of them; no race of calls can make two owners.
- `RecordsFound`: `G2`. Whatever races, the page an index names holds a record of
  the right kind (`Kinds`) and a new identifier has none (`FreshKeys`). While
  `raced` is false no two calls in progress conflict (`Peace`), so a call may rely
  on what it looked up until it returns, and the buffer it parses has held one
  image since its `read_page` (`Relies`).
- `ListsMatchRecords`, `NothingDangles`: `G3`. Between calls the lists are the
  stored edges; within calls, except the edges stored and not yet listed or
  unlisted and not yet erased (`Unlisted`); a node whose deletion has passed its
  two checks has empty lists still (`Emptied`).
- `CountersRight`: `G4`. The counters are the sizes of `CountedEdges` and
  `CountedNodes`: the indexed records, less those created and not yet counted,
  plus those erased and not yet counted off, in numbers modulo `CountLimit`.

The store with transactions. A step of `VersionedGraph` is a step of
`MVCCManager` or leaves it alone (`StepIsManagers`), so `MVInv` is taken over and
the layers add what ties the calls, pages and records to the chains:

- `UncommittedUnseen`: `V2`. What is on a page, in a chain or in a reader's hand
  belongs to an identifier handed out for its kind (`IdsIssued`, `AnswerHeld`).
  So a reader who meets a version of the other kind, the one case in which it
  turns to the page, finds no page unless both kinds have the identifier;
  otherwise its answer is `read_version`'s, and that is never dirty.
- `PageShowsNewest`, `ListsAgree`: `V3`. Where no two writers were at a record
  together, its one writer has put itself on the page before its version is in
  the chain (`PageWritten`), and while nobody but a deleter is at it, page and
  newest version agree (`PageInChain`). An edge's page is there exactly when the
  last version written is no tombstone (`LastEdge`); with
  `ReadsLatestWhenSerial` that is what a reader of the edge finds.

The log:

- `WALTypes`, `RefusalHarmless`: `Inv1`. While the header is not in the file no
  record is either and no flush has succeeded, for a flush carries both. A stream
  that found no header stays refused and writes nothing; one that failed at work
  is told from it by `broken` (`HeaderMatch`).
- `Durability`: `Inv2`, over the log, which is the file followed by the stream's
  buffer. Every accepted record is in it (`AckedInLog`), one thread drives a
  transaction (`OneThreadPerTx`), so nothing of it can come between its commit
  record and the flush, and a commit about to be flushed has all its records
  before it (`CommitReady`). A flush that fails takes nothing from the
  buffer, and nothing is ever taken from the file.
- `CheckpointRecorded`: a thread about to write the header has its checkpoint in
  the log.
- `NumbersUnique`: `Inv3`, as long as the file can be read back. `current_lsn_` is
  above every number in the log and in every hand, within a process by the
  `fetch_add`, after a reopening because recovery has seen the largest
  (`WritersAhead`: threads may write in another order than they took numbers, but
  not within a transaction). What the closing of the file repeats after a failed
  write is equal to what was there before it.

The searches. Each is compared with a definition that does no searching, on any
graph, by an invariant that says what has been dealt with and what is still to
come:

- `SearchCorrect` (`has_cycle`): `CSInv`. The transactions on the current branch
  are a chain of edges from the start (`Branch`), so an edge back into it closes a
  cycle. What is visited and off the branch was left for good (`LeftForGood`): its
  edges stay within what was left, and no cycle lies there. That is why the search
  may pass over what it has visited, and what makes its one shared `visited`
  right. When the last call returns, all that can be reached was left.
- `ShortestPathCorrect` (`bfs_shortest_path`): `SPInv`. The queue holds nodes by
  layers, at most one ahead of the current node (`InQueue`); whatever has left it
  has all its neighbours queued, at most one layer on (`Expanded`). So no walk
  reaches a node over fewer nodes than its depth says (`Nearest`), and what is
  read back from `parent` has just as many (`FoundSoFar`). An empty queue is
  a closed set without the goal.
- `PathsWithLengthCorrect` (`bfs_paths_with_length`): `BPInv`. A path that was
  asked for has been returned, or is still to come (`AllPaths`): it follows the
  current path up to a node and leaves it by a neighbour not tried there. These
  exclude each other, so no path is returned twice (`OnceEach`).
- `MatchCorrect` (`MATCH`): `MatchInv`. For one edge, a row that is wanted is
  listed, or still to come (for a pattern of either kind, as the code reads it;
  with an arrow that is its meaning): its node has not been tried or started from, or
  its edge not looked at (`RowsInv`), and never both. For several, a path that is
  wanted has its row, or a beginning of it waits in the queue or goes on from the
  path just taken (`WaysInv`); every path in the queue repeats no node, is made
  of edges and has at most `max_hops` of them (`Partial`).

A session:

- `FindNodesCorrect`: `IndexInv`. The index lists only identifiers handed out
  before, so a new node is listed under nothing; what `create-node` writes is
  listed at once, and whatever writes a value later becomes its `origin`.
- `DeleteSweepsCorrect`: `SweepInv`, with `EdgeIds` and `IndexInv` (a new edge or
  node reuses no identifier). While the DELETE runs, an edge of the match is gone
  or its row is still to come, and a node of the match is gone, or has an edge, or
  will be tried (`ToTry`). The step that takes a node's last edge is the deletion
  of `r` in a row which tries its own `a` and `b` right after, and an
  edge has no other nodes.

Only model-checked: the liveness of the locks (`DeadlockBroken`), since TLAPS
does no liveness under fairness, and the three runs that end in a counterexample.
The type invariant of the page file, `FPTypeOK`, is proved (`FPTypes`) and in no
run.

## 6. Not modelled

- Parser, grammar and AST; comparisons, WHERE, RETURN, ORDER BY and LIMIT, which
  shape what is returned and change nothing; records, varints and checksums;
  planner, logger, printing.
- Batch calls of `GraphStore` (loops over creates), `sync`, `compact`.
- The edge property index (the node index's twin) and the calls of
  `SimpleIndexManager` that only tests make.
- `Session` runs the shell's configuration, a store without MVCC; a Cypher query
  over MVCC is its transactional calls, which `VersionedGraph` interleaves.
  Patterns of several edges, edge types and edge properties are left out of it
  and of `Matching`.
- `is_visible` in `mvcc.cpp`, called by nothing. Two threads sharing one
  `Transaction` handle: the state field is not atomic, and no code does it.
  `QueryExecutor`'s transaction of a private manager, whose identifier is one of
  another transaction's: with the shell's store it is never made.
- `std::shared_mutex` may let readers starve a writer; its policy is the
  library's. A crash is the process's: `force_sync` and `FilePageStore::sync`
  hand the buffer to the operating system and ask no more of it
  (`wal_manager.h:117` speaks of fsync), so nothing is claimed of a machine that
  stops.

## 7. What is left to do

1. Patterns of several edges in `MATCH`, with edge types and with a variable that
   occurs twice.
2. Varints and records as operators, against a reference.
3. `DeadlockBroken` on larger instances: it is the one promise with no proof.
