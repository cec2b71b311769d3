# TLA+ verification of ev-rs

This directory holds the formal model of ev-rs: the state transition function
with its execution state, the mempool, the storage engine, the block producers,
the chain index, the servers in front of them with what they put on the wire, the
SDK collections, accounts and macros, the runners with their configuration, and
the debugger, simulator and load tester. The code under `src/` is the reference. Every
definition that models code names the lines it stands for in `PROJECT.json`
(`map`); `PROJECT.json` also lists the components, the runs, the hazards each
property is aimed at, and the theorems.

Contents: [the system](#the-system) · [modules and code](#modules-and-code) ·
[runs](#runs) · [fairness](#fairness) · [proofs](#proofs) ·
[deviations](#deviations) · [what is not modelled](#what-is-not-modelled) ·
[plan](#plan)

## Running

    tlasany M.tla                      # parse a module
    tlc -config Pool.cfg MCPool        # one run; PROJECT.json pairs cfg and module
    tlapm ExecutionStateProofs.tla     # check the proofs of a module

## The system

A transaction arrives over JSON-RPC or gRPC, is queued for a verifier, decoded
and checked by the gateway, and put into the mempool. A block producer takes a
proposal from the mempool: the development node on a timer, or the executor
service when an external consensus client asks for it. The state transition
function executes the block over an overlay of the storage. Inside a transaction
account code calls other accounts through the invoker, which opens a checkpoint
for every call and restores it if the call fails. The changes go to the storage
engine as a batch and a commit. The block is then archived, indexed in SQLite,
and announced to subscribers; queries are answered from the index and from the
live storage. A data directory outlives the process: a runner decides at start
whether genesis has to be applied.

    ingress --> mempool --> producer / executor service --> STF --> storage
                   ^              |            |             |         |
                   +-- finalize --+            |          invoker    state
                                          archive, index     |       queries
                                               |         execution
                                  log, block queries,      state
                                     subscriptions

## Modules and code

Where a module and the code use the same name they mean the same thing. Modules
are parameterised by constants; the `MC*` modules instantiate them. Several
components share a run: a behaviour of the run belongs to one of its *parts* or
*scenarios*, and the variables of the others keep their initial values. A run
therefore explores the union of the parts, not their product.

### Execution

| Module | Code | State and actions |
|---|---|---|
| `ExecutionState` | `stf/src/execution_state.rs`, driven as `Invoker::do_exec` does | `overlay`, `undo_log`, `events`, `unique_objects`, the stack `open` of checkpoints; one action per call; `restore` runs change by change |
| `NestedTx` | the promise of checkpoints | a working state, a stack of saved copies and the outcome of the last call: one that failed has put the copy back |
| `Stf` | `stf/src/lib.rs` (`apply_block`, `apply_tx`), gas, `execution_scope.rs` | the phases of a block and of each transaction; any phase may fail, run out of gas or reach the limit of objects, whose number is narrowed to 16 bits |
| `Invoker` | `stf/src/invoker.rs`, `handlers.rs`, `runtime_api_impl.rs` | a call stack of frames, funds, account codes; calls, queries, creations, registrations and migrations with their funds |

`NestedTx` abstracts `ExecutionState`: the refinement mapping undoes, for each
open checkpoint, the part of the log after it. `Stf` keeps of a phase only what
the block can tell of it (its gas, its effects, whether it failed); `Invoker`
is what happens inside one.

### Pool and ingress

| Module | Code | State and actions |
|---|---|---|
| `Mempool` | `mempool/src/pool.rs`, `traits.rs` | the four indexes of the pool; the heap is a bag, with the stale entries that removal leaves; the selection loop is a step per pop |
| `PoolSpec` | the promise of the pool | each transaction is waiting, proposed or gone |
| `Ingress` | `chain-index/src/provider.rs` (verifier queue), `tx/eth/src/gateway.rs`, decoder, envelope, payload, verifier registry, submission handlers of both servers | requests, the bounded queue, workers behind one mutex, response channels, timeouts, clients that leave; the settings of the environment, the verifiers that are registered, and the error that is reported |

### Storage

`QmdbStorage` models `storage/src/qmdb_impl.rs`, `cache.rs` and `warming.rs`:
readers (`get`, `get_async`, `get_many_async`, prefetch), a writer (`batch`,
`commit`) and the prune worker, step by step between the points where they take
or release tokio's fair read-write lock, over the database, its durable part and
one shard of the cache. A crash loses what was not committed.

### Block production

| Module | Code | State and actions |
|---|---|---|
| `DevNode` | `server/src/dev.rs`, archive consumer of `node/src/lib.rs`, `block_store.rs`, `persistence.rs` | a producer in its steps, spawned archive and index tasks, the bounded archive channel, pruning; Ctrl+C, crash, restart |
| `ExecutorService` | `evnode/src/service.rs`, `runner.rs` | handlers of `init_chain`, `get_txs`, `filter_txs`, `execute_txs`, `set_final` as steps between awaits; the commit sink and its worker; a consensus client that finalizes any height; the root of genesis and of blocks, which a block without changes leaves as it was; what may go wrong named by the constant `Mishaps` |
| `NodeRunner` | every `run_*`/`init_*` of `node/src/lib.rs`, `config.rs`, `cli.rs`, `evnode/src/runner.rs`, `server.rs`, the `main`s | a configuration file, a data directory and sidecars, and a process that puts its configuration together from defaults, file, environment and flags and walks through start, genesis, serving, production and shutdown |

### Queries and subscriptions

| Module | Code | State and actions |
|---|---|---|
| `ChainIndex` | `chain-index/src/index.rs`, `cache.rs` | SQLite tables, the cache, `store_block` in its steps, lookups through the cache, restart |
| `BlockQueries` | `chain-index/src/provider.rs`, the query handlers of both servers | block, count, transaction and receipt queries as sequences of reads |
| `LogQueries` | `chain-index/src/integration.rs`, `provider.rs`, `types.rs` | `build_index_data`, indexing tasks, `get_logs` block by block with its limits |
| `LogFilter` | `rpc/types/src/log.rs`, `grpc/src/conversion.rs` | matching and parsing of filters, shared by log queries and subscriptions |
| `StateQueries` | `chain-index/src/querier.rs`, `provider.rs`, both servers | resolution of the block, then reads of the live storage through its cache, against a node that commits and indexes; questions about modules, through three caches and the read-write locks around them |
| `Subscriptions` | `eth-jsonrpc/src/subscriptions.rs`, `server.rs`, `grpc/src/services/streaming.rs` | a bounded broadcast channel, receivers that lag, registration, acceptance, streaming tasks |
| `Wire` | `tx/eth/src` (envelopes, `TxContext`), `chain-index/src/integration.rs`, `index.rs`, `rpc/types/src`, `grpc/src/conversion.rs`, the `error.rs` of both servers | the fields of a transaction, with their widths, from the signature through the sequencer, execution, the columns of SQLite and the RPC types to JSON and protobuf; error codes; names of blocks and fields of calls on the way in |

### SDK and accounts

| Module | Code | State and actions |
|---|---|---|
| `Stored` | `collections/src/map.rs`, `item.rs` | functions with a present/absent entry per key |
| `Vector`, `Queue`, `UnorderedMap` | the files of these names | their stored maps and counters, a step per call |
| `SeqSpec`, `MapSpec` | the promises of the collections | a sequence, a map |
| `TxAccounts` | `tx/eth/src/mempool.rs`, `eoa_registry.rs`, `testapp/src/eth_eoa.rs` | registry in both directions, account code, nonce; a step per storage write, each of which may run out of gas; `authenticate`, which the pipeline calls and which transactions may call |
| `TxAccounts` (nonceless part), `Scheduler` | `sdk/extensions/*` | messages of the module; deliveries and blocks around them |
| `Token` | `sdk/extensions/token`, the genesis code of `testapp`, `evd` and `evnode` | every genesis, from a file, from the environment or by default, with the accounts it returns; the messages of the token, with additions that wrap |
| `Genesis` | `genesis/src/file.rs`, `lib.rs`, `registry.rs`, `types.rs`, `error.rs` | loading and writing out of a file, validation, the message registry, resolution of references, execution, consensus parameters, errors |
| `AccountCode` | `sdk/macros/src/lib.rs`, `sdk/core/src/error.rs`, `low_level.rs`, the call handling of `querier.rs` | expansion of a module or a struct by the macros, then calls from accounts and from `eth_call` and `eth_estimateGas` that reach its functions, and writes to its fields |

### Tools

`Replayer` models the debugger (`testing/debugger`): recording a trace, stepping,
running to breakpoints, jumping. `Simulator` and `SimMetrics` model
`testing/simulator`. `SimTestApp` models `testapp/src/sim_testing.rs`: the
simulated chain, the generator of its transactions with the books it keeps, what
a test may do to the chain itself, and the traces recorded for the debugger.
`TxLoad` models `bin/txload`: the funding of the wallets, and the tasks that share
the slots of a load test.

### Abstractions used throughout

* Keys, values, hashes, addresses, payloads and messages are model values or
  members of small sets. A request is what the checks can tell of it.
* Blocks carry a serial number in place of a hash over their contents. Two
  executions have different serials even when the code would hash them alike. The
  root that the executor service computes is the serial of the last block that
  changed anything.
* A 64-bit word has `MaxU64` or `MaxWord` as its largest value, or `Bits` bits.
  Saturating and checked arithmetic saturate and fail there.
* Unbounded counters stop at a bound in a guard. All bounds are constants named
  `Max*`.
* Variables marked ghost or history are read by properties and by bounds; no
  other guard depends on them.

## Runs

Eight runs pass and four show a disagreement between the code and what is said of
it. A run is a question about one area of the system; its module composes the
components of that area. State counts are distinct states with the bounds of the
cfg, up to symmetry where the cfg names one. The actors that are taken for
interchangeable (accounts of the invoker, keys and readers of the storage, calls
of the executor, readers of the index) are never compared by the code, and these
runs check safety only.

| Run | Module | States | Question |
|---|---|---|---|
| `execution` | `MCExecution` | 2,031,833 | do results, gas, ids and funds agree with what was kept of a block? |
| `pool` | `MCPool` | 279,583 | is a transaction in the pool exactly when it should be, and proposed properly? |
| `storage` | `QmdbStorage` | 872,443 | are commits durable, the cache bounded, serial reads current? |
| `node` | `MCNode` | 2,119,228 | are blocks produced once, in line, shown only when committed, resumed properly? |
| `rpc` | `MCRpc` | 1,020,647 | are answers and announcements those of the chain? |
| `sdk` | `MCSdk` | 193,172 | do collections, accounts, token, scheduler, genesis, macros keep their promises? |
| `tools` | `MCTools` | 659,102 | is a restore exact, and do the tools agree with themselves and with the chain? |
| `progress` | `MCProgress` | 28,587 | does everybody get through? |
| `stf_skipped` | `Stf` | | violated: see Deviations |
| `qmdb_stale` | `QmdbStorage` | | violated: see Deviations |
| `sdk_errors` | `MCSdk` | | violated: see Deviations |
| `rpc_modules` | `MCRpc` | | violated: see Deviations |

### execution

A block of two transactions and a block gas limit of one, so that a transaction
is skipped, fits exactly, or runs out of gas in any phase; every phase may mint
an object, and the second number is beyond `MAX_OBJECTS_PER_TRANSACTION` and would
be narrowed to 0. `UniqueIdsDistinct`, `ResultsTellState` and `GasWithinBlock` relate
the result of the block to the overlay it leaves. In the second part up to four
frames nest over two accounts, one derivable and one sequential id, two codes and
two assets, with a call depth of two; one of the assets may go with a creation or
a registration. `CallsContained` and `CallsDeliver` say that a failure at any depth
leaves no half-made account and no lost unit, that the runtime holds what was sent
with the creations that succeeded and nothing else, and that the callee of any other
call starts with exactly the funds its environment shows.

### pool

Three transactions, two of one sender with the nonces against the prices, one
without sender, three budgets. `PoolConsistent` says that nothing in `by_hash` is
stranded: it has a heap entry or is in flight. `ImplementsPool` is the refinement
of `PoolSpec`. For the ingress, three requests compete for two workers and one
place in the queue; in a second scenario one request takes every form that a
check can tell apart. `AdmittedProperly` says that the pool holds what was
answered with a hash, and nothing that did not pass every check.

### storage

Three keys and two readers up to symmetry, a cache of two entries, one batch. How
a process uses the storage is the constant `Usages`: reads of one key that overlap
the batch, with crashes; and, without overlap, asynchronous reads, prefetches, and
reads of several keys. `CacheBounded` and `CommittedSurvives` hold for all of
them, `SerialReadsAreCurrent` for those without overlap. Overlapping reads are not
current, which is the run `qmdb_stale`. The prune worker gives up at its first
failed attempt to lock here and tries again in `progress`.

### node

`DevNode`: two transactions, three blocks, an archive channel of two, retention of
one block, sections of one. What may go wrong in a behaviour is a member of
`FaultSets`, chosen at its start. `ProducedOnce`, `ShownIsCommitted`: see the
comments of the properties for which fault ends which guarantee. Whatever fits
into the archive channel reaches the archive; more than that is lost, see
`AllArchived` below.

`ExecutorService`: two handlers at a time, heights up to two, two transactions,
one of which needs all the gas of a block. A behaviour may suffer one of the sets
in `Mishaps`: clients that give up, handlers that are dropped, batches, commits and
index writes that fail, two overlapping or repeated `init_chain`s, a client that
names no root, blocks that change nothing, transactions that were not filtered,
crashes. `LinearWhileAlive`, `LiveTxsKept` and `ClientToldTruth` say which of these
ends which guarantee: nothing ends the last one. Blocks run beside an `init_chain`
that passed its check and has not stored yet; once it stores, height and root are
those of genesis again and `LinearWhileAlive` claims nothing more. Nor does it when
the client repeats blocks that may have changed nothing. The client waits for an
answer or gives up before it asks for the next block; it finalizes any height at any
time.

`NodeRunner`: three starts of any runner on one data directory, with a failure at
any step; and starts of `testapp` and `evd` with files, environments and flags
that are absent, malformed or disagree. `StartsAgreeWithDisk`.

### rpc

Two blocks stored in any order against two readers of the index, or three in order
with restarts; block, transaction and receipt queries against four calls of
`store_block`; log queries against blocks in which a transaction is passed over;
state queries against two blocks, through the cache of the storage; two clients
that ask about modules; a JSON and a gRPC subscriber on a channel of two places.
Filters include ones that do not parse. In `Wire` a `u64` has seven bits and the
numbers of eight transactions lie at the edges of the widths they pass through:
prices and amounts that fill a `u128` or a `U256`, a chain id whose `v` does not
fit into a `u64`, a creation, a custom payload. Blocks hold up to two of them.
`NotOlder` says that an answer is not older than the block it was resolved to
unless a commit overtook a read of the same key between the database and the
cache, the race of `qmdb_stale`. `IndexAnswers` takes the log index of a receipt
for the position among the logs of its transaction, which is what the code stores;
see `LogIndexInBlock` below.

### sdk

Queue and vector of up to four elements against `SeqSpec`, the map with four keys
against `MapSpec` (enough for a removal from the middle that moves the last key).
Empty batches are left out for `Vector.extend`, see Deviations. The accounts:
nonces up to two, four deliveries, calls of `authenticate` with a context or another
payload, two blocks of the scheduler. `ExecutedOnce` says that transactions run in the
order of their nonces, each at most once, and that a nonce which no transaction has
was used up by such a call. The token: amounts
that wrap at five, files of up to two accounts with every form of address and balance,
every mix of the `GENESIS_*` variables. Genesis: every file of up to three
transactions from 21 kinds, those that cannot be parsed included. `SupplyIsSum` says
that the supply is the sum of the balances modulo the width, and not below it as long
as nothing wrapped; an account listed twice in a genesis ends the first.
`GenesisComplete` says of references that they stand for the predicted numbers, and
how far those are from the accounts that the runtime creates.
`DispatchedAsDeclared`: an impl block with a function of each kind, one of which
is written in each way that the macro tells apart, beside a second block or a
trait; calls with inputs of up to three bytes; structs of three fields with each
form of storage prefix. `ErrorsToldApart` is the run `sdk_errors`.

### tools

The execution state: three keys that fit, one that is too long, one value that is
too long, an overlay limit of two entries, batches of two operations, two open
checkpoints. The limit is reached by single writes, by batches, by batches that
repeat a key, and by entries that a restore puts back. `RestoresExactly` is the
refinement of `NestedTx`; `NeverPanics` says that the panic in `do_exec` is
unreachable.

The tools: traces of up to three events with one of three composite breakpoints at
a time; a simulator of two blocks of two ticks; metrics with words up to four and a
window of two; counters with a snapshot and a reset; a simulated application of two
blocks and four accounts with its generator, and one of two blocks in which a
test does up to three things of its own (accounts, mints, transfers); a load test
of up to three workers and three slots. `StateFitsPosition` joins the application to the
replayer: a trace of its blocks leads to the state of its chain.

### progress

The liveness properties of storage, executor, node, ingress and subscriptions,
under the fairness below.

## Fairness

The code runs on tokio. A task that is ready runs at last, and the lock and the
mutex are handed over in order. That justifies weak fairness of every step of a
task that has begun, and of nothing else: no fairness makes a client call, a
timer fire, a fault happen or a process crash. Two assumptions about the
environment are needed for the executor: its client keeps asking, and a batch
that is tried again and again succeeds at last (strong fairness of `SinkBatch`).
Without the second a storage that refuses every batch would refute the claim. In
`MCProgress` the fairness of a part asks nothing of the other parts. In
`rpc_modules` a request runs on whenever no lock keeps it; without that the
violation would show only that a thread may stop.

`CHECK_DEADLOCK FALSE` is set where behaviours end: a block is finished, the
bounded number of heights, stores, deliveries or starts is used up, or everyone
has been answered.

## Proofs

| Theorem | Module | Statement |
|---|---|---|
| `InvHolds` | `ExecutionStateProofs` | `Spec => []Inv` |
| `StateStaysTyped` | | `Spec => []TypeOK` |
| `NoPanic` | | `Spec => []NeverPanics` |
| `OverlayStaysBounded` | | `Spec => []OverlayBounded` |
| `RestoreIsExact` | | `Spec => RestoresExactly`, the refinement of `NestedTx`: a call that failed leaves what its checkpoint found |
| `PoolStaysConsistent` | `MempoolProofs` | `Spec => []PoolConsistent` |
| `SelectionAlwaysHolds` | | `Spec => []SelectionHolds` |
| `IsAPool` | | `Spec => ImplementsPool`, the refinement of `PoolSpec` |
| `IdsStayDistinct` | `StfProofs` | `Spec => []UniqueIdsDistinct` |
| `GasStaysWithinBlock` | | `Spec => []GasWithinBlock` |
| `ResultsAlwaysTellState` | | `Spec => []ResultsTellState` |
| `CommitsSurvive` | `QmdbStorage` | `Spec => []CommittedSurvives` |
| `CacheStaysBounded` | | `Spec => []CacheBounded` |
| `SerialReadsStayCurrent` | | `Spec => []SerialReadsAreCurrent` |
| `BlocksAreProducedOnce` | `DevNode` | `Spec => []ProducedOnce` |
| `ShownStaysCommitted` | | `Spec => []ShownIsCommitted` |
| `ClientIsToldTheTruth` | `ExecutorProofs` | `ExecutorSpec => []ClientToldTruth` |
| `TxsAreKept` | | `ExecutorSpec => []LiveTxsKept` |
| `ExecutionIsLinear` | | `ExecutorSpec => []LinearWhileAlive` |
| `StartsAlwaysAgree` | `NodeRunner` | `RunnerSpec => []StartsAgreeWithDisk` |
| `KeysAlwaysMatch` | `CollectionProofs` | `Spec => []KeysMatch` of `UnorderedMap` |
| `IsAMap` | | `Spec => RefinesMap`, the refinement of `MapSpec` |
| `ItemsStayBetween` | | `QueueSpec => []ItemsBetween` of `Queue` |
| `IsASequence` | | `QueueSpec => RefinesQueue`, the refinement of `SeqSpec` |

They hold for every value of the constants that satisfies the named assumptions
of the modules: any set of keys, values, transactions, readers, calls and events,
blocks of any size, any limit, any depth, any world of a runner. The bounds of the
runs (the constants named `Max*` of these modules) and the sets of faults, mishaps
and usages are arbitrary in the proofs. The proofs about `QmdbStorage`, `DevNode`
and `NodeRunner` stand at the end of these modules.

**Execution state.** Neither `NeverPanics` nor `OverlayBounded` is inductive. A
restore removes overlay entries when the undo log says there was none before, so
the bound after a restore depends on what the log says. `Inv` adds three facts.
The open checkpoints lie within the logs and in their order
(`CheckpointsNested`). Every key of the log has an overlay entry, and of several
changes to a key only the first can have found none (`LogCoversOverlay`). A
restore runs only with a checkpoint open. `Present`, the set of keys with an
entry, then only shrinks during a restore. The proof has one lemma per kind of
step (`WriteInv`, `BatchInv`, `RevertInv`); a batch is the hard one, because its
log entries are computed from prefixes of the batch (`AfterPrefixEntry`,
`BatchLog`). TLC finds `Inv` in every state of the run `tools` when it is added to
the invariants of its cfg.

For the refinement, `Undone(overlay, log, n)` is the overlay with the changes
after position `n` taken back. `UndoneStable` says that a step which only appends
truthful entries leaves it unchanged for every earlier `n`; `WriteUndone`,
`BatchUndone` and `RevertUndone` apply it to the three kinds of step. So each
saved copy is constant while its checkpoint is open, and at the end of a restore
the overlay is the copy (`UndoneAtEnd`). The mapping also takes over the outcome of
the last call, so that a failed one can only be the step `Abort` of `NestedTx`, which
puts the copy back, and not `Commit`.

**Pool.** `PoolConsistent` needs one more fact to be inductive: between two
proposals nothing is selected or skipped (`LoopClean`). The promise that repeated
proposals differ, and the refinement, rest on `OnePlaceEach`: a transaction that
never left the pool has one place, a heap entry, the selection, the skipped
entries or a proposal that is not finalized. `SelectedPooled` and `GasBounded`
say what the selection holds and that its gas, with the saturation of `u64`,
stays within `max_gas`. `OnePlaceStep` is the long lemma, with a case for each
way an entry moves. TLC finds `Inv` of `MempoolProofs` in every state of the run
`pool` when it is added.

**Block pipeline.** Every phase of a transaction, failed or not, is a `TxStep`
(`Kinds`), so that the invariant is proved once for all of them. Ids are distinct
because the counter is not below any number in the state, a failed `do_exec`
included (`Numbered`), and because narrowing leaves a number alone that passed the
comparison with the limit (`NarrowedFact`). The gas of a block is within its limit
because a started transaction has its whole limit left (`Reserved`). For the
results, `InTurn` says that nobody has left an object behind before their turn or
in a phase they have not reached, `Pending` that the events not popped yet are
those of the one who is running, and `PassedOver` that what was skipped did not
fit and, as the gas used only grows, never will.

**Storage.** `CommittedSurvives` is not inductive: a commit reports the database
after the sync, so what it reports has to be durable by then. `Durable` adds
that, and orders the committed, the durable and the current value of every key
by the number of the batch. For the cache, a full shard loses
`max_entries / 2`, which is at least one, before it gains one (`InsertBounded`);
this is where `MaxEntries >= 2` is used. That serial reads are current needs the
way of a value from the database to the reader: `Serial` says that a cache entry
is what the database holds, except while a batch is between its write and its
invalidation, that nobody reads then, and that what a reader carries between two
awaits (a value read and not yet inserted, the keys it still has to fetch, what it
found in the cache) is what the database held when it was read. It is proved per
kind of reader step (`SerialLookUp`, `SerialReadDb`, `SerialInserts`) and for the
writer (`SerialWriter`).

**Development node.** `DevInv` is a conjunction of invariants that are each kept
by every step, some under a condition on the faults of the behaviour. `Applied`
and `Proposed` follow a transaction from the pool through the producer to storage;
`OnceInv` and `Ordered` say why no transaction is applied and no number used twice,
over restarts; `Whole` accounts for every submitted transaction, and `Linked` for
the hash of the parent. For what is shown, `ShownInv` and `HeadsInv` follow a block
through the spawned tasks, `RetainedInv` bounds what pruning removes, and `BurstInv`
counts the blocks that are with an archive task or in the channel, so that the
channel never refuses one while the blocks fit into it.

**Executor.** The three properties end with different mishaps, and there is an
invariant for each. `TruthInv` asks nothing of the behaviour: blocks on their way
to storage have the last serial numbers, in order (`Numbered`); the block that a
handler waits for is the one it asked for, also when the handler was replaced by
another one for the same call in between (`Matched`); whoever was told of a commit
has its block in storage (`ToldCommitted`); the client waits for one height, the
next one (`OneAwaited`), and has the root of a committed block of each height, and
every height that the service has reached or that is final, beyond the initial
one, is committed (`ClientKnows`). `TxsInv` needs that what `filter_txs` lets
through fits into a block, so that an execution keeps to its order from the first
one on. `LinInv` holds while nothing is cancelled, no commit fails, the process
lives, the client names its root and repeats no block that changed nothing, and
until a second `init_chain` stores. As roots are then unique (`RootsUnique`) a
repeated block is refused. The lock is then held from the resolution of the root
to the answer, the one block on its way belongs to its holder (`Serial`), the
stored root is that of the last block or of the one before it while that is being
applied (`RootCurrent`), and every root that a client or a handler carries names
the height it is meant for (`RootsNamed`). What a block executes and what a filter
passes on are recursive functions over positions; that they keep to the order of
their input is shown by the least position at which they would not (`WFMin` of
`WellFoundedInduction`). TLC finds `ExecutorInv`, the three together, in each of
the 1,385,745 states of `ExecutorSpec` with the constants of the run `node`.

**Runners.** `RunnerInv` relates the process, step by step, to what is on disk. Once
genesis has run its chain state is there, unless it cannot be read
(`OnceInDirectory`). Where it is always saved, it has the number after the last block,
on disk or in the process that is about to save it (`Resumes`). `LayersMerged` is about
the configuration: of defaults, file, environment and flags the strongest that is given
decides.

**Collections.** `KeysMatch` and `ItemsBetween` are inductive as they stand. The
case that needs work is the removal of a key that is not the last one, where the
last key moves to its place.

Only model-checked:

* every liveness property, as fairness and `ENABLED` are beyond the prover
  (`EveryoneGetsThrough`, `CallersAnswered`, `CommittedArrives`);
* what is a sum or a fold, as induction over data is beyond the prover too:
  `CallsContained` (the funds of a stack of frames), `SupplyIsSum`, `LogsAnswered`
  (gas and log counts), `IndexAnswers` and `NotOlder` (what `Wire` puts together
  digit by digit);
* the properties of modules with recursive operators (`AccountCode`, `Replayer`,
  `Simulator`), in which the SMT backend is lost: `DispatchedAsDeclared`,
  `StateFitsPosition`, `ClockAgrees`, `RunsStopWhereTold`;
* `AdmittedProperly`, `CallsDeliver`, `Delivered`, `ExecutedOnce`, `GenesisComplete`
  and `MetricsAgree`, for which no proof has been written;
* `Vector`, whose refinement of `SeqSpec` is checked beside that of `Queue`.

## Deviations

Places where the code does something other than what a comment, test or document
of the repository says of it. Four are runs:

* `stf_skipped` (`SkippedCount`): when the block is full `apply_block` adds
  `txs.len() - tx_results.len()` to `txs_skipped` (`stf/src/lib.rs:1102`), which
  counts transactions again that were skipped one by one. Line 1048 says "The
  `BlockResult.txs_skipped` field indicates how many were skipped."
* `qmdb_stale` (`ReadsAreCurrent`): a read that overlaps a batch inserts the old
  value into the cache after the batch invalidated it
  (`storage/src/qmdb_impl.rs:538`). Line 450 says "no concurrent reader can
  observe a stale cached value".
* `sdk_errors` (`ErrorsToldApart`): `crate_namespace` hashes the name of the crate
  it is compiled in, `evolve_core`, whichever crate calls `define_error!`
  (`sdk/core/src/error.rs:154`), so errors of different crates with one local
  number are one code. A function that fails with error 2 of the token is run
  again as a query, and error 1 is reported as "out of gas". Line 6 says "Upper 8
  bits: Crate namespace (auto-generated from crate name)".
* `rpc_modules` (`ModulesAnswered`): `get_all_schemas` reads `module_ids_cache` in
  the condition of an `if let` and writes it in the `else`
  (`chain-index/src/provider.rs:591`, and line 601 for `module_schema_cache`). The
  crate is of edition 2021, in which the guard lives to the end of the `else`: the
  write waits for its own reader, and later readers for the writer.
  `docs/schema-introspection.md:161` says "Returns schemas for all registered
  modules." With the guard released before the `else` (`Holding` empty) the
  property holds.

The others are stated as definitions that no run checks. Each was found violated
by TLC with the module on its own and the constants of the third column, where
they matter. The passing runs leave out the circumstance or make no such claim.

| Definition | Code | Circumstance, and what it contradicts |
|---|---|---|
| `Stf!RejectedTxUndone` | `stf/src/lib.rs:1311` | A failing post-transaction handler rejects a transaction whose effects stay. STF_ARCHITECTURE.md:10: "Atomic transactions with checkpoint/rollback" |
| `Stf!ObjectLimitPerTransaction` | `stf/src/execution_scope.rs:52` | The object number is counted over the block. Line 4: "in a single transaction" |
| `Invoker!CreateDeliversFunds` | `stf/src/invoker.rs:349` | The funds of a creation stay with the runtime, which only shows them to the new account. Compare `handlers.rs:66` for migrations |
| `Invoker!DepthBounded` | `stf/src/invoker.rs:62` | Queries do not compare the depth. Line 21: "Maximum call depth" |
| `TxAccounts!SenderInitialised` | `stf/src/lib.rs:1279` | A bootstrap whose init runs out of gas leaves the code identifier, and later ones take the account for registered |
| `TxAccounts!RecipientMapped` | `tx/eth/src/eoa_registry.rs:162` | The entries of a new recipient go to the sender's storage. Test `mempool.rs:683`: "recipient mapping exists" |
| `TxAccounts!NoncesCountTxs` | `testapp/src/eth_eoa.rs:159` | Any transaction may call `authenticate` of an account, which uses up a nonce, with a payload that is no `TxContext` whatever the nonce is. Line 39: "The nonce, incremented after each successful transaction" |
| `ExecutorService!LinearHistory` | `evnode/src/service.rs:559` | `"cancel"`: a dropped handler leaves a queued block, and a retry applies it again; `{"empty", "giveup"}`: a block that changed nothing leaves the root, and its repetition passes line 357; `{"twice", "giveup"}`: the second `init_chain` puts the root back (line 418). Line 152: "stay linear" |
| `ExecutorService!RootMatchesStorage` | `evnode/src/runner.rs:110` | `"commit"`: a failing commit after a batch; `"twice"`: a late `init_chain` sets height and root back (`service.rs:408`); `{"empty", "giveup"}`. `service.rs:511`: "remain linearized" |
| `ExecutorService!TxsNotLost` | `evnode/src/service.rs:544` | `"unfiltered"`, small `MaxGas`: the first `tx_results.len()` transactions are taken for the executed ones |
| `ExecutorService!InitOnce` | `evnode/src/service.rs:380` | `"twice"`: two concurrent `init_chain`s both pass the check. Test line 985: "second init should fail" |
| `ExecutorService!IndexLinked` | `evnode/src/runner.rs:255` | `"crash"`, `"reinit"`, `"noroot"`: the height is saved at graceful shutdowns only |
| `ChainIndex!LatestIsMax` | `chain-index/src/index.rs:638` | `InOrder = FALSE`, `MayRestart = TRUE`: a lower number overwrites the latest. The tests' reference, line 1094, takes the maximum |
| `ChainIndex!AnswerFits` | `chain-index/src/index.rs:435` | A number stored again with another hash: cached entries of the old block stay |
| `DevNode!TxsOnce` | `server/src/dev.rs:428` | `"commit"`: the proposal is requeued while its writes stay. Line 622: "requeue anything that was not committed" |
| `DevNode!ParentsLinked` | `server/src/dev.rs:121` | `"interrupt"`: `last_hash` is not saved |
| `DevNode!NumbersIncrease` | `node/src/lib.rs:529` | `"crash"`: the height is saved at graceful shutdowns only. `block_store.rs:144`: numbers "are assumed to be globally unique" |
| `DevNode!AllArchived` | `node/src/lib.rs:266` | `"interrupt"`: archiving is left to a task and a bounded channel. Line 232: "all produced blocks must be persisted" |
| `DevNode!ArchivedInOrder` | `server/src/dev.rs:444` | Each block is sent by a task of its own. `node/src/lib.rs:244`: "ensures blocks are written in order" |
| `NodeRunner!GenesisOnce` | `server/src/persistence.rs:36` | `"read"`: a failing read counts as "genesis hasn't been run yet" |
| `NodeRunner!GenericStarts` | `node/src/lib.rs:657` | The generic runner panics with RPC enabled, after genesis. Line 546: "the RPC layer will still use `TxContext`" |
| `NodeRunner!ShutdownEnds` | `evnode/src/runner.rs:221` | `FairSpec`: open connections keep the commit worker, outside the timeout. docs/guides/server.md:46 |
| `LogQueries!ReceiptIsOwn` | `chain-index/src/integration.rs:200` | A block with a passed-over transaction: results are zipped with transactions. `types.rs:160` |
| `LogQueries!LogIndexAgrees` | `chain-index/src/types.rs:183` | Receipts number logs from 0, log queries through the block. `rpc/types/src/log.rs:30`: "Log index in block" |
| `BlockQueries!LogIndexInBlock` | `chain-index/src/types.rs:183` | The same for receipts over RPC. `rpc/types/src/log.rs:30` |
| `StateQueries!NeverOlder` | `storage/src/qmdb_impl.rs:538` | A read that a commit overtakes leaves the older value in the cache, and later queries are answered with it. Line 450, as for `qmdb_stale` |
| `StateQueries!LatestAnswered` | `chain-index/src/provider.rs:318` | A block is indexed between the two resolutions of "latest". Test line 1451 |
| `StateQueries!SlotsAreRead` | `chain-index/src/querier.rs:193` | `Kinds = {"slot"}`: the key lacks the prefix of `handlers.rs:137` |
| `Subscriptions!NothingMissed` | `eth-jsonrpc/src/server.rs:679` | The call is accepted before the task subscribes. `subscriptions.rs:124`: only "subscribers that fall behind" miss |
| `Subscriptions!ActiveAreServed` | `eth-jsonrpc/src/server.rs:671` | Nothing removes a registered subscription. `subscriptions.rs:103`: "Active subscriptions by ID." |
| `Genesis!ReferencesResolve` | `genesis/src/file.rs:235` | References stand for accounts 1, 2, ..., the runtime numbers from 65535. Line 38 |
| `Genesis!SentBySender` | `genesis/src/lib.rs:92` | The sender is never read. README of the crate, line 121 |
| `Genesis!ReferenceErrorsNameTransaction` | `genesis/src/file.rs:317` | A reference inside a message that does not resolve is reported for transaction 0. `error.rs`: "invalid reference at transaction" |
| `Genesis!ValidatedAreEarlier` | `genesis/src/file.rs:198` | A transaction may refer to itself. Line 201: "earlier transactions" |
| `Vector!PopNeverFails` | `collections/src/vector.rs:48` | `Batches` with the empty one: a stored length of 0. Test line 210: "Another pop -> None" |
| `Token!AlwaysSum` | `token/src/lib.rs:56`, `testapp/src/lib.rs:229` | A release build wraps when more than 2^128 - 1 is issued; alice and bob with one address are listed twice. The supply is then not the sum of the balances |
| `Token!HeldByAddresses` | `testapp/src/lib.rs:129` | The genesis of `evnode` gives the tokens to accounts that the runtime numbers, not to those of the addresses. Line 123: "Genesis with custom Ethereum addresses" |
| `Replayer!StateFitsPosition` | `debugger/src/replay.rs:115` | `Firsts` with `"StateChange"`: position 0 shows the change of event 0 |
| `Replayer!QueriesAnswer` | `debugger/src/replay.rs:240` | The queries panic on an empty trace |
| `Simulator!ResetReplays` | `simulator/src/lib.rs:170`, `:321` | `Hows = {"random"}`: the generator is one draw off; `{"built"}`: the given state is gone |
| `Simulator!LatestHashShown` | `simulator/src/lib.rs:309` | A restore sets the hash back, not the storage. Line 220: "latest committed app hash" |
| `Simulator!AbortStops` | `simulator/src/lib.rs:329` | An abort never stops a run. Line 312: "Aborts the simulation" |

Two more are built into a checked property. In `Mempool` a transaction that is
added again after it left may be proposed twice, as the stale heap entry counts
again (`mempool/src/pool.rs:117`; line 272 says "Repeated calls return different
transactions."): `DistinctProposals` excepts it. In `SimTestApp` the books of the
generator are compared only when no transfer failed, because an account that is
funded and pays in one block may pay first (`BookedIsPaid`).

## What is not modelled

* Encodings as bytes (Borsh, RLP, JSON, protobuf) and cryptography. A model keeps
  whether they succeed, the widths of numbers, and what a later check can tell of
  their result: `Wire` keeps every field, `AccountCode` the widths of arguments,
  `Genesis` the forms of a JSON value.
* The code generated from the protobuf files: one sixteenth of the lines, without
  control of its own.
* Schemas of types, the events API, and the fixed-point numbers of
  `math/src/uq64_64.rs`, which hand every operation to an external crate.
* The database under the storage engine and SQLite: external. They are taken to
  apply a batch or a transaction as a whole, and to keep what was committed.
* The wiring of servers, metrics, logging, tracing, health endpoints.
* The debugger's inspector and file formats, and the command line of the
  simulator: input and output around modelled parts.
* Decoding failures in `execute_txs`, failing saves of the chain state in
  `DevNode`, custom sender types in `TxAccounts`, and the size limits of keys
  and values in `QmdbStorage` (those of the overlay are in `ExecutionState`).
* The components run against each other only where one module holds both sides
  (`DevNode` and `ExecutorService` contain the pool, the storage and the index as
  their clients see them). There is no module of the whole node.

`PROJECT.json` lists these parts under `components` with their files.

## Plan

Built so far, in this order: execution state with its refinement and proofs;
pool; block pipeline and calls; storage; executor and development node; index,
queries and subscriptions; ingress; collections with their proofs; accounts and
genesis; runners; tools; the macros and the calls they dispatch; the wire; the
configuration of the runners; every genesis of the binaries; the introspection of
modules; the load tester; the proofs of the pool, the block pipeline, the storage,
the development node, the runners and the executor.

Next, in order of value:

1. Proofs for `Ingress` (`AdmittedProperly`) and for the lookups of `ChainIndex`.
2. Composition: `DevNode` over `Mempool` instead of its own view of the pool, and
   `ExecutorService` over an abstract storage that `QmdbStorage` implements.
3. An abstract specification of the chain index, a map from numbers and hashes to
   blocks, that `ChainIndex` with its cache implements when blocks are stored in
   order.
4. `Vector` beside `Queue` among the proofs.
5. The parts listed as left out above: decoding failures in `execute_txs`, failing
   saves, the inspector.
