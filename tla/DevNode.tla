-------------------------------- MODULE DevNode --------------------------------
(***************************************************************************)
(* A development node (crates/app/server/src/dev.rs and the runners of     *)
(* crates/app/node/src/lib.rs): one task produces blocks from the mempool, *)
(* commits them and leaves archiving and indexing to spawned tasks; Ctrl+C *)
(* drops the producer wherever it waits and saves the height; a crash      *)
(* saves nothing.                                                          *)
(*                                                                         *)
(* A block is its number, the hash of its parent, its own hash (a serial   *)
(* number, 0 being B256::ZERO) and its transactions.  The archive and the  *)
(* index are stores of blocks by number (block_store.rs, ChainIndex); the  *)
(* mempool is what it holds and what it proposed (Mempool); any part of    *)
(* what it holds may be proposed.  A proposal fits the gas of the block,   *)
(* so nothing is skipped.                                                  *)
(***************************************************************************)
EXTENDS Integers, Sequences, FiniteSets, FiniteSetsExt, Functions, FiniteSetTheorems, TLAPS

CONSTANTS
    Tx,          \* transactions that are submitted, each once
    MaxBlocks,   \* bound on the blocks that are started
    Capacity,    \* capacity of the archive channel
    Retention,   \* retention_blocks
    Section,     \* blocks_per_section
    FaultSets    \* what may go wrong, in one behaviour or another

AllFaults == {"execution", "batch", "commit", "interrupt", "crash"}

ASSUME DevAssumption ==
    /\ MaxBlocks \in Nat /\ Capacity \in Nat \ {0}
    /\ Retention \in Nat \ {0} /\ Section \in Nat \ {0}
    /\ FaultSets \subseteq SUBSET AllFaults

VARIABLES
    up,         \* whether the process runs
    height,     \* DevState.height: the number of the next block
    last_hash,  \* DevState.last_hash
    pool,       \* mempool: waiting transactions and those of the open proposal
    producer,   \* produce_block_from_mempool
    state,      \* blocks whose writes the storage holds, in order
    durable,    \* how many of them are committed
    saved,      \* the height in CHAIN_STATE_KEY
    archiving,  \* blocks whose archive task has not run
    channel,    \* archive channel
    archive,    \* BlockStorage
    pruned,     \* lowest number the archive takes
    written,    \* blocks the archive consumer has written, in order (ghost)
    indexing,   \* indexing tasks
    index,      \* blocks stored in the chain index
    heads,      \* blocks published to subscribers
    submitted,  \* transactions submitted to this process or an earlier one
    serial,     \* hash of the last block started
    faults      \* what may go wrong in this behaviour: a subset of AllFaults

consensus == <<height, last_hash, serial>>
storage == <<state, durable, saved>>
archival == <<archiving, channel, archive, pruned, written>>
indexes == <<indexing, index, heads>>
vars == <<up, consensus, pool, producer, storage, archival, indexes, submitted>>

Idle == [pc |-> "idle"]
EmptyPool == [waiting |-> {}, proposed |-> {}]

(* After commit_genesis, which saves height 1. *)
Init ==
    /\ up = TRUE
    /\ height = 1 /\ last_hash = 0 /\ serial = 0
    /\ pool = EmptyPool /\ submitted = {}
    /\ producer = Idle
    /\ state = <<>> /\ durable = 0 /\ saved = 1
    /\ archiving = {} /\ channel = <<>> /\ archive = {} /\ pruned = 0 /\ written = <<>>
    /\ indexing = {} /\ index = {} /\ heads = {}
    /\ faults \in FaultSets

-----------------------------------------------------------------------------
Submit(t) ==
    /\ up /\ t \notin submitted
    /\ submitted' = submitted \cup {t}
    /\ pool' = [pool EXCEPT !.waiting = @ \cup {t}]
    /\ UNCHANGED <<up, consensus, producer, storage, archival, indexes>>

(* produce_block_with_txs up to the wait for the batch: the height is      *)
(* taken before anything can fail.                                         *)
ProduceBlockWithTxs(txs) ==
    /\ up /\ producer.pc = "idle" /\ serial < MaxBlocks
    /\ height' = height + 1
    /\ serial' = serial + 1
    /\ producer' = [pc |-> "batch",
                    block |-> [number |-> height, parent |-> last_hash, hash |-> serial', txs |-> txs]]
    /\ UNCHANGED <<up, last_hash, storage, archival, indexes, submitted>>

(* produce_block_from_mempool: propose, then the block. *)
ProduceFromMempool(txs) ==
    /\ txs \subseteq pool.waiting
    /\ pool' = [waiting |-> pool.waiting \ txs, proposed |-> txs]
    /\ ProduceBlockWithTxs(txs)

(* run_block_production, and a limit of no transactions: the mempool is    *)
(* left alone.                                                             *)
ProduceEmpty == ProduceBlockWithTxs({}) /\ UNCHANGED pool

(* finalize with no hash. *)
Requeue == pool' = [waiting |-> pool.waiting \cup pool.proposed, proposed |-> {}]

MutantBatch ==
    /\ up /\ producer.pc = "batch"
    /\ state' = Append(state, producer.block)
    /\ archiving' = archiving \cup {producer.block}
    /\ producer' = [producer EXCEPT !.pc = "commit"]
    /\ UNCHANGED <<up, consensus, pool, durable, saved, channel, archive, pruned, written, indexes, submitted>>

(* into_changes, batch or commit fails: the proposal goes back.            *)
ProduceFails ==
    /\ up
    /\ \/ producer.pc = "batch" /\ faults \cap {"execution", "batch"} # {}
       \/ producer.pc = "commit" /\ "commit" \in faults
    /\ Requeue
    /\ producer' = Idle
    /\ UNCHANGED <<up, consensus, storage, archival, indexes, submitted>>

Batch ==
    /\ up /\ producer.pc = "batch"
    /\ state' = Append(state, producer.block)
    /\ producer' = [producer EXCEPT !.pc = "commit"]
    /\ UNCHANGED <<up, consensus, pool, durable, saved, archival, indexes, submitted>>

(* commit, the hash of the block, and the tasks for archive and index.     *)
Commit ==
    /\ up /\ producer.pc = "commit"
    /\ durable' = Len(state)
    /\ last_hash' = producer.block.hash
    /\ archiving' = archiving \cup {producer.block}
    /\ indexing' = indexing \cup {[pc |-> "store", block |-> producer.block]}
    /\ producer' = [producer EXCEPT !.pc = "finalize"]
    /\ UNCHANGED <<up, height, serial, pool, state, saved, channel, archive, pruned, written, index, heads, submitted>>

MutantFinalizeNone ==
    /\ up /\ producer.pc = "finalize"
    /\ Requeue
    /\ producer' = Idle
    /\ UNCHANGED <<up, consensus, storage, archival, indexes, submitted>>

Finalize ==
    /\ up /\ producer.pc = "finalize"
    /\ pool' = [pool EXCEPT !.proposed = {}]
    /\ producer' = Idle
    /\ UNCHANGED <<up, consensus, storage, archival, indexes, submitted>>

-----------------------------------------------------------------------------
(* The callback of build_block_archive, run by a task of its own.          *)
TrySend(b) ==
    /\ up /\ b \in archiving
    /\ archiving' = archiving \ {b}
    /\ channel' = IF Len(channel) < Capacity THEN Append(channel, b) ELSE channel
    /\ UNCHANGED <<up, consensus, pool, producer, storage, archive, pruned, written, indexes, submitted>>

(* The prune horizon after block n: sections wholly below n - Retention.   *)
Kept(n) ==
    IF n % Section = 0 /\ n > Retention
    THEN Max({pruned, ((n - Retention) \div Section) * Section}) ELSE pruned

(* put_sync does nothing for a number that is there, and fails for one     *)
(* below the horizon.                                                      *)
Puts(b) == b.number >= pruned /\ \A c \in archive : c.number # b.number

(* The consumer. *)
Archive ==
    /\ up /\ channel # <<>>
    /\ LET first == Head(channel)
       IN /\ pruned' = Kept(first.number)
          /\ archive' = {c \in archive \cup (IF Puts(first) THEN {first} ELSE {}) : c.number >= pruned'}
          /\ written' = IF Puts(first) THEN Append(written, first) ELSE written
    /\ channel' = Tail(channel)
    /\ UNCHANGED <<up, consensus, pool, producer, storage, archiving, indexes, submitted>>

-----------------------------------------------------------------------------
StoreIndex(k) ==
    /\ up /\ k \in indexing /\ k.pc = "store"
    /\ index' = {b \in index : b.number # k.block.number} \cup {k.block}
    /\ indexing' = (indexing \ {k}) \cup {[k EXCEPT !.pc = "publish"]}
    /\ UNCHANGED <<up, consensus, pool, producer, storage, archival, heads, submitted>>

Publish(k) ==
    /\ up /\ k \in indexing /\ k.pc = "publish"
    /\ heads' = heads \cup {k.block}
    /\ indexing' = indexing \ {k}
    /\ UNCHANGED <<up, consensus, pool, producer, storage, archival, index, submitted>>

-----------------------------------------------------------------------------
(* What ends with the process. *)
Stop ==
    /\ up' = FALSE
    /\ pool' = EmptyPool
    /\ producer' = Idle
    /\ archiving' = {} /\ channel' = <<>> /\ indexing' = {} /\ heads' = {}
    /\ UNCHANGED <<consensus, archive, pruned, written, index, submitted>>

(* Ctrl+C drops the producer where it waits; save_chain_state writes the   *)
(* height and commits whatever the storage holds.                          *)
Interrupt ==
    /\ up /\ "interrupt" \in faults
    /\ saved' = height
    /\ durable' = Len(state)
    /\ UNCHANGED state
    /\ Stop

Crash ==
    /\ up /\ "crash" \in faults
    /\ state' = SubSeq(state, 1, durable)
    /\ UNCHANGED <<durable, saved>>
    /\ Stop

(* load_chain_state; DevState::new starts from B256::ZERO.                 *)
Restart ==
    /\ ~up
    /\ up' = TRUE
    /\ height' = saved
    /\ last_hash' = 0
    /\ UNCHANGED <<serial, pool, producer, storage, archival, indexes, submitted>>

Next ==
    /\ \/ \E t \in Tx : Submit(t)
       \/ ProduceEmpty \/ \E txs \in SUBSET pool.waiting : ProduceFromMempool(txs)
       \/ ProduceFails \/ Batch \/ Commit \/ Finalize
       \/ \E b \in archiving : TrySend(b)
       \/ Archive
       \/ \E k \in indexing : StoreIndex(k) \/ Publish(k)
       \/ Interrupt \/ Crash \/ Restart
    /\ UNCHANGED faults

Spec == Init /\ [][Next]_<<vars, faults>>

(* Tokio runs every task that is ready. *)
Fairness ==
    /\ WF_vars(Batch \/ Commit \/ ProduceFails) /\ WF_vars(Finalize)
    /\ WF_vars(\E b \in archiving : TrySend(b)) /\ WF_vars(Archive)
    /\ WF_vars(\E k \in indexing : StoreIndex(k) \/ Publish(k))

-----------------------------------------------------------------------------
Committed == {state[i] : i \in 1..durable}

(* Types, and the proposal of the pool is the block being produced.        *)
TypeOK ==
    /\ durable \in 0..Len(state)
    /\ height \in Nat /\ saved \in Nat
    /\ Len(channel) <= Capacity
    /\ producer.pc \in {"idle", "batch", "commit", "finalize"}
    /\ up => pool.proposed = IF producer.pc = "idle" THEN {} ELSE producer.block.txs

(* Block numbers increase strictly along what the storage holds: no number *)
(* is used for two blocks.                                                 *)
NumbersIncrease ==
    \A i \in 1..Len(state) - 1 : state[i].number < state[i + 1].number

(* Each block names the hash of the block that was applied before it.      *)
ParentsLinked ==
    \A i \in 1..Len(state) - 1 : state[i + 1].parent = state[i].hash

(* A transaction that was submitted is waiting, proposed, or in a block    *)
(* that was applied.                                                       *)
TxsKept == submitted = pool.waiting \cup pool.proposed \cup UNION {b.txs : b \in Range(state)}

(* No transaction is applied twice: "finalize executed transactions and    *)
(* requeue anything that was not committed".                               *)
TxsOnce ==
    \A i, j \in 1..Len(state) : i # j => state[i].txs \cap state[j].txs = {}

(* What the archive and the index hold has been committed: no crash leaves *)
(* a block there whose writes are lost.                                    *)
OnlyCommittedShown == archive \cup index \subseteq Committed

(* A head is published when the index can answer for it.                   *)
HeadsIndexed == up => heads \subseteq index

(* Pruning keeps every archived block of the last Retention numbers.       *)
RetentionKept ==
    \A i \in 1..Len(written) :
        (\A j \in 1..Len(written) : written[i].number >= written[j].number - Retention) =>
            written[i] \in archive

(* "all produced blocks must be persisted": once the archive is idle, it   *)
(* holds every committed block, unless it was pruned.                      *)
AllArchived ==
    producer.pc = "idle" /\ archiving = {} /\ channel = <<>> =>
        \A b \in Committed : b \in archive \/ b.number < pruned

(* Blocks that all fit into the archive channel reach the archive, however *)
(* slow its consumer is.                                                   *)
BurstsArchived == Len(state) <= Capacity => AllArchived

-----------------------------------------------------------------------------
(* No transaction is applied twice unless a commit fails ("finalize        *)
(* executed transactions and requeue anything that was not committed"),    *)
(* and no block number is used twice unless the process crashes, over      *)
(* restarts.  In a process that is not interrupted every submitted         *)
(* transaction is waiting, proposed or applied, and unless a commit fails  *)
(* each block names the hash of the one before.                            *)
ProducedOnce ==
    /\ "commit" \in faults \/ TxsOnce
    /\ "crash" \in faults \/ NumbersIncrease
    /\ faults \cap {"interrupt", "crash"} # {} \/ TxsKept
    /\ faults \cap {"commit", "interrupt", "crash"} # {} \/ ParentsLinked

(* The archive and the index hold only blocks that were committed, through *)
(* every failure and crash; a published head is one the index can answer   *)
(* for, and pruning keeps the last retention_blocks numbers.  In a process *)
(* that goes on and whose commits succeed, blocks that all fit into the    *)
(* archive channel reach the archive.                                      *)
ShownIsCommitted ==
    /\ OnlyCommittedShown /\ HeadsIndexed /\ RetentionKept
    /\ faults \cap {"commit", "interrupt", "crash"} # {} \/ BurstsArchived

(* "Single consumer task ensures blocks are written in order."             *)
ArchivedInOrder ==
    \A i \in 1..Len(written) - 1 : written[i].number < written[i + 1].number

(* Every committed block is indexed and announced at last.                 *)
CommittedIsAnnounced ==
    \A h \in 1..MaxBlocks : (\E b \in Committed : b.hash = h) ~> (\E b \in heads : b.hash = h)

-----------------------------------------------------------------------------
(* The proofs that blocks are produced once and that what is shown is      *)
(* committed, for any number of transactions and blocks and any faults.    *)

Block == [number : Nat, parent : Nat, hash : Nat, txs : SUBSET Tx]
Indexing == [pc : {"store", "publish"}, block : Block]

DevTyped ==
    /\ up \in BOOLEAN
    /\ height \in Nat /\ last_hash \in Nat /\ serial \in Nat /\ saved \in Nat /\ pruned \in Nat
    /\ submitted \subseteq Tx
    /\ pool \in [waiting : SUBSET Tx, proposed : SUBSET Tx]
    /\ producer = Idle \/ producer \in [pc : {"batch", "commit", "finalize"}, block : Block]
    /\ state \in Seq(Block) /\ written \in Seq(Block) /\ channel \in Seq(Block)
    /\ durable \in Nat /\ durable <= Len(state)
    /\ archiving \subseteq Block /\ archive \subseteq Block /\ index \subseteq Block /\ heads \subseteq Block
    /\ indexing \subseteq Indexing

Producing == producer.pc # "idle"
Tasks == {k.block : k \in indexing}

(* A block is applied once it leaves "batch", and was started with the     *)
(* height before this one.                                                 *)
Applied ==
    /\ producer.pc \in {"commit", "finalize"} => Len(state) > 0 /\ state[Len(state)] = producer.block
    /\ producer.pc = "commit" => durable < Len(state)
    /\ Producing => producer.block.number = height - 1
    /\ ~up => /\ producer = Idle /\ pool = EmptyPool
              /\ archiving = {} /\ channel = <<>> /\ indexing = {} /\ heads = {}

(* The proposal is the block; what waits is in no block.                   *)
Proposed ==
    /\ pool.proposed = IF Producing THEN producer.block.txs ELSE {}
    /\ pool.waiting \cap pool.proposed = {}
    /\ pool.waiting \cup pool.proposed \subseteq submitted
    /\ \A i \in 1..Len(state) : state[i].txs \subseteq submitted

OnceInv ==
    "commit" \in faults \/
        /\ TxsOnce
        /\ \A i \in 1..Len(state) :
            /\ state[i].txs \cap pool.waiting = {}
            /\ producer.pc = "batch" => state[i].txs \cap producer.block.txs = {}

Ordered ==
    "crash" \in faults \/
        /\ \A i \in 1..Len(state) : /\ state[i].number < height
                                    /\ producer.pc = "batch" => state[i].number < producer.block.number
        /\ \A i, j \in 1..Len(state) : i < j => state[i].number < state[j].number
        /\ ~up => saved = height

Whole == faults \cap {"interrupt", "crash"} # {} \/ (up /\ TxsKept)

Linked ==
    faults \cap {"commit", "interrupt", "crash"} # {} \/
        /\ ParentsLinked
        /\ durable = IF producer.pc = "commit" THEN Len(state) - 1 ELSE Len(state)
        /\ producer.pc # "commit" => last_hash = IF Len(state) = 0 THEN 0 ELSE state[Len(state)].hash
        /\ producer.pc = "batch" => producer.block.parent = last_hash

ShownInv ==
    /\ archive \subseteq Committed /\ index \subseteq Committed
    /\ archiving \subseteq Committed /\ Tasks \subseteq Committed
    /\ \A i \in 1..Len(channel) : channel[i] \in Committed

(* The numbers of what this process announced, or is to.                   *)
Before(b) == b.number < height /\ (producer.pc \in {"batch", "commit"} => b.number < producer.block.number)

HeadsInv ==
    /\ heads \subseteq index
    /\ \A b \in heads : Before(b)
    /\ \A k \in indexing : Before(k.block) /\ (k.pc = "publish" => k.block \in index)
    /\ \A k, l \in indexing : k.block.number = l.block.number => k = l
    /\ \A k \in indexing, b \in heads : k.block.number # b.number

RetainedInv ==
    /\ \A i \in 1..Len(written) : written[i].number >= pruned => written[i] \in archive
    /\ \A b \in archive : \E i \in 1..Len(written) : written[i] = b
    /\ pruned = 0 \/ \E i \in 1..Len(written) : pruned <= written[i].number - Retention

BurstInv ==
    /\ IsFiniteSet(archiving) /\ Len(channel) + Cardinality(archiving) <= durable
    /\ \/ faults \cap {"commit", "interrupt", "crash"} # {} \/ Len(state) > Capacity
       \/ \A i \in 1..durable : \/ state[i] \in archiving \/ state[i] \in archive
                                \/ state[i].number < pruned
                                \/ \E j \in 1..Len(channel) : channel[j] = state[i]

DevInv ==
    /\ DevTyped /\ faults \subseteq AllFaults
    /\ Applied /\ Proposed /\ OnceInv /\ Ordered /\ Whole /\ Linked
    /\ ShownInv /\ HeadsInv /\ RetainedInv /\ BurstInv
(* The initial states of DevNode.                                          *)
LEMMA DevInit == Init => DevInv
<1> SUFFICES ASSUME Init PROVE DevInv
  OBVIOUS
<1>1. DevTyped /\ faults \subseteq AllFaults
  BY DevAssumption DEF Init, DevTyped, Idle, EmptyPool
<1>2. Len(state) = 0 /\ durable = 0 /\ Len(channel) = 0 /\ Len(written) = 0
  BY DEF Init
<1>3. producer.pc = "idle" /\ up /\ pool.waiting = {} /\ pool.proposed = {}
  BY Zenon DEF Init, Idle, EmptyPool
<1>4. Applied /\ Proposed /\ OnceInv /\ Ordered /\ Linked
  BY SMTT(60), <1>2, <1>3 DEF Applied, Proposed, OnceInv, Ordered, Linked, TxsOnce, ParentsLinked, Init, Producing
<1>5. Whole
  <2>1. Range(state) = {}
    BY DEF Init, Range
  <2> QED BY Zenon, <1>3, <2>1 DEF Init, TxsKept, Whole
<1>6. ShownInv /\ HeadsInv /\ RetainedInv
  BY <1>2 DEF Init, ShownInv, HeadsInv, RetainedInv, Tasks
<1>7. BurstInv
  BY <1>2, FS_EmptySet DEF Init, BurstInv
<1> QED BY Zenon, <1>1, <1>3, <1>4, <1>5, <1>6, <1>7 DEF DevInv

(* The block of the producer, and what a step of DevNode writes, are of    *)
(* the right kind.                                                         *)
LEMMA ProducerBlock ==
  ASSUME DevTyped, producer.pc # "idle"
  PROVE /\ producer \in [pc : {"batch", "commit", "finalize"}, block : Block]
        /\ producer.block \in Block
BY DEF DevTyped, Idle

(* The bounds of what Kept computes: sections below n - Retention.         *)
LEMMA MaxOfTwo ==
  ASSUME NEW x \in Int, NEW y \in Int
  PROVE Max({x, y}) = IF x >= y THEN x ELSE y
<1> DEFINE m == IF x >= y THEN x ELSE y
<1>1. m \in {x, y} /\ \A z \in {x, y} : m >= z
  OBVIOUS
<1>2. \A k \in {x, y} : (\A z \in {x, y} : k >= z) => k = m
  OBVIOUS
<1> HIDE DEF m
<1>3. Max({x, y}) = m
  BY Zenon, <1>1, <1>2 DEF Max
<1> QED BY <1>3 DEF m

(* A section begins at or below each of its numbers.                       *)
LEMMA SectionBelow ==
  ASSUME NEW m \in Nat, NEW s \in Nat \ {0}
  PROVE (m \div s) * s \in Nat /\ (m \div s) * s <= m
OBVIOUS

(* Pruning keeps what was kept, or goes no further than the retention.     *)
LEMMA KeptBounds ==
  ASSUME NEW n \in Nat, pruned \in Nat
  PROVE /\ Kept(n) \in Nat /\ Kept(n) >= pruned
        /\ Kept(n) = pruned \/ Kept(n) <= n - Retention
<1>1. CASE n % Section = 0 /\ n > Retention
  <2>1. n - Retention \in Nat
    BY SMTT(60), <1>1, DevAssumption
  <2> DEFINE below == ((n - Retention) \div Section) * Section
  <2>2. below \in Nat /\ below <= n - Retention
    BY <2>1, SectionBelow, DevAssumption
  <2>3. Kept(n) = Max({pruned, below})
    BY Zenon, <1>1 DEF Kept
  <2> HIDE DEF below
  <2> QED BY SMTT(60), <2>2, <2>3, MaxOfTwo
<1>2. CASE ~(n % Section = 0 /\ n > Retention)
  BY SMTT(60), <1>2 DEF Kept
<1> QED BY Zenon, <1>1, <1>2

(* Every step keeps the types.                                             *)
LEMMA DevTypedStep == DevTyped /\ [Next]_<<vars, faults>> => DevTyped'
<1> SUFFICES ASSUME DevTyped, [Next]_<<vars, faults>> PROVE DevTyped'
  BY Zenon
<1> USE DEF DevTyped
<1>1. CASE UNCHANGED <<vars, faults>>
  BY Zenon, <1>1 DEF vars, consensus, storage, archival, indexes
<1>2. ASSUME NEW t \in Tx, Submit(t) PROVE DevTyped'
  <2>1. pool' \in [waiting : SUBSET Tx, proposed : SUBSET Tx]
    BY Zenon, <1>2 DEF Submit
  <2> QED BY Zenon, <1>2, <2>1 DEF Submit, consensus, storage, archival, indexes
<1>3. ASSUME NEW txs \in SUBSET Tx, ProduceBlockWithTxs(txs) PROVE
        DevTyped' \/ ~(pool' \in [waiting : SUBSET Tx, proposed : SUBSET Tx])
  <2>1. producer' \in [pc : {"batch", "commit", "finalize"}, block : Block]
    BY <1>3 DEF ProduceBlockWithTxs, Block
  <2> QED BY SMTT(60), <1>3, <2>1 DEF ProduceBlockWithTxs, storage, archival, indexes
<1>4. CASE ProduceEmpty
  <2> UNCHANGED pool /\ ProduceBlockWithTxs({})
    BY <1>4 DEF ProduceEmpty
  <2> QED BY Zenon, <1>3
<1>5. ASSUME NEW txs \in SUBSET pool.waiting, ProduceFromMempool(txs) PROVE DevTyped'
  <2>1. txs \in SUBSET Tx /\ pool' \in [waiting : SUBSET Tx, proposed : SUBSET Tx]
    BY <1>5 DEF ProduceFromMempool
  <2> QED BY Zenon, <1>3, <1>5, <2>1 DEF ProduceFromMempool
<1>6. CASE ProduceFails
  <2>1. pool' \in [waiting : SUBSET Tx, proposed : SUBSET Tx]
    BY Zenon, <1>6 DEF ProduceFails, Requeue
  <2> QED BY <1>6, <2>1 DEF ProduceFails, consensus, storage, archival, indexes
<1>7. CASE Batch
  <2>1. producer.pc # "idle"
    BY <1>7 DEF Batch
  <2>2. producer.block \in Block /\ producer' \in [pc : {"batch", "commit", "finalize"}, block : Block]
    BY Zenon, <1>7, <2>1, ProducerBlock DEF Batch
  <2>3. state' \in Seq(Block) /\ Len(state') = Len(state) + 1
    BY <1>7, <2>2 DEF Batch
  <2> QED BY SMTT(60), <1>7, <2>2, <2>3 DEF Batch, consensus, archival, indexes
<1>8. CASE Commit
  <2>1. producer.pc # "idle"
    BY Zenon, <1>8 DEF Commit
  <2>2. producer.block \in Block /\ producer' \in [pc : {"batch", "commit", "finalize"}, block : Block]
    BY Zenon, <1>8, <2>1, ProducerBlock DEF Commit
  <2>3. producer.block.hash \in Nat
    BY Zenon, <2>2 DEF Block
  <2>4. indexing' \subseteq Indexing
    BY SMTT(60), <1>8, <2>2 DEF Commit, Indexing
  <2> QED BY SMTT(60), <1>8, <2>2, <2>3, <2>4 DEF Commit
<1>9. CASE Finalize
  <2>1. pool' \in [waiting : SUBSET Tx, proposed : SUBSET Tx]
    BY Zenon, <1>9 DEF Finalize
  <2> QED BY Zenon, <1>9, <2>1 DEF Finalize, consensus, storage, archival, indexes
<1>10. ASSUME NEW b \in archiving, TrySend(b) PROVE DevTyped'
  BY SMTT(60), <1>10 DEF TrySend, consensus, storage, indexes
<1>11. CASE Archive
  <2> DEFINE first == Head(channel)
  <2>0. channel # <<>> /\ channel \in Seq(Block)
    BY <1>11 DEF Archive
  <2>1. first \in Block /\ first.number \in Nat /\ Tail(channel) \in Seq(Block)
    <3>1. first \in Block /\ Tail(channel) \in Seq(Block)
      BY <2>0
    <3> QED BY Zenon, <3>1 DEF Block
  <2>2. pruned' \in Nat
    BY Zenon, <1>11, <2>1, KeptBounds DEF Archive
  <2>3. archive' \subseteq Block /\ written' \in Seq(Block)
    BY <1>11, <2>1 DEF Archive
  <2> QED BY Zenon, <1>11, <2>1, <2>2, <2>3 DEF Archive, consensus, storage, indexes
<1>12. ASSUME NEW k \in indexing, StoreIndex(k) PROVE DevTyped'
  <2>1. k \in Indexing /\ k.block \in Block /\ [k EXCEPT !.pc = "publish"] \in Indexing
    BY ZenonT(60) DEF Indexing
  <2> QED BY Zenon, <1>12, <2>1 DEF StoreIndex, consensus, storage, archival
<1>13. ASSUME NEW k \in indexing, Publish(k) PROVE DevTyped'
  <2>1. k.block \in Block
    BY DEF Indexing
  <2> QED BY <1>13, <2>1 DEF Publish, consensus, storage, archival
<1>14. CASE Interrupt
  <2>1. pool' \in [waiting : SUBSET Tx, proposed : SUBSET Tx] /\ <<>> \in Seq(Block)
    BY <1>14 DEF Interrupt, Stop, EmptyPool
  <2>2. durable' \in Nat /\ durable' <= Len(state') /\ saved' \in Nat /\ UNCHANGED state
    BY <1>14 DEF Interrupt
  <2> QED BY ZenonT(60), <1>14, <2>1, <2>2 DEF Interrupt, Stop, consensus
<1>15. CASE Crash
  <2>1. state' \in Seq(Block) /\ Len(state') = durable
    BY SMTT(60), <1>15 DEF Crash
  <2>2. pool' \in [waiting : SUBSET Tx, proposed : SUBSET Tx] /\ <<>> \in Seq(Block)
    BY SMTT(60), <1>15 DEF Crash, Stop, EmptyPool
  <2>3. Stop /\ UNCHANGED <<durable, saved>>
    BY Zenon, <1>15 DEF Crash
  <2>4. durable' \in Nat /\ durable' <= Len(state')
    BY SMTT(60), <2>1, <2>3
  <2>5. /\ up' \in BOOLEAN /\ producer' = Idle /\ channel' \in Seq(Block)
        /\ archiving' \subseteq Block /\ heads' \subseteq Block /\ indexing' \subseteq Indexing
    BY Zenon, <2>2, <2>3 DEF Stop
  <2>6. UNCHANGED <<height, last_hash, serial, saved, pruned, submitted, written, archive, index>>
    BY <2>3 DEF Stop, consensus
  <2> QED BY <2>1, <2>2, <2>4, <2>5, <2>6
<1>16. CASE Restart
  BY <1>16 DEF Restart, storage, archival, indexes
<1> QED
  BY ZenonT(60), <1>1, <1>2, <1>4, <1>5, <1>6, <1>7, <1>8, <1>9, <1>10, <1>11, <1>12, <1>13, <1>14, <1>15, <1>16
     DEF Next
(* What Batch appends, and what a crash cuts off.                          *)
LEMMA Appended ==
  ASSUME NEW S, NEW s \in Seq(S), NEW x \in S
  PROVE /\ Len(Append(s, x)) = Len(s) + 1 /\ Append(s, x)[Len(s) + 1] = x
        /\ \A i \in 1..Len(s) : Append(s, x)[i] = s[i]
        /\ \A i \in 1..Len(Append(s, x)) : i \in 1..Len(s) \/ i = Len(s) + 1
OBVIOUS

(* A batch appends the block of the producer to the state.                 *)
LEMMA BatchAppends ==
  ASSUME DevTyped, Batch
  PROVE /\ producer.block \in Block /\ producer'.pc = "commit" /\ producer'.block = producer.block
        /\ Len(state') = Len(state) + 1 /\ state'[Len(state) + 1] = producer.block
        /\ \A i \in 1..Len(state) : state'[i] = state[i]
        /\ \A i \in 1..Len(state') : i \in 1..Len(state) \/ i = Len(state) + 1
<1>1. producer.block \in Block /\ producer'.pc = "commit" /\ producer'.block = producer.block
  BY Zenon, ProducerBlock DEF Batch
<1>2. state \in Seq(Block) /\ state' = Append(state, producer.block)
  BY Zenon DEF Batch, DevTyped
<1>3. /\ Len(state') = Len(state) + 1 /\ state'[Len(state) + 1] = producer.block
      /\ \A i \in 1..Len(state) : state'[i] = state[i]
      /\ \A i \in 1..Len(state') : i \in 1..Len(state) \/ i = Len(state) + 1
  BY SMTT(60), <1>1, <1>2, Appended
<1> QED BY <1>1, <1>3

(* A process that stops loses only what was not durable.                   *)
LEMMA StopCuts ==
  ASSUME DevTyped, Interrupt \/ Crash
  PROVE /\ Len(state') \in Nat /\ Len(state') <= Len(state) /\ durable <= Len(state')
        /\ durable' = Len(state')
        /\ \A i \in 1..Len(state') : i \in 1..Len(state) /\ state'[i] = state[i]
BY SMTT(60) DEF Interrupt, Crash, DevTyped

(* The producer and the storage, in a step of DevNode.                     *)
LEMMA AppliedStep == DevTyped /\ Applied /\ [Next]_<<vars, faults>> => Applied'
<1> SUFFICES ASSUME DevTyped, Applied, [Next]_<<vars, faults>> PROVE Applied'
  BY Zenon
<1> USE DEF Applied, Producing
<1>1. ASSUME up, up', UNCHANGED <<producer, state, durable, height>> PROVE Applied'
  BY Zenon, <1>1
<1>2. CASE UNCHANGED <<vars, faults>>
  BY Zenon, <1>2 DEF vars, consensus, storage, archival, indexes
<1>3. CASE \/ \E t \in Tx : Submit(t)
           \/ \E b \in archiving : TrySend(b)
           \/ Archive
           \/ \E k \in indexing : StoreIndex(k) \/ Publish(k)
  BY SMTT(60), <1>1, <1>3 DEF Submit, TrySend, Archive, StoreIndex, Publish, consensus, storage, archival, indexes
<1>4. ASSUME NEW txs, ProduceBlockWithTxs(txs) PROVE Applied'
  BY SMTT(60), <1>4 DEF ProduceBlockWithTxs, DevTyped
<1>5. CASE ProduceFails \/ Finalize
  BY <1>5 DEF ProduceFails, Finalize, Idle
<1>6. CASE Batch
  <2>1. UNCHANGED <<up, durable, height>> /\ up /\ durable <= Len(state) /\ Len(state) \in Nat /\ durable \in Nat
    BY SMTT(60), <1>6 DEF Batch, consensus, DevTyped
  <2> QED BY <1>6, <2>1, BatchAppends DEF Batch
<1>7. CASE Commit
  <2>1. producer'.pc = "finalize" /\ producer'.block = producer.block
    BY Zenon, <1>7, ProducerBlock DEF Commit
  <2> QED BY Zenon, <1>7, <2>1 DEF Commit
<1>8. CASE Interrupt \/ Crash
  BY SMTT(60), <1>8 DEF Interrupt, Crash, Stop, Idle
<1>9. CASE Restart
  BY SMTT(60), <1>9 DEF Restart, Idle
<1> QED BY ZenonT(60), <1>2, <1>3, <1>4, <1>5, <1>6, <1>7, <1>8, <1>9 DEF Next, ProduceEmpty, ProduceFromMempool

(* The transactions of a step of DevNode.                                  *)
LEMMA ProposedStep ==
  DevTyped /\ Applied /\ Proposed /\ [Next]_<<vars, faults>> => Proposed'
<1> SUFFICES ASSUME DevTyped, Applied, Proposed, [Next]_<<vars, faults>> PROVE Proposed'
  BY Zenon
<1> USE DEF Proposed, Producing
<1>1. CASE UNCHANGED <<vars, faults>>
  BY Zenon, <1>1 DEF vars, consensus, storage, archival, indexes
<1>2. ASSUME NEW t \in Tx, Submit(t) PROVE Proposed'
  <2>1. pool'.waiting = pool.waiting \cup {t} /\ pool'.proposed = pool.proposed
    BY Zenon, <1>2 DEF Submit, DevTyped
  <2> QED BY Zenon, <1>2, <2>1 DEF Submit, storage
<1>3. ASSUME UNCHANGED <<producer, state, pool, submitted>> PROVE Proposed'
  BY Zenon, <1>3
<1>4. CASE \/ \E b \in archiving : TrySend(b)
           \/ Archive
           \/ \E k \in indexing : StoreIndex(k) \/ Publish(k)
           \/ Restart
  BY Zenon, <1>3, <1>4 DEF TrySend, Archive, StoreIndex, Publish, Restart, consensus, storage, archival, indexes
<1>5. CASE ProduceEmpty
  <2>1. producer'.pc = "batch" /\ producer'.block.txs = {} /\ UNCHANGED <<state, submitted, pool>>
    BY Zenon, <1>5 DEF ProduceEmpty, ProduceBlockWithTxs, storage
  <2> QED BY ZenonT(60), <1>5, <2>1 DEF ProduceEmpty, ProduceBlockWithTxs
<1>6. ASSUME NEW txs \in SUBSET pool.waiting, ProduceFromMempool(txs) PROVE Proposed'
  <2>1. producer'.pc = "batch" /\ producer'.block.txs = txs /\ UNCHANGED <<state, submitted>>
    BY Zenon, <1>6 DEF ProduceFromMempool, ProduceBlockWithTxs, storage
  <2>2. pool'.waiting = pool.waiting \ txs /\ pool'.proposed = txs
    BY Zenon, <1>6 DEF ProduceFromMempool
  <2> QED BY Zenon, <2>1, <2>2
<1>7. CASE ProduceFails
  <2>1. pool'.waiting = pool.waiting \cup pool.proposed /\ pool'.proposed = {}
    BY Zenon, <1>7 DEF ProduceFails, Requeue
  <2> QED BY Zenon, <1>7, <2>1 DEF ProduceFails, storage, Idle
<1>8. CASE Batch
  <2>1. producer.block.txs \subseteq submitted /\ UNCHANGED <<pool, submitted>>
    BY Zenon, <1>8 DEF Batch
  <2> QED BY Zenon, <1>8, <2>1, BatchAppends DEF Batch
<1>9. CASE Commit
  <2>1. producer'.pc = "finalize" /\ producer'.block = producer.block
    BY Zenon, <1>9, ProducerBlock DEF Commit
  <2> QED BY Zenon, <1>9, <2>1 DEF Commit
<1>10. CASE Finalize
  <2>1. pool'.waiting = pool.waiting /\ pool'.proposed = {}
    BY Zenon, <1>10 DEF Finalize, DevTyped
  <2> QED BY Zenon, <1>10, <2>1 DEF Finalize, storage, Idle
<1>11. CASE Interrupt \/ Crash
  <2>1. pool'.waiting = {} /\ pool'.proposed = {} /\ producer'.pc = "idle" /\ UNCHANGED submitted
    BY SMTT(60), <1>11 DEF Interrupt, Crash, Stop, Idle, EmptyPool
  <2> QED BY Zenon, <1>11, <2>1, StopCuts
<1> QED BY ZenonT(60), <1>1, <1>2, <1>4, <1>5, <1>6, <1>7, <1>8, <1>9, <1>10, <1>11 DEF Next
(* The archive and the index leave the producer alone.                     *)
Sidecar ==
    \/ \E b \in archiving : TrySend(b)
    \/ Archive
    \/ \E k \in indexing : StoreIndex(k) \/ Publish(k)

(* Archiving, indexing and publishing change nothing that a producer reads. *)
LEMMA SidecarFrame ==
  Sidecar => up /\ UNCHANGED <<up, height, last_hash, serial, pool, producer, state, durable, saved, submitted>>
BY Zenon DEF Sidecar, TrySend, Archive, StoreIndex, Publish, consensus, storage, archival, indexes

(* The steps, as the producer tells them apart.                            *)
LEMMA ProducerSteps ==
  ASSUME [Next]_<<vars, faults>>
  PROVE /\ \/ UNCHANGED vars \/ \E t \in Tx : Submit(t)
           \/ ProduceEmpty \/ \E txs \in SUBSET pool.waiting : ProduceFromMempool(txs)
           \/ ProduceFails \/ Batch \/ Commit \/ Finalize \/ Sidecar
           \/ Interrupt \/ Crash \/ Restart
        /\ UNCHANGED faults
BY ZenonT(60) DEF Next, Sidecar

(* No transaction is in two blocks.                                        *)
LEMMA OnceStep ==
  DevTyped /\ Applied /\ Proposed /\ OnceInv /\ [Next]_<<vars, faults>> => OnceInv'
<1> SUFFICES ASSUME DevTyped, Applied, Proposed, OnceInv, [Next]_<<vars, faults>>, "commit" \notin faults
             PROVE OnceInv'
  BY Zenon, ProducerSteps DEF OnceInv
<1> USE DEF OnceInv, TxsOnce
<1>1. CASE UNCHANGED vars
  BY Zenon, <1>1, ProducerSteps DEF vars, consensus, storage, archival, indexes
<1>2. CASE \E t \in Tx : Submit(t)
  <2> PICK t \in Tx : Submit(t)
    BY <1>2
  <2>1. /\ pool'.waiting = pool.waiting \cup {t} /\ t \notin submitted
        /\ UNCHANGED <<state, producer>>
    BY DEF Submit, DevTyped, storage
  <2> QED BY SMTT(60), <2>1, ProducerSteps DEF Proposed
<1>3. CASE Sidecar
  BY <1>3, SidecarFrame, ProducerSteps
<1>4. CASE ProduceEmpty
  <2>1. producer'.pc = "batch" /\ producer'.block.txs = {} /\ UNCHANGED <<state, pool>>
    BY Zenon, <1>4 DEF ProduceEmpty, ProduceBlockWithTxs, storage
  <2> QED BY <2>1, ProducerSteps
<1>5. CASE \E txs \in SUBSET pool.waiting : ProduceFromMempool(txs)
  <2> PICK txs \in SUBSET pool.waiting : ProduceFromMempool(txs)
    BY Zenon, <1>5
  <2>1. producer'.pc = "batch" /\ producer'.block.txs = txs /\ UNCHANGED state
    BY Zenon DEF ProduceFromMempool, ProduceBlockWithTxs, storage
  <2>2. pool'.waiting = pool.waiting \ txs
    BY Zenon DEF ProduceFromMempool
  <2> QED BY Zenon, <2>1, <2>2, ProducerSteps
<1>6. CASE ProduceFails
  <2>1. pool'.waiting = pool.waiting \cup pool.proposed /\ producer'.pc = "idle" /\ UNCHANGED state
    BY Zenon, <1>6 DEF ProduceFails, Requeue, storage, Idle
  <2>2. producer.pc = "batch" /\ pool.proposed = producer.block.txs
    BY Zenon, <1>6 DEF ProduceFails, Proposed, Producing
  <2> QED BY Zenon, <2>1, <2>2, ProducerSteps
<1>7. CASE Batch
  <2>1. /\ producer.pc = "batch" /\ producer.block.txs \cap pool.waiting = {}
        /\ UNCHANGED pool
    BY Zenon, <1>7 DEF Batch, Proposed, Producing
  <2> QED BY ZenonT(60), <1>7, <2>1, BatchAppends, ProducerSteps
<1>8. CASE Commit \/ Finalize
  <2>1. producer'.pc \in {"finalize", "idle"} /\ UNCHANGED state /\ pool'.waiting = pool.waiting
    BY SMTT(60), <1>8, ProducerBlock DEF Commit, Finalize, storage, Idle, DevTyped
  <2> QED BY ZenonT(60), <2>1, ProducerSteps
<1>9. CASE Interrupt \/ Crash
  <2>1. pool'.waiting = {} /\ producer'.pc = "idle"
    BY SMTT(60), <1>9 DEF Interrupt, Crash, Stop, Idle, EmptyPool
  <2> QED BY ZenonT(60), <1>9, <2>1, StopCuts, ProducerSteps
<1>10. CASE Restart
  BY Zenon, <1>10, ProducerSteps DEF Restart, storage
<1> QED BY ZenonT(60), <1>1, <1>2, <1>3, <1>4, <1>5, <1>6, <1>7, <1>8, <1>9, <1>10, ProducerSteps

(* Block numbers.                                                          *)
LEMMA OrderedStep ==
  DevTyped /\ Applied /\ Ordered /\ [Next]_<<vars, faults>> => Ordered'
<1> SUFFICES ASSUME DevTyped, Applied, Ordered, [Next]_<<vars, faults>>, "crash" \notin faults
             PROVE Ordered'
  BY ZenonT(60), ProducerSteps DEF Ordered
<1> USE DEF Ordered
<1>1. CASE UNCHANGED vars \/ \E t \in Tx : Submit(t)
  BY Zenon, <1>1, ProducerSteps DEF vars, Submit, consensus, storage, archival, indexes
<1>2. CASE Sidecar
  BY Zenon, <1>2, SidecarFrame, ProducerSteps
<1>3. ASSUME NEW txs, ProduceBlockWithTxs(txs) PROVE Ordered'
  <2>1. /\ producer'.block.number = height /\ height' = height + 1 /\ height \in Nat
        /\ UNCHANGED <<up, state, saved>> /\ up
    BY Zenon, <1>3 DEF ProduceBlockWithTxs, storage, DevTyped
  <2>2. \A i \in 1..Len(state) : state[i].number < height + 1
    <3> TAKE i \in 1..Len(state)
    <3>1. state[i] \in Block
      BY SMTT(60) DEF DevTyped
    <3>2. state[i].number \in Nat
      BY Zenon, <3>1 DEF Block
    <3> QED BY SMTT(60), <2>1, <3>2
  <2> QED BY Zenon, <2>1, <2>2, ProducerSteps
<1>4. CASE ProduceFails \/ Commit \/ Finalize
  <2>1. producer'.pc # "batch" /\ UNCHANGED <<up, height, state>> /\ up
    BY SMTT(60), <1>4, ProducerBlock DEF ProduceFails, Commit, Finalize, storage, consensus, Idle
  <2> QED BY Zenon, <2>1, ProducerSteps
<1>5. CASE Batch
  <2>1. /\ producer.pc = "batch" /\ UNCHANGED <<up, height>> /\ up
        /\ producer.block.number = height - 1 /\ height \in Nat
    BY <1>5 DEF Batch, Applied, Producing, consensus, DevTyped
  <2>2. Len(state) \in Nat
    BY DEF DevTyped
  <2> QED BY SMTT(60), <1>5, <2>1, <2>2, BatchAppends, ProducerSteps
<1>6. CASE Interrupt
  <2>1. saved' = height /\ height' = height /\ UNCHANGED state /\ producer'.pc = "idle"
    BY Zenon, <1>6 DEF Interrupt, Stop, consensus, Idle
  <2> QED BY Zenon, <2>1, ProducerSteps
<1>7. CASE Restart
  <2>1. height' = height /\ up' /\ UNCHANGED <<state, producer>> /\ producer.pc = "idle"
    BY SMTT(60), <1>7 DEF Restart, storage, Applied, Idle
  <2> QED BY Zenon, <2>1, ProducerSteps
<1>8. ~Crash
  BY Zenon DEF Crash
<1> QED BY ZenonT(60), <1>1, <1>2, <1>3, <1>4, <1>5, <1>6, <1>7, <1>8, ProducerSteps DEF ProduceEmpty, ProduceFromMempool
(* Parents.                                                                *)
LEMMA LinkedStep ==
  DevTyped /\ Applied /\ Whole /\ Linked /\ [Next]_<<vars, faults>> => Linked'
<1> SUFFICES ASSUME DevTyped, Applied, Whole, Linked, [Next]_<<vars, faults>>,
                    faults \cap {"commit", "interrupt", "crash"} = {}
             PROVE Linked'
  BY Zenon, ProducerSteps DEF Linked
<1>0. "commit" \notin faults /\ "interrupt" \notin faults /\ "crash" \notin faults /\ UNCHANGED faults
  BY Zenon, ProducerSteps
<1> USE DEF Linked, ParentsLinked
<1>1. CASE UNCHANGED vars \/ \E t \in Tx : Submit(t)
  BY Zenon, <1>1, ProducerSteps DEF vars, Submit, consensus, storage, archival, indexes
<1>2. CASE Sidecar
  BY Zenon, <1>2, SidecarFrame, ProducerSteps
<1>3. ASSUME NEW txs, ProduceBlockWithTxs(txs) PROVE Linked'
  <2>1. /\ producer'.pc = "batch" /\ producer'.block.parent = last_hash
        /\ UNCHANGED <<state, durable, last_hash>> /\ producer.pc = "idle"
    BY Zenon, <1>3 DEF ProduceBlockWithTxs, storage
  <2> QED BY Zenon, <2>1, ProducerSteps
<1>4. CASE ProduceFails \/ Finalize
  <2>1. producer'.pc = "idle" /\ producer.pc # "commit" /\ UNCHANGED <<state, durable, last_hash>>
    BY SMTT(60), <1>0, <1>4 DEF ProduceFails, Finalize, storage, consensus, Idle
  <2> QED BY Zenon, <2>1, ProducerSteps
<1>5. CASE Commit
  <2>1. /\ producer'.pc = "finalize" /\ last_hash' = producer.block.hash /\ UNCHANGED state
        /\ durable' = Len(state)
        /\ Len(state) > 0 /\ state[Len(state)] = producer.block
    BY Zenon, <1>5, ProducerBlock DEF Commit, Applied
  <2> QED BY SMTT(60), <2>1, ProducerSteps
<1>6. CASE Batch
  <2>1. producer.pc = "batch" /\ producer.block.parent = last_hash /\ durable' = Len(state)
    BY Zenon, <1>0, <1>6 DEF Batch
  <2>2. Len(state) \in Nat
    BY SMTT(60) DEF DevTyped
  <2>3. \A i \in 1..Len(state') - 1 : state'[i + 1].parent = state'[i].hash
    <3> TAKE i \in 1..Len(state') - 1
    <3>1. CASE i < Len(state)
      BY SMTT(60), <1>0, <1>6, <2>2, <3>1, BatchAppends
    <3>2. CASE i = Len(state)
      BY <1>0, <1>6, <2>1, <2>2, <3>2, BatchAppends
    <3> QED BY SMTT(60), <1>6, <2>2, <3>1, <3>2, BatchAppends
  <2> QED BY SMTT(60), <1>6, <2>1, <2>2, <2>3, BatchAppends, ProducerSteps
<1>7. up
  BY <1>0 DEF Whole
<1> QED BY ZenonT(60), <1>0, <1>1, <1>2, <1>3, <1>4, <1>5, <1>6, <1>7, ProducerSteps
        DEF ProduceEmpty, ProduceFromMempool, Interrupt, Crash, Restart

(* What was submitted.                                                     *)

(* No step loses a submitted transaction of a process that is not stopped. *)
LEMMA WholeStep ==
  DevTyped /\ Applied /\ Proposed /\ Whole /\ [Next]_<<vars, faults>> => Whole'
<1> SUFFICES ASSUME DevTyped, Applied, Proposed, Whole, [Next]_<<vars, faults>>,
                    faults \cap {"interrupt", "crash"} = {}
             PROVE Whole'
  BY Zenon, ProducerSteps DEF Whole
<1>0. up /\ TxsKept /\ "interrupt" \notin faults /\ "crash" \notin faults /\ UNCHANGED faults
  BY Zenon, ProducerSteps DEF Whole
<1> USE DEF Whole, TxsKept
<1>1. CASE UNCHANGED vars
  BY Zenon, <1>0, <1>1, ProducerSteps DEF vars, consensus, storage, archival, indexes
<1>2. CASE \E t \in Tx : Submit(t)
  <2> PICK t \in Tx : Submit(t)
    BY Zenon, <1>2
  <2>1. /\ pool'.waiting = pool.waiting \cup {t} /\ pool'.proposed = pool.proposed
        /\ submitted' = submitted \cup {t} /\ UNCHANGED <<up, state>>
    BY Zenon DEF Submit, DevTyped, storage
  <2> QED BY ZenonT(60), <1>0, <2>1
<1>3. CASE Sidecar
  BY ZenonT(60), <1>0, <1>3, SidecarFrame
<1>4. CASE ProduceEmpty
  BY Zenon, <1>0, <1>4 DEF ProduceEmpty, ProduceBlockWithTxs, storage
<1>5. CASE \E txs \in SUBSET pool.waiting : ProduceFromMempool(txs)
  <2> PICK txs \in SUBSET pool.waiting : ProduceFromMempool(txs)
    BY Zenon, <1>5
  <2>1. /\ pool'.waiting = pool.waiting \ txs /\ pool'.proposed = txs
        /\ UNCHANGED <<up, state, submitted>> /\ producer.pc = "idle"
    BY Zenon DEF ProduceFromMempool, ProduceBlockWithTxs, storage
  <2>2. pool.proposed = {}
    BY Zenon, <2>1 DEF Proposed, Producing
  <2> QED BY Zenon, <1>0, <2>1, <2>2
<1>6. CASE ProduceFails
  <2>1. /\ pool'.waiting = pool.waiting \cup pool.proposed /\ pool'.proposed = {}
        /\ UNCHANGED <<up, state, submitted>>
    BY Zenon, <1>6 DEF ProduceFails, Requeue, storage
  <2> QED BY Zenon, <1>0, <2>1
<1>7. CASE Batch
  <2>1. /\ producer.block.txs = pool.proposed
        /\ UNCHANGED <<up, pool, submitted>>
    BY Zenon, <1>7 DEF Batch, Proposed, Producing
  <2>2. Range(state') = Range(state) \cup {producer.block}
    <3>1. DOMAIN state = 1..Len(state) /\ DOMAIN state' = 1..Len(state') /\ Len(state) \in Nat
      BY SMTT(60), <1>7, DevTypedStep DEF DevTyped
    <3> QED BY SMTT(60), <1>7, <3>1, BatchAppends DEF Range
  <2> QED BY SMTT(60), <1>0, <2>1, <2>2
<1>8. CASE Commit
  BY Zenon, <1>0, <1>8 DEF Commit
<1>9. CASE Finalize
  <2>1. /\ pool'.waiting = pool.waiting /\ pool'.proposed = {} /\ UNCHANGED <<up, state, submitted>>
        /\ pool.proposed = producer.block.txs
    BY Zenon, <1>9 DEF Finalize, Proposed, Producing, storage, DevTyped
  <2>2. producer.block \in Range(state)
    BY SMTT(60), <1>9 DEF Finalize, Applied, Range, DevTyped
  <2> QED BY Zenon, <1>0, <2>1, <2>2
<1> QED BY ZenonT(60), <1>0, <1>1, <1>2, <1>3, <1>4, <1>5, <1>6, <1>7, <1>8, <1>9, ProducerSteps
        DEF Interrupt, Crash, Restart
(* What is shown has been committed.                                       *)
LEMMA ShownStep ==
  DevTyped /\ Applied /\ ShownInv /\ [Next]_<<vars, faults>> => ShownInv'
<1> SUFFICES ASSUME DevTyped, Applied, ShownInv, [Next]_<<vars, faults>> PROVE ShownInv'
  OBVIOUS
<1> USE DEF ShownInv, Tasks
<1>1. ASSUME Committed \subseteq Committed', UNCHANGED <<archive, index, archiving, indexing, channel>>
      PROVE ShownInv'
  BY Zenon, <1>1
<1>2. ASSUME UNCHANGED <<state, durable, archive, index, archiving, indexing, channel>> PROVE ShownInv'
  BY ZenonT(60), <1>2 DEF Committed
<1>3. CASE UNCHANGED vars \/ (\E t \in Tx : Submit(t)) \/ ProduceFails \/ Finalize \/ Restart
  BY <1>2, <1>3 DEF vars, Submit, ProduceFails, Finalize, Restart, consensus, storage, archival, indexes
<1>4. ASSUME NEW txs, ProduceBlockWithTxs(txs) PROVE ShownInv'
  BY <1>2, <1>4 DEF ProduceBlockWithTxs, storage, archival, indexes
<1>5. CASE Batch
  <2>1. Committed \subseteq Committed'
    <3>1. durable' = durable /\ \A i \in 1..durable : i \in 1..Len(state)
      BY SMTT(60), <1>5 DEF Batch, DevTyped
    <3> QED BY <1>5, <3>1, BatchAppends DEF Committed
  <2> QED BY <1>1, <1>5, <2>1 DEF Batch, archival, indexes
<1>6. CASE Commit
  <2>1. /\ durable' = Len(state) /\ UNCHANGED <<state, archive, index, channel>>
        /\ archiving' = archiving \cup {producer.block}
        /\ indexing' = indexing \cup {[pc |-> "store", block |-> producer.block]}
    BY <1>6 DEF Commit
  <2>2. Committed \subseteq Committed'
    <3>1. \A i \in 1..durable : i \in 1..Len(state)
      BY DEF DevTyped
    <3> QED BY SMTT(60), <2>1, <3>1 DEF Committed
  <2>3. producer.block \in Committed'
    <3>1. Len(state) \in 1..Len(state) /\ state[Len(state)] = producer.block
      BY <1>6 DEF Commit, Applied, DevTyped
    <3> QED BY Zenon, <2>1, <3>1 DEF Committed
  <2> QED BY SMTT(60), <2>1, <2>2, <2>3
<1>7. ASSUME NEW b \in archiving, TrySend(b) PROVE ShownInv'
  <2>1. UNCHANGED Committed
    BY <1>7 DEF TrySend, storage, Committed
  <2>2. channel \in Seq(Block) /\ b \in Block
    BY DEF DevTyped
  <2>3. \A i \in 1..Len(channel') : channel'[i] \in Committed
    BY SMTT(60), <1>7, <2>2, Appended DEF TrySend
  <2> QED BY Zenon, <1>7, <2>1, <2>3 DEF TrySend, indexes
<1>8. CASE Archive
  <2>1. UNCHANGED Committed
    BY Zenon, <1>8 DEF Archive, storage, Committed
  <2>2. channel \in Seq(Block) /\ channel # <<>> /\ channel' = Tail(channel)
    BY Zenon, <1>8 DEF Archive, DevTyped
  <2>3. Head(channel) \in Committed /\ \A i \in 1..Len(channel') : channel'[i] \in Committed
    BY <2>2
  <2> QED BY Zenon, <1>8, <2>1, <2>3 DEF Archive, indexes
<1>9. ASSUME NEW k \in indexing, StoreIndex(k) PROVE ShownInv'
  <2>1. UNCHANGED Committed /\ k \in Indexing
    BY <1>9 DEF StoreIndex, storage, Committed, DevTyped
  <2>2. [k EXCEPT !.pc = "publish"].block = k.block
    BY <2>1 DEF Indexing
  <2> QED BY Zenon, <1>9, <2>1, <2>2 DEF StoreIndex, archival
<1>10. ASSUME NEW k \in indexing, Publish(k) PROVE ShownInv'
  <2>1. UNCHANGED Committed
    BY <1>10 DEF Publish, storage, Committed
  <2> QED BY <1>10, <2>1 DEF Publish, archival
<1>11. CASE Interrupt \/ Crash
  <2>1. Committed \subseteq Committed'
    BY SMTT(60), <1>11, StopCuts DEF Committed, DevTyped
  <2>2. UNCHANGED <<archive, index>> /\ archiving' = {} /\ indexing' = {} /\ channel' = <<>>
    BY Zenon, <1>11 DEF Interrupt, Crash, Stop
  <2> QED BY <2>1, <2>2
<1> QED BY SMTT(60), <1>3, <1>4, <1>5, <1>6, <1>7, <1>8, <1>9, <1>10, <1>11, ProducerSteps
        DEF ProduceEmpty, ProduceFromMempool, Sidecar

(* Heads.                                                                  *)
LEMMA HeadsStep ==
  DevTyped /\ Applied /\ HeadsInv /\ [Next]_<<vars, faults>> => HeadsInv'
<1> SUFFICES ASSUME DevTyped, Applied, HeadsInv, [Next]_<<vars, faults>> PROVE HeadsInv'
  BY Zenon
<1> USE DEF HeadsInv, Before
<1>0. /\ height \in Nat
      /\ \A b \in heads : b \in Block /\ b.number \in Nat
      /\ \A k \in indexing : k \in Indexing /\ k.block \in Block /\ k.block.number \in Nat
  BY Zenon DEF DevTyped, Indexing, Block
<1>1. ASSUME UNCHANGED <<height, producer, heads, index, indexing>> PROVE HeadsInv'
  BY Zenon, <1>1
<1>2. CASE UNCHANGED vars \/ (\E t \in Tx : Submit(t)) \/ Archive \/ \E b \in archiving : TrySend(b)
  BY Zenon, <1>1, <1>2 DEF vars, Submit, Archive, TrySend, consensus, storage, archival, indexes
<1>3. ASSUME NEW txs, ProduceBlockWithTxs(txs) PROVE HeadsInv'
  <2>1. /\ producer'.block.number = height /\ height' = height + 1 /\ UNCHANGED <<heads, index, indexing>>
    BY Zenon, <1>3 DEF ProduceBlockWithTxs, indexes
  <2>2. \A b \in heads : b.number < height + 1
    BY SMTT(60), <1>0
  <2>3. \A k \in indexing : k.block.number < height + 1
    BY SMTT(60), <1>0
  <2> QED BY Zenon, <2>1, <2>2, <2>3
<1>4. CASE ProduceFails \/ Finalize
  <2>1. producer'.pc = "idle" /\ UNCHANGED <<height, heads, index, indexing>>
    BY SMTT(60), <1>4 DEF ProduceFails, Finalize, Idle, consensus, indexes
  <2> QED BY Zenon, <2>1
<1>5. CASE Batch
  <2>1. producer.pc = "batch" /\ UNCHANGED <<height, heads, index, indexing>>
    BY Zenon, <1>5 DEF Batch, consensus, indexes
  <2> QED BY SMTT(60), <1>5, <2>1, BatchAppends
<1>6. CASE Commit
  <2> DEFINE new == [pc |-> "store", block |-> producer.block]
  <2>1. /\ producer'.pc = "finalize" /\ UNCHANGED <<height, heads, index>>
        /\ indexing' = indexing \cup {new} /\ producer.pc = "commit"
    BY Zenon, <1>6, ProducerBlock DEF Commit
  <2>2. producer.block \in Block /\ producer.block.number = height - 1
    BY Zenon, <1>6, ProducerBlock DEF Commit, Applied, Producing
  <2>3. /\ \A b \in heads : b.number < producer.block.number
        /\ \A k \in indexing : k.block.number < producer.block.number
        /\ producer.block.number \in Nat
    BY Zenon, <2>1, <2>2 DEF Block
  <2>4. new.pc = "store" /\ new.block = producer.block
    BY Zenon
  <2> HIDE DEF new
  <2> QED BY SMTT(60), <1>0, <2>1, <2>2, <2>3, <2>4
<1>7. ASSUME NEW k \in indexing, StoreIndex(k) PROVE HeadsInv'
  <2> DEFINE done == [k EXCEPT !.pc = "publish"]
  <2>1. done.pc = "publish" /\ done.block = k.block
    BY SMTT(60), <1>0 DEF Indexing
  <2>2. /\ index' = {b \in index : b.number # k.block.number} \cup {k.block}
        /\ indexing' = (indexing \ {k}) \cup {done} /\ UNCHANGED <<height, producer, heads>>
    BY Zenon, <1>7 DEF StoreIndex, consensus
  <2> HIDE DEF done
  <2>3. heads' \subseteq index'
    BY Zenon, <2>2
  <2>4. \A l \in indexing' : Before(l.block)' /\ (l.pc = "publish" => l.block \in index')
    BY Zenon, <2>1, <2>2
  <2>5. \A l, m \in indexing' : l.block.number = m.block.number => l = m
    BY SMTT(60), <2>1, <2>2
  <2> QED BY SMTT(60), <2>1, <2>2, <2>3, <2>4, <2>5
<1>8. ASSUME NEW k \in indexing, Publish(k) PROVE HeadsInv'
  <2>1. /\ k.pc = "publish" /\ heads' = heads \cup {k.block} /\ indexing' = indexing \ {k}
        /\ UNCHANGED <<height, producer, index>>
    BY Zenon, <1>8 DEF Publish, consensus
  <2> QED BY SMTT(60), <2>1
<1>9. CASE Interrupt \/ Crash
  BY Zenon, <1>9 DEF Interrupt, Crash, Stop
<1>10. CASE Restart
  <2>1. heads' = {} /\ indexing' = {}
    BY Zenon, <1>10 DEF Restart, Applied, indexes
  <2> QED BY Zenon, <2>1
<1> QED BY Zenon, <1>2, <1>3, <1>4, <1>5, <1>6, <1>7, <1>8, <1>9, <1>10, ProducerSteps
        DEF ProduceEmpty, ProduceFromMempool, Sidecar

(* What remains of a sequence without its head.                            *)
LEMMA TailIs ==
  ASSUME NEW S, NEW s \in Seq(S), s # <<>>
  PROVE /\ Len(Tail(s)) = Len(s) - 1
        /\ \A i \in 1..Len(s) : i = 1 \/ (i - 1 \in 1..Len(Tail(s)) /\ Tail(s)[i - 1] = s[i])
<1>1. Len(Tail(s)) = Len(s) - 1 /\ \A i \in 1..Len(s) - 1 : Tail(s)[i] = s[i + 1]
  OBVIOUS
<1>2. ASSUME NEW i \in 1..Len(s), i # 1 PROVE i - 1 \in 1..Len(Tail(s)) /\ Tail(s)[i - 1] = s[i]
  <2>1. i - 1 \in 1..Len(s) - 1 /\ (i - 1) + 1 = i
    BY SMTT(60), <1>2
  <2> QED BY Zenon, <1>1, <2>1
<1> QED BY Zenon, <1>1, <1>2

(* What a step of the archive consumer does to the blocks it wrote.        *)
LEMMA ArchiveFacts ==
  ASSUME DevTyped, Archive, NEW first, first = Head(channel)
  PROVE /\ channel \in Seq(Block) /\ Len(channel) > 0 /\ first = channel[1] /\ first \in Block
        /\ first.number \in Nat
        /\ channel' = Tail(channel) /\ Len(channel') = Len(channel) - 1
        /\ \A i \in 1..Len(channel) : i = 1 \/ (i - 1 \in 1..Len(channel') /\ channel'[i - 1] = channel[i])
        /\ pruned' = Kept(first.number) /\ pruned' \in Nat /\ pruned' >= pruned
        /\ pruned' = pruned \/ pruned' <= first.number - Retention
        /\ archive' = {c \in archive \cup (IF Puts(first) THEN {first} ELSE {}) : c.number >= pruned'}
        /\ written' = IF Puts(first) THEN Append(written, first) ELSE written
<1>1. channel \in Seq(Block) /\ channel # <<>>
  BY Zenon DEF Archive, DevTyped
<1>2. Len(channel) > 0 /\ first = channel[1] /\ first \in Block
  BY SMTT(60), <1>1
<1>3. first.number \in Nat
  BY Zenon, <1>2 DEF Block
<1>4. channel' = Tail(channel)
  BY Zenon DEF Archive
<1>5. /\ Len(channel') = Len(channel) - 1
      /\ \A i \in 1..Len(channel) : i = 1 \/ (i - 1 \in 1..Len(channel') /\ channel'[i - 1] = channel[i])
  BY Zenon, <1>1, <1>4, TailIs
<1>6. /\ pruned' = Kept(first.number)
      /\ archive' = {c \in archive \cup (IF Puts(first) THEN {first} ELSE {}) : c.number >= pruned'}
      /\ written' = IF Puts(first) THEN Append(written, first) ELSE written
  BY Zenon DEF Archive
<1>7. pruned' \in Nat /\ pruned' >= pruned /\ (pruned' = pruned \/ pruned' <= first.number - Retention)
  BY Zenon, <1>3, <1>6, KeptBounds DEF DevTyped
<1> QED BY ZenonT(60), <1>1, <1>2, <1>3, <1>4, <1>5, <1>6, <1>7

(* The archive consumer is the only one to write and to prune.             *)
LEMMA RetainedStep == DevTyped /\ RetainedInv /\ [Next]_<<vars, faults>> => RetainedInv'
<1> SUFFICES ASSUME DevTyped, RetainedInv, [Next]_<<vars, faults>> PROVE RetainedInv'
  OBVIOUS
<1>1. CASE Archive
  <2> DEFINE first == Head(channel)
  <2>0. \A i \in 1..Len(written) : written[i] \in Block /\ written[i].number \in Nat
    <3> TAKE i \in 1..Len(written)
    <3>1. written[i] \in Block
      BY SMTT(60) DEF DevTyped
    <3> QED BY Zenon, <3>1 DEF Block
  <2>1. /\ first \in Block /\ first.number \in Nat
        /\ pruned' \in Nat /\ pruned' >= pruned
        /\ pruned' = pruned \/ pruned' <= first.number - Retention
        /\ archive' = {c \in archive \cup (IF Puts(first) THEN {first} ELSE {}) : c.number >= pruned'}
        /\ written' = IF Puts(first) THEN Append(written, first) ELSE written
    BY Zenon, <1>1, ArchiveFacts
  <2>2. Retention \in Nat /\ pruned \in Nat /\ written \in Seq(Block) /\ Len(written) \in Nat
    BY SMTT(60), DevAssumption DEF DevTyped
  <2> HIDE DEF first
  <2>3. CASE Puts(first)
    <3>1. /\ Len(written') = Len(written) + 1 /\ written'[Len(written) + 1] = first
          /\ \A i \in 1..Len(written) : written'[i] = written[i] /\ i \in 1..Len(written')
          /\ \A i \in 1..Len(written') : i \in 1..Len(written) \/ i = Len(written) + 1
          /\ Len(written) + 1 \in 1..Len(written')
      BY SMTT(60), <2>1, <2>2, <2>3, Appended
    <3>2. archive' = {c \in archive \cup {first} : c.number >= pruned'}
      BY Zenon, <2>1, <2>3
    <3>3. ASSUME NEW i \in 1..Len(written'), written'[i].number >= pruned' PROVE written'[i] \in archive'
      <4>1. CASE i = Len(written) + 1
        BY Zenon, <3>1, <3>2, <3>3, <4>1
      <4>2. CASE i \in 1..Len(written)
        <5>1. written[i].number >= pruned
          BY SMTT(60), <2>0, <2>1, <2>2, <3>1, <3>3, <4>2
        <5> QED BY ZenonT(60), <3>1, <3>2, <3>3, <4>2, <5>1 DEF RetainedInv
      <4> QED BY ZenonT(60), <3>1, <4>1, <4>2
    <3>4. \A c \in archive' : \E i \in 1..Len(written') : written'[i] = c
      BY Zenon, <3>1, <3>2 DEF RetainedInv
    <3>5. pruned' = 0 \/ \E i \in 1..Len(written') : pruned' <= written'[i].number - Retention
      <4>1. CASE pruned' = pruned
        BY Zenon, <3>1, <4>1 DEF RetainedInv
      <4>2. CASE pruned' <= first.number - Retention
        BY Zenon, <3>1, <4>2
      <4> QED BY Zenon, <2>1, <4>1, <4>2
    <3> QED BY Zenon, <3>3, <3>4, <3>5 DEF RetainedInv
  <2>4. CASE ~Puts(first)
    <3>1. written' = written /\ archive' = {c \in archive : c.number >= pruned'}
      BY Zenon, <2>1, <2>4
    <3>2. \A i \in 1..Len(written') : written'[i].number >= pruned' => written'[i] \in archive'
      BY SMTT(60), <2>0, <2>1, <2>2, <3>1 DEF RetainedInv
    <3>3. pruned' = pruned \/ \E i \in 1..Len(written) : pruned' <= written[i].number - Retention
      <4>1. CASE first.number < pruned
        BY SMTT(60), <2>1, <2>2, <4>1
      <4>2. CASE \E c \in archive : c.number = first.number
        BY Zenon, <2>1, <4>2 DEF RetainedInv
      <4> QED BY <2>1, <2>2, <2>4, <4>1, <4>2 DEF Puts
    <3> QED BY Zenon, <3>1, <3>2, <3>3 DEF RetainedInv
  <2> QED BY <2>3, <2>4
<1>2. CASE ~Archive
  <2>1. UNCHANGED <<written, archive, pruned>>
    BY ZenonT(60), <1>2 DEF Next, Submit, ProduceEmpty, ProduceFromMempool, ProduceBlockWithTxs, ProduceFails, Batch, Commit,
                Finalize, TrySend, StoreIndex, Publish, Interrupt, Crash, Stop, Restart, vars, archival
  <2> QED BY Zenon, <2>1 DEF RetainedInv
<1> QED BY <1>1, <1>2
(* The archive's queue.                                                    *)
LEMMA BurstStep ==
  /\ DevTyped /\ Applied /\ Ordered /\ Linked /\ ShownInv /\ BurstInv
  /\ [Next]_<<vars, faults>>
  => BurstInv'
<1> SUFFICES ASSUME DevTyped, Applied, Ordered, Linked, ShownInv, BurstInv, [Next]_<<vars, faults>>
             PROVE BurstInv'
  BY Zenon
<1> DEFINE Safe == faults \cap {"commit", "interrupt", "crash"} = {}
           Held(x) == \/ x \in archiving \/ x \in archive \/ x.number < pruned
                      \/ \E j \in 1..Len(channel) : channel[j] = x
           Queued == IsFiniteSet(archiving) /\ Len(channel) + Cardinality(archiving) <= durable
           Held2 == Safe /\ Len(state) <= Capacity => \A i \in 1..durable : Held(state[i])
<1>0. /\ durable \in Nat /\ Len(state) \in Nat /\ Capacity \in Nat /\ Len(channel) \in Nat /\ durable <= Len(state)
      /\ Cardinality(archiving) \in Nat /\ IsFiniteSet(archiving) /\ pruned \in Nat
  <2>1. IsFiniteSet(archiving)
    BY Zenon DEF BurstInv
  <2>2. Cardinality(archiving) \in Nat
    BY Zenon, <2>1, FS_CardinalityType
  <2>3. Len(state) \in Nat /\ Len(channel) \in Nat
    BY SMTT(60) DEF DevTyped
  <2> QED BY Zenon, <2>1, <2>2, <2>3, DevAssumption DEF DevTyped
<1>1. Queued /\ Held2 /\ UNCHANGED faults
  BY SMTT(60), <1>0, ProducerSteps DEF BurstInv
<1>2. (Queued' /\ Held2') => BurstInv'
  <2>1. Len(state') \in Nat
    BY SMTT(60), DevTypedStep DEF DevTyped
  <2> QED BY SMTT(60), <1>0, <2>1 DEF BurstInv
<1> SUFFICES Queued' /\ Held2'
  BY Zenon, <1>2
<1>3. ASSUME UNCHANGED <<archiving, channel, archive, pruned, state, durable>> PROVE Queued' /\ Held2'
  BY Zenon, <1>1, <1>3
<1>4. CASE \/ UNCHANGED vars \/ (\E t \in Tx : Submit(t)) \/ ProduceFails \/ Finalize \/ Restart
           \/ \E k \in indexing : StoreIndex(k) \/ Publish(k)
  BY Zenon, <1>3, <1>4 DEF vars, Submit, ProduceFails, Finalize, StoreIndex, Publish, Restart, consensus, storage, archival
<1>5. ASSUME NEW txs, ProduceBlockWithTxs(txs) PROVE Queued' /\ Held2'
  BY Zenon, <1>3, <1>5 DEF ProduceBlockWithTxs, storage, archival
<1>6. CASE Batch
  <2>1. UNCHANGED <<archiving, channel, archive, pruned, durable>>
    BY <1>6 DEF Batch, archival
  <2>2. Len(state') = Len(state) + 1 /\ \A i \in 1..durable : state'[i] = state[i]
    BY SMTT(60), <1>0, <1>6, BatchAppends
  <2> QED BY SMTT(60), <1>0, <1>1, <2>1, <2>2
<1>7. CASE Commit
  <2>1. /\ durable' = Len(state) /\ UNCHANGED <<state, channel, archive, pruned>>
        /\ archiving' = archiving \cup {producer.block} /\ producer.pc = "commit"
    BY <1>7 DEF Commit
  <2>2. durable < Len(state) /\ state[Len(state)] = producer.block
    BY <2>1 DEF Applied
  <2>3. IsFiniteSet(archiving') /\ Cardinality(archiving') <= Cardinality(archiving) + 1
        /\ Cardinality(archiving') \in Nat
    <3>1. /\ IsFiniteSet(archiving \cup {producer.block})
          /\ Cardinality(archiving \cup {producer.block}) =
                IF producer.block \in archiving THEN Cardinality(archiving) ELSE Cardinality(archiving) + 1
      BY Zenon, <1>0, FS_AddElement
    <3> QED BY SMTT(60), <1>0, <2>1, <3>1
  <2>4. Queued'
    BY SMTT(60), <1>0, <1>1, <2>1, <2>2, <2>3
  <2>5. Held2'
    <3> SUFFICES ASSUME Safe, Len(state) <= Capacity, NEW i \in 1..Len(state) PROVE Held(state[i])'
      BY Zenon, <1>1, <2>1
    <3>1. durable = Len(state) - 1
      BY Zenon, <2>1 DEF Linked
    <3>2. CASE i = Len(state)
      BY Zenon, <2>1, <2>2, <3>2
    <3>3. CASE i \in 1..durable
      BY ZenonT(60), <1>1, <2>1, <3>3
    <3> QED BY SMTT(60), <1>0, <3>1, <3>2, <3>3
  <2> QED BY <2>4, <2>5
<1>8. ASSUME NEW b \in archiving, TrySend(b) PROVE Queued' /\ Held2'
  <2>1. /\ UNCHANGED <<state, durable, archive, pruned>> /\ archiving' = archiving \ {b}
        /\ channel' = IF Len(channel) < Capacity THEN Append(channel, b) ELSE channel
    BY Zenon, <1>8 DEF TrySend, storage
  <2>2. IsFiniteSet(archiving') /\ Cardinality(archiving') = Cardinality(archiving) - 1
    BY Zenon, <1>0, <2>1, FS_RemoveElement
  <2>3. channel \in Seq(Block) /\ b \in Block
    BY Zenon DEF DevTyped
  <2>4. CASE Len(channel) < Capacity
    <3>1. /\ Len(channel') = Len(channel) + 1 /\ channel'[Len(channel) + 1] = b
          /\ \A i \in 1..Len(channel) : channel'[i] = channel[i] /\ i \in 1..Len(channel')
          /\ Len(channel) + 1 \in 1..Len(channel')
      BY SMTT(60), <1>0, <2>1, <2>3, <2>4, Appended
    <3>2. \A x : Held(x) => Held(x)'
      BY Zenon, <2>1, <3>1
    <3> QED BY SMTT(60), <1>0, <1>1, <2>1, <2>2, <3>1, <3>2
  <2>5. CASE ~(Len(channel) < Capacity)
    <3>1. Cardinality(archiving') \in Nat
      BY Zenon, <2>2, FS_CardinalityType
    <3> QED BY SMTT(60), <1>0, <1>1, <2>1, <2>2, <2>5, <3>1
  <2> QED BY Zenon, <2>4, <2>5
<1>9. CASE Archive
  <2> DEFINE first == Head(channel)
  <2>1. UNCHANGED <<state, durable, archiving>>
    BY Zenon, <1>9 DEF Archive, storage
  <2>2. /\ Len(channel) > 0 /\ first = channel[1] /\ first.number \in Nat
        /\ Len(channel') = Len(channel) - 1
        /\ \A i \in 1..Len(channel) : i = 1 \/ (i - 1 \in 1..Len(channel') /\ channel'[i - 1] = channel[i])
        /\ pruned' \in Nat /\ pruned' >= pruned
        /\ archive' = {c \in archive \cup (IF Puts(first) THEN {first} ELSE {}) : c.number >= pruned'}
    BY Zenon, <1>9, ArchiveFacts
  <2> HIDE DEF first
  <2>3. Queued'
    BY SMTT(60), <1>0, <1>1, <2>1, <2>2
  <2>4. Held2'
    <3> SUFFICES ASSUME Safe, Len(state) <= Capacity, NEW i \in 1..durable PROVE Held(state[i])'
      BY Zenon, <1>1, <2>1
    <3>0. i \in 1..Len(state) /\ state[i] \in Block
      BY SMTT(60), <1>0 DEF DevTyped
    <3>1. state[i].number \in Nat
      BY Zenon, <3>0 DEF Block
    <3>2. CASE state[i] \in archiving
      BY Zenon, <2>1, <3>2
    <3>3. CASE state[i].number < pruned
      BY SMTT(60), <1>0, <2>1, <2>2, <3>1, <3>3
    <3>4. CASE state[i] \in archive
      BY SMTT(60), <2>1, <2>2, <3>1, <3>4
    <3>5. CASE \E j \in 1..Len(channel) : j # 1 /\ channel[j] = state[i]
      BY Zenon, <2>1, <2>2, <3>5
    <3>6. CASE state[i] = first /\ Puts(first)
      BY SMTT(60), <2>1, <2>2, <3>1, <3>6
    <3>7. CASE state[i] = first /\ ~Puts(first) /\ ~(state[i].number < pruned)
      <4>1. PICK c \in archive : c.number = state[i].number
        BY SMTT(60), <1>0, <3>1, <3>7 DEF Puts
      <4>2. PICK m \in 1..durable : c = state[m]
        BY Zenon DEF ShownInv, Committed
      <4>3. "crash" \notin faults /\ m \in 1..Len(state)
        BY SMTT(60), <1>0
      <4>4. m = i
        BY SMTT(60), <3>0, <3>1, <4>1, <4>2, <4>3 DEF Ordered
      <4> QED BY Zenon, <3>4, <4>2, <4>4
    <3> QED BY ZenonT(60), <1>1, <2>2, <3>2, <3>3, <3>4, <3>5, <3>6, <3>7
  <2> QED BY Zenon, <2>3, <2>4
<1>10. CASE Interrupt \/ Crash
  <2>1. archiving' = {} /\ channel' = <<>> /\ durable' \in Nat
    BY ZenonT(60), <1>10, StopCuts DEF Interrupt, Crash, Stop
  <2>2. ~Safe
    BY <1>10 DEF Interrupt, Crash
  <2> QED BY SMTT(60), <1>1, <2>1, <2>2, FS_EmptySet
<1> QED BY ZenonT(60), <1>4, <1>5, <1>6, <1>7, <1>8, <1>9, <1>10, ProducerSteps
        DEF ProduceEmpty, ProduceFromMempool, Sidecar

(* The invariant of DevNode is inductive.                                  *)
LEMMA DevInvStep == DevInv /\ [Next]_<<vars, faults>> => DevInv'
BY DevTypedStep, AppliedStep, ProposedStep, OnceStep, OrderedStep, WholeStep, LinkedStep, ShownStep, HeadsStep,
   RetainedStep, BurstStep, ProducerSteps
   DEF DevInv

(* DevInv holds in every reachable state.                                  *)
LEMMA DevInvHolds == Spec => []DevInv
BY DevInit, DevInvStep, PTL DEF Spec

(* A development node applies no transaction twice unless a commit fails,  *)
(* uses no block number twice unless it crashes, over restarts, loses no   *)
(* submitted transaction unless it is stopped, and links each block to the *)
(* one before: produce_block_with_txs and finalize of the mempool, against *)
(* every failure of execution, batch and commit, Ctrl+C and crashes.       *)
THEOREM BlocksAreProducedOnce == Spec => []ProducedOnce
<1>1. DevInv => ProducedOnce
  <2> SUFFICES ASSUME DevInv PROVE ProducedOnce
    BY Zenon
  <2>1. "commit" \in faults \/ TxsOnce
    BY Zenon DEF DevInv, OnceInv
  <2>2. "crash" \in faults \/ NumbersIncrease
    <3> SUFFICES ASSUME "crash" \notin faults, NEW i \in 1..Len(state) - 1
                 PROVE state[i].number < state[i + 1].number
      BY Zenon DEF NumbersIncrease
    <3>1. i \in 1..Len(state) /\ i + 1 \in 1..Len(state) /\ i < i + 1
      BY SMTT(60) DEF DevInv, DevTyped
    <3> QED BY Zenon, <3>1 DEF DevInv, Ordered
  <2>3. faults \cap {"interrupt", "crash"} # {} \/ TxsKept
    BY Zenon DEF DevInv, Whole
  <2>4. faults \cap {"commit", "interrupt", "crash"} # {} \/ ParentsLinked
    BY Zenon DEF DevInv, Linked
  <2> QED BY Zenon, <2>1, <2>2, <2>3, <2>4 DEF ProducedOnce
<1> QED BY <1>1, DevInvHolds, PTL

(* The archive and the index of a development node hold only committed     *)
(* blocks, a published head is in the index, and the archive keeps the     *)
(* last retention_blocks numbers; while nothing stops the node and commits *)
(* succeed, blocks that fit into the archive channel are all archived.     *)
THEOREM ShownStaysCommitted == Spec => []ShownIsCommitted
<1>1. DevInv => ShownIsCommitted
  <2> SUFFICES ASSUME DevInv PROVE ShownIsCommitted
    BY Zenon
  <2>1. OnlyCommittedShown /\ HeadsIndexed
    BY Zenon DEF DevInv, ShownInv, HeadsInv, OnlyCommittedShown, HeadsIndexed
  <2>2. RetentionKept
    <3> SUFFICES ASSUME NEW i \in 1..Len(written),
                        \A j \in 1..Len(written) : written[i].number >= written[j].number - Retention
                 PROVE written[i] \in archive
      BY Zenon DEF RetentionKept
    <3>1. \A j \in 1..Len(written) : written[j] \in Block
      BY SMTT(60) DEF DevInv, DevTyped
    <3>2. \A j \in 1..Len(written) : written[j].number \in Nat
      BY Zenon, <3>1 DEF Block
    <3>3. pruned \in Nat /\ Retention \in Nat
      BY Zenon, DevAssumption DEF DevInv, DevTyped
    <3>4. written[i].number >= pruned
      <4>1. CASE pruned = 0
        BY SMTT(60), <3>2, <4>1
      <4>2. CASE \E j \in 1..Len(written) : pruned <= written[j].number - Retention
        BY SMTT(60), <3>2, <3>3, <4>2
      <4> QED BY Zenon, <4>1, <4>2 DEF DevInv, RetainedInv
    <3> QED BY Zenon, <3>4 DEF DevInv, RetainedInv
  <2>3. faults \cap {"commit", "interrupt", "crash"} # {} \/ BurstsArchived
    <3> SUFFICES ASSUME faults \cap {"commit", "interrupt", "crash"} = {}, Len(state) <= Capacity,
                        archiving = {}, channel = <<>>, NEW i \in 1..durable
                 PROVE state[i] \in archive \/ state[i].number < pruned
      BY Zenon DEF BurstsArchived, AllArchived, Committed
    <3>1. ~(Len(state) > Capacity) /\ Len(channel) = 0
      BY DevAssumption DEF DevInv, DevTyped
    <3> QED BY SMTT(60), <3>1 DEF DevInv, BurstInv
  <2> QED BY Zenon, <2>1, <2>2, <2>3 DEF ShownIsCommitted
<1> QED BY <1>1, DevInvHolds, PTL
=============================================================================
