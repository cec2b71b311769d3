---------------------------- MODULE ExecutorService ----------------------------
(***************************************************************************)
(* A node driven by external consensus: the gRPC ExecutorService           *)
(* (crates/rpc/evnode/src/service.rs) and the commit sink behind it        *)
(* (runner.rs), with the consensus client that calls them.                 *)
(*                                                                         *)
(* Every await of a handler ends a step.  A handler may run beside others, *)
(* its caller may give up on it (it goes on), its connection may drop (the *)
(* future is dropped at an await), a batch or a commit may fail, and the   *)
(* process may crash; which of these may happen in a behaviour is mishaps. *)
(*                                                                         *)
(* A block that was executed has a serial number, and if it changed the    *)
(* state the root after it is that number: storage applies no empty batch  *)
(* and has the root it had.  The root of init_chain is a digest of the     *)
(* genesis changes and none of storage's roots.  The client asks for       *)
(* heights 1, 2, ... each with the root the previous one gave, and repeats *)
(* a height until it is answered.                                          *)
(***************************************************************************)
EXTENDS Integers, Sequences, FiniteSets, FiniteSetsExt, Functions

CONSTANTS
    Call,       \* request handlers that may run at the same time
    Txs,        \* transactions
    Gas,        \* gas limit of each of them, all of which it uses
    Bytes,      \* encoded size of each of them
    MaxGas,     \* block gas limit (max_gas)
    MaxBytes,   \* max_bytes
    MaxHeight,  \* bound: the heights the client asks for
    MaxSerial,  \* bound: executions, repeated ones included
    MaxPending, \* length of the sink's queue (MAX_PENDING_BLOCKS)
    Mishaps     \* what may go wrong, in one behaviour or another

AllMishaps == {"giveup", "cancel", "batch", "commit", "index", "crash", "noroot", "reinit", "twice", "unfiltered",
               "empty"}

ASSUME ExecutorAssumption ==
    /\ \A S \in SUBSET Txs : Cardinality(S) \in Nat  \* a block has a number of transactions
    /\ Gas \in [Txs -> Nat] /\ Bytes \in [Txs -> Nat]
    /\ MaxGas \in Nat /\ MaxBytes \in Nat /\ MaxHeight \in Nat /\ MaxSerial \in Nat
    /\ MaxPending \in Nat \ {0}
    /\ Mishaps \subseteq SUBSET AllMishaps

NoRoot == -1
GenesisRoot == -2   \* compute_state_root of the genesis changes
InitialHeight == 1  \* what the client passes to init_chain
Free == [pc |-> "free", lost |-> TRUE]

VARIABLES
    initialized, root, current_height, finalized,  \* ExecutorState
    holder,       \* the calls holding the execution lock
    call,         \* what each handler is doing
    sink,         \* the sink's queue
    worker,       \* the block the sink's worker is at, and its step
    db,           \* blocks applied to storage, oldest first
    committed,    \* how many of them are committed
    indexed,      \* blocks in the chain index, in the order stored
    parent,       \* parent_hash of the sink's worker, as a serial number
    sink_height,  \* current_height of the sink
    saved_height, \* height in the chain state on disk
    mempool,      \* transactions waiting and in flight
    client,       \* the client's confirmed height and root
    executions,   \* executions so far: the serial number of the last block
    inits,        \* successful init_chain calls since the process started
    mishaps       \* what may go wrong in this behaviour: a subset of AllMishaps

service == <<initialized, root, current_height, finalized>>
records == <<indexed, parent, sink_height, saved_height>>
commit == <<sink, worker, db, committed, records>>
executor == <<service, holder, call, commit, mempool, client, executions, inits>>

ExecutorInit ==
    /\ initialized = FALSE /\ root = 0 /\ current_height = 0 /\ finalized = 0
    /\ holder = {}
    /\ call = [c \in Call |-> Free]
    /\ sink = << >> /\ worker = Free
    /\ db = << >> /\ committed = 0
    /\ indexed = << >> /\ parent = 0
    /\ sink_height = 1 /\ saved_height = 1
    /\ mempool = [waiting |-> Txs, in_flight |-> {}]
    /\ client = [height |-> 0, root |-> NoRoot]
    /\ executions = 0
    /\ inits = 0
    /\ mishaps \in Mishaps

(* The client waits for one call at a time, unless it gave up on it or     *)
(* another client made it.                                                 *)
ClientFree == \A c \in Call : call[c].lost \/ ("twice" \in mishaps /\ call[c].pc = "genesis")

-----------------------------------------------------------------------------
(* init_chain: genesis runs and its changes are handed over between the    *)
(* check of initialized and the stores.                                    *)

MayInit == client.root = NoRoot \/ "reinit" \in mishaps

InitChain(c) ==
    /\ call[c].pc = "free" /\ MayInit /\ ClientFree
    /\ ~initialized
    /\ call' = [call EXCEPT ![c] = [pc |-> "genesis", lost |-> FALSE]]
    /\ UNCHANGED <<service, holder, commit, mempool, client, executions, inits>>

InitChainStores(c) ==
    /\ call[c].pc = "genesis"
    /\ root' = GenesisRoot /\ current_height' = InitialHeight /\ initialized' = TRUE
    /\ inits' = inits + 1
    /\ client' = IF call[c].lost \/ client.height > 0 THEN client ELSE [height |-> 0, root |-> GenesisRoot]
    /\ call' = [call EXCEPT ![c] = Free]
    /\ UNCHANGED <<finalized, holder, commit, mempool, executions>>

-----------------------------------------------------------------------------
(* get_txs marks what it proposes, a block's worth, as in flight.  The      *)
(* client may ask several times before it has a block executed.            *)
GetTxs ==
    /\ initialized /\ mempool.waiting # {}
    /\ \E txs \in SUBSET mempool.waiting \ {{}} :
        /\ MapThenSumSet(LAMBDA t : Gas[t], txs) <= MaxGas
        /\ mempool' = [waiting |-> mempool.waiting \ txs, in_flight |-> mempool.in_flight \cup txs]
    /\ UNCHANGED <<service, holder, call, commit, client, executions, inits>>

Permuted(S) == {s \in [1..Cardinality(S) -> S] : \A i, j \in DOMAIN s : s[i] = s[j] => i = j}

(* filter_txs: the transactions that fit, one after the other; one that    *)
(* does not is postponed and the next is tried.  A limit of zero stands    *)
(* for the configured one.                                                 *)
FilterTx(ok, t, bytes, gas) ==
    IF ok.bytes + Bytes[t] > bytes \/ ok.gas + Gas[t] > gas THEN ok
    ELSE [bytes |-> ok.bytes + Bytes[t], gas |-> ok.gas + Gas[t], txs |-> Append(ok.txs, t)]

Filtered(txs, bytes, gas) ==
    LET ok[n \in 0..Len(txs)] ==
          IF n = 0 THEN [bytes |-> 0, gas |-> 0, txs |-> << >>] ELSE FilterTx(ok[n - 1], txs[n], bytes, gas)
    IN ok

FilterTxs(txs, max_bytes, max_gas) ==
    Filtered(txs, IF max_bytes > 0 THEN max_bytes ELSE MaxBytes,
                  IF max_gas > 0 THEN max_gas ELSE MaxGas)[Len(txs)].txs

(* The client asks for the next height, or again for one that was not      *)
(* answered, with any of the transactions it was given that filter_txs     *)
(* lets through.                                                           *)
Request(c) ==
    /\ call[c].pc = "free" /\ ClientFree /\ initialized
    /\ client.height < MaxHeight
    /\ executions + Cardinality({d \in Call : call[d].pc \in {"lock", "resolve"}}) < MaxSerial
    /\ \E S \in SUBSET mempool.in_flight :
       \E txs \in {FilterTxs(s, 0, 0) : s \in Permuted(S)}
                  \cup (IF "unfiltered" \in mishaps THEN Permuted(S) ELSE {}) :
       \E prev \in ({client.root} \ {NoRoot}) \cup (IF "noroot" \in mishaps THEN {NoRoot} ELSE {}) :
        call' = [call EXCEPT ![c] =
            [pc |-> "lock", lost |-> FALSE, height |-> client.height + 1,
             prev |-> prev, txs |-> txs]]
    /\ UNCHANGED <<service, holder, commit, mempool, client, executions, inits>>

Lock(c) ==
    /\ call[c].pc = "lock" /\ holder = {}
    /\ holder' = {c}
    /\ call' = [call EXCEPT ![c].pc = "resolve"]
    /\ UNCHANGED <<service, commit, mempool, client, executions, inits>>

MutantPrevOk(prev) == TRUE

(* resolve_prev_state_root. *)
PrevOk(prev) == prev = NoRoot \/ prev = root

(* An answer ends the handler, which frees the execution lock if it had it.*)
Answer(c) ==
    /\ call' = [call EXCEPT ![c] = Free]
    /\ holder' = holder \ {c}

RefuseRoot(c) ==
    /\ call[c].pc = "resolve" /\ ~PrevOk(call[c].prev)
    /\ Answer(c)
    /\ UNCHANGED <<service, commit, mempool, client, executions, inits>>

(* apply_block passes over a transaction that no longer fits and goes on   *)
(* with the next, until the gas of the block is used up: the results are   *)
(* those of the transactions that ran.                                     *)
RunTx(run, t) ==
    IF run.gas + Gas[t] > MaxGas \/ (run.ran # << >> /\ run.gas >= MaxGas) THEN run
    ELSE [gas |-> run.gas + Gas[t], ran |-> Append(run.ran, t)]

Running(txs) ==
    LET run[n \in 0..Len(txs)] ==
          IF n = 0 THEN [gas |-> 0, ran |-> << >>] ELSE RunTx(run[n - 1], txs[n])
    IN run

Ran(txs) == Running(txs)[Len(txs)].ran

(* Execution reads storage as it is now, and queues the block, with NoRoot *)
(* for the root if it changes nothing.                                     *)
Execute(c) ==
    /\ call[c].pc = "resolve" /\ PrevOk(call[c].prev)
    /\ Len(sink) < MaxPending
    /\ executions' = executions + 1
    /\ \E new \in {executions + 1} \cup (IF "empty" \in mishaps THEN {NoRoot} ELSE {}) :
        sink' = Append(sink, [id |-> executions + 1, height |-> call[c].height, base |-> Len(db),
                              ran |-> Ran(call[c].txs), root |-> new, call |-> c])
    /\ call' = [call EXCEPT ![c] =
          [pc |-> "wait", lost |-> @.lost, height |-> @.height, txs |-> @.txs,
           id |-> executions + 1, reply |-> "none", root |-> NoRoot]]
    /\ UNCHANGED <<service, holder, worker, db, committed, records, mempool, client, inits>>

(* Mempool::finalize with the first executed_tx_count of the block's       *)
(* transactions: the rest of what is in flight waits again.                *)
ExecutedHashes(c) == Range(SubSeq(call[c].txs, 1, Len(Ran(call[c].txs))))

MutantFinalizeEarly(c) ==
    /\ call[c].pc = "wait" /\ call[c].reply = "failed"
    /\ mempool' = [waiting |-> (mempool.waiting \cup mempool.in_flight) \ ExecutedHashes(c), in_flight |-> {}]
    /\ Answer(c)
    /\ UNCHANGED <<service, commit, client, executions, inits>>

MutantCommitFailed(c) ==
    /\ call[c].pc = "wait" /\ call[c].reply = "failed"
    /\ call' = [call EXCEPT ![c] = Free]
    /\ UNCHANGED <<service, holder, commit, mempool, client, executions, inits>>

CommitFailed(c) ==
    /\ call[c].pc = "wait" /\ call[c].reply = "failed"
    /\ Answer(c)
    /\ UNCHANGED <<service, commit, mempool, client, executions, inits>>

FinalizeProposal(c) ==
    /\ call[c].pc = "wait" /\ call[c].reply = "committed"
    /\ LET left == (mempool.waiting \cup mempool.in_flight) \ ExecutedHashes(c)
       IN mempool' = [waiting |-> left, in_flight |-> {}]
    /\ call' = [call EXCEPT ![c].pc = "height"]
    /\ UNCHANGED <<service, holder, commit, client, executions, inits>>

StoreHeight(c) ==
    /\ call[c].pc = "height"
    /\ current_height' = call[c].height
    /\ call' = [call EXCEPT ![c].pc = "root"]
    /\ UNCHANGED <<initialized, root, finalized, holder, commit, mempool, client, executions, inits>>

MutantAnswerOldRoot(c) ==
    /\ call[c].pc = "root"
    /\ root' = call[c].root
    /\ client' = IF call[c].lost THEN client ELSE [height |-> call[c].height, root |-> root]
    /\ Answer(c)
    /\ UNCHANGED <<initialized, current_height, finalized, commit, mempool, executions, inits>>

StoreRoot(c) ==
    /\ call[c].pc = "root"
    /\ root' = call[c].root
    /\ client' = IF call[c].lost THEN client ELSE [height |-> call[c].height, root |-> call[c].root]
    /\ Answer(c)
    /\ UNCHANGED <<initialized, current_height, finalized, commit, mempool, executions, inits>>

-----------------------------------------------------------------------------
(* set_final, for any height up to the current one, executed or not. *)
SetFinal ==
    /\ initialized
    /\ \E h \in 0..current_height : finalized' = h
    /\ UNCHANGED <<initialized, root, current_height, holder, call, commit, mempool, client, executions, inits>>

-----------------------------------------------------------------------------
(* The sink's worker: batch, commit, index, answer, one block at a time.   *)

SinkTake ==
    /\ worker = Free /\ sink # << >>
    /\ worker' = [pc |-> "batch", block |-> Head(sink)]
    /\ sink' = Tail(sink)
    /\ UNCHANGED <<service, holder, call, db, committed, records, mempool, client, executions, inits>>

(* A oneshot whose receiver was dropped is not read. *)
Replied(block, reply) ==
    LET c == block.call
    IN call' = IF call[c].pc = "wait" /\ call[c].id = block.id
               THEN [call EXCEPT ![c] = [@ EXCEPT !.reply = reply, !.root = block.root]] ELSE call

(* The number of a block that storage never saw can be given again.        *)
SinkFails(step) ==
    /\ worker.pc = step
    /\ Replied(worker.block, "failed")
    /\ worker' = Free
    /\ executions' = IF step = "batch" /\ sink = << >> THEN executions - 1 ELSE executions
    /\ UNCHANGED <<service, holder, sink, db, committed, records, mempool, client, inits>>

StorageRoot == IF db = << >> THEN 0 ELSE db[Len(db)].root

(* The block with the root that storage has after it. *)
WithRoot(block) == IF block.root = NoRoot THEN [block EXCEPT !.root = StorageRoot] ELSE block

SinkBatch ==
    /\ worker.pc = "batch"
    /\ db' = Append(db, WithRoot(worker.block))
    /\ worker' = [pc |-> "commit", block |-> WithRoot(worker.block)]
    /\ UNCHANGED <<service, holder, call, sink, committed, records, mempool, client, executions, inits>>

SinkCommit ==
    /\ worker.pc = "commit"
    /\ committed' = Len(db)
    /\ worker' = [worker EXCEPT !.pc = "index"]
    /\ UNCHANGED <<service, holder, call, sink, db, records, mempool, client, executions, inits>>

(* A failure of the index is only logged. *)
SinkIndex ==
    /\ worker.pc = "index"
    /\ LET entry == [height |-> worker.block.height, id |-> worker.block.id, parent |-> parent]
       IN \/ indexed' = Append(indexed, entry)
          \/ "index" \in mishaps /\ indexed' = indexed
    /\ parent' = worker.block.id
    /\ sink_height' = worker.block.height
    /\ Replied(worker.block, "committed")
    /\ worker' = Free
    /\ UNCHANGED <<service, holder, sink, db, committed, saved_height, mempool, client, executions, inits>>

-----------------------------------------------------------------------------
(* What may go wrong. *)

(* The client times out and asks again while the handler goes on. *)
GiveUp(c) ==
    /\ "giveup" \in mishaps
    /\ call[c].pc # "free" /\ ~call[c].lost
    /\ call' = [call EXCEPT ![c].lost = TRUE]
    /\ UNCHANGED <<service, holder, commit, mempool, client, executions, inits>>

(* The connection drops and the handler's future with it, at an await. *)
Cancel(c) ==
    /\ "cancel" \in mishaps
    /\ call[c].pc \in {"genesis", "lock", "wait", "root"}
    /\ Answer(c)
    /\ UNCHANGED <<service, commit, mempool, client, executions, inits>>

(* Ctrl-C: the sink is drained and the chain state saved.                  *)
Shutdown ==
    /\ "crash" \in mishaps
    /\ sink = << >> /\ worker = Free /\ \A c \in Call : call[c].pc = "free"
    /\ saved_height' = sink_height
    /\ UNCHANGED <<service, holder, call, sink, worker, db, committed, indexed, parent, sink_height>>
    /\ UNCHANGED <<mempool, client, executions, inits>>

(* resolve_initial_parent_hash: the indexed block of the saved height, or  *)
(* else the last indexed one.                                              *)
InitialParent ==
    LET at == {i \in DOMAIN indexed : indexed[i].height = saved_height}
    IN IF at # {} THEN indexed[CHOOSE i \in at : \A j \in at : j <= i].id
       ELSE IF indexed # << >> THEN indexed[Len(indexed)].id ELSE 0

(* The process dies and starts again on what storage kept. *)
ExecutorCrash ==
    /\ "crash" \in mishaps
    /\ db' \in {db, SubSeq(db, 1, committed)}
    /\ committed' = Len(db')
    /\ parent' = InitialParent
    /\ sink_height' = saved_height
    /\ initialized' = FALSE /\ root' = 0 /\ current_height' = 0 /\ finalized' = 0
    /\ holder' = {} /\ call' = [c \in Call |-> Free]
    /\ sink' = << >> /\ worker' = Free
    /\ mempool' = [waiting |-> {}, in_flight |-> {}]
    /\ inits' = 0
    /\ UNCHANGED <<indexed, saved_height, client, executions>>

Handler(c) ==
    \/ InitChainStores(c) \/ Lock(c) \/ RefuseRoot(c) \/ Execute(c)
    \/ CommitFailed(c) \/ FinalizeProposal(c) \/ StoreHeight(c) \/ StoreRoot(c)

Worker == SinkTake \/ SinkBatch \/ SinkCommit \/ SinkIndex

Fault ==
    \/ \E c \in Call : GiveUp(c) \/ Cancel(c)
    \/ "batch" \in mishaps /\ SinkFails("batch")
    \/ "commit" \in mishaps /\ SinkFails("commit")
    \/ Shutdown \/ ExecutorCrash

ExecutorNext ==
    /\ \/ \E c \in Call : InitChain(c) \/ Request(c) \/ Handler(c)
       \/ GetTxs \/ SetFinal \/ Worker \/ Fault
    /\ UNCHANGED mishaps

ExecutorSpec == ExecutorInit /\ [][ExecutorNext]_<<executor, mishaps>>

-----------------------------------------------------------------------------
(* Types; at most one handler is past the execution lock.                  *)
ExecutorTypeOK ==
    /\ initialized \in BOOLEAN /\ root \in GenesisRoot..MaxSerial /\ executions \in 0..MaxSerial
    /\ current_height \in 0..MaxHeight /\ finalized \in 0..MaxHeight
    /\ Cardinality(holder) <= 1
    /\ \A c \in Call : call[c].pc \in {"resolve", "wait", "height", "root"} => c \in holder
    /\ committed \in 0..Len(db)
    /\ mempool.waiting \subseteq Txs /\ mempool.in_flight \subseteq Txs \ mempool.waiting

(* Storage holds each height once, in order, each executed on the state    *)
(* the one before left.  "Serializes block execution so validation and     *)
(* root updates stay linear."                                              *)
LinearHistory == \A i \in DOMAIN db : db[i].height = i /\ db[i].base = i - 1

(* Between executions the service's root is the root of what storage       *)
(* holds: "storage reads and root validation remain linearized".  Until    *)
(* the first block it is the root of genesis.                              *)
RootMatchesStorage ==
    initialized /\ holder = {} => root = IF db = << >> THEN GenesisRoot ELSE StorageRoot

DurableTxs == UNION {Range(db[i].ran) : i \in 1..committed}

(* A transaction leaves the mempool only when a committed block holds its  *)
(* result: "Finalize the block proposal only after state persistence       *)
(* succeeds", and "unexecuted ones are returned to the priority queue".    *)
TxsNotLost == Txs \ (mempool.waiting \cup mempool.in_flight) \subseteq DurableTxs

(* What the client was told is true of what survives a crash: the root it  *)
(* holds is that of a committed block of the height it takes it for, and   *)
(* set_final accepts no height beyond the initial one, which it accepts    *)
(* before any block, that is not committed.                                *)
ClientToldTruth ==
    /\ client.height > 0 =>
        \E i \in 1..committed : db[i].height = client.height /\ db[i].root = client.root
    /\ \A h \in InitialHeight + 1..finalized : \E i \in 1..committed : db[i].height = h

-----------------------------------------------------------------------------
(* The client repeats a block that may have changed nothing: its root is   *)
(* still the one the repeated block names.                                 *)
RepeatsEmptyBlocks == {"giveup", "empty"} \subseteq mishaps

(* As long as one init_chain call has succeeded, no handler is cancelled,  *)
(* no commit fails, the process lives, the client names the root it builds *)
(* on and does not repeat blocks that change nothing, storage holds each   *)
(* height once, in order, each executed on the state the one before left,  *)
(* between executions the service's root is the one of what storage holds, *)
(* and no height is final that the service has not reached.  A second      *)
(* init_chain that passed the check before the first one stored may run    *)
(* beside the blocks, until it stores.                                     *)
LinearWhileAlive ==
    \/ inits > 1 \/ mishaps \cap {"cancel", "commit", "crash", "noroot"} # {} \/ RepeatsEmptyBlocks
    \/ LinearHistory /\ RootMatchesStorage /\ finalized <= current_height

(* As long as the process lives and the client executes what filter_txs    *)
(* lets through, no transaction is lost between the pool, the handlers,    *)
(* the sink and storage, in blocks too small for all of them.              *)
LiveTxsKept == mishaps \cap {"crash", "unfiltered"} # {} \/ TxsNotLost

(* A process initializes the chain once: "second init should fail".        *)
InitOnce == inits <= 1

(* Every block in the index has the block before it as its parent, over    *)
(* restarts too: "seeding parent hash from indexed head".                  *)
IndexLinked == \A i \in DOMAIN indexed : i > 1 => indexed[i].parent = indexed[i - 1].id

=============================================================================
