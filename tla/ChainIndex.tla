------------------------------- MODULE ChainIndex -------------------------------
(***************************************************************************)
(* PersistentChainIndex (crates/rpc/chain-index/src/index.rs): one writer  *)
(* storing blocks in SQLite transactions, readers going through the        *)
(* in-memory cache (cache.rs), and restarts that keep the database only.   *)
(*                                                                         *)
(* A block is a number, a hash and the transactions that were executed.    *)
(* The caches are LRU: an entry may be gone at any time.  SQLite is        *)
(* external: a transaction takes effect at its commit, a query sees the    *)
(* database at one moment.                                                 *)
(***************************************************************************)
EXTENDS Integers, FiniteSets, FiniteSetsExt, TLC

CONSTANTS
    Block,      \* blocks that are stored: records number, hash, txs
    Reader,     \* tasks that look blocks up
    InOrder,    \* whether blocks are stored in the order of their numbers
    MayRestart  \* whether the process may restart

None == [number |-> 0, hash |-> 0, txs |-> {}]

ASSUME IndexAssumption ==
    /\ InOrder \in BOOLEAN /\ MayRestart \in BOOLEAN
    /\ \A b \in Block : b.number \in Nat \ {0} /\ b.hash \in Nat \ {0}
    /\ \A b, c \in Block : b.hash = c.hash => b = c

Number == {b.number : b \in Block}
Hash == {b.hash : b \in Block}
Tx == UNION {b.txs : b \in Block}

VARIABLES
    blocks,        \* table blocks: the block of each number, or None
    transactions,  \* table transactions: the block number of each, or 0
    latest_block,  \* metadata latest_block, or 0
    by_number,     \* cache blocks_by_number
    by_hash,       \* cache block_number_by_hash, 0 if not cached
    tx_cache,      \* cache transactions: number and hash of the block, or None
    latest,        \* cache latest_block, 0 if not set
    writer,        \* the block being stored, and the step
    todo,          \* blocks not yet handed to store_block
    stored,        \* blocks that store_block stored and that it returned for (ghost)
    reader         \* what each reader is doing

database == <<blocks, transactions, latest_block>>
cache == <<by_number, by_hash, tx_cache, latest>>
vars == <<database, cache, writer, todo, stored, reader>>

Idle == [pc |-> "idle"]

Init ==
    /\ blocks = [n \in Number |-> None]
    /\ transactions = [t \in Tx |-> 0]
    /\ latest_block = 0
    /\ by_number = [n \in Number |-> None]
    /\ by_hash = [h \in Hash |-> 0]
    /\ tx_cache = [t \in Tx |-> None]
    /\ latest = 0
    /\ writer = Idle
    /\ todo = Block
    /\ stored = {}
    /\ reader = [r \in Reader |-> Idle]

-----------------------------------------------------------------------------
(* store_block, under the writer's mutex to its end.                       *)

StoreBegin(b) ==
    /\ writer.pc = "idle" /\ b \in todo
    /\ InOrder => \A c \in todo : b.number <= c.number
    /\ writer' = [pc |-> "insert", block |-> b]
    /\ todo' = todo \ {b}
    /\ UNCHANGED <<database, cache, stored, reader>>

(* An error rolls the transaction back. *)
StoreFails ==
    /\ writer.pc = "insert"
    /\ writer' = Idle
    /\ UNCHANGED <<database, cache, todo, stored, reader>>

(* What was stored under the number goes; rows of the same hash go too.    *)
StoreCommit ==
    /\ writer.pc = "insert"
    /\ LET b == writer.block
       IN /\ blocks' = [blocks EXCEPT ![b.number] = b]
          /\ transactions' = [t \in Tx |->
                IF t \in b.txs THEN b.number
                ELSE IF transactions[t] = b.number THEN 0 ELSE transactions[t]]
          /\ latest_block' = b.number
    /\ writer' = [writer EXCEPT !.pc = "cache"]
    /\ UNCHANGED <<cache, todo, stored, reader>>

Later(n) == IF n > latest THEN n ELSE latest

(* ChainCache::insert_block. *)
InsertBlock(b) ==
    /\ by_number' = [by_number EXCEPT ![b.number] = b]
    /\ by_hash' = [by_hash EXCEPT ![b.hash] = b.number]
    /\ latest' = Later(b.number)

MutantStoreCacheBlock ==
    /\ writer.pc = "insert"
    /\ InsertBlock(writer.block)
    /\ writer' = [writer EXCEPT !.pc = "cache txs"]
    /\ UNCHANGED <<database, tx_cache, todo, stored, reader>>

StoreCacheBlock ==
    /\ writer.pc = "cache"
    /\ InsertBlock(writer.block)
    /\ writer' = [writer EXCEPT !.pc = "cache txs"]
    /\ UNCHANGED <<database, tx_cache, todo, stored, reader>>

StoreCacheTxs ==
    /\ writer.pc = "cache txs"
    /\ tx_cache' = [t \in Tx |-> IF t \in writer.block.txs THEN writer.block ELSE tx_cache[t]]
    /\ stored' = {b \in stored : b.number # writer.block.number} \cup {writer.block}
    /\ writer' = Idle
    /\ UNCHANGED <<database, by_number, by_hash, latest, todo, reader>>

Evict ==
    /\ \/ \E n \in Number :
            by_number[n] # None /\ by_number' = [by_number EXCEPT ![n] = None] /\ UNCHANGED <<by_hash, tx_cache>>
       \/ \E h \in Hash :
            by_hash[h] # 0 /\ by_hash' = [by_hash EXCEPT ![h] = 0] /\ UNCHANGED <<by_number, tx_cache>>
       \/ \E t \in Tx :
            tx_cache[t] # None /\ tx_cache' = [tx_cache EXCEPT ![t] = None] /\ UNCHANGED <<by_number, by_hash>>
    /\ UNCHANGED <<database, latest, writer, todo, stored, reader>>

-----------------------------------------------------------------------------
(* Lookups.  A reader remembers, as a ghost, what was stored when it       *)
(* began.                                                                  *)

Ask(r, want) ==
    /\ reader[r].pc = "idle"
    /\ reader' = [reader EXCEPT ![r] = want @@ [known |-> stored]]
    /\ UNCHANGED <<database, cache, writer, todo, stored>>

Answer(r, b) == reader' = [reader EXCEPT ![r] =
    [pc |-> "done", by |-> @.by, want |-> @.want, known |-> @.known, ans |-> b]]

(* get_block_number, the first half of get_block_by_hash. *)
FindNumber(r) ==
    /\ reader[r].pc = "hash"
    /\ LET h == reader[r].want
           rows == {n \in Number : blocks[n].hash = h}
       IN \/ /\ by_hash[h] # 0 \/ rows # {}
             /\ reader' = [reader EXCEPT ![r] =
                   [pc |-> "number", by |-> "hash", want |-> h, known |-> @.known,
                    number |-> IF by_hash[h] # 0 THEN by_hash[h] ELSE CHOOSE n \in rows : TRUE]]
          \/ by_hash[h] = 0 /\ rows = {} /\ Answer(r, None)
    /\ UNCHANGED <<database, cache, writer, todo, stored>>

(* get_block: the cache, *)
LookInCache(r) ==
    /\ reader[r].pc = "number"
    /\ LET b == by_number[reader[r].number]
       IN IF b # None THEN Answer(r, b)
          ELSE reader' = [reader EXCEPT ![r].pc = "query"]
    /\ UNCHANGED <<database, cache, writer, todo, stored>>

(* then the table, *)
Query(r) ==
    /\ reader[r].pc = "query"
    /\ LET b == blocks[reader[r].number]
       IN IF b = None THEN Answer(r, None)
          ELSE reader' = [reader EXCEPT ![r] =
                [pc |-> "fill", by |-> @.by, want |-> @.want, known |-> @.known, ans |-> b]]
    /\ UNCHANGED <<database, cache, writer, todo, stored>>

(* and what the table had goes to the cache. *)
Fill(r) ==
    /\ reader[r].pc = "fill"
    /\ InsertBlock(reader[r].ans)
    /\ Answer(r, reader[r].ans)
    /\ UNCHANGED <<database, tx_cache, writer, todo, stored>>

(* get_transaction joins the block's hash to the row. *)
LookUpTx(r) ==
    /\ reader[r].pc = "tx"
    /\ LET t == reader[r].want
       IN IF tx_cache[t] # None THEN Answer(r, tx_cache[t])
          ELSE IF transactions[t] = 0 THEN Answer(r, None)
          ELSE reader' = [reader EXCEPT ![r] =
                [pc |-> "fill tx", by |-> "tx", want |-> t, known |-> @.known,
                 ans |-> blocks[transactions[t]]]]
    /\ UNCHANGED <<database, cache, writer, todo, stored>>

FillTx(r) ==
    /\ reader[r].pc = "fill tx"
    /\ tx_cache' = [tx_cache EXCEPT ![reader[r].want] = reader[r].ans]
    /\ Answer(r, reader[r].ans)
    /\ UNCHANGED <<database, by_number, by_hash, latest, writer, todo, stored>>

Done(r) ==
    /\ reader[r].pc = "done"
    /\ reader' = [reader EXCEPT ![r] = Idle]
    /\ UNCHANGED <<database, cache, writer, todo, stored>>

-----------------------------------------------------------------------------
(* A new process: initialize reads latest_block. *)
Restart ==
    /\ MayRestart
    /\ by_number' = [n \in Number |-> None]
    /\ by_hash' = [h \in Hash |-> 0]
    /\ tx_cache' = [t \in Tx |-> None]
    /\ latest' = latest_block
    /\ writer' = Idle
    /\ stored' = {b \in Block : blocks[b.number] = b}
    /\ reader' = [r \in Reader |-> Idle]
    /\ UNCHANGED <<database, todo>>

Next ==
    \/ \E b \in Block : StoreBegin(b)
    \/ StoreFails \/ StoreCommit \/ StoreCacheBlock \/ StoreCacheTxs
    \/ Evict
    \/ \E r \in Reader :
        \/ \E n \in Number : Ask(r, [pc |-> "number", by |-> "number", want |-> n, number |-> n])
        \/ \E h \in Hash : Ask(r, [pc |-> "hash", by |-> "hash", want |-> h])
        \/ \E t \in Tx : Ask(r, [pc |-> "tx", by |-> "tx", want |-> t])
        \/ FindNumber(r) \/ LookInCache(r) \/ Query(r) \/ Fill(r)
        \/ LookUpTx(r) \/ FillTx(r) \/ Done(r)
    \/ Restart

Spec == Init /\ [][Next]_vars

-----------------------------------------------------------------------------
(* The latest block number, as latest_block_number answers it.             *)
LatestBlockNumber == IF latest # 0 THEN latest ELSE latest_block

(* Types; every row of transactions is of a block that is there (the       *)
(* foreign key of the schema).                                             *)
TypeOK ==
    /\ \A n \in Number : blocks[n] # None => blocks[n] \in Block /\ blocks[n].number = n
    /\ \A t \in Tx : transactions[t] # 0 => blocks[transactions[t]] # None
    /\ latest \in Number \cup {0} /\ latest_block \in Number \cup {0}

(* The latest block is the highest stored one, as in the tests' reference  *)
(* model, whatever the order of the calls of store_block and over          *)
(* restarts.                                                               *)
LatestIsMax ==
    writer.pc = "idle" => LatestBlockNumber = Max({b.number : b \in stored} \cup {0})

(* A lookup answers with what was asked for: the block of that number, of  *)
(* that hash, or one that holds that transaction.                          *)
AnswerFits ==
    \A r \in Reader : reader[r].pc = "done" /\ reader[r].ans # None =>
        CASE reader[r].by = "number" -> reader[r].ans.number = reader[r].want
          [] reader[r].by = "hash" -> reader[r].ans.hash = reader[r].want
          [] reader[r].by = "tx" -> reader[r].want \in reader[r].ans.txs

(* A block whose store_block returned before a lookup began is found, and  *)
(* with it its transactions: "Update cache after successful commit".       *)
StoredIsFound ==
    \A r \in Reader : reader[r].pc = "done" /\ reader[r].ans = None =>
        \A b \in reader[r].known :
            CASE reader[r].by = "number" -> reader[r].want # b.number
              [] reader[r].by = "hash" -> reader[r].want # b.hash
              [] reader[r].by = "tx" -> reader[r].want \notin b.txs

(* Whatever a reader is told exists is in the database: the cache never    *)
(* runs ahead of the commit, so a restart takes nothing back.              *)
AnswersAreStored ==
    \A r \in Reader : reader[r].pc = "done" /\ reader[r].ans # None =>
        blocks[reader[r].ans.number] = reader[r].ans
=============================================================================
