------------------------------ MODULE LogQueries ------------------------------
(***************************************************************************)
(* From executed blocks to receipts and eth_getLogs: build_index_data of   *)
(* crates/rpc/chain-index/src/integration.rs turns the results of a block  *)
(* into what a task of its own then stores in the index, and get_logs of   *)
(* provider.rs reads a range of blocks while further ones are being stored.*)
(*                                                                         *)
(* Transactions are given by kind, no two of them the same: a kind has a   *)
(* gas limit, the gas it uses and the logs of its events.  Storing         *)
(* a block is one step here and a module of its own in ChainIndex.         *)
(***************************************************************************)
EXTENDS LogFilter, FiniteSets, FiniteSetsExt, SequencesExt, Functions, TLC

CONSTANTS
    Limit,          \* the gas limit of each kind of transaction
    Outcome,        \* what each kind does: gas and logs
    Proposals,      \* the sequences of transactions of which blocks are made
    BlockGasLimit,
    Filters,        \* the filters asked for
    MaxBlocks,      \* bound on the number of blocks
    MaxRange,       \* blocks a query may ask for, 1000 in the code
    MaxLogs         \* logs a query may return, 10000 in the code

VARIABLES
    height,   \* the last block that was produced
    tasks,    \* the blocks whose indexing has not ended, by number
    index,    \* the blocks of the index, by number
    query     \* the eth_getLogs being answered
vars == <<height, tasks, index, query>>

Idle == [pc |-> "idle"]
Init == height = 0 /\ tasks = <<>> /\ index = <<>> /\ query = Idle

-----------------------------------------------------------------------------
(* Blocks.                                                                 *)

\* apply_block: a transaction that may not fit is passed over.  Each result
\* names, as a ghost, the transaction it is of.
ApplyTx(r, t) ==
    IF r.gas + Limit[t] > BlockGasLimit \/ r.gas >= BlockGasLimit THEN r
    ELSE [gas |-> r.gas + Outcome[t].gas,
          results |-> Append(r.results, [of |-> t, gas |-> Outcome[t].gas, logs |-> Outcome[t].logs])]
ApplyBlock(txs) == FoldLeft(ApplyTx, [gas |-> 0, results |-> <<>>], txs)

GasOf(results, n) == SumFunctionOnSet([i \in DOMAIN results |-> results[i].gas], 1..n)

\* What is stored of a transaction, and its receipt.
Stored(tx, result, cumulative) ==
    [transaction |-> tx, of |-> result.of, logs |-> result.logs, gas_used |-> result.gas,
     cumulative_gas_used |-> cumulative]

BuildIndexData(txs, results) ==
    [gas_used |-> GasOf(results, Len(results)),
     receipts |-> [i \in 1..Len(results) |-> Stored(txs[i], results[i], GasOf(results, i))]]

\* produce_block, up to the task that it spawns for the index.
Produce(txs) ==
    /\ height < MaxBlocks
    /\ height' = height + 1
    /\ tasks' = (height' :> BuildIndexData(txs, ApplyBlock(txs).results)) @@ tasks
    /\ UNCHANGED <<index, query>>

\* The tasks end in any order; one that fails leaves a gap.
EndTask(n) == tasks' = Restrict(tasks, DOMAIN tasks \ {n})
StoreBlock(n) ==
    /\ index' = (n :> tasks[n]) @@ index
    /\ EndTask(n) /\ UNCHANGED <<height, query>>
StoreFails(n) ==
    /\ EndTask(n) /\ UNCHANGED <<height, index, query>>

-----------------------------------------------------------------------------
(* eth_getLogs.  A bound of the range is an option: {} is a tag that stands *)
(* for the latest block, {0} the tag "earliest".                           *)

LatestBlockNumber == Max(DOMAIN index \cup {0})
Resolve(bound) == IF bound = {} THEN LatestBlockNumber ELSE CHOOSE n \in bound : TRUE

Scan(from, to, f) ==
    [pc |-> "scan", from |-> from, to |-> to, filter |-> f, next |-> from,
     result |-> <<>>, known |-> DOMAIN index]
Refused(why, from, to, f) == [pc |-> "refused", why |-> why, from |-> from, to |-> to, filter |-> f]

LogsOfRange(from, to, f) ==
    query' = IF from > to THEN Refused("inverted", from, to, f)
             ELSE IF to - from + 1 > MaxRange THEN Refused("range", from, to, f)
             ELSE Scan(from, to, f)

AskLogs(from, to, f) ==
    /\ query.pc = "idle"
    /\ LogsOfRange(Resolve(from), Resolve(to), f)
    /\ UNCHANGED <<height, tasks, index>>

\* get_logs of the JSON-RPC server, and of the gRPC server with its conversion
\* of the filter.
ProtoToLogFilter(f) == [addresses |-> Kept(f.addresses),
                        topics |-> [i \in DOMAIN f.topics |-> Kept(f.topics[i])]]

GetLogs(from, to, f) == Parses(f) /\ AskLogs(from, to, f)
GrpcGetLogs(from, to, f) == AskLogs(from, to, ProtoToLogFilter(f))

\* A filter by hash, which the index may not know.
GetLogsOfHash(n, f) ==
    /\ query.pc = "idle" /\ Parses(f)
    /\ IF n \in DOMAIN index THEN LogsOfRange(n, n, f)
       ELSE query' = [Scan(n, n, f) EXCEPT !.pc = "done"]
    /\ UNCHANGED <<height, tasks, index>>

\* The logs of a block with the numbers they get: every log of the block is
\* counted, wanted or not.
BlockLogs(n) == FlattenSeq([i \in DOMAIN index[n].receipts |-> index[n].receipts[i].logs])
RpcLogs(n) == LET logs == BlockLogs(n) IN
    [i \in DOMAIN logs |-> [block |-> n, log_index |-> i - 1, log |-> logs[i]]]
Found(n, f) == SelectSeq(RpcLogs(n), LAMBDA e : Matches(e.log, f))

\* One turn of the loop; a block that is not there is passed over.
MutantScanBlock ==
    /\ query.pc = "scan" /\ query.next <= query.to
    /\ LET n == query.next
           all == query.result \o (IF n \in DOMAIN index THEN Found(n, query.filter) ELSE <<>>)
       IN query' = [query EXCEPT !.next = n + 1,
                        !.result = IF Len(all) > MaxLogs THEN SubSeq(all, 1, MaxLogs) ELSE all]
    /\ UNCHANGED <<height, tasks, index>>
ScanBlock ==
    /\ query.pc = "scan" /\ query.next <= query.to
    /\ LET n == query.next
           all == query.result \o (IF n \in DOMAIN index THEN Found(n, query.filter) ELSE <<>>)
       IN query' = IF Len(all) > MaxLogs
                   THEN Refused("logs", query.from, query.to, query.filter)
                   ELSE [query EXCEPT !.next = n + 1, !.result = all]
    /\ UNCHANGED <<height, tasks, index>>

Answer ==
    /\ query.pc = "scan" /\ query.next > query.to
    /\ query' = [query EXCEPT !.pc = "done"]
    /\ UNCHANGED <<height, tasks, index>>

NextQuery ==
    /\ query.pc \in {"done", "refused"}
    /\ query' = Idle
    /\ UNCHANGED <<height, tasks, index>>

Bounds == {{}} \cup {{n} : n \in 0..MaxBlocks}
Next ==
    \/ \E txs \in Proposals : Produce(txs)
    \/ \E n \in DOMAIN tasks : StoreBlock(n) \/ StoreFails(n)
    \/ \E f \in Filters : \/ \E from, to \in Bounds : GetLogs(from, to, f) \/ GrpcGetLogs(from, to, f)
                          \/ \E n \in 1..height : GetLogsOfHash(n, f)
    \/ ScanBlock \/ Answer \/ NextQuery

Spec == Init /\ [][Next]_vars

-----------------------------------------------------------------------------
Wanted(n, f) == {i \in DOMAIN BlockLogs(n) : Matches(BlockLogs(n)[i], f)}

\* An entry of an answer of get_logs names its log: whatever the filter leaves out,
\* its log_index is the position of the log in the block, and the entries come
\* in the order of the chain.
EntriesNameLogs ==
    query.pc = "done" =>
        /\ \A k \in DOMAIN query.result : LET e == query.result[k] IN
             /\ e.block \in query.from..query.to /\ e.block \in DOMAIN index
             /\ BlockLogs(e.block)[e.log_index + 1] = e.log
        /\ \A j, k \in DOMAIN query.result : j < k =>
             LET a == query.result[j]  b == query.result[k] IN
             a.block < b.block \/ (a.block = b.block /\ a.log_index < b.log_index)

\* An answer has every wanted log of the blocks that the index had when the
\* query arrived: nothing is cut off at the limits, the query is refused instead.
NothingLeftOut ==
    query.pc = "done" =>
        \A n \in query.known \cap query.from..query.to : \A i \in Wanted(n, query.filter) :
            \E k \in DOMAIN query.result :
                query.result[k].block = n /\ query.result[k].log_index = i - 1

\* A query is refused for its size only if it asks for more than the limits allow,
\* and answered only if it does not.
LimitsAreExact ==
    LET size == query.to - query.from + 1
        logs == MapThenSumSet(LAMBDA n : Cardinality(Wanted(n, query.filter)),
                              DOMAIN index \cap query.from..query.to)
    IN /\ query.pc = "refused" /\ query.why = "range" => size > MaxRange
       /\ query.pc = "refused" /\ query.why = "logs" => logs > MaxLogs /\ size <= MaxRange
       /\ query.pc = "done" => size <= MaxRange /\ Len(query.result) <= MaxLogs

\* The receipts of a block account for its gas: each adds its own to the
\* cumulative gas of those before it, and the last one's is the gas of the block,
\* which the limit bounds.
GasAddsUp ==
    \A n \in DOMAIN index : LET r == index[n].receipts IN
        /\ \A i \in DOMAIN r : r[i].cumulative_gas_used =
             r[i].gas_used + (IF i = 1 THEN 0 ELSE r[i - 1].cumulative_gas_used)
        /\ index[n].gas_used = (IF r = <<>> THEN 0 ELSE r[Len(r)].cumulative_gas_used)
        /\ index[n].gas_used <= BlockGasLimit

\* A receipt has the gas and the logs of its own transaction ("Gas used by this
\* transaction.", "Logs emitted by this transaction.").
ReceiptIsOwn ==
    \A n \in DOMAIN index : \A i \in DOMAIN index[n].receipts :
        index[n].receipts[i].of = index[n].receipts[i].transaction

\* to_rpc_receipt numbers the logs of a receipt from 0.
ReceiptLogIndex(n, i, k) == k - 1

\* A log has the same index in the receipt of its transaction as in the answer
\* of eth_getLogs: its index in the block.
LogIndexAgrees ==
    \A n \in DOMAIN index : \A i \in DOMAIN index[n].receipts :
        \A k \in DOMAIN index[n].receipts[i].logs :
            LET before == MapThenSumSet(LAMBDA j : Len(index[n].receipts[j].logs), 1..i - 1)
            IN ReceiptLogIndex(n, i, k) = RpcLogs(n)[before + k].log_index
=============================================================================
