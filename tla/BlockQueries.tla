----------------------------- MODULE BlockQueries -----------------------------
(***************************************************************************)
(* eth_getBlockByNumber, eth_getBlockByHash, the two                       *)
(* eth_getBlockTransactionCount calls, eth_getTransactionByHash and        *)
(* eth_getTransactionReceipt, over JSON-RPC and over gRPC, beside a node   *)
(* that stores blocks.  ChainStateProvider puts an answer together from    *)
(* several reads of the index, each of the tables at one moment, and       *)
(* between any two of them a block may be stored, or stored again.  The    *)
(* caches in front of the tables, which have what the tables have as long  *)
(* as no other block takes a number in use, are in ChainIndex.             *)
(***************************************************************************)
EXTENDS Integers, Sequences, FiniteSets, FiniteSetsExt, SequencesExt, TLC

CONSTANTS
    Blocks,    \* blocks that may be stored: records number, hash, txs (a sequence);
               \* no two have a number, a hash or a transaction in common
    Logs,      \* number of logs that each transaction emits
    Requests,
    MaxStores  \* bound on the calls of store_block

None == [number |-> 0, hash |-> 0, txs |-> <<>>]
Number == {b.number : b \in Blocks}
Hash == {b.hash : b \in Blocks}
Tx == UNION {Range(b.txs) : b \in Blocks}

NoRow == [number |-> 0, index |-> 0]

VARIABLES
    blocks,  \* table blocks
    rows,    \* tables transactions and receipts: block number and index of each
    logs,    \* table logs by id: block number, transaction and place in its receipt
    stores,  \* number of calls of store_block
    query    \* what each request is doing

tables == <<blocks, rows, logs, stores>>
vars == <<tables, query>>

Idle == [pc |-> "idle"]

Init ==
    /\ blocks = [n \in Number |-> None] /\ rows = [t \in Tx |-> NoRow] /\ logs = <<>>
    /\ stores = 0 /\ query = [r \in Requests |-> Idle]

Index(b, t) == CHOOSE i \in DOMAIN b.txs : b.txs[i] = t

LogRows(b) == FlattenSeq([i \in DOMAIN b.txs |-> [k \in 1..Logs[b.txs[i]] |-> <<b.number, b.txs[i], k>>]])

LogsAfter(b) == SelectSeq(logs, LAMBDA l : l[1] # b.number) \o LogRows(b)

(* One SQLite transaction, which replaces what the number has. *)
StoreBlock(b) ==
    /\ stores < MaxStores /\ stores' = stores + 1
    /\ blocks' = [blocks EXCEPT ![b.number] = b]
    /\ rows' = [t \in Tx |-> IF t \in Range(b.txs) THEN [number |-> b.number, index |-> Index(b, t)]
                             ELSE IF rows[t].number = b.number THEN NoRow ELSE rows[t]]
    /\ logs' = LogsAfter(b)
    /\ UNCHANGED query

-----------------------------------------------------------------------------
(* The handlers of the servers, up to the call of the provider.            *)

Stored == {n \in Number : blocks[n] # None}
Ask(r, q) == query[r].pc = "idle" /\ query' = [query EXCEPT ![r] = q] /\ UNCHANGED tables
Finish(r, pc, found) == query' = [query EXCEPT ![r] = [@ EXCEPT !.pc = pc, !.block = found]]

\* The number that resolve_block_number makes of a block's name, as an option; the
\* tag "earliest" is the number 0.
Resolve(by) ==
    CASE by = <<"latest">> -> IF Stored = {} THEN {} ELSE {Max(Stored)}
      [] by[1] = "number" -> {by[2]}
      [] OTHER -> {}

BlockQuery(what, by, full, pc) ==
    [pc |-> pc, what |-> what, by |-> by, full |-> full, at |-> Resolve(by), known |-> Stored,
     block |-> None, list |-> <<>>, txs |-> <<>>, count |-> -1]

\* What a handler does first: a hash is looked up by the provider, and there may
\* be no block for a tag.
Start(by) ==
    IF by[1] = "hash" THEN "number" ELSE IF Resolve(by) = {} THEN "refused" ELSE "block"

AskBlock(r, by, full) == Ask(r, BlockQuery("block", by, full, Start(by)))
AskCount(r, by) == Ask(r, BlockQuery("count", by, FALSE, Start(by)))

\* Over gRPC a request may also name no block, which has no answer, or have a
\* hash of the wrong length.
StartGrpc(by) ==
    CASE by = <<"none">> -> "done"
      [] by = <<"hash", 0>> -> "refused"
      [] OTHER -> Start(by)

AskBlockGrpc(r, by, full) == Ask(r, BlockQuery("block", by, full, StartGrpc(by)))
AskCountGrpc(r, by) == Ask(r, BlockQuery("count", by, FALSE, StartGrpc(by)))

TxQuery(what, t) ==
    [pc |-> what, what |-> what, tx |-> t, block |-> None, index |-> 0, logs |-> <<>>]

AskTx(r, what, t) == Ask(r, TxQuery(what, t))

AskTxGrpc(r, what, t) ==
    Ask(r, IF t \in Tx THEN TxQuery(what, t) ELSE [TxQuery(what, t) EXCEPT !.pc = "refused"])

-----------------------------------------------------------------------------
(* The provider, and the index.                                            *)

\* get_block_number, the first half of get_block_by_hash.
FindNumber(r) ==
    /\ query[r].pc = "number"
    /\ LET found == {n \in Number : blocks[n].hash = query[r].by[2]}
       IN query' = [query EXCEPT ![r].pc = IF found = {} THEN "done" ELSE "block", ![r].at = found]
    /\ UNCHANGED tables

FindBlock(r) ==
    /\ query[r].pc = "block"
    /\ LET n == Max(query[r].at)
       IN IF n \in Stored THEN Finish(r, "list", blocks[n]) ELSE Finish(r, "done", None)
    /\ UNCHANGED tables

\* SELECT hash FROM transactions WHERE block_number = ? ORDER BY transaction_index
GetBlockTransactions(n) ==
    SetToSortSeq({t \in Tx : rows[t].number = n}, LAMBDA t, u : rows[t].index < rows[u].index)

ListTxs(r) ==
    /\ query[r].pc = "list"
    /\ LET list == GetBlockTransactions(query[r].block.number)
       IN query' = [query EXCEPT ![r].list = list,
                       ![r].pc = IF query[r].full THEN "txs" ELSE "done",
                       ![r].count = IF query[r].what = "count" THEN Len(list) ELSE -1]
    /\ UNCHANGED tables

\* The row of a transaction joined to the block of its number.
StoredTransaction(t) == [tx |-> t, number |-> rows[t].number, hash |-> blocks[rows[t].number].hash, index |-> rows[t].index]

\* get_transaction for the next hash of the list; one without a row is left out.
GetTx(r) ==
    /\ query[r].pc = "txs"
    /\ LET q == query[r] IN
       query' = [query EXCEPT ![r] =
          IF q.list = <<>> THEN [q EXCEPT !.pc = "done"]
          ELSE [q EXCEPT !.list = Tail(q.list),
                         !.txs = IF rows[Head(q.list)] = NoRow THEN @ ELSE Append(@, StoredTransaction(Head(q.list)))]]
    /\ UNCHANGED tables

GetTransaction(r) ==
    /\ query[r].pc = "tx"
    /\ LET row == rows[query[r].tx]
       IN query' = [query EXCEPT ![r].pc = "done", ![r].index = row.index,
                       ![r].block = IF row = NoRow THEN None ELSE blocks[row.number]]
    /\ UNCHANGED tables

\* The row of a receipt joined to its transaction and to the block.
ReceiptBlock(t) == IF rows[t] = NoRow THEN None ELSE blocks[rows[t].number]

\* get_receipt: the row first,
GetReceipt(r) ==
    /\ query[r].pc = "receipt"
    /\ LET found == ReceiptBlock(query[r].tx)
       IN query' = [query EXCEPT ![r].pc = IF found = None THEN "done" ELSE "logs",
                       ![r].block = found, ![r].index = rows[query[r].tx].index]
    /\ UNCHANGED tables

\* then the logs of the transaction, which the receipt numbers from 0.
LoadLogsForTx(t) == SelectSeq(logs, LAMBDA l : l[2] = t)
ToRpcLogs(list) == [i \in DOMAIN list |-> [log |-> list[i], log_index |-> i - 1]]
LoadLogs(r) ==
    /\ query[r].pc = "logs"
    /\ query' = [query EXCEPT ![r].pc = "done", ![r].logs = ToRpcLogs(LoadLogsForTx(query[r].tx))]
    /\ UNCHANGED tables

Again(r) ==
    /\ query[r].pc \in {"done", "refused"}
    /\ query' = [query EXCEPT ![r] = Idle]
    /\ UNCHANGED tables

Names == {<<"latest">>} \cup {<<"number", n>> : n \in Number \cup {0}} \cup {<<"hash", h>> : h \in Hash}
Next ==
    \/ \E b \in Blocks : StoreBlock(b)
    \/ \E r \in Requests :
        \/ \E by \in Names : AskCount(r, by) \/ \E full \in BOOLEAN : AskBlock(r, by, full)
        \/ \E by \in Names \cup {<<"none">>, <<"hash", 0>>} :
              AskCountGrpc(r, by) \/ \E full \in BOOLEAN : AskBlockGrpc(r, by, full)
        \/ \E what \in {"tx", "receipt"}, t \in Tx : AskTx(r, what, t)
        \/ \E what \in {"tx", "receipt"}, t \in Tx \cup {0} : AskTxGrpc(r, what, t)
        \/ FindNumber(r) \/ FindBlock(r) \/ ListTxs(r) \/ GetTx(r)
        \/ GetTransaction(r) \/ GetReceipt(r) \/ LoadLogs(r) \/ Again(r)

Spec == Init /\ [][Next]_vars

-----------------------------------------------------------------------------
LogsBefore(b, i) == FoldLeft(LAMBDA sum, t : sum + Logs[t], 0, SubSeq(b.txs, 1, i - 1))

(* An answer that names a block is that block, whole: its list of          *)
(* transactions, or their number, is the block's, each full transaction    *)
(* names the block and its own place in it, and a receipt has every log of *)
(* its transaction once and in order, however often the block was stored.  *)
(* If no transaction before it logs anything, the logs of the receipt have *)
(* their place in the block as their index.  A block that was there when   *)
(* its number was resolved is found.                                       *)
AnswersAreWhole ==
    \A r \in Requests : query[r].pc = "done" =>
        LET q == query[r]
            b == q.block
        IN /\ b # None =>
                CASE q.what = "block" /\ q.full ->
                        q.txs = [i \in DOMAIN b.txs |->
                                    [tx |-> b.txs[i], number |-> b.number, hash |-> b.hash, index |-> i]]
                  [] q.what = "block" /\ ~q.full -> q.list = b.txs
                  [] q.what = "count" -> q.count = Len(b.txs)
                  [] q.what = "tx" -> b.txs[q.index] = q.tx
                  [] q.what = "receipt" ->
                        /\ b.txs[q.index] = q.tx
                        /\ Len(q.logs) = Logs[q.tx]
                        /\ \A k \in DOMAIN q.logs :
                             /\ q.logs[k].log = <<b.number, q.tx, k>>
                             /\ LogsBefore(b, q.index) = 0 => q.logs[k].log_index = k - 1
           /\ q.what \in {"block", "count"} /\ q.by[1] # "hash" =>
                (b = None => q.by = <<"none">> \/ q.at \cap q.known = {})

(* The index of a log in a receipt is its place in the block ("Log index   *)
(* in block"), the one that eth_getLogs tells.                             *)
LogIndexInBlock ==
    \A r \in Requests : query[r].pc = "done" /\ query[r].what = "receipt" /\ query[r].block # None =>
        \A k \in DOMAIN query[r].logs :
            query[r].logs[k].log_index = LogsBefore(query[r].block, query[r].index) + k - 1
=============================================================================
