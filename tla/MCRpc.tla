--------------------------------- MODULE MCRpc ---------------------------------
(***************************************************************************)
(* What a node answers and announces, in eight parts.  "lookups" is        *)
(* ChainIndex with two blocks stored in any order and two readers,         *)
(* "restarts" the same with three blocks stored in order, one reader and   *)
(* restarts; "blocks" is BlockQueries, "logs" LogQueries, "state"          *)
(* and "modules" StateQueries, "subscriptions" Subscriptions, "wire" Wire. *)
(* A behaviour belongs to one part.                                        *)
(***************************************************************************)
EXTENDS ChainIndex

CONSTANTS r1, r2

B(n, h, txs) == [number |-> n, hash |-> h, txs |-> txs]

Chain == {B(1, 11, {}), B(2, 12, {21})}

Restarts == INSTANCE ChainIndex WITH
    Block <- Chain \cup {B(3, 13, {22, 23})}, Reader <- {r1}, InOrder <- TRUE, MayRestart <- TRUE

-----------------------------------------------------------------------------
(* A block with two transactions, an empty one and one with a single       *)
(* transaction; the first transaction of the first block logs twice.       *)
VARIABLES block_table, rows, log_table, stores, lookup

lookups == <<block_table, rows, log_table, stores, lookup>>

K == INSTANCE BlockQueries WITH
    Blocks <- {B(1, 11, <<22, 21>>), B(2, 12, <<>>), B(3, 13, <<23>>)},
    Logs <- [t \in 21..23 |-> IF t = 22 THEN 2 ELSE 1],
    Requests <- {1}, MaxStores <- 4,
    blocks <- block_table, logs <- log_table, query <- lookup

-----------------------------------------------------------------------------
(* Kinds of transactions for LogQueries: the first uses less than its      *)
(* limit and logs twice, the second logs nothing, the third is large.      *)
L(a, t) == [address |-> a, topics |-> <<t>>]

VARIABLES part, log_height, log_tasks, log_index, query

logs == <<log_height, log_tasks, log_index, query>>

Q == INSTANCE LogQueries WITH
    Limit <- <<2, 1, 3>>,
    Outcome <- <<[gas |-> 1, logs |-> <<L("a", "s"), L("b", "t")>>],
                 [gas |-> 1, logs |-> <<>>],
                 [gas |-> 3, logs |-> <<L("b", "t")>>]>>,
    Proposals <- {<<>>, <<1, 2, 1>>, <<3, 2>>}, BlockGasLimit <- 4,
    Filters <- {[addresses |-> {}, topics |-> <<>>],
                [addresses |-> {{"b"}}, topics |-> <<{{"t"}}>>],
                [addresses |-> {{"invalid"}}, topics |-> <<{{"s", "invalid"}}>>]},
    Invalid <- "invalid", MaxBlocks <- 3, MaxRange <- 2, MaxLogs <- 4,
    height <- log_height, tasks <- log_tasks, index <- log_index

-----------------------------------------------------------------------------
VARIABLES
    height, storage, tasks, index, cached, raced, request,
    module_ids_cache, module_schema_cache, all_schemas_cache

state == <<height, storage, tasks, index, cached, raced, request,
           module_ids_cache, module_schema_cache, all_schemas_cache>>

S == INSTANCE StateQueries WITH
    Requests <- {1}, Kinds <- {"balance", "nonce", "code", "call"}, MaxBlocks <- 2, HasQuerier <- TRUE,
    Identifiers <- <<"eoa">>, Asked <- {}, MayFail <- FALSE

\* A provider without a querier, asked by two clients for its modules.
M == INSTANCE StateQueries WITH
    Requests <- {1, 2}, Kinds <- {"balance", "modules", "schema", "schemas"}, MaxBlocks <- 1, HasQuerier <- FALSE,
    Identifiers <- <<"eoa", "token">>, Asked <- {"eoa", "token", "unknown"}, MayFail <- TRUE

-----------------------------------------------------------------------------
VARIABLES log, subscriptions, next_id, id, phase, open, filter, next, got, lagged, accepted, first

subscribers == <<log, subscriptions, next_id, id, phase, open, filter, next, got, lagged, accepted, first>>

U == INSTANCE Subscriptions WITH
    JsonClients <- {"j1"}, GrpcClients <- {"g1"},
    Logs <- {[address |-> "a", topics |-> <<"t">>], [address |-> "a", topics |-> <<>>]},
    Filters <- {[addresses |-> {{"a"}}, topics |-> <<{{"t"}}>>],
                [addresses |-> {{}}, topics |-> <<>>],
                [addresses |-> {{"invalid"}}, topics |-> <<{}, {{"t"}}>>]},
    Invalid <- "invalid", Capacity <- 2, MaxPublished <- 3

-----------------------------------------------------------------------------
(* Numbers at the edges of seven bits, the width of a u64 here: prices and  *)
(* amounts that do not fit in it, a chain id whose v does not, a creation.  *)
VARIABLES wire_sent, wire_contexts, wire_phase, wire_effects, wire_cache, wire_db, wire_header, wire_answer

journey == <<wire_sent, wire_contexts, wire_phase, wire_effects, wire_cache, wire_db, wire_header, wire_answer>>

Legacy ==
    [kind |-> "legacy", signer |-> <<"key", "alice">>, nonce |-> 0, to |-> <<<<"key", "bob">>>>,
     value |-> 0, gas_limit |-> 1, input |-> "input", chain_id |-> <<60>>, gas_price |-> 5,
     max_fee |-> 0, max_priority |-> 0, r |-> 1, s |-> 1, y_parity |-> 0]
Eip1559 == [Legacy EXCEPT !.kind = "eip1559", !.max_fee = 3]
Signed(e) == [form |-> "envelope", signed |-> e]
Moved(topic, contents) == [source |-> <<"own", "acct", "dave">>, name |-> topic, contents |-> contents]

W == INSTANCE Wire WITH
    Bits <- 7, MaxTxs <- 2, BaseFee <- 0, ChainId <- 60,
    Sent <- {Signed(Legacy), Signed([Legacy EXCEPT !.chain_id = <<>>, !.y_parity = 1, !.nonce = 127]),
             Signed([Legacy EXCEPT !.chain_id = <<40>>, !.to = <<>>]),
             Signed([Legacy EXCEPT !.chain_id = <<40>>, !.y_parity = 1, !.gas_price = 16383]),
             Signed([Eip1559 EXCEPT !.max_fee = 16383, !.max_priority = 7, !.y_parity = 1,
                                    !.value = 2^28 - 1, !.gas_limit = 64]),
             Signed([Eip1559 EXCEPT !.max_priority = 16383, !.r = 2^27, !.s = 127]),
             [form |-> "intent", signed |-> [Eip1559 EXCEPT !.nonce = 2],
              account |-> <<"own", "acct", "carol">>, key |-> <<>>],
             [form |-> "payload", meta |->
                [tx_hash |-> <<<<[kind |-> "chosen"]>>>>, gas_limit |-> 2, nonce |-> 1, chain_id |-> <<>>,
                 effective_gas_price |-> 3, invoke_request |-> "request", funds |-> <<3, 4>>,
                 sender_account |-> <<"own", "acct", "carol">>,
                 recipient_account |-> <<<<"own", "acct", "dave">>>>, sender_key |-> <<"key">>,
                 authentication_payload |-> "proof", sender_eth_address |-> <<>>,
                 recipient_eth_address |-> <<>>]]},
    Effects <- {[error |-> <<>>, gas_used |-> 1, events |-> <<Moved("moved", <<"data">>), Moved("kept", <<>>)>>],
                [error |-> <<"out of gas">>, gas_used |-> 63, events |-> <<>>]},
    Metas <- {[number |-> 1, hash |-> <<"block">>, parent_hash |-> <<"parent">>, state_root |-> <<"root">>,
               timestamp |-> 127, gas_limit |-> 126, miner |-> <<"zero", "">>, extra_data |-> ""]},
    sent <- wire_sent, contexts <- wire_contexts, phase <- wire_phase, effects <- wire_effects,
    cache <- wire_cache, db <- wire_db, header <- wire_header, answer <- wire_answer

-----------------------------------------------------------------------------
MCInit ==
    /\ K!Init /\ Q!Init /\ U!Init /\ W!Init
    /\ \/ part \in {"lookups", "blocks", "logs", "state", "subscriptions", "wire"} /\ Init /\ S!Init
       \/ part = "restarts" /\ Restarts!Init /\ S!Init
       \/ part = "modules" /\ Init /\ M!Init

MCNext ==
    /\ UNCHANGED part
    /\ \/ part = "lookups" /\ Next /\ UNCHANGED <<lookups, logs, state, subscribers, journey>>
       \/ part = "restarts" /\ Restarts!Next /\ UNCHANGED <<lookups, logs, state, subscribers, journey>>
       \/ part = "blocks" /\ K!Next /\ UNCHANGED <<vars, logs, state, subscribers, journey>>
       \/ part = "logs" /\ Q!Next /\ UNCHANGED <<vars, lookups, state, subscribers, journey>>
       \/ part = "state" /\ S!Next /\ UNCHANGED <<vars, lookups, logs, subscribers, journey>>
       \/ part = "modules" /\ M!Next /\ UNCHANGED <<vars, lookups, logs, subscribers, journey>>
       \/ part = "subscriptions" /\ U!Next /\ UNCHANGED <<vars, lookups, logs, state, journey>>
       \/ part = "wire" /\ W!Next /\ UNCHANGED <<vars, lookups, logs, state, subscribers>>

all == <<part, vars, lookups, logs, state, subscribers, journey>>
MCSpec == MCInit /\ [][MCNext]_all

(* The readers of the index are not told apart where there are two.        *)
Interchangeable == Permutations({r1, r2})

\* A request about the modules runs on as long as no lock keeps it.
ModulesSpec ==
    /\ MCInit /\ part = "modules" /\ [][MCNext]_all
    /\ \A r \in {1, 2} : WF_all(M!Introspect(r) /\ UNCHANGED <<part, vars, lookups, logs, subscribers, journey>>)

-----------------------------------------------------------------------------
(* A lookup answers with what was asked for, finds every block whose       *)
(* store_block returned before it began, and names only what is in the     *)
(* database, so that a restart takes nothing back.  If blocks are stored   *)
(* in the order of their numbers, the latest block is the highest one      *)
(* stored, over restarts too.  A block, a count, a transaction or a        *)
(* receipt that is put together from several reads is that of one stored   *)
(* block, whole, while blocks are stored and stored again.  A transaction  *)
(* that goes to the sequencer and back is as it was, and what a client     *)
(* reads of it over either wire, from memory or from the database, is what *)
(* was signed and what its execution did, but for the index of its logs,   *)
(* which is the one in the block only where no earlier transaction has     *)
(* logs; an error blames the request, the absence of a thing or the node   *)
(* alike over both.                                                        *)
IndexAnswers ==
    /\ part = "lookups" => TypeOK /\ AnswerFits /\ StoredIsFound /\ AnswersAreStored
    /\ part = "restarts" => Restarts!AnswersAreStored /\ Restarts!LatestIsMax
    /\ part = "blocks" => K!AnswersAreWhole
    /\ W!ContextsSurvive /\ W!ToldAsExecuted /\ W!BlamedAlike

(* An answer of get_logs has every wanted log of the blocks the index had  *)
(* when the query arrived, each under its position in its block and in the *)
(* order of the chain; a query is refused for its size only if it asks for *)
(* more than the limits allow; and the receipts of an indexed block add up *)
(* to its gas.                                                             *)
LogsAnswered == Q!NothingLeftOut /\ Q!EntriesNameLogs /\ Q!LimitsAreExact /\ Q!GasAddsUp

(* A state query is answered from values at least as new as the block for  *)
(* which it is answered, but for those that are in the storage's cache     *)
(* because of a read that a commit overtook.  That block is at least as    *)
(* new as the latest one when the query was made, and the one it names if  *)
(* it names a number.  The name of a block and the fields of a call mean   *)
(* the same over both wires.  Whoever filled the caches of the modules and *)
(* wherever that failed, a client is told all the identifiers and schemas, *)
(* in their order.                                                         *)
NotOlder ==
    /\ W!AskedAlike
    /\ part # "modules" => S!NotOlder
    /\ part = "modules" => M!NotOlder /\ M!SchemasAgree

(* Whoever calls evolve_listModules, evolve_getModuleSchema or             *)
(* evolve_getAllSchemas is answered ("Returns schemas for all registered   *)
(* modules.").                                                             *)
ModulesAnswered == M!ModulesAnswered

(* A subscriber that was never told it lags has received every log its     *)
(* filter asks for among those its receiver went past; logs come in the    *)
(* order of publication, each at most once, and none that was published    *)
(* before the call returned or that the filter does not ask for.           *)
Delivered == U!OnlyLagLoses /\ U!DeliveredInOrder /\ U!OnlyAskedFor
=============================================================================
