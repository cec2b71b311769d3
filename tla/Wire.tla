--------------------------------- MODULE Wire ---------------------------------
(***************************************************************************)
(* What becomes of a transaction's fields, from the signature to the       *)
(* clients: TxEnvelope and TxContext (tx/eth/src), the records that        *)
(* build_index_data makes of an executed block, the columns of SQLite      *)
(* (chain-index/src), the types of the RPC (rpc/types), and the two forms  *)
(* in which a client gets them, JSON and protobuf (rpc/grpc/src).          *)
(*                                                                         *)
(* Numbers have their widths, scaled by Bits; an option is a sequence of   *)
(* at most one element.  An address is a pair, an account id a triple and  *)
(* a 32-byte hash a sequence of length one, with its preimage, so that a   *)
(* length tells them apart as it does in the code.                         *)
(***************************************************************************)
EXTENDS Integers, Sequences, FiniteSets, FiniteSetsExt, SequencesExt, Functions, TLC

CONSTANTS
    Bits,      \* of a u64; a u128 has twice and a U256 four times as many
    Sent,      \* what clients send: see Received
    Effects,   \* what the execution of a transaction may do: ok, gas_used, events
    Metas,     \* the metadata of blocks
    MaxTxs,    \* bound on the transactions of a block
    BaseFee,   \* of the gateway
    ChainId

U64 == 2 ^ Bits
U128 == U64 * U64
Lower(a, b) == IF a < b THEN a ELSE b
MapOption(F(_), o) == [i \in DOMAIN o |-> F(o[i])]

keccak256(x) == <<x>>
derive_eth_eoa_account_id(address) == <<"eoa">> \o address
derive_runtime_contract_address(account) == <<"runtime", account>>
Invalid == <<"invalid", "", "">>    \* AccountId::invalid

-----------------------------------------------------------------------------
(* Envelopes.  What a sender signs is a record kind, signer, nonce, to,    *)
(* value, gas_limit, input, chain_id, gas_price, max_fee, max_priority, r, *)
(* s and y_parity; only the kind eip1559 has a type byte in front.         *)

EncodeEnvelope(e) == IF e.kind = "eip1559" THEN <<"0x02", e>> ELSE <<e>>
DecodeEnvelope(bytes) ==
    CASE Len(bytes) = 1 -> {Last(bytes)}
      [] Len(bytes) = 2 /\ Head(bytes) = "0x02" -> {Last(bytes)}
      [] OTHER -> {}

\* The methods of TypedTransaction; the hash is that of the bytes it came in.
Methods(e) ==
    [sender |-> e.signer, tx_hash |-> keccak256(EncodeEnvelope(e)),
     to_invoke_requests |-> IF e.to = <<>> THEN <<>> ELSE <<e.input>>]
    @@ [f \in {"gas_limit", "nonce", "to", "value", "input"} |-> e[f]]
SignedLegacyTx(e) == Methods(e) @@ [tx_type |-> 0, chain_id |-> e.chain_id]
SignedEip1559Tx(e) == Methods(e) @@ [tx_type |-> 2, chain_id |-> <<e.chain_id[1]>>]
TypedTransaction(e) == IF e.kind = "legacy" THEN SignedLegacyTx(e) ELSE SignedEip1559Tx(e)

calculate_effective_gas_price(e, base_fee) ==
    IF e.kind = "legacy" THEN e.gas_price
    ELSE Lower(e.max_fee, Lower(base_fee + e.max_priority, U128 - 1))

-----------------------------------------------------------------------------
(* Contexts, each as an option.                                            *)

ContextNew(e, base_fee) ==
    LET t == TypedTransaction(e) IN
    IF t.to = <<>> THEN <<>> ELSE
    <<[payload |-> [kind |-> "envelope", bytes |-> EncodeEnvelope(e)], sender_type |-> "eoa",
       invoke_request |-> Head(t.to_invoke_requests),
       effective_gas_price |-> calculate_effective_gas_price(e, base_fee),
       sender_resolution |-> [address |-> t.sender], recipient_resolution |-> [address |-> t.to[1]],
       sender_key |-> t.sender, authentication_payload |-> t.sender,
       sender_eth_address |-> <<t.sender>>, recipient_eth_address |-> t.to, funds |-> <<>>]
      @@ [f \in {"tx_hash", "gas_limit", "nonce", "chain_id"} |-> t[f]]>>

Resolution(sender_type, address, account) ==
    IF sender_type = "eoa" THEN [address |-> address[1]] ELSE [account |-> account]
RecipientResolution(account, address) ==
    CASE account # <<>> -> [account |-> account[1]]
      [] account = <<>> /\ address # <<>> -> [address |-> address[1]]
      [] OTHER -> [none |-> "none"]

\* meta has, beside fields of a context, sender_account and recipient_account.
FromPayload(payload, sender_type, meta) ==
    IF sender_type = "eoa" /\ meta.sender_eth_address = <<>> THEN <<>> ELSE
    LET resolution == Resolution(sender_type, meta.sender_eth_address, meta.sender_account)
        key == IF meta.sender_key # <<>> THEN meta.sender_key
               ELSE resolution[CHOOSE f \in DOMAIN resolution : TRUE]
    IN <<[payload |-> payload, sender_type |-> sender_type, sender_resolution |-> resolution,
          recipient_resolution |-> RecipientResolution(meta.recipient_account, meta.recipient_eth_address),
          sender_key |-> key]
         @@ [f \in DOMAIN meta \ {"sender_account", "recipient_account"} |-> meta[f]]>>

FromEthIntent(sender_type, intent, sender_account, sender_key, proof, base_fee) ==
    IF \E e \in DecodeEnvelope(intent.envelope) : e.to # <<>> THEN
        LET e == CHOOSE x \in DecodeEnvelope(intent.envelope) : TRUE
            t == TypedTransaction(e)
        IN FromPayload([kind |-> "custom", bytes |-> <<intent>>], sender_type,
             [tx_hash |-> keccak256(<<intent>>), gas_limit |-> t.gas_limit, nonce |-> t.nonce,
              chain_id |-> t.chain_id,
              effective_gas_price |-> calculate_effective_gas_price(e, base_fee),
              invoke_request |-> Head(t.to_invoke_requests), funds |-> <<>>,
              sender_account |-> sender_account, recipient_account |-> <<>>,
              sender_key |-> sender_key, authentication_payload |-> proof,
              sender_eth_address |-> <<>>, recipient_eth_address |-> t.to])
    ELSE <<>>

\* Transaction::sender, and recipient.
Account(resolution) ==
    CASE DOMAIN resolution = {"address"} -> derive_eth_eoa_account_id(resolution.address)
      [] DOMAIN resolution = {"account"} -> resolution.account
      [] OTHER -> Invalid

Resolutions == {"sender_resolution", "recipient_resolution"}
EncodeContext(c) ==
    IF c.payload.kind = "envelope" THEN c.payload.bytes
    ELSE <<"magic", "v1", [f \in DOMAIN c \ Resolutions |-> c[f]]
             @@ [sender_account |-> Account(c.sender_resolution),
                 recipient_account |-> IF DOMAIN c.recipient_resolution = {"account"}
                                       THEN <<c.recipient_resolution.account>> ELSE <<>>]>>

is_wire_encoded(bytes) == Len(bytes) = 3 /\ Head(bytes) = "magic"

\* As an option; a sender key fits in 32 bytes.
DecodeContext(bytes) ==
    IF is_wire_encoded(bytes) THEN
        LET wire == Last(bytes) IN
        IF wire.sender_type = "eoa" /\ wire.sender_eth_address = <<>> THEN <<>>
        ELSE <<[f \in DOMAIN wire \ {"sender_account", "recipient_account"} |-> wire[f]]
               @@ [sender_resolution |->
                     Resolution(wire.sender_type, wire.sender_eth_address, wire.sender_account),
                   recipient_resolution |->
                     RecipientResolution(wire.recipient_account, wire.recipient_eth_address)]>>
    ELSE ContextNew(CHOOSE e \in DecodeEnvelope(bytes) : TRUE, 0)

\* The bytes that a client sends.
Bytes(s) ==
    CASE s.form = "envelope" -> EncodeEnvelope(s.signed)
      [] s.form = "intent" -> EncodeContext(Head(
            FromEthIntent("custom", [envelope |-> EncodeEnvelope(s.signed), proof |-> "proof"],
                          s.account, s.key, "proof", BaseFee)))
      [] s.form = "payload" -> EncodeContext(Head(
            FromPayload([kind |-> "custom", bytes |-> <<"opaque">>], "custom", s.meta)))

\* What the gateway makes of them: Ingress has its other checks.
Received(bytes) ==
    IF is_wire_encoded(bytes) THEN SelectSeq(DecodeContext(bytes), LAMBDA c : c.chain_id \in {<<>>, <<ChainId>>})
    ELSE LET e == CHOOSE x \in DecodeEnvelope(bytes) : TRUE
         IN IF TypedTransaction(e).chain_id = <<ChainId>> THEN ContextNew(e, BaseFee) ELSE <<>>

-----------------------------------------------------------------------------
(* Records of the index: fields with their classes, and which are options. *)

BlockClass ==
    [number |-> "u64", hash |-> "b256", parent_hash |-> "b256", state_root |-> "b256",
     transactions_root |-> "b256", receipts_root |-> "b256", timestamp |-> "u64",
     gas_used |-> "u64", gas_limit |-> "u64", transaction_count |-> "u64", miner |-> "address",
     extra_data |-> "bytes"]
TransactionClass ==
    [hash |-> "b256", block_number |-> "u64", block_hash |-> "b256", transaction_index |-> "u64",
     from |-> "address", to |-> "address", value |-> "u256", gas |-> "u64", gas_price |-> "u256",
     input |-> "bytes", nonce |-> "u64", v |-> "u64", r |-> "u256", s |-> "u256", tx_type |-> "u64",
     chain_id |-> "u64", max_fee_per_gas |-> "u256", max_priority_fee_per_gas |-> "u256"]
ReceiptClass ==
    [transaction_hash |-> "b256", transaction_index |-> "u64", block_hash |-> "b256",
     block_number |-> "u64", from |-> "address", to |-> "address", cumulative_gas_used |-> "u64",
     gas_used |-> "u64", effective_gas_price |-> "u256", contract_address |-> "address",
     status |-> "u64", tx_type |-> "u64", revert_reason |-> "bytes"]
LogClass == [address |-> "address", topics |-> "bytes", data |-> "bytes"]
StoredOptions ==
    {"to", "chain_id", "max_fee_per_gas", "max_priority_fee_per_gas", "contract_address", "revert_reason"}

legacy_signature_v(y_parity, chain_id) ==
    IF chain_id = <<>> THEN 27 + y_parity
    ELSE Lower(35 + Lower(2 * chain_id[1], U64 - 1) + y_parity, U64 - 1)

\* As an option: only a context with an envelope has them.
ethereum_tx_fields(c) ==
    IF c.payload.kind = "custom" THEN <<>> ELSE
    LET e == CHOOSE x \in DecodeEnvelope(c.payload.bytes) : TRUE
        legacy == e.kind = "legacy"
    IN <<[gas_price |-> c.effective_gas_price, r |-> e.r, s |-> e.s,
          v |-> IF legacy THEN legacy_signature_v(e.y_parity, e.chain_id) ELSE e.y_parity,
          max_fee_per_gas |-> IF legacy THEN <<>> ELSE <<e.max_fee>>,
          max_priority_fee_per_gas |-> IF legacy THEN <<>> ELSE <<e.max_priority>>]
         @@ [f \in {"value", "input", "nonce", "chain_id", "tx_type"} |-> TypedTransaction(e)[f]]>>

account_id_to_address(account) == derive_runtime_contract_address(account)
resolve_sender_address(c) ==
    IF c.sender_eth_address # <<>> THEN c.sender_eth_address[1]
    ELSE account_id_to_address(Account(c.sender_resolution))
resolve_recipient_address(c) ==
    IF c.recipient_eth_address # <<>> THEN c.recipient_eth_address
    ELSE LET account == Account(c.recipient_resolution)
         IN IF account = Invalid THEN <<>> ELSE <<account_id_to_address(account)>>

build_stored_transaction(c, meta, index) ==
    LET fields == ethereum_tx_fields(c) IN
    [hash |-> c.tx_hash, block_number |-> meta.number, block_hash |-> meta.hash,
     transaction_index |-> index, from |-> resolve_sender_address(c),
     to |-> resolve_recipient_address(c), gas |-> c.gas_limit]
    @@ (IF fields # <<>> THEN fields[1]
        ELSE [value |-> FoldLeft(LAMBDA sum, amount : sum + amount, 0, c.funds), gas_price |-> 0,
              input |-> c.invoke_request, nonce |-> 0, v |-> 0, r |-> 0, s |-> 0, tx_type |-> 0,
              chain_id |-> <<ChainId>>, max_fee_per_gas |-> <<>>, max_priority_fee_per_gas |-> <<>>])

\* The contents of an event are an option: they may fail to encode.
event_to_stored_log(event) ==
    [address |-> account_id_to_address(event.source), topics |-> <<keccak256(event.name)>>,
     data |-> IF event.contents = <<>> THEN "" ELSE event.contents[1]]

build_stored_receipt(c, effect, meta, index, cumulative) ==
    LET fields == ethereum_tx_fields(c) IN
    [transaction_hash |-> c.tx_hash, transaction_index |-> index, block_hash |-> meta.hash,
     block_number |-> meta.number, from |-> resolve_sender_address(c),
     to |-> resolve_recipient_address(c), cumulative_gas_used |-> cumulative,
     gas_used |-> effect.gas_used,
     effective_gas_price |-> IF fields = <<>> THEN 0 ELSE fields[1].gas_price,
     contract_address |-> <<>>,
     logs |-> [i \in DOMAIN effect.events |-> event_to_stored_log(effect.events[i])],
     status |-> IF effect.error = <<>> THEN 1 ELSE 0,
     tx_type |-> IF fields = <<>> THEN 0 ELSE fields[1].tx_type,
     revert_reason |-> effect.error]

GasOf(effects, n) == FoldLeft(LAMBDA sum, e : sum + e.gas_used, 0, SubSeq(effects, 1, n))

compute_tx_root(txs) == IF txs = <<>> THEN <<0>> ELSE <<[i \in DOMAIN txs |-> txs[i].hash]>>
compute_receipts_root(receipts) ==
    IF receipts = <<>> THEN <<0>>
    ELSE <<[i \in DOMAIN receipts |->
             <<receipts[i].transaction_hash, receipts[i].status, receipts[i].gas_used>>]>>

\* Every transaction of the block has a result.
build_index_data(contexts, effects, meta) ==
    LET txs == [i \in DOMAIN contexts |-> build_stored_transaction(contexts[i], meta, i - 1)]
        receipts == [i \in DOMAIN contexts |->
            build_stored_receipt(contexts[i], effects[i], meta, i - 1, GasOf(effects, i))]
    IN [txs |-> txs, receipts |-> receipts,
        block |-> [transactions_root |-> compute_tx_root(txs),
                   receipts_root |-> compute_receipts_root(receipts),
                   gas_used |-> GasOf(effects, Len(effects)), transaction_count |-> Len(txs)]
                  @@ meta]

-----------------------------------------------------------------------------
(* Columns.  A u64 is kept as an i64, a U256 as its bytes.                 *)

u256_to_be_bytes(n) == [i \in 1..4 |-> (n \div U64 ^ (4 - i)) % U64]
from_be_slice(bytes) == FoldLeft(LAMBDA n, b : n * U64 + b, 0, bytes)
ToColumn(class, v) ==
    CASE class = "u64" -> IF v >= U64 \div 2 THEN v - U64 ELSE v
      [] class = "u256" -> u256_to_be_bytes(v)
      [] OTHER -> v

\* As a set that is empty if the column does not have the right length.
b256_from_row(bytes) == IF Len(bytes) = 1 THEN {bytes} ELSE {}
address_from_row(bytes) == IF Len(bytes) = 2 THEN {bytes} ELSE {}
FromColumn(class, c) ==
    CASE class = "u64" -> {IF c < 0 THEN c + U64 ELSE c}
      [] class = "u256" -> {from_be_slice(c)}
      [] class = "b256" -> b256_from_row(c)
      [] class = "address" -> address_from_row(c)
      [] class = "bytes" -> {c}

Row(class, columns, record) ==
    [f \in columns |-> IF f \in StoredOptions THEN MapOption(LAMBDA v : ToColumn(class[f], v), record[f])
                       ELSE ToColumn(class[f], record[f])]
Fields(class, row) ==
    LET parsed == [f \in DOMAIN row |->
            IF f \notin StoredOptions THEN FromColumn(class[f], row[f])
            ELSE IF row[f] = <<>> THEN {<<>>}
            ELSE {<<v>> : v \in FromColumn(class[f], row[f][1])}]
    IN IF \E f \in DOMAIN row : parsed[f] = {} THEN {}
       ELSE {[f \in DOMAIN row |-> CHOOSE v \in parsed[f] : TRUE]}

\* The hash of the block is not kept with a transaction or a receipt, nor the
\* price with the receipt; the array index is the transaction's.
insert_block(b) == Row(BlockClass, DOMAIN BlockClass, b)
insert_transaction(t, index) ==
    Row(TransactionClass, DOMAIN TransactionClass \ {"block_hash"}, [t EXCEPT !.transaction_index = index])
insert_receipt(r, index) ==
    Row(ReceiptClass, DOMAIN ReceiptClass \ {"block_hash", "effective_gas_price"},
        [r EXCEPT !.transaction_index = index])
insert_log(tx_hash, l) == [transaction_hash |-> tx_hash] @@ Row(LogClass, DOMAIN LogClass, l)

Database(data) ==
    [block |-> insert_block(data.block),
     txs |-> [i \in DOMAIN data.txs |-> insert_transaction(data.txs[i], i - 1)],
     receipts |-> [i \in DOMAIN data.receipts |-> insert_receipt(data.receipts[i], i - 1)],
     logs |-> FlattenSeq([i \in DOMAIN data.receipts |->
                [k \in DOMAIN data.receipts[i].logs |->
                    insert_log(data.receipts[i].transaction_hash, data.receipts[i].logs[k])]])]

\* As sets that are empty if a row cannot be read.
row_to_stored_block(d) == Fields(BlockClass, d.block)
row_to_stored_transaction(d, i) == Fields(TransactionClass, d.txs[i] @@ [block_hash |-> d.block.hash])
parse_stored_log(row) == Fields(LogClass, [f \in DOMAIN LogClass |-> row[f]])
load_logs_for_tx(d, hash) ==
    LET own == SelectSeq(d.logs, LAMBDA l : l.transaction_hash = hash)
    IN [k \in DOMAIN own |-> CHOOSE l \in parse_stored_log(own[k]) : TRUE]
row_to_stored_receipt(d, i) ==
    {r @@ [logs |-> load_logs_for_tx(d, r.transaction_hash)] :
        r \in Fields(ReceiptClass, d.receipts[i] @@ [block_hash |-> d.block.hash,
                                                     effective_gas_price |-> d.txs[i].gas_price])}

-----------------------------------------------------------------------------
(* The types of the RPC.                                                   *)

RpcOptions == StoredOptions \cup {"gas_price", "access_list", "base_fee_per_gas", "withdrawals"}
RpcClass ==
    [base_fee_per_gas |-> "u256", difficulty |-> "u256", total_difficulty |-> "u256", size |-> "u64",
     sha3_uncles |-> "b256", logs_bloom |-> "bytes", access_list |-> "bytes", withdrawals |-> "bytes",
     log_index |-> "u64", removed |-> "bytes"]
    @@ TransactionClass @@ ReceiptClass @@ BlockClass @@ LogClass

to_rpc_transaction(t) == [t EXCEPT !.gas_price = <<@>>] @@ [access_list |-> <<>>]

to_rpc_log(l, r, index) ==
    l @@ [f \in {"block_number", "block_hash", "transaction_hash", "transaction_index"} |-> r[f]]
      @@ [log_index |-> index, removed |-> "false"]

to_rpc_receipt(r) ==
    [r EXCEPT !.logs = [k \in DOMAIN r.logs |-> to_rpc_log(r.logs[k], r, k - 1)]] @@ [logs_bloom |-> ""]

\* txs are hashes, or transactions if full.
to_rpc_block(b, full, txs) ==
    [f \in DOMAIN b \ {"transaction_count"} |-> b[f]]
    @@ [nonce |-> 0, sha3_uncles |-> keccak256("empty list"), logs_bloom |-> "", difficulty |-> 0,
        total_difficulty |-> 0, size |-> 0, base_fee_per_gas |-> <<0>>, withdrawals |-> <<>>]
    @@ [full |-> full, transactions |-> txs]

-----------------------------------------------------------------------------
(* JSON: numbers are hexadecimal without leading zeros, and the keys of    *)
(* options that are None are left out.  Records inside records apart.      *)

Nested == {"logs", "transactions", "full"}
Quantity(n) ==
    LET k == CHOOSE d \in 1..Bits : n < 16 ^ d /\ (d = 1 \/ n >= 16 ^ (d - 1))
    IN [i \in 1..k |-> (n \div 16 ^ (k - i)) % 16]
Present(record) == {f \in DOMAIN record \ Nested : f \in RpcOptions => record[f] # <<>>}
Inner(record, f) == IF f \in RpcOptions THEN record[f][1] ELSE record[f]

ToJson(record) ==
    [f \in Present(record) |-> IF RpcClass[f] \in {"u64", "u256"} THEN Quantity(Inner(record, f))
                               ELSE Inner(record, f)]
FromJson(object, f) ==
    LET value == IF RpcClass[f] \in {"u64", "u256"} THEN FoldLeft(LAMBDA n, d : 16 * n + d, 0, object[f])
                 ELSE object[f]
    IN IF f \in RpcOptions THEN <<value>> ELSE value

-----------------------------------------------------------------------------
(* Protobuf.                                                               *)

b256_to_proto(v) == [data |-> v]
address_to_proto(v) == [data |-> v]
u256_to_proto(n) == [data |-> u256_to_be_bytes(n)]
proto_to_b256(p) == IF Len(p.data) = 1 THEN <<p.data>> ELSE <<>>
proto_to_address(p) == IF Len(p.data) = 2 THEN <<p.data>> ELSE <<>>
proto_to_u256(p) == IF p.data = <<>> THEN 0 ELSE from_be_slice(p.data)

ToProto(record, fields) ==
    [f \in fields \cap Present(record) |->
        CASE RpcClass[f] = "b256" -> b256_to_proto(Inner(record, f))
          [] RpcClass[f] = "address" -> address_to_proto(Inner(record, f))
          [] RpcClass[f] = "u256" -> u256_to_proto(Inner(record, f))
          [] OTHER -> Inner(record, f)]
FromProto(message, f) ==
    LET value == CASE RpcClass[f] = "b256" -> proto_to_b256(message[f])[1]
                   [] RpcClass[f] = "address" -> proto_to_address(message[f])[1]
                   [] RpcClass[f] = "u256" -> proto_to_u256(message[f])
                   [] OTHER -> message[f]
    IN IF f \in RpcOptions THEN <<value>> ELSE value

rpc_block_to_header(b) ==
    ToProto(b, {"number", "hash", "parent_hash", "state_root", "transactions_root", "receipts_root",
                "miner", "gas_limit", "gas_used", "timestamp", "extra_data", "base_fee_per_gas",
                "logs_bloom", "size"})
rpc_transaction_to_proto(t) == ToProto(t, DOMAIN t)
rpc_log_to_proto(l) == ToProto(l, DOMAIN l)
rpc_receipt_to_proto(r) ==
    ToProto(r, DOMAIN r \ {"revert_reason"})
    @@ [logs |-> [k \in DOMAIN r.logs |-> rpc_log_to_proto(r.logs[k])]]

\* The provider returns what was asked for; otherwise hashes would be sent.
rpc_block_to_proto(b, full) ==
    rpc_block_to_header(b)
    @@ [transactions |-> [i \in DOMAIN b.transactions |->
          IF b.full /\ full THEN rpc_transaction_to_proto(b.transactions[i])
          ELSE b256_to_proto(IF b.full THEN b.transactions[i].hash ELSE b.transactions[i])]]

JsonReceipt(r) == ToJson(r) @@ [logs |-> [k \in DOMAIN r.logs |-> ToJson(r.logs[k])]]
JsonBlock(b) ==
    ToJson(b) @@ [transactions |-> [i \in DOMAIN b.transactions |->
                    IF b.full THEN ToJson(b.transactions[i]) ELSE b.transactions[i]]]

-----------------------------------------------------------------------------
(* Requests, and errors.                                                   *)

Tags == {"latest", "earliest", "pending", "safe", "finalized"}
\* <<>> is a message that names nothing.
proto_to_block_id(id) ==
    CASE id = <<>> -> <<>>
      [] id # <<>> /\ id[1] = "number" -> id
      [] OTHER -> <<"tag", IF id[2] \in Tags THEN id[2] ELSE "latest">>

\* from, to and value are options of a message, data one of bytes; "" as an
\* address has the wrong length.
input_data(call) == IF call.input # <<>> THEN call.input ELSE call.data
proto_to_call_request(call) ==
    LET addresses == [f \in {"from", "to"} |-> MapOption(proto_to_address, call[f])]
    IN IF \E f \in {"from", "to"} : addresses[f] = <<<<>>>> THEN <<>>
       ELSE <<[from |-> FlattenSeq(addresses.from),
               to |-> IF call.to = <<>> THEN <<"zero", "">> ELSE addresses.to[1][1],
               value |-> MapOption(proto_to_u256, call.value), data |-> call.data, input |-> <<>>]>>

IndexErrors == {"BlockNotFound", "BlockHashNotFound", "TransactionNotFound", "ReceiptNotFound",
                "EmptyIndex", "Sqlite", "Serialization"}
FromIndexError(e) ==
    CASE e \in {"BlockNotFound", "BlockHashNotFound", "EmptyIndex"} -> "BlockNotFound"
      [] e \in {"TransactionNotFound", "ReceiptNotFound"} -> e
      [] OTHER -> "InternalError"

NotFound == {"BlockNotFound", "TransactionNotFound", "ReceiptNotFound", "AccountNotFound"}
BadRequest == {"InvalidParams", "InvalidBlockNumberOrTag", "InvalidAddress"}
RpcErrors == NotFound \cup BadRequest \cup {"ParseError", "InternalError", "ExecutionReverted",
                "GasEstimationFailed", "NotImplemented", "InvalidTransaction"}
JsonCode(e) ==
    CASE e = "ParseError" -> -32700
      [] e \in BadRequest -> -32602
      [] e = "InternalError" -> -32603
      [] e \in NotFound -> -32001
      [] e \in {"ExecutionReverted", "GasEstimationFailed"} -> -32000
      [] e = "NotImplemented" -> -32004
      [] e = "InvalidTransaction" -> -32003
rpc_error_to_status(e) ==
    CASE e \in BadRequest \cup {"ParseError", "InvalidTransaction"} -> "InvalidArgument"
      [] e = "InternalError" -> "Internal"
      [] e \in NotFound -> "NotFound"
      [] e \in {"ExecutionReverted", "GasEstimationFailed"} -> "Aborted"
      [] e = "NotImplemented" -> "Unimplemented"

-----------------------------------------------------------------------------
VARIABLES
    sent,      \* ghost: what was sent of the transactions of the block
    contexts,  \* their contexts
    phase,     \* pool, executed, indexed
    effects,   \* what their execution did
    cache,     \* the stored records in memory, as an option
    db,        \* the rows, as an option
    header,    \* ghost: the metadata of the block
    answer     \* what a client has read
vars == <<sent, contexts, phase, effects, cache, db, header, answer>>

Init ==
    /\ sent = <<>> /\ contexts = <<>> /\ phase = "pool" /\ effects = <<>>
    /\ cache = <<>> /\ db = <<>> /\ header = <<>> /\ answer = [what |-> "none"]

\* No two transactions of a block have the same hash.
Enter(s, context) ==
    /\ phase = "pool" /\ Len(sent) < MaxTxs /\ answer.what = "none"
    /\ context # <<>> /\ \A i \in DOMAIN sent : sent[i] # s
    /\ sent' = Append(sent, s) /\ contexts' = Append(contexts, context[1])
    /\ UNCHANGED <<phase, effects, cache, db, header, answer>>

\* send_raw_transaction,
Submit(s) == Enter(s, Received(Bytes(s)))
\* and a transaction that the sequencer includes of its own.
Include(s) == Enter(s, DecodeContext(Bytes(s)))

\* get_txs hands the transactions of the pool to the sequencer, which hands them
\* back to execute_txs.
Carry ==
    /\ phase = "pool"
    /\ contexts' = [i \in DOMAIN contexts |-> DecodeContext(EncodeContext(contexts[i]))[1]]
    /\ UNCHANGED <<sent, phase, effects, cache, db, header, answer>>

Execute(result) ==
    /\ phase = "pool" /\ phase' = "executed"
    /\ effects' = result
    /\ UNCHANGED <<sent, contexts, cache, db, header, answer>>

\* index_block.
IndexBlock(meta) ==
    /\ phase = "executed" /\ phase' = "indexed"
    /\ cache' = <<build_index_data(contexts, effects, meta)>>
    /\ db' = <<Database(cache'[1])>>
    /\ header' = <<meta>>
    /\ UNCHANGED <<sent, contexts, effects, answer>>

Restart ==
    /\ phase = "indexed" /\ cache # <<>> /\ answer.what = "none"
    /\ cache' = <<>>
    /\ UNCHANGED <<sent, contexts, phase, effects, db, header, answer>>

\* Of the records, as sets: in memory, or else in the database.
GetBlock == IF cache # <<>> THEN {cache[1].block} ELSE row_to_stored_block(db[1])
GetTransaction(i) == IF cache # <<>> THEN {cache[1].txs[i]} ELSE row_to_stored_transaction(db[1], i)
GetReceipt(i) == IF cache # <<>> THEN {cache[1].receipts[i]} ELSE row_to_stored_receipt(db[1], i)

\* One question: an answer changes nothing, so it stands for every later one.
Ask(found) ==
    /\ answer.what = "none" /\ answer' = found
    /\ UNCHANGED <<sent, contexts, phase, effects, cache, db, header>>

\* What a client reads: the fields that are there, and those of the records inside.
Read(wire, object) ==
    [f \in DOMAIN object \ Nested |-> IF wire = "json" THEN FromJson(object, f) ELSE FromProto(object, f)]
ReadHash(wire, h) == IF wire = "json" THEN h ELSE proto_to_b256(h)[1]

AskTransaction(wire, i) ==
    /\ phase = "indexed" /\ answer.what = "none"
    /\ \E t \in GetTransaction(i) :
        LET rpc == to_rpc_transaction(t)
        IN Ask([what |-> "tx", wire |-> wire, of |-> i,
                got |-> Read(wire, IF wire = "json" THEN ToJson(rpc) ELSE rpc_transaction_to_proto(rpc))])

AskReceipt(wire, i) ==
    /\ phase = "indexed" /\ answer.what = "none"
    /\ \E r \in GetReceipt(i) :
        LET rpc == to_rpc_receipt(r)
            object == IF wire = "json" THEN JsonReceipt(rpc) ELSE rpc_receipt_to_proto(rpc)
        IN Ask([what |-> "receipt", wire |-> wire, of |-> i, got |-> Read(wire, object),
                logs |-> [k \in DOMAIN object.logs |-> Read(wire, object.logs[k])]])

AskBlock(wire, full) ==
    /\ phase = "indexed" /\ answer.what = "none"
    /\ \E b \in GetBlock, txs \in {[i \in DOMAIN sent |-> CHOOSE t \in GetTransaction(i) : TRUE]} :
        LET rpc == to_rpc_block(b, full, [i \in DOMAIN txs |->
                       IF full THEN to_rpc_transaction(txs[i]) ELSE txs[i].hash])
            object == IF wire = "json" THEN JsonBlock(rpc) ELSE rpc_block_to_proto(rpc, full)
        IN Ask([what |-> "block", wire |-> wire, full |-> full, got |-> Read(wire, object),
                txs |-> [i \in DOMAIN object.transactions |->
                    IF full THEN Read(wire, object.transactions[i])
                    ELSE ReadHash(wire, object.transactions[i])]])

\* An answer that is an error of the provider, or one of the index; this and what
\* follows is the same in every state, and asked for in the first one.
Fail(wire, cause, e) ==
    sent = <<>> /\ phase = "pool" /\ Ask([what |-> "error", wire |-> wire, cause |-> cause,
         code |-> IF wire = "json" THEN [json |-> JsonCode(e)] ELSE [grpc |-> rpc_error_to_status(e)]])
ProviderFails(wire, e) == Fail(wire, e, e)
IndexFails(wire, e) == Fail(wire, e, FromIndexError(e))

\* How a request names a block, and what a call asks for, once it is decoded.
NameBlock(wire, id) ==
    sent = <<>> /\ phase = "pool" /\ Ask([what |-> "name", meant |-> id,
         got |-> IF wire = "json" THEN id ELSE proto_to_block_id(id)])
Call(wire, call) ==
    sent = <<>> /\ phase = "pool" /\ Ask([what |-> "call", meant |-> call,
         got |-> IF wire = "grpc" THEN proto_to_call_request(call)
                 ELSE IF call.to = <<>> \/ \E f \in {"from", "to"} : call[f] # <<>> /\ Len(call[f][1].data) # 2
                 THEN <<>>
                 ELSE <<[call EXCEPT !.from = MapOption(LAMBDA a : a.data, @), !.to = @[1].data,
                                     !.value = MapOption(proto_to_u256, @)]>>])

Addresses == {<<>>, <<[data |-> <<"key", "alice">>]>>, <<[data |-> <<>>]>>}
Calls == [from : Addresses, to : Addresses, value : {<<>>, <<[data |-> <<>>]>>, <<[data |-> u256_to_be_bytes(U64)]>>},
          data : {<<>>, <<"data">>}, input : {<<>>, <<"input">>}]

Next ==
    \/ \E s \in Sent : Submit(s) \/ Include(s)
    \/ Carry \/ Restart
    \/ \E result \in [1..Len(sent) -> Effects] : Execute(result)
    \/ \E meta \in Metas : IndexBlock(meta)
    \/ \E wire \in {"json", "grpc"} :
        \/ \E i \in DOMAIN sent : AskTransaction(wire, i) \/ AskReceipt(wire, i)
        \/ \E full \in BOOLEAN : AskBlock(wire, full)
        \/ \E e \in IndexErrors : IndexFails(wire, e)
        \/ \E e \in RpcErrors : ProviderFails(wire, e)
        \/ \E id \in {<<"number", 0>>, <<"number", 1>>} \cup {<<"tag", t>> : t \in Tags} : NameBlock(wire, id)
        \/ \E c \in Calls : (wire = "grpc" => c.input = <<>>) /\ Call(wire, c)
    \/ \E id \in {<<>>, <<"tag", "unspecified">>} : NameBlock("grpc", id)

Spec == Init /\ [][Next]_vars

-----------------------------------------------------------------------------
(* Properties.                                                             *)

\* A transaction that the node hands to the sequencer comes back as it was.
ContextsSurvive == \A i \in DOMAIN contexts : DecodeContext(EncodeContext(contexts[i])) = <<contexts[i]>>

Option(object, f) == IF f \in DOMAIN object THEN object[f] ELSE <<>>

TxTold(t, i) ==
    LET s == sent[i]
        c == contexts[i]
    IN /\ t.block_number = header[1].number /\ t.block_hash = header[1].hash /\ t.transaction_index = i - 1
       /\ s.form = "envelope" =>
            LET e == s.signed IN
            /\ t.hash = keccak256(EncodeEnvelope(e)) /\ t.from = e.signer /\ Option(t, "to") = e.to
            /\ \A f \in {"nonce", "value", "input", "r", "s"} : t[f] = e[f]
            /\ t.gas = e.gas_limit /\ Option(t, "chain_id") = e.chain_id
            /\ e.kind = "legacy" =>
                 /\ t.tx_type = 0 /\ t.gas_price = <<e.gas_price>>
                 /\ Option(t, "max_fee_per_gas") = <<>> /\ Option(t, "max_priority_fee_per_gas") = <<>>
                 /\ e.chain_id = <<>> => t.v = 27 + e.y_parity
                 /\ e.chain_id # <<>> /\ 2 * e.chain_id[1] + 36 < U64 =>
                      (t.v - 35) \div 2 = e.chain_id[1] /\ (t.v - 35) % 2 = e.y_parity
            /\ e.kind = "eip1559" =>
                 /\ t.tx_type = 2 /\ t.v = e.y_parity /\ t.gas_price[1] <= e.max_fee
                 /\ Option(t, "max_fee_per_gas") = <<e.max_fee>>
                 /\ Option(t, "max_priority_fee_per_gas") = <<e.max_priority>>
       /\ s.form = "intent" =>
            /\ Option(t, "to") = s.signed.to /\ t.gas = s.signed.gas_limit
            /\ t.from = derive_runtime_contract_address(s.account)

ReceiptTold(r, logs, i) ==
    /\ r.transaction_hash = contexts[i].tx_hash /\ r.transaction_index = i - 1
    /\ r.status = 1 <=> effects[i].error = <<>>
    /\ answer.wire = "json" => Option(r, "revert_reason") = effects[i].error
    /\ r.gas_used = effects[i].gas_used
    /\ r.cumulative_gas_used = GasOf(effects, i)
    /\ sent[i].form = "envelope" => r.effective_gas_price = contexts[i].effective_gas_price
    /\ Len(logs) = Len(effects[i].events)
    /\ \A k \in DOMAIN logs :
         /\ logs[k].transaction_hash = contexts[i].tx_hash
         /\ (\A j \in 1..i - 1 : effects[j].events = <<>>) => logs[k].log_index = k - 1
         /\ logs[k].topics = <<keccak256(effects[i].events[k].name)>>

BlockTold(b, txs) ==
    /\ \A f \in DOMAIN header[1] : b[f] = header[1][f]
    /\ b.gas_used = GasOf(effects, Len(effects))
    /\ Len(txs) = Len(sent)
    /\ \A i \in DOMAIN txs : IF answer.full THEN TxTold(txs[i], i) ELSE txs[i] = contexts[i].tx_hash

\* What a client reads over either wire, from memory or from the database, is
\* what was signed and what the execution did, to the last bit of every number;
\* the index of a log in a receipt as long as no transaction before it logged.
ToldAsExecuted ==
    CASE answer.what = "tx" -> TxTold(answer.got, answer.of)
      [] answer.what = "receipt" -> ReceiptTold(answer.got, answer.logs, answer.of)
      [] answer.what = "block" -> BlockTold(answer.got, answer.txs)
      [] OTHER -> TRUE

Refused == {[grpc |-> "InvalidArgument"], [json |-> -32700], [json |-> -32602], [json |-> -32003]}
Missing == {[grpc |-> "NotFound"], [json |-> -32001]}
Broken == {[grpc |-> "Internal"], [json |-> -32603]}

\* The code of an error tells a request that is wrong from a thing that is not
\* there and from a failure of the node, in the same way over both wires.
BlamedAlike ==
    answer.what = "error" =>
        /\ answer.code \in Refused <=> answer.cause \in BadRequest \cup {"ParseError", "InvalidTransaction"}
        /\ answer.code \in Missing <=> answer.cause \in NotFound \cup {"BlockHashNotFound", "EmptyIndex"}
        /\ answer.code \in Broken <=> answer.cause \in {"InternalError", "Sqlite", "Serialization"}

\* A request means the same over both wires: a block that is named is the one
\* looked for, and a call with a malformed address is refused, never sent to
\* another account.
AskedAlike ==
    /\ answer.what = "name" /\ answer.meant # <<>> =>
         answer.got = IF answer.meant = <<"tag", "unspecified">> THEN <<"tag", "latest">> ELSE answer.meant
    /\ answer.what = "call" =>
         LET meant == answer.meant
             malformed == \E f \in {"from", "to"} : meant[f] = <<[data |-> <<>>]>>
         IN IF malformed THEN answer.got = <<>>
            ELSE \A call \in Range(answer.got) :
                   /\ call.from = MapOption(LAMBDA a : a.data, meant.from)
                   /\ meant.to # <<>> => call.to = meant.to[1].data
                   /\ input_data(call) = IF meant.input # <<>> THEN meant.input ELSE meant.data
=============================================================================
