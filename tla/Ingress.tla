-------------------------------- MODULE Ingress --------------------------------
(***************************************************************************)
(* How a raw transaction gets into the mempool: send_raw_transaction of    *)
(* both RPC servers, the IngressVerifier of chain-index/src/provider.rs (a *)
(* bounded queue, workers that share its receiver, an answer within a      *)
(* time), and EthGateway (tx/eth/src/gateway.rs), which the workers call.  *)
(*                                                                         *)
(* A raw transaction is what its checks tell of it:                        *)
(*   size            "empty", "fits" or "large"                            *)
(*   wire            it is an encoded TxContext, not an envelope           *)
(*   form            it has the form of its encoding and a recoverable     *)
(*                   signature                                             *)
(*   type            the type of the envelope                              *)
(*   claimed         the wire names the sender's address, that of an       *)
(*                   envelope the recovered one                            *)
(*   trailing        bytes follow the envelope                             *)
(*   payload         "envelope" or "custom"                                *)
(*   sender_type     how the sender signs                                  *)
(*   chain, inner    chain ids, as options, of the context and of the      *)
(*                   envelope                                              *)
(*   proof           what a verifier of custom payloads says               *)
(*   panics          the verifier panics                                   *)
(*   to              there is a recipient                                  *)
(*   hash            the hash of the transaction                           *)
(***************************************************************************)
EXTENDS Integers, SequencesExt

CONSTANTS
    Requests,     \* calls of send_raw_transaction
    Raws,         \* the raw transactions that may be submitted
    Grpc,         \* the requests that come over gRPC
    Parallelism, QueueCapacity,  \* numbers of the environment, {} when absent or malformed
    Cores,                       \* available_parallelism
    ChainId,
    Registered,   \* the calls of register_payload_verifier: [sender_type, verifier]
    MayDrop       \* whether clients may go away

\* Zero is as good as absent.
Setting(env, default) == IF env \subseteq {0} THEN default ELSE Max(env)
Workers == 1..Setting(Parallelism, Cores)
Capacity == Setting(QueueCapacity, 4096)

-----------------------------------------------------------------------------
(* The gateway.                                                            *)

\* EcdsaVerifier: the signature was recovered when the envelope was decoded.
EcdsaVerifier(chain_id) == [kind |-> "eoa", chain_id |-> chain_id, require_chain_id |-> TRUE]
verify_chain_id(verifier, chain) ==
    IF chain = {} THEN ~verifier.require_chain_id ELSE chain = {verifier.chain_id}

\* SignatureVerifierRegistry: a later verifier of a sender type replaces the earlier.
ethereum(chain_id) == [sender_type \in {"eoa"} |-> EcdsaVerifier(chain_id)]
register_dyn(known, entry) ==
    [t \in DOMAIN known \cup {entry.sender_type} |-> IF t = entry.sender_type THEN entry.verifier ELSE known[t]]
verifiers == FoldLeft(register_dyn, ethereum(ChainId), Registered)
supports(sender_type) == sender_type \in DOMAIN verifiers

EoaPayloadVerifier(verifier, raw) == raw.payload = "envelope" /\ verify_chain_id(verifier, raw.inner)
verify_payload(sender_type, raw) ==
    /\ supports(sender_type)
    /\ LET verifier == verifiers[sender_type] IN
       IF verifier.kind = "eoa" THEN EoaPayloadVerifier(verifier, raw) ELSE raw.proof

\* The gateway answers "ok" or its GatewayError.
VerifyContext(raw) ==
    CASE ~(raw.chain \subseteq {ChainId})         -> "InvalidChainId"
      [] ~verify_payload(raw.sender_type, raw)    -> "InvalidSignature"
      [] OTHER                                    -> "ok"

VerifyEnvelope(raw) ==
    CASE raw.inner # {ChainId}      -> "InvalidChainId"
      [] ~verify_payload("eoa", raw) -> "InvalidSignature"
      [] ~raw.to                    -> "ContractCreationNotSupported"
      [] OTHER                      -> "ok"

\* TxEnvelope::decode_from, and the types that the gateway's decoder allows.
EnvelopeDecodes(raw) == raw.form /\ raw.type \in {"legacy", "eip1559"}
allowed_types == {"legacy", "eip1559"}
TypedDecodes(raw) == EnvelopeDecodes(raw) /\ raw.type \in allowed_types

\* TxContext::decode, of the wire encoding.
ContextDecodes(raw) ==
    /\ raw.form
    /\ raw.payload = "envelope" => EnvelopeDecodes(raw) /\ ~raw.trailing
    /\ raw.payload = "envelope" \/ raw.sender_type = "eoa" => raw.claimed

DecodeAndVerify(raw) ==
    IF raw.wire THEN IF ContextDecodes(raw) THEN VerifyContext(raw) ELSE "DecodeFailed"
    ELSE IF ~TypedDecodes(raw) THEN "DecodeFailed"
    ELSE IF raw.trailing THEN "TrailingBytes" ELSE VerifyEnvelope(raw)

-----------------------------------------------------------------------------
VARIABLES
    raw,       \* the raw transaction of each request
    phase,     \* new, sending, waiting, adding, answered, gone
    answer,    \* none, hash, invalid, timeout
    queue,     \* verify jobs, each of a request
    holder,    \* the worker that holds the receiver's mutex, as an option
    job,       \* the job of each worker, as an option
    response,  \* what a worker sent back: none, ok, panic, or a GatewayError
    mempool    \* hashes of the transactions of the pool
vars == <<raw, phase, answer, queue, holder, job, response, mempool>>

Init ==
    /\ raw \in [Requests -> Raws]
    /\ phase = [r \in Requests |-> "new"]
    /\ answer = [r \in Requests |-> "none"]
    /\ queue = <<>> /\ holder = {}
    /\ job = [w \in Workers |-> {}]
    /\ response = [r \in Requests |-> "none"]
    /\ mempool = {}

Answered(r, a) ==
    /\ phase' = [phase EXCEPT ![r] = "answered"]
    /\ answer' = [answer EXCEPT ![r] = a]

\* send_raw_transaction of the servers; only the JSON-RPC one bounds the size.
Pass(r, refused) ==
    /\ phase[r] = "new"
    /\ IF refused THEN Answered(r, "invalid")
       ELSE phase' = [phase EXCEPT ![r] = "sending"] /\ UNCHANGED answer
    /\ UNCHANGED <<raw, queue, holder, job, response, mempool>>

Submit(r) == r \notin Grpc /\ Pass(r, raw[r].size # "fits")
GrpcSubmit(r) == r \in Grpc /\ Pass(r, raw[r].size = "empty")

\* IngressVerifier::verify waits for a place in the queue without a limit of time,
Enqueue(r) ==
    /\ phase[r] = "sending" /\ Len(queue) < Capacity
    /\ queue' = Append(queue, r)
    /\ phase' = [phase EXCEPT ![r] = "waiting"]
    /\ UNCHANGED <<raw, answer, holder, job, response, mempool>>

\* and for the response with one.
Timeout(r) ==
    /\ phase[r] = "waiting" /\ response[r] = "none"
    /\ Answered(r, "timeout")
    /\ UNCHANGED <<raw, queue, holder, job, response, mempool>>

Receive(r) ==
    /\ phase[r] = "waiting" /\ response[r] # "none"
    /\ IF response[r] # "ok" THEN Answered(r, "invalid")
       ELSE phase' = [phase EXCEPT ![r] = "adding"] /\ UNCHANGED answer
    /\ UNCHANGED <<raw, queue, holder, job, response, mempool>>

\* Mempool::add under the write lock; the pool refuses a hash that it has.
Add(r) ==
    /\ phase[r] = "adding"
    /\ Answered(r, IF raw[r].hash \in mempool THEN "invalid" ELSE "hash")
    /\ mempool' = mempool \cup {raw[r].hash}
    /\ UNCHANGED <<raw, queue, holder, job, response>>

\* A client that goes away takes the future of its call with it, at an await.
Drop(r) ==
    /\ MayDrop
    /\ phase[r] \in {"sending", "waiting", "adding"}
    /\ phase' = [phase EXCEPT ![r] = "gone"]
    /\ UNCHANGED <<raw, answer, queue, holder, job, response, mempool>>

-----------------------------------------------------------------------------
(* Workers.                                                                *)

Lock(w) ==
    /\ job[w] = {} /\ holder = {}
    /\ holder' = {w}
    /\ UNCHANGED <<raw, phase, answer, queue, job, response, mempool>>

Recv(w) ==
    /\ holder = {w} /\ queue # <<>>
    /\ job' = [job EXCEPT ![w] = {Head(queue)}]
    /\ queue' = Tail(queue)
    /\ holder' = {}
    /\ UNCHANGED <<raw, phase, answer, response, mempool>>

MutantVerify(w, r) ==
    /\ job[w] = {r}
    /\ job' = [job EXCEPT ![w] = {}]
    /\ response' = [response EXCEPT ![r] =
          IF raw[r].panics THEN "panic" ELSE DecodeAndVerify(raw[r])]
    /\ mempool' = IF response'[r] = "ok" THEN mempool \cup {raw[r].hash} ELSE mempool
    /\ UNCHANGED <<raw, phase, answer, queue, holder>>
Verify(w, r) ==
    /\ job[w] = {r}
    /\ job' = [job EXCEPT ![w] = {}]
    /\ response' = [response EXCEPT ![r] =
          IF raw[r].panics THEN "panic" ELSE DecodeAndVerify(raw[r])]
    /\ UNCHANGED <<raw, phase, answer, queue, holder, mempool>>

Next ==
    \/ \E r \in Requests : \/ Submit(r) \/ GrpcSubmit(r) \/ Enqueue(r) \/ Timeout(r)
                           \/ Receive(r) \/ Add(r) \/ Drop(r)
    \/ \E w \in Workers : Lock(w) \/ Recv(w) \/ \E r \in Requests : Verify(w, r)

Spec == Init /\ [][Next]_vars
-----------------------------------------------------------------------------
\* A transaction is in the pool exactly if one of its calls was answered with its
\* hash: neither a timeout, nor a client that left, nor a second call of the same
\* transaction leaves one behind that nobody was told of.
AddedIsAnswered ==
    /\ mempool = {raw[r].hash : r \in {q \in Requests : answer[q] = "hash"}}
    /\ \A q, r \in Requests : q # r /\ answer[q] = "hash" /\ answer[r] = "hash" => raw[q].hash # raw[r].hash

\* A transaction that should get in: every byte of it decodes, it is of this
\* chain if it names one, and its sender's scheme is known and vouches for it.
Proper(x) ==
    /\ x.form /\ ~x.panics
    /\ x.payload = "envelope" => ~x.trailing /\ x.type # "other" /\ (x.wire => x.claimed)
    /\ \A c \in (IF x.wire THEN x.chain ELSE x.inner) : c = ChainId
    /\ IF ~x.wire \/ x.sender_type = "eoa" THEN x.payload = "envelope" /\ x.inner = {ChainId}
       ELSE x.proof /\ \E n \in DOMAIN Registered : Registered[n].sender_type = x.sender_type
    /\ x.wire \/ x.to

\* Whatever is in the pool is proper, and the workers refuse nothing that is: a
\* call that is told "invalid" of a proper transaction of a fitting size was
\* beaten by another call of it.
PooledIsVerified ==
    \A r \in Requests :
        /\ answer[r] = "hash" => raw[r].size # "empty" /\ Proper(raw[r])
        /\ answer[r] = "invalid" /\ raw[r].size = "fits" /\ Proper(raw[r]) =>
              \E q \in Requests \ {r} : answer[q] = "hash" /\ raw[q].hash = raw[r].hash

\* What the gateway says is wrong is wrong: it blames the chain id only of a
\* transaction of another chain or of none, and the signature only of one whose
\* bytes are in order.
BlamedRightly ==
    \A r \in Requests :
        /\ response[r] = "InvalidChainId" => {raw[r].chain, raw[r].inner} # {{ChainId}}
        /\ response[r] = "InvalidSignature" => raw[r].form /\ raw[r].wire /\ raw[r].chain \subseteq {ChainId}
        /\ response[r] = "TrailingBytes" => raw[r].trailing /\ ~raw[r].wire
        /\ response[r] = "ContractCreationNotSupported" => ~raw[r].to /\ raw[r].inner = {ChainId}

\* Every call of a client that stays is answered, even if no response ever times
\* out: no worker is lost to a panic, to a job whose client has gone or to the
\* mutex around the receiver.
EveryoneAnswered == \A r \in Requests : phase[r] = "sending" ~> phase[r] \in {"answered", "gone"}
=============================================================================
