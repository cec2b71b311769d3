---------------------------------- MODULE Stf ----------------------------------
(***************************************************************************)
(* The block and transaction pipeline of the state transition function     *)
(* (crates/app/stf/src/lib.rs): begin blocker, then every transaction that *)
(* fits the block's gas through its phases (resolve the sender, bootstrap  *)
(* it, validate, resolve the recipient, execute, post-execution handler),  *)
(* then the end blocker.  All of them work on one ExecutionState.          *)
(*                                                                         *)
(* What account code does in a phase is abstracted to the one thing the    *)
(* properties tell apart: it may mint an object, that is take a unique id, *)
(* store an object under it and emit an event about it.  The nested        *)
(* checkpoints under do_exec are the subject of ExecutionState; here       *)
(* do_exec is one step that either keeps its effects or undoes them.       *)
(***************************************************************************)
EXTENDS Integers, Sequences, FiniteSets

CONSTANTS
    N,             \* number of transactions in the block
    MaxGas,        \* bound on the gas limit of a transaction
    BlockGasLimit, \* the block's gas limit
    MaxU64,        \* largest gas value, where saturating_add stops
    MaxObjects,    \* MAX_OBJECTS_PER_TRANSACTION, which is u16::MAX
    Minting        \* the phases in which account code mints an object

Phases == {"begin", "resolve", "bootstrap", "validate", "recipient",
           "execute", "post", "end"}

ASSUME StfAssumption ==
    /\ N \in Nat
    /\ MaxGas \in Nat
    /\ MaxU64 \in Nat
    /\ BlockGasLimit \in 0..MaxU64
    /\ MaxGas \in 0..MaxU64
    /\ MaxObjects \in Nat
    /\ Minting \subseteq Phases

VARIABLES
    pc,             \* the phase about to run
    gas_limit,      \* gas limit of each transaction of the block
    next,           \* the transaction being processed
    objects,        \* objects stored in the overlay
    events,         \* events in the ExecutionState not popped yet
    unique_objects, \* the ExecutionState's object counter
    gas_used,       \* the transaction's gas counter
    response,       \* outcome of the transaction so far
    minted,         \* ids the transaction asked for so far (ghost)
    result          \* the BlockResult under construction

vars == <<pc, gas_limit, next, objects, events, unique_objects, gas_used,
          response, minted, result>>

state == <<objects, events, unique_objects>>

Txs == 1..N
Owners == Txs \cup {0, N + 1}  \* 0 the begin blocker, N + 1 the end blocker

BlockScope == 0

Responses == {"ok", "err", "too_many_objects"}

Sat(n) == IF n > MaxU64 THEN MaxU64 ELSE n

Init ==
    /\ pc = "begin"
    /\ gas_limit \in [Txs -> 0..MaxGas]
    /\ next = 1
    /\ objects = {}
    /\ events = {}
    /\ unique_objects = 0
    /\ gas_used = 0
    /\ response = "ok"
    /\ minted = 0
    /\ result = [begin_block_events |-> {}, tx_results |-> << >>,
                 end_block_events |-> {}, gas_used |-> 0, txs_skipped |-> 0]

-----------------------------------------------------------------------------
(* ExecutionScope::unique_id over the number next_unique_object_id hands   *)
(* out: block scopes put the height (one block here) before the number, a  *)
(* transaction puts its own id before the number narrowed to a u16.        *)

NextUniqueObjectId == unique_objects + 1

Scope(owner, phase) ==
    IF phase \in {"begin", "resolve", "bootstrap", "end"} THEN BlockScope ELSE owner

MutantTooMany(owner, phase) == FALSE

TooMany(owner, phase) ==
    Scope(owner, phase) # BlockScope /\ NextUniqueObjectId > MaxObjects

(* `object_id as u16`. *)
Narrowed(n) == n % (MaxObjects + 1)

Number(owner, phase) ==
    IF Scope(owner, phase) = BlockScope THEN NextUniqueObjectId
                                        ELSE Narrowed(NextUniqueObjectId)

Object(owner, phase) ==
    [by |-> owner, phase |-> phase, id |-> <<Scope(owner, phase), Number(owner, phase)>>]

Mint(owner, phase) ==
    /\ phase \in Minting
    /\ ~TooMany(owner, phase)
    /\ unique_objects' = NextUniqueObjectId
    /\ objects' = objects \cup {Object(owner, phase)}
    /\ events' = events \cup {Object(owner, phase)}
    /\ minted' = minted + 1

MintTooMany(owner, phase) ==
    /\ phase \in Minting
    /\ TooMany(owner, phase)
    /\ unique_objects' = NextUniqueObjectId
    /\ minted' = minted + 1
    /\ UNCHANGED <<objects, events>>

Idle == UNCHANGED <<objects, events, unique_objects, minted>>

-----------------------------------------------------------------------------
DoBeginBlock ==
    /\ pc = "begin"
    /\ Mint(0, "begin") \/ Idle
    /\ pc' = "pop_begin"
    /\ UNCHANGED <<gas_limit, next, gas_used, response, result>>

PopBeginEvents ==
    /\ pc = "pop_begin"
    /\ result' = [result EXCEPT !.begin_block_events = events]
    /\ events' = {}
    /\ minted' = 0
    /\ pc' = "loop"
    /\ UNCHANGED <<gas_limit, next, objects, unique_objects, gas_used, response>>

MutantWouldExceed == result.gas_used >= BlockGasLimit

WouldExceed == Sat(result.gas_used + gas_limit[next]) > BlockGasLimit

SkipTx ==
    /\ pc = "loop" /\ next <= N /\ WouldExceed
    /\ result' = [result EXCEPT !.txs_skipped = @ + 1]
    /\ next' = next + 1
    /\ UNCHANGED <<pc, gas_limit, objects, events, unique_objects, gas_used,
                   response, minted>>

StartTx ==
    /\ pc = "loop" /\ next <= N /\ ~WouldExceed
    /\ gas_used' = 0
    /\ minted' = 0
    /\ response' = "ok"
    /\ pc' = "resolve"
    /\ UNCHANGED <<gas_limit, next, objects, events, unique_objects, result>>

(* Gas a phase consumes: GasCounter::consume_gas never passes the limit. *)
Burn == gas_used' \in gas_used..gas_limit[next]

Succeed(then) == response' = "ok" /\ pc' = then

Fail(then) == response' = "err" /\ pc' = then

(* A phase outside do_exec: whatever it wrote stays, also when it fails. *)
Phase(phase, then) ==
    /\ pc = phase
    /\ Burn
    /\ \/ (Mint(next, phase) \/ Idle) /\ (Succeed(then) \/ Fail("result"))
       \/ MintTooMany(next, phase) /\ response' = "too_many_objects" /\ pc' = "result"
    /\ UNCHANGED <<gas_limit, next, result>>

ResolveSender == Phase("resolve", "bootstrap")

NoBootstrap ==
    /\ pc = "bootstrap"
    /\ pc' = "validate"
    /\ UNCHANGED <<gas_limit, next, state, gas_used, response, minted, result>>

BootstrapSender == Phase("bootstrap", "pop_bootstrap")

PopBootstrapEvents ==
    /\ pc = "pop_bootstrap"
    /\ events' = {}
    /\ pc' = "validate"
    /\ UNCHANGED <<gas_limit, next, objects, unique_objects, gas_used, response,
                   minted, result>>

ValidateTx == Phase("validate", "recipient")

ResolveRecipient == Phase("recipient", "execute")

ExecuteTx ==
    /\ pc = "execute"
    /\ Burn
    /\ \/ (Mint(next, "execute") \/ Idle) /\ Succeed("post")
       \/ Idle /\ Fail("post")
       \/ /\ "execute" \in Minting /\ TooMany(next, "execute")
          /\ response' = "too_many_objects" /\ pc' = "post"
          /\ minted' = minted + 1
          /\ UNCHANGED state
    /\ UNCHANGED <<gas_limit, next, result>>

(* PostTx::after_tx_executed: an error replaces the response and undoes    *)
(* nothing.                                                                *)
AfterTxExecuted ==
    /\ pc = "post"
    /\ Burn
    /\ \/ (Mint(next, "post") \/ Idle) /\ response' \in {response, "err"}
       \/ MintTooMany(next, "post") /\ response' = "too_many_objects"
    /\ pc' = "result"
    /\ UNCHANGED <<gas_limit, next, result>>

TxResult == [tx |-> next, response |-> response, events |-> events,
             gas_used |-> gas_used, minted |-> minted]

Cumulative == Sat(result.gas_used + gas_used)

MutantFinishTx ==
    /\ pc = "result"
    /\ result' = [result EXCEPT !.gas_used = Cumulative,
                                !.tx_results = Append(@, TxResult)]
    /\ events' = IF response = "ok" THEN {} ELSE events
    /\ pc' = IF Cumulative >= BlockGasLimit THEN "end" ELSE "loop"
    /\ next' = next + 1
    /\ UNCHANGED <<gas_limit, objects, unique_objects, gas_used, response, minted>>

(* The count of skipped transactions when the block is full. *)
SkippedWithRest == result.txs_skipped + N - (Len(result.tx_results) + 1)

(* tx_error_result or the tail of apply_tx, then apply_block's accounting. *)
FinishTx ==
    /\ pc = "result"
    /\ events' = {}
    /\ next' = next + 1
    /\ IF Cumulative >= BlockGasLimit
       THEN /\ result' = [result EXCEPT
                  !.gas_used = Cumulative,
                  !.tx_results = Append(@, TxResult),
                  !.txs_skipped = SkippedWithRest]
            /\ pc' = "end"
       ELSE /\ result' = [result EXCEPT
                  !.gas_used = Cumulative,
                  !.tx_results = Append(@, TxResult)]
            /\ pc' = "loop"
    /\ UNCHANGED <<gas_limit, objects, unique_objects, gas_used, response, minted>>

LoopEnds ==
    /\ pc = "loop" /\ next > N
    /\ pc' = "end"
    /\ UNCHANGED <<gas_limit, next, state, gas_used, response, minted, result>>

DoEndBlock ==
    /\ pc = "end"
    /\ Mint(N + 1, "end") \/ Idle
    /\ pc' = "pop_end"
    /\ UNCHANGED <<gas_limit, next, gas_used, response, result>>

PopEndEvents ==
    /\ pc = "pop_end"
    /\ result' = [result EXCEPT !.end_block_events = events]
    /\ events' = {}
    /\ pc' = "done"
    /\ UNCHANGED <<gas_limit, next, objects, unique_objects, gas_used, response, minted>>

Next ==
    \/ DoBeginBlock \/ PopBeginEvents
    \/ SkipTx \/ StartTx
    \/ ResolveSender \/ NoBootstrap \/ BootstrapSender \/ PopBootstrapEvents
    \/ ValidateTx \/ ResolveRecipient \/ ExecuteTx \/ AfterTxExecuted
    \/ FinishTx \/ LoopEnds
    \/ DoEndBlock \/ PopEndEvents

Spec == Init /\ [][Next]_vars

-----------------------------------------------------------------------------
Ids == (Txs \cup {BlockScope}) \X Nat
Minted == [by : Owners, phase : Phases, id : Ids]

(* The type of every variable of the pipeline. *)
TypeOK ==
    /\ pc \in Phases \cup {"pop_begin", "loop", "pop_bootstrap", "result",
                           "pop_end", "done"}
    /\ gas_limit \in [Txs -> 0..MaxGas]
    /\ next \in 1..N + 1
    /\ objects \subseteq Minted
    /\ events \subseteq Minted
    /\ unique_objects \in Nat
    /\ gas_used \in 0..MaxGas
    /\ response \in Responses
    /\ minted \in Nat
    /\ result.gas_used \in 0..MaxU64
    /\ result.txs_skipped \in Nat
    /\ \A i \in DOMAIN result.tx_results : result.tx_results[i].tx \in Txs

(* Two objects that are both in the block's state never carry the same     *)
(* unique id, although the sender phases of every transaction and both     *)
(* blockers share one id space, do_exec gives the numbers of a failed call *)
(* back and a transaction's number is cut to 16 bits (Invoker::unique_id   *)
(* over next_unique_object_id, restore and ExecutionScope::unique_id).     *)
UniqueIdsDistinct == \A a, b \in objects : a.id = b.id => a = b

(* Every event a TxResult reports was emitted by that transaction, about   *)
(* an object that is still in the state, and every object a transaction    *)
(* left behind is reported by it unless a completed bootstrap discarded    *)
(* the event: no event leaks into another result, outlives a rollback or   *)
(* goes missing (pop_events in apply_tx, tx_error_result and               *)
(* bootstrap_sender_phase).                                                *)
EventsMatchState ==
    /\ \A i \in DOMAIN result.tx_results :
        LET r == result.tx_results[i]
            left == {o \in objects : o.by = r.tx}
        IN /\ r.events \subseteq left
           /\ \A o \in left \ r.events : o.phase \in {"resolve", "bootstrap"}
    /\ \A o \in result.begin_block_events : o.by = 0
    /\ \A o \in result.end_block_events : o.by = N + 1

(* The gas the block reports never passes the block's limit, no matter how *)
(* far below their own limits transactions stay (the reservation by        *)
(* gas_limit in apply_block, the cap in GasCounter::consume_gas).          *)
GasWithinBlock ==
    /\ result.gas_used <= BlockGasLimit
    /\ \A i \in DOMAIN result.tx_results :
        result.tx_results[i].gas_used <= gas_limit[result.tx_results[i].tx]

Executed == {result.tx_results[i].tx : i \in DOMAIN result.tx_results}

(* apply_block is greedy and keeps the block's order: when it is done a    *)
(* transaction has no result only if it would not have fitted in the gas   *)
(* that is left, and the results are in block order, each transaction at   *)
(* most once.                                                              *)
NoNeedlessSkip ==
    /\ \A i, j \in DOMAIN result.tx_results :
        i < j => result.tx_results[i].tx < result.tx_results[j].tx
    /\ pc \in {"end", "done"} =>
        \A t \in Txs \ Executed :
            \/ Sat(result.gas_used + gas_limit[t]) > BlockGasLimit
            \/ result.gas_used >= BlockGasLimit

(* When do_exec reported an error and nothing later replaced it, nothing   *)
(* the call stored is left in the state (the checkpoint in do_exec).       *)
FailedExecUndone ==
    pc = "post" /\ response # "ok" =>
        \A o \in objects : ~(o.by = next /\ o.phase = "execute")

(* The results of a block tell what is in the state: the events of a       *)
(* result are the effects that were kept, nothing of a failed do_exec is   *)
(* left, results are in block order, and a transaction has none only if it *)
(* did not fit in the gas that was left.                                   *)
ResultsTellState == EventsMatchState /\ FailedExecUndone /\ NoNeedlessSkip

(* The doc of apply_block: "The `BlockResult.txs_skipped` field indicates  *)
(* how many were skipped."  Violated: the stop at the gas limit counts     *)
(* every transaction without a result, the already counted ones again.     *)
SkippedCount ==
    pc = "done" =>
        result.txs_skipped = N - Len(result.tx_results)

(* "Atomic transactions with checkpoint/rollback": a transaction whose     *)
(* result is an error left nothing of its execution behind.  Violated: an  *)
(* error of the post-execution handler rejects the transaction after its   *)
(* effects are in the state and no checkpoint surrounds it.                *)
RejectedTxUndone ==
    \A i \in DOMAIN result.tx_results :
        result.tx_results[i].response # "ok" =>
            \A o \in objects :
                ~(o.by = result.tx_results[i].tx /\ o.phase = "execute")

(* "Maximum number of objects that can be created in a single transaction":*)
(* a transaction is refused an id only when it took that many itself.      *)
(* Violated: the counter is the block's, so the objects of the earlier     *)
(* transactions use the limit up.                                          *)
ObjectLimitPerTransaction ==
    \A i \in DOMAIN result.tx_results :
        result.tx_results[i].response = "too_many_objects" =>
            result.tx_results[i].minted > MaxObjects
=============================================================================
