------------------------------- MODULE TxLoad -------------------------------
(***************************************************************************)
(* The load tester (bin/txload): wallets are drawn and funded one after    *)
(* the other by the funder, and then one task per wallet takes slots from  *)
(* a shared counter and sends one transfer per slot, until the slots run   *)
(* out.                                                                    *)
(*                                                                         *)
(* A reply is what becomes of a request: whether it reaches the node,      *)
(* whether an answer comes back (sent), is JSON, has a status of success   *)
(* and an error, and the result, if any.  The node takes a request that    *)
(* reaches it whether or not the client hears of it; it is external.       *)
(***************************************************************************)
EXTENDS Integers, Sequences, FiniteSets, FiniteSetsExt, SequencesExt, TLC

CONSTANTS
    Addresses,   \* the addresses that a drawn key may have
    Funder,      \* the address of the funder
    Configs,     \* [workers, target_tps, duration_secs]
    Attempts,    \* draws per worker (32 in the code)
    MaxU64,
    Replies,     \* the replies to a transaction
    Counts       \* the replies to eth_getTransactionCount

VARIABLES
    config, phase,
    drawn, wallets,       \* draws so far; sequence of [address, next_nonce]
    funder_nonce, idx,    \* of the funding, and of the reading of nonces
    counter, success, failed, errors,
    task,                 \* worker -> [pc, slot, nonce, to]
    node                  \* the transactions that reached the node

vars == <<config, phase, drawn, wallets, funder_nonce, idx, counter, success, failed, errors, task, node>>
shared == <<counter, success, failed, errors>>

total_target_txs == config.target_tps * config.duration_secs

\* The result of a call, or {} and the reason.
call(reply) ==
    CASE ~reply.sent -> [value |-> {}, why |-> "request failed"]
      [] reply.sent /\ ~reply.json -> [value |-> {}, why |-> "invalid JSON"]
      [] reply.sent /\ reply.json /\ (~reply.ok \/ reply.error) -> [value |-> {}, why |-> "refused"]
      [] OTHER -> [value |-> reply.result, why |-> "missing result"]

\* The digits after the prefix, if there is one; no digits are 0.
parse_hex_u64(digits) ==
    LET value == FoldLeft(LAMBDA v, d : 16 * v + d, 0, digits)
    IN IF \E i \in DOMAIN digits : digits[i] \notin 0 .. 15 THEN {}
       ELSE IF value > MaxU64 THEN {} ELSE {value}

get_transaction_count(reply) == UNION {parse_hex_u64(n) : n \in call(reply).value}
send_raw_transaction(reply) == call(reply)

saturating_add(n) == IF n = MaxU64 THEN n ELSE n + 1
create_signed_tx(from, nonce, to) == [from |-> from, nonce |-> nonce, to |-> to]

\* What the node has after a request with this reply.
Took(reply, tx) == IF reply.reaches THEN node \cup {tx} ELSE node

Idle == [pc |-> "take", slot |-> 0, nonce |-> 0, to |-> 0]
Init ==
    /\ config \in Configs /\ phase = "start"
    /\ drawn = 0 /\ wallets = <<>> /\ funder_nonce = 0 /\ idx = 1
    /\ counter = 0 /\ success = 0 /\ failed = 0 /\ errors = <<>>
    /\ task = <<>> /\ node = {}

\* The checks at the head of run_loadtest.
Validate ==
    /\ phase = "start"
    /\ phase' = IF config.workers < 2 \/ config.target_tps = 0 \/ config.duration_secs = 0
                   \/ total_target_txs > MaxU64
                THEN "error" ELSE "draw"
    /\ UNCHANGED <<config, drawn, wallets, funder_nonce, idx, shared, task, node>>

Draw(address) ==
    /\ phase = "draw" /\ drawn < config.workers * Attempts /\ Len(wallets) < config.workers
    /\ drawn' = drawn + 1
    /\ wallets' = IF \E i \in DOMAIN wallets : wallets[i].address = address THEN wallets
                  ELSE Append(wallets, [address |-> address, next_nonce |-> 0])
    /\ UNCHANGED <<config, phase, funder_nonce, idx, shared, task, node>>

\* All wallets are there, or none is to come; then the nonce of the funder is read.
Drawn(reply) ==
    /\ phase = "draw" /\ (drawn = config.workers * Attempts \/ Len(wallets) = config.workers)
    /\ LET n == get_transaction_count(reply)
       IN \/ /\ Len(wallets) # config.workers \/ n = {}
             /\ phase' = "error" /\ UNCHANGED funder_nonce
          \/ Len(wallets) = config.workers /\ phase' = "fund" /\ funder_nonce' \in n
    /\ UNCHANGED <<config, drawn, wallets, idx, shared, task, node>>

\* One transfer from the funder; the first one that fails ends the test.
Fund(reply) ==
    /\ phase = "fund"
    /\ node' = Took(reply, create_signed_tx(Funder, funder_nonce, wallets[idx].address))
    /\ IF send_raw_transaction(reply).value = {} THEN phase' = "error" /\ UNCHANGED <<funder_nonce, idx>>
       ELSE /\ funder_nonce' = saturating_add(funder_nonce)
            /\ phase' = IF idx = config.workers THEN "nonces" ELSE "fund"
            /\ idx' = IF idx = config.workers THEN 1 ELSE idx + 1
    /\ UNCHANGED <<config, drawn, wallets, shared, task>>

\* The nonce of one wallet; after the last one the tasks are spawned.
ReadNonce(reply) ==
    /\ phase = "nonces"
    /\ \/ get_transaction_count(reply) = {} /\ phase' = "error" /\ UNCHANGED <<wallets, idx, task>>
       \/ /\ \E n \in get_transaction_count(reply) : wallets' = [wallets EXCEPT ![idx].next_nonce = n]
          /\ idx' = idx + 1
          /\ phase' = IF idx = config.workers THEN "run" ELSE "nonces"
          /\ task' = IF idx = config.workers THEN [w \in 1 .. config.workers |-> Idle] ELSE task
    /\ UNCHANGED <<config, drawn, funder_nonce, shared, node>>

\* counter.fetch_add, and the end of the loop.
TakeSlot(w) ==
    /\ phase = "run" /\ task[w].pc = "take"
    /\ counter' = counter + 1
    /\ task' = [task EXCEPT ![w].pc = IF counter >= total_target_txs THEN "done" ELSE "sign", ![w].slot = counter]
    /\ UNCHANGED <<config, phase, drawn, wallets, funder_nonce, idx, success, failed, errors, node>>

\* Workers count from 0 in the code.
recipient_idx(w, slot) ==
    LET n == config.workers
        i == (slot + (w - 1) + 1) % n
    IN 1 + (IF n > 1 /\ i = w - 1 THEN (i + 1) % n ELSE i)

\* When its time has come: the nonce is used up whatever becomes of the transaction.
Sign(w) ==
    /\ phase = "run" /\ task[w].pc = "sign"
    /\ task' = [task EXCEPT ![w].pc = "send", ![w].nonce = wallets[w].next_nonce,
                            ![w].to = recipient_idx(w, task[w].slot)]
    /\ wallets' = [wallets EXCEPT ![w].next_nonce = saturating_add(@)]
    /\ UNCHANGED <<config, phase, drawn, funder_nonce, idx, shared, node>>

Send(w, reply) ==
    /\ phase = "run" /\ task[w].pc = "send"
    /\ node' = Took(reply, create_signed_tx(wallets[w].address, task[w].nonce, wallets[task[w].to].address))
    /\ LET r == send_raw_transaction(reply)
       IN IF r.value # {}
          THEN /\ success' = success + 1 /\ task' = [task EXCEPT ![w].pc = "take"] /\ UNCHANGED failed
          ELSE /\ failed' = failed + 1 /\ task' = [task EXCEPT ![w].pc = r.why] /\ UNCHANGED success
    /\ UNCHANGED <<config, phase, drawn, wallets, funder_nonce, idx, counter, errors>>

\* The map of errors is locked after the failure was counted.
Note(w) ==
    /\ phase = "run" /\ task[w].pc \notin {"take", "sign", "send", "done"}
    /\ errors' = (task[w].pc :> 1 + (IF task[w].pc \in DOMAIN errors THEN errors[task[w].pc] ELSE 0)) @@ errors
    /\ task' = [task EXCEPT ![w].pc = "take"]
    /\ UNCHANGED <<config, phase, drawn, wallets, funder_nonce, idx, counter, success, failed, node>>

\* All tasks are joined.
Report ==
    /\ phase = "run" /\ \A w \in DOMAIN task : task[w].pc = "done"
    /\ phase' = "report"
    /\ UNCHANGED <<config, drawn, wallets, funder_nonce, idx, shared, task, node>>

\* The results are printed, or the error is, and the program ends.
Exit == phase \in {"error", "report"} /\ UNCHANGED vars

Next ==
    \/ Validate \/ Report \/ Exit
    \/ \E a \in Addresses : Draw(a)
    \/ \E r \in Counts : Drawn(r) \/ ReadNonce(r)
    \/ \E r \in Replies : Fund(r)
    \/ \E w \in DOMAIN task : TakeSlot(w) \/ Sign(w) \/ Note(w) \/ \E r \in Replies : Send(w, r)

Spec == Init /\ [][Next]_vars

-----------------------------------------------------------------------------
Of(address) == {tx \in node : tx.from = address}

\* What the report says: every slot was used exactly once, every failure has its entry in
\* the map of errors, and what was accepted had reached the node.
ReportAddsUp ==
    phase = "report" =>
        /\ success + failed = total_target_txs
        /\ MapThenSumSet(LAMBDA e : errors[e], DOMAIN errors) = failed
        /\ Cardinality({tx \in node : tx.from # Funder}) \in success .. total_target_txs

\* A wallet sends only once its funding was accepted, never to itself, and no nonce is
\* signed twice, although the tasks and the failures interleave.
LoadIsClean ==
    \A i \in DOMAIN wallets :
        LET a == wallets[i].address
        IN /\ Of(a) # {} => \E tx \in Of(Funder) : tx.to = a
           /\ \A tx \in Of(a) : tx.to # a /\ tx.nonce < wallets[i].next_nonce
           /\ \A tx, other \in Of(a) : tx.nonce = other.nonce => tx = other
=============================================================================
