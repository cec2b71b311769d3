-------------------------------- MODULE MCPool --------------------------------
(***************************************************************************)
(* The way of a transaction into the pool and out of it, in three parts:   *)
(* "pool" is Mempool, "queue" is Ingress with three requests that compete  *)
(* for two workers and one place in the queue, "checks" is Ingress with    *)
(* one request of every form.  A behaviour belongs to one part, and the    *)
(* state of the others does not change.                                    *)
(*                                                                         *)
(* Of three transactions t1 and t2 have one sender, t3 has no sender key;  *)
(* t1 outbids the others, t2 and t3 tie, and t1 needs most of the budget.  *)
(***************************************************************************)
EXTENDS Mempool, TLC

CONSTANTS t1, t2, t3, alice

MCTx == {t1, t2, t3}
MCSender == {alice}
MCSenderOf == (t1 :> alice) @@ (t2 :> alice) @@ (t3 :> NoSender)
MCGasPrice == (t1 :> 2) @@ (t2 :> 1) @@ (t3 :> 1)
MCNonce == (t1 :> 1) @@ (t2 :> 0) @@ (t3 :> 0)
MCGasLimit == (t1 :> 3) @@ (t2 :> 2) @@ (t3 :> 1)
MCBudget == {[max_gas |-> 3, max_txs |-> 0], [max_gas |-> 0, max_txs |-> 2], [max_gas |-> 2, max_txs |-> 1]}

VARIABLES part, raw, phase, answer, queue, holder, job, response, mempool

ingress == <<raw, phase, answer, queue, holder, job, response, mempool>>

(* Raw transactions, as Ingress describes them.                            *)
Good == [size |-> "fits", wire |-> FALSE, form |-> TRUE, type |-> "legacy", claimed |-> TRUE, trailing |-> FALSE,
         payload |-> "envelope", sender_type |-> "eoa", chain |-> {1}, inner |-> {1},
         proof |-> FALSE, panics |-> FALSE, to |-> TRUE, hash |-> 1]
Custom == [Good EXCEPT !.wire = TRUE, !.payload = "custom", !.sender_type = "custom",
                       !.proof = TRUE, !.chain = {}, !.inner = {}]

\* A good one, one with a tail, and a large one.
Few == {Good, [Good EXCEPT !.trailing = TRUE, !.hash = 2], [Custom EXCEPT !.size = "large", !.hash = 3]}

\* Everything that a check may say, for one request.
Variants ==
    {[Good EXCEPT !.size = s, !.form = d, !.type = y, !.trailing = t, !.inner = i, !.to = o] :
        s \in {"empty", "fits", "large"}, y \in {"eip1559", "other"}, d, t, o \in BOOLEAN,
        i \in {{}, {1}, {2}}}
    \cup {[Custom EXCEPT !.type = t, !.trailing = d, !.claimed = c, !.sender_type = s, !.chain = h, !.inner = i,
                         !.payload = "envelope"] :
        t \in {"legacy", "other"}, d, c \in BOOLEAN, s \in {"eoa", "custom"}, h, i \in {{}, {1}, {2}}}
    \cup {[Custom EXCEPT !.form = d, !.claimed = a, !.sender_type = s, !.chain = c, !.proof = f, !.panics = n] :
        a, d, f, n \in BOOLEAN, s \in {"eoa", "custom", "other"}, c \in {{}, {1}, {2}}}

\* Beside the verifier of envelopes, one of custom payloads that replaced a stricter one.
Verifiers == <<[sender_type |-> "custom", verifier |-> [kind |-> "eoa", chain_id |-> 1, require_chain_id |-> TRUE]],
               [sender_type |-> "custom", verifier |-> [kind |-> "custom"]]>>

Contended == INSTANCE Ingress WITH
    Requests <- {1, 2, 3}, Raws <- Few, Grpc <- {2, 3}, Parallelism <- {2}, Cores <- 1, QueueCapacity <- {1},
    ChainId <- 1, Registered <- Verifiers, MayDrop <- TRUE

Checks == INSTANCE Ingress WITH
    Requests <- {1}, Raws <- Variants, Grpc <- {}, Parallelism <- {0}, Cores <- 1, QueueCapacity <- {},
    ChainId <- 1, Registered <- Verifiers, MayDrop <- FALSE

MCInit ==
    /\ Init
    /\ \/ part = "pool" /\ Contended!Init /\ raw = [r \in 1..3 |-> Good]
       \/ part = "queue" /\ Contended!Init
       \/ part = "checks" /\ Checks!Init

MCNext ==
    \/ part = "pool" /\ Next /\ UNCHANGED <<part, ingress>>
    \/ part = "queue" /\ Contended!Next /\ UNCHANGED <<part, vars>>
    \/ part = "checks" /\ Checks!Next /\ UNCHANGED <<part, vars>>

MCSpec == MCInit /\ [][MCNext]_<<part, vars, ingress>>

(* A transaction is in the pool exactly if one of its calls was answered   *)
(* with its hash: neither a timeout of IngressVerifier::verify, nor a      *)
(* client that left, nor a second call leaves one behind that nobody was   *)
(* told of.  And whatever decode_and_verify lets in was decoded to its     *)
(* last byte, is of this chain if it names one, and has a sender whose     *)
(* scheme is known and vouches for it; no such transaction is refused but  *)
(* for another call of it, and what a GatewayError blames is at fault.     *)
AdmittedProperly ==
    /\ part = "queue" => Contended!AddedIsAnswered /\ Contended!PooledIsVerified
    /\ part = "checks" => Checks!PooledIsVerified /\ Checks!BlamedRightly
=============================================================================
