------------------------------ MODULE MCProgress ------------------------------
(***************************************************************************)
(* What must happen at last, in five parts: "storage" (QmdbStorage),       *)
(* "executor" (ExecutorService), "node" (DevNode), "ingress" (Ingress) and *)
(* "subscriptions" (Subscriptions).  A behaviour belongs to one part; the  *)
(* fairness of a part is that of its module, and asks nothing of the       *)
(* others: their fair actions are disabled in their initial states, or are *)
(* taken in their own part only.                                           *)
(***************************************************************************)
EXTENDS Integers, Sequences

CONSTANTS Writer, Pruner, a, c1, c2, r1, r2

VARIABLES part, q_db, q_durable, cache, holders, q_queue, reader, writer, batch, pruner, signal, committed

storage == <<q_db, q_durable, cache, holders, q_queue, reader, writer, batch, pruner, signal, committed>>
Q == INSTANCE QmdbStorage WITH
    Key <- {"k"}, Reader <- {r1, r2}, MaxBatches <- 1, MaxEntries <- 2, MaxRetries <- 1,
    Usages <- {{"async", "overlap"}}, usage <- {"async", "overlap"}, db <- q_db, durable <- q_durable, queue <- q_queue

VARIABLES initialized, root, current_height, finalized, x_holder, call, sink, worker, db, x_committed, indexed,
          parent, sink_height, saved_height, x_mempool, client, executions, inits

executor == <<initialized, root, current_height, finalized, x_holder, call, sink, worker, db, x_committed, indexed,
              parent, sink_height, saved_height, x_mempool, client, executions, inits>>
X == INSTANCE ExecutorService WITH
    Call <- {c1, c2}, Txs <- {a}, Gas <- [t \in {a} |-> 3], MaxGas <- 10,
    Bytes <- [t \in {a} |-> 1], MaxBytes <- 2, MaxHeight <- 2,
    MaxSerial <- 3, MaxPending <- 1, Mishaps <- {{"batch"}}, mishaps <- {"batch"},
    holder <- x_holder, committed <- x_committed, mempool <- x_mempool

VARIABLES up, height, last_hash, pool, producer, state, durable, saved, archiving, channel, archive,
          pruned, written, indexing, index, heads, submitted, serial

node == <<up, height, last_hash, pool, producer, state, durable, saved, archiving, channel, archive,
          pruned, written, indexing, index, heads, submitted, serial>>
D == INSTANCE DevNode WITH
    Tx <- {1}, MaxBlocks <- 2, Capacity <- 1, Retention <- 1, Section <- 1,
    FaultSets <- {{"batch"}}, faults <- {"batch"}

VARIABLES raw, i_phase, answer, queue, holder, job, response, mempool

ingress == <<raw, i_phase, answer, queue, holder, job, response, mempool>>

\* A raw transaction that is let in, and one on which the verifier panics.
Good == [size |-> "fits", wire |-> FALSE, form |-> TRUE, type |-> "legacy", claimed |-> TRUE, trailing |-> FALSE,
         payload |-> "envelope", sender_type |-> "eoa", chain |-> {1}, inner |-> {1},
         proof |-> FALSE, panics |-> FALSE, to |-> TRUE, hash |-> 1]
Panicking == {Good, [Good EXCEPT !.panics = TRUE]}

I == INSTANCE Ingress WITH
    Requests <- {1, 2}, Raws <- Panicking, Grpc <- {}, Parallelism <- {0}, Cores <- 2, QueueCapacity <- {1},
    ChainId <- 1, Registered <- <<>>, MayDrop <- TRUE, phase <- i_phase

VARIABLES log, subscriptions, next_id, id, phase, open, filter, next, got, lagged, accepted, first

subscribers == <<log, subscriptions, next_id, id, phase, open, filter, next, got, lagged, accepted, first>>
U == INSTANCE Subscriptions WITH
    JsonClients <- {"j1"}, GrpcClients <- {"g1"}, Capacity <- 1, MaxPublished <- 2, Invalid <- "invalid",
    Logs <- {[address |-> "a", topics |-> <<"t">>]},
    Filters <- {[addresses |-> {}, topics |-> <<>>], [addresses |-> {{"b"}}, topics |-> <<>>]}

Init ==
    /\ part \in {"storage", "executor", "node", "ingress", "subscriptions"}
    /\ Q!Init /\ X!ExecutorInit /\ D!Init /\ U!Init
    /\ I!Init /\ (part # "ingress" => raw = [r \in 1..2 |-> Good])

Next ==
    /\ UNCHANGED part
    /\ \/ part = "storage" /\ Q!Next /\ UNCHANGED <<executor, node, ingress, subscribers>>
       \/ part = "executor" /\ X!ExecutorNext /\ UNCHANGED <<storage, node, ingress, subscribers>>
       \/ part = "node" /\ D!Next /\ UNCHANGED <<storage, executor, ingress, subscribers>>
       \/ part = "ingress" /\ I!Next /\ UNCHANGED <<storage, executor, node, subscribers>>
       \/ part = "subscriptions" /\ U!Next /\ UNCHANGED <<storage, executor, node, ingress>>

vars == <<part, storage, executor, node, ingress, subscribers>>

(* The client of the executor keeps asking; a batch that is tried again    *)
(* and again succeeds at last.                                             *)
ExecutorFairness ==
    /\ \A c \in {c1, c2} : /\ WF_executor(part = "executor" /\ X!InitChain(c))
                           /\ WF_executor(part = "executor" /\ X!Request(c))
                           /\ WF_executor(part = "executor" /\ X!Handler(c))
    /\ WF_executor(part = "executor" /\ X!Worker)
    /\ SF_executor(part = "executor" /\ X!SinkBatch)

(* Tokio runs every task that is ready; the mutex is handed to a waiter.   *)
IngressFairness ==
    /\ \A r \in 1..2 : /\ WF_ingress(part = "ingress" /\ I!Enqueue(r))
                       /\ WF_ingress(part = "ingress" /\ I!Receive(r))
                       /\ WF_ingress(part = "ingress" /\ I!Add(r))
    /\ \A w \in I!Workers : /\ WF_ingress(part = "ingress" /\ I!Lock(w))
                           /\ WF_ingress(part = "ingress" /\ I!Recv(w))
                           /\ \A r \in 1..2 : WF_ingress(part = "ingress" /\ I!Verify(w, r))

Spec ==
    /\ Init /\ [][Next]_vars
    /\ Q!Fairness /\ D!Fairness /\ U!Fairness
    /\ ExecutorFairness /\ IngressFairness

-----------------------------------------------------------------------------
(* Every batch, commit and read of QmdbStorage that was begun ends,        *)
(* against other readers and a prune worker competing for the lock, and    *)
(* every commit is followed by a try at pruning that ends.                 *)
EveryoneGetsThrough == Q!EveryoneGetsThrough

(* Whoever waits for an answer gets one.  The client of the executor gets  *)
(* through all its heights, whatever batches fail on the way, and every    *)
(* call to the ingress of a client that stays is answered, even if no      *)
(* response ever times out.                                                *)
CallersAnswered == I!EveryoneAnswered /\ (part = "executor" ~> client.height = 2)

(* What is committed arrives.  Every committed block of the development    *)
(* node is indexed and announced, and a client that keeps its subscription *)
(* is served to the end of what has been published, however often it lags  *)
(* behind.                                                                 *)
CommittedArrives == D!CommittedIsAnnounced /\ U!CatchesUp
=============================================================================
