------------------------------- MODULE MCTools -------------------------------
(***************************************************************************)
(* The state that a block is executed on, "state" (ExecutionState), and    *)
(* the tools around the chain:  the debugger's "replayer" (Replayer), the  *)
(* "simulator" (Simulator), its "metrics" and, with snapshots and resets,  *)
(* its "counters" (SimMetrics), the simulated application with its         *)
(* generator, "app", and in the hands of a "test" (SimTestApp), and the    *)
(* load tester, "load" (TxLoad).  A behaviour belongs to one part.         *)
(***************************************************************************)
EXTENDS ExecutionState

VARIABLES tool, trace, recorded, position, current_state, breakpoints, history, result, panicked

replayer == <<trace, recorded, position, current_state, breakpoints, history, result, panicked>>

(* Breakpoints of every shape. *)
SomeBreakpoints ==
    {[on |-> "Any", parts |-> {[on |-> "Block", height |-> 1], [on |-> "Error"]}],
     [on |-> "All", parts |-> {[on |-> "Not", parts |-> {[on |-> "Tx", tx_id |-> "t1"]}],
                               [on |-> "EventIndex", index |-> 2]}],
     [on |-> "StorageKey", key |-> "k"]}

R == INSTANCE Replayer WITH
    events <- trace,
    Heights <- {1}, Txs <- {"t1"}, Keys <- {"k"}, Values <- {"v"}, NoValue <- "none",
    Firsts <- {"BlockStart", "TxStart"}, Breakpoints <- SomeBreakpoints,
    MaxEvents <- 3, MaxBreaks <- 1, MaxHistory <- 1

VARIABLES sim, initial, snapshot, op

simulator == <<sim, initial, snapshot, op>>

S == INSTANCE Simulator WITH
    Keys <- {"k"}, Values <- {"v"}, NoValue <- "none", Hows <- {"new"}, TicksPerBlock <- 2,
    MaxBlocks <- 2, Restores <- TRUE, MaxTick <- 5, MaxDraws <- 2, MaxRun <- 2

VARIABLES block, blocks_executed, txs_executed, txs_success, txs_failed,
          state_size, peak_state_size, block_metrics, blocks, taken, since

metrics == <<block, blocks_executed, txs_executed, txs_success, txs_failed,
             state_size, peak_state_size, block_metrics, blocks, taken, since>>

M == INSTANCE SimMetrics WITH
    recorded <- blocks, MaxWord <- 4, Times <- {1, 2, 3}, Growths <- {2}, Shrinks <- {1},
    MaxHistory <- 2, MaxRecorded <- 3, Snapshots <- FALSE

C == INSTANCE SimMetrics WITH
    recorded <- blocks, MaxWord <- 3, Times <- {1}, Growths <- {2}, Shrinks <- {},
    MaxHistory <- 1, MaxRecorded <- 2, Snapshots <- TRUE

VARIABLES height, nonces, mempool, chain, generator, round, outside, failed

application == <<height, nonces, mempool, chain, generator, round, outside, failed>>

A == INSTANCE SimTestApp WITH
    Signers <- <<"alice", "bob">>, Initial <- [alice |-> 2, bob |-> 1], Fresh <- <<"carol", "dave">>,
    Faucet <- "alice", MinAmount <- 1, MaxAmount <- 2, FundingAmount <- 1, CreateEveryNBlocks <- 2, MaxNewAccounts <- 1,
    MaxTxs <- 2, MaxHeight <- 2, MaxOutside <- 1

\* The same without the generator, in the hands of a test.
T == INSTANCE SimTestApp WITH
    Signers <- <<"alice", "bob">>, Initial <- [alice |-> 2, bob |-> 1], Fresh <- <<"carol">>,
    Faucet <- "alice", MinAmount <- 1, MaxAmount <- 1, FundingAmount <- 9, CreateEveryNBlocks <- 0, MaxNewAccounts <- 0,
    MaxTxs <- 1, MaxHeight <- 2, MaxOutside <- 3

VARIABLES config, phase, drawn, wallets, funder_nonce, idx, counter, accepted, refused, errors, task, node

load == <<config, phase, drawn, wallets, funder_nonce, idx, counter, accepted, refused, errors, task, node>>

(* A transaction is accepted, refused, or accepted with the answer lost;   *)
(* a count is 17, or no number.                                            *)
Answer(reaches, sent, json, error, value) ==
    [reaches |-> reaches, sent |-> sent, json |-> json, ok |-> ~error, error |-> error, result |-> value]

L == INSTANCE TxLoad WITH
    success <- accepted, failed <- refused, Addresses <- {"w1", "w2", "w3"}, Funder <- "f",
    Configs <- {[workers |-> w, target_tps |-> t, duration_secs |-> d] : w \in {1, 2}, t \in {0, 3}, d \in {0, 1, 200}}
               \cup {[workers |-> 3, target_tps |-> 2, duration_secs |-> 1]},
    Attempts <- 2, MaxU64 <- 255,
    Replies <- {Answer(TRUE, TRUE, TRUE, FALSE, {"hash"}), Answer(FALSE, TRUE, TRUE, TRUE, {}),
                Answer(TRUE, FALSE, FALSE, FALSE, {})},
    Counts <- {Answer(TRUE, TRUE, TRUE, FALSE, r) : r \in {{<<1, 1>>}, {<<16>>}}}

MCInit ==
    /\ Init
    /\ tool \in {"state", "replayer", "simulator", "metrics", "counters", "app", "test", "load"}
    /\ tool # "load" => config = [workers |-> 1, target_tps |-> 0, duration_secs |-> 0]
    /\ R!Init /\ S!Init /\ M!Init /\ A!Init /\ L!Init

MCNext ==
    \/ tool = "state" /\ Next /\ UNCHANGED <<tool, replayer, simulator, metrics, application, load>>
    \/ tool = "replayer" /\ R!Next /\ UNCHANGED <<tool, vars, simulator, metrics, application, load>>
    \/ tool = "simulator" /\ S!Next /\ UNCHANGED <<tool, vars, replayer, metrics, application, load>>
    \/ tool = "metrics" /\ M!Next /\ UNCHANGED <<tool, vars, replayer, simulator, application, load>>
    \/ tool = "counters" /\ C!Next /\ UNCHANGED <<tool, vars, replayer, simulator, application, load>>
    \/ tool = "app" /\ A!Next /\ UNCHANGED <<tool, vars, replayer, simulator, metrics, load>>
    \/ tool = "test" /\ T!Next /\ UNCHANGED <<tool, vars, replayer, simulator, metrics, load>>
    \/ tool = "load" /\ L!Next /\ UNCHANGED <<tool, vars, replayer, simulator, metrics, application>>

MCSpec == MCInit /\ [][MCNext]_<<tool, vars, replayer, simulator, metrics, application, load>>

-----------------------------------------------------------------------------
(* The state the replayer shows is the one after exactly the events before *)
(* its position, whichever steps, runs, jumps and resets led there, and a  *)
(* jump to a block or transaction of the trace arrives at it; and a trace  *)
(* of the simulated application leads to the state of its chain.           *)
StateFitsPosition == R!StateFitsPosition /\ R!JumpsArrive /\ A!TraceReplays

(* A run forwards stops at the first event after its start that a          *)
(* breakpoint matches, a run backwards at the last one before it, or at    *)
(* the end of the trace that it runs to; run_blocks(n) of the simulator    *)
(* stops exactly n blocks on, or at max_blocks.                            *)
RunsStopWhereTold == R!RunStopsAtFirst /\ R!RunBackStopsAtLast /\ S!RunReachesTarget

(* The simulated clock never shows a block whose first tick is still to    *)
(* come, and counts the same ends of blocks over single ticks and many at  *)
(* once.                                                                   *)
ClockAgrees == S!TicksCoverBlocks /\ S!BoundariesAgree

(* The window of block metrics holds the latest blocks in their order, at  *)
(* least p percent of their times lie at or below the p-th percentile, and *)
(* the totals agree even after a counter has saturated; two snapshots      *)
(* differ by what was recorded between them.  The nonces that the          *)
(* simulated application counts are those its accounts expect, tokens are  *)
(* only moved, and the books of the generator are the chain's.  The report *)
(* of a load test counts every slot once, and no wallet sends before it is *)
(* funded, to itself, or twice with one nonce.                             *)
MetricsAgree ==
    /\ tool = "metrics" => M!WindowIsLatest /\ M!PercentileCovers /\ M!TotalsAgree
    /\ tool = "counters" => C!DeltaIsRecorded /\ C!TotalsAgree
    /\ A!NoncesInStep /\ A!SupplyPreserved /\ A!BooksAgree
    /\ L!ReportAddsUp /\ L!LoadIsClean
=============================================================================
