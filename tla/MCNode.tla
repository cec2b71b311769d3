-------------------------------- MODULE MCNode --------------------------------
(***************************************************************************)
(* The node, in three parts: "node" is the block producer of DevNode,      *)
(* "executor" the executor of an external consensus (ExecutorService), and *)
(* "runner" the runners of NodeRunner.  A behaviour belongs to one part,   *)
(* and the state of the others does not change.  What may go wrong in a    *)
(* behaviour is chosen in its initial state.                               *)
(***************************************************************************)
EXTENDS DevNode, ExecutorService, NodeRunner, TLC

(* Values for TLC.  A block has gas for one of the two transactions at a   *)
(* time.                                                                   *)
CONSTANTS large, small

MCGas == [t \in {large, small} |-> IF t = large THEN 3 ELSE 1]
MCBytes == [t \in {large, small} |-> 1]

Set(k, v) == k :> v
NoLayer == [k \in {} |-> 0]
Off == [k \in {"enabled", "enable_block_indexing"} |-> FALSE]

\* Every runner with every fault but a read error, told by flags alone whether to serve and to index.
Killed ==
    [files |-> {<<>>}, envs |-> {NoLayer},
     flags |-> {NoLayer, Set("enabled", FALSE), Set("enable_block_indexing", FALSE), Off},
     runners |-> {"init", "generic", "mempool", "eth", "mock", "external"}, starts |-> 3, blocks |-> 2,
     faults |-> {"storage", "genesis", "batch", "commit", "sidecar", "rpc", "save", "crash"}]

\* The development runners, which are stopped by Ctrl+C or by a failed call.
Stopped ==
    [Killed EXCEPT !.runners = {"init", "generic", "mempool", "eth", "mock"},
                   !.faults = {"storage", "genesis", "batch", "commit", "sidecar", "rpc"}]

\* testapp and evd with files, environments and flags that disagree.
Configured ==
    [files |-> {<<>>, <<NoLayer>>, <<Set("chain_id", 0)>>, <<Off>>, <<Set("http_addr", "malformed")>>},
     envs |-> {NoLayer, Set("chain_id", 7), Set("enabled", TRUE), Set("shutdown_timeout_secs", 0)},
     flags |-> {NoLayer, Set("chain_id", 8), Set("enabled", FALSE), Set("http_addr", "1999"),
                Set("log_level", "warn"), Set("grpc_addr", "malformed")},
     runners |-> {"init", "eth", "external"}, starts |-> 2, blocks |-> 1, faults |-> {"genesis", "read"}]

MCWorlds == {Killed, Stopped, Configured}
-----------------------------------------------------------------------------
VARIABLE part

node == <<vars, faults>>
service_node == <<executor, mishaps>>
data_directory == <<process, world>>

MCInit ==
    /\ part \in {"node", "executor", "runner"}
    /\ Init /\ (part # "node" => faults = CHOOSE f \in FaultSets : TRUE)
    /\ ExecutorInit /\ (part # "executor" => mishaps = CHOOSE f \in Mishaps : TRUE)
    /\ RunnerInit /\ (part # "runner" => world = Killed)

MCNext ==
    /\ UNCHANGED part
    /\ \/ part = "node" /\ Next /\ UNCHANGED <<service_node, data_directory>>
       \/ part = "executor" /\ ExecutorNext /\ UNCHANGED <<node, data_directory>>
       \/ part = "runner" /\ RunnerNext /\ UNCHANGED <<node, service_node>>

MCSpec == MCInit /\ [][MCNext]_<<part, node, service_node, data_directory>>

(* The calls of the executor's client are not told apart.                  *)
Interchangeable == Permutations(Call)
=============================================================================
