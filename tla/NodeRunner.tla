------------------------------ MODULE NodeRunner ------------------------------
(***************************************************************************)
(* The runners of a node, from the start of the process to its end: main   *)
(* of testapp and of evd (bin), their configuration (node/src/config.rs,   *)
(* cli.rs), the runners of a development node and init_dev_node            *)
(* (crates/app/node/src/lib.rs), the runner of a node under external        *)
(* consensus (crates/rpc/evnode/src/runner.rs) and the persisted chain      *)
(* state (crates/app/server/src/persistence.rs), over one data directory    *)
(* that outlives the processes.                                             *)
(*                                                                         *)
(* What a storage holds is how often genesis was applied to it, the height  *)
(* in CHAIN_STATE_KEY if it is there, and the numbers of the blocks it has  *)
(* executed.  Block production is one step here; what happens inside it is  *)
(* the subject of DevNode and of ExecutorService.  A layer of configuration *)
(* is a function from the keys it sets; the data directory is always the    *)
(* same one.                                                                *)
(***************************************************************************)
EXTENDS Integers, FiniteSetsExt, TLAPS

CONSTANTS
    Clients,     \* connections to the gRPC server of an external node
    Worlds       \* the worlds a behaviour may live in

Development == {"generic", "mempool", "eth", "mock"}

\* Calls that fail, and a process that is killed.
Failures == {"storage", "read", "genesis", "batch", "commit", "sidecar", "rpc", "save", "crash"}

VARIABLES
    file,      \* config.yaml, as an option
    disk,      \* what the storage in the data directory has committed
    sidecars,  \* numbers of the blocks in chain-index.sqlite and in the archive
    proc,      \* the process
    conns,     \* open connections to the gRPC server of an external node
    starts,    \* processes started
    world      \* the world of this behaviour, which never changes:
               \*   files     what config.yaml may be at first, as options
               \*   envs      what the environment may set
               \*   flags     what the command line may set
               \*   runners   the runners that are started
               \*   starts    bound on the processes started
               \*   blocks    bound on the blocks of a storage
               \*   faults    what may go wrong: a subset of Failures

process == <<file, disk, sidecars, proc, conns, starts>>

Empty == [geneses |-> 0, chain |-> {}, blocks |-> {}]
Down(end) == [pc |-> "down", end |-> end]

RunnerInit ==
    /\ world \in Worlds
    /\ file \in world.files
    /\ disk = Empty
    /\ sidecars = [index |-> {}, archive |-> {}]
    /\ proc = Down("none")
    /\ conns = {}
    /\ starts = 0

Persistent(runner) == runner # "mock"

(* A failed expect ends the process.                                       *)
End(end) ==
    /\ proc' = Down(end)
    /\ conns' = {}
    /\ UNCHANGED <<file, disk, sidecars, starts>>

-----------------------------------------------------------------------------
(* Configuration.  The options of the command line that a start needs not  *)
(* have are those of Native.                                               *)
NodeConfigDefault ==
    [chain_id |-> 9, http_addr |-> "8545", grpc_addr |-> "50051", max_message_size |-> 4,
     shutdown_timeout_secs |-> 10, enabled |-> TRUE, enable_block_indexing |-> TRUE, log_level |-> "info"]

Malformed == "malformed"
validate(c) ==
    /\ c.chain_id > 0 /\ c.max_message_size > 0 /\ c.shutdown_timeout_secs > 0
    /\ c.http_addr # Malformed /\ c.grpc_addr # Malformed

write_default_config == <<NodeConfigDefault>>
ensure_config_exists == IF file = <<>> THEN write_default_config ELSE file

\* A layer merged over a weaker one.
Over(strong, weak) ==
    [k \in DOMAIN strong \cup DOMAIN weak |-> IF k \in DOMAIN strong THEN strong[k] ELSE weak[k]]
build_figment(layer, env) == Over(env, Over(layer, NodeConfigDefault))

Native == {"grpc_addr", "http_addr", "chain_id", "enabled", "enable_block_indexing"}
resolve_node_config(layer, env, flags) == Over(flags, build_figment(layer, env))
resolve_node_config_init(layer, env, flags) ==
    resolve_node_config(layer, env, [k \in DOMAIN flags \ Native |-> flags[k]])

(* main, of testapp for a development node and of evd for an external one, *)
(* up to the file with the genesis accounts.  told has the layers, for the *)
(* properties.                                                             *)
Main(runner, env, flags) ==
    /\ runner \in world.runners \cap {"init", "eth", "mock", "external"}
    /\ proc.pc = "down" /\ starts < world.starts
    /\ starts' = starts + 1
    /\ runner = "init" => DOMAIN flags \cap Native = {}
    /\ file' = ensure_config_exists
    /\ LET c == IF runner = "init" THEN resolve_node_config_init(file'[1], env, flags)
                ELSE resolve_node_config(file'[1], env, flags)
       IN proc' = IF validate(c)
                  THEN [pc |-> "main", runner |-> runner, config |-> c, told |-> <<flags, env, file'[1]>>]
                  ELSE Down("invalid config")
    /\ UNCHANGED <<disk, sidecars, conns>>

TestappRun(mock_storage, env, flags) == Main(IF mock_storage THEN "mock" ELSE "eth", env, flags)
EvdRun(env, flags) == Main("external", env, flags)
InitCommand(env, flags) == Main("init", env, flags)

\* load_genesis_config; the process exits with code 2.
LoadGenesisConfigFails ==
    /\ proc.pc = "main" /\ "genesis" \in world.faults
    /\ End("no genesis file")

-----------------------------------------------------------------------------
(* The entry points, up to the storage.                                    *)
Started(runner, rpc, indexing) ==
    [pc |-> "load", runner |-> runner, rpc |-> rpc, indexing |-> indexing,
     db |-> IF Persistent(runner) THEN disk ELSE Empty, height |-> 0, servers |-> {}]

\* Those that testapp and evd call, with what to_rpc_config takes over.
Start(runner) ==
    /\ proc.pc = "main" /\ proc.runner = runner
    /\ proc' = IF runner = "init" THEN Started(runner, FALSE, FALSE)
               ELSE Started(runner, proc.config.enabled, proc.config.enable_block_indexing)
    /\ UNCHANGED <<file, disk, sidecars, conns, starts>>

RunDevNodeWithRpcAndMempoolEth == Start("eth")
RunDevNodeWithRpcAndMempoolMockStorage == Start("mock")
RunExternalConsensusNodeEth == Start("external")
InitDevNode == Start("init")

\* Those of other programs, which bring their own configuration.
StartOther(runner, rpc, indexing) ==
    /\ runner \in world.runners
    /\ proc.pc = "down" /\ starts < world.starts
    /\ starts' = starts + 1
    /\ proc' = IF runner = "generic" /\ rpc THEN Down("refused RPC") ELSE Started(runner, rpc, indexing)
    /\ UNCHANGED <<file, disk, sidecars, conns>>

\* The generic runner looks at its RPC configuration first.
RunDevNodeWithRpc(rpc, indexing) == StartOther("generic", rpc, indexing)
RunDevNode == RunDevNodeWithRpc(FALSE, TRUE)
RunDevNodeWithRpcAndMempool(rpc, indexing) == StartOther("mempool", rpc, indexing)

StorageFails ==
    /\ proc.pc = "load" /\ "storage" \in world.faults
    /\ End("panicked")

(* load_chain_state: the height, if the key is there, can be read and can  *)
(* be decoded.                                                             *)
LoadChainState(readable) == IF readable THEN proc.db.chain ELSE {}

Load(readable) ==
    /\ proc.pc = "load"
    /\ readable \/ "read" \in world.faults
    /\ LET found == LoadChainState(readable)
       IN IF found # {} /\ proc.runner = "init"
          THEN End("refused genesis")
          ELSE /\ proc' = IF found # {}
                          THEN [proc EXCEPT !.pc = "sidecars", !.height = Max(found)]
                          ELSE [proc EXCEPT !.pc = "genesis"]
               /\ UNCHANGED <<file, disk, sidecars, conns, starts>>

GenesisFails ==
    /\ \/ proc.pc = "genesis" /\ world.faults \cap {"genesis", "batch"} # {}
       \/ proc.pc = "commit" /\ "commit" \in world.faults
    /\ End("panicked")

(* commit_genesis: the changes of genesis and the chain state are one      *)
(* batch, committed afterwards.                                            *)
CommitGenesis ==
    \/ /\ proc.pc = "genesis"
       /\ proc' = [proc EXCEPT !.pc = "commit", !.db.geneses = @ + 1, !.db.chain = {1}]
       /\ UNCHANGED disk
    \/ /\ proc.pc = "commit"
       /\ disk' = IF Persistent(proc.runner) THEN proc.db ELSE disk
       /\ proc' = IF proc.runner = "init" THEN Down("initialised")
                  ELSE [proc EXCEPT !.pc = "sidecars", !.height = 1]

Genesis == CommitGenesis /\ UNCHANGED <<file, sidecars, conns, starts>>

-----------------------------------------------------------------------------
\* Which runner answers JSON-RPC.
Serves(p) == p.rpc /\ p.runner \in {"eth", "mock", "external"}

(* persistent_chain_index_path and enable_block_archive: where the blocks  *)
(* of this process are written besides the storage.                        *)
IndexesTo(p) ==
    IF p.indexing /\ (p.runner = "external" \/ (p.runner = "eth" /\ p.rpc)) THEN {"index"} ELSE {}
ArchivesTo(p) == IF p.runner \in {"generic", "eth"} THEN {"archive"} ELSE {}

(* The generic runner with a mempool looks at its RPC configuration here.  *)
RefuseRpc ==
    /\ proc.pc = "sidecars" /\ proc.runner = "mempool" /\ proc.rpc
    /\ End("refused RPC")

\* What follows the start of the servers for JSON-RPC.
Ready(p) == IF p.runner = "external" THEN "listen" ELSE "running"

(* The archive and the index are opened.                                   *)
OpenSidecars ==
    /\ proc.pc = "sidecars" /\ ~(proc.runner = "mempool" /\ proc.rpc)
    /\ proc' = [proc EXCEPT !.pc = IF Serves(proc) THEN "serve" ELSE Ready(proc)]
    /\ UNCHANGED <<file, disk, sidecars, conns, starts>>

(* The JSON-RPC server, and the gRPC server next to it, whose failure is   *)
(* only logged.                                                            *)
StartServers(grpc) ==
    /\ proc.pc = "serve"
    /\ proc' = [proc EXCEPT !.pc = Ready(proc),
                  !.servers = {"json"} \cup (IF grpc /\ proc.runner # "external" THEN {"grpc"} ELSE {})]
    /\ UNCHANGED <<file, disk, sidecars, conns, starts>>

(* EvnodeServer::serve of an external node, which returns at once when     *)
(* there is no token, or when it cannot bind its address.                  *)
Serve(token) ==
    /\ proc.pc = "listen"
    /\ \/ /\ token /\ proc' = [proc EXCEPT !.pc = "running", !.servers = @ \cup {"executor"}]
       \/ /\ ~token \/ "rpc" \in world.faults
          /\ proc' = [proc EXCEPT !.pc = "finish"]
    /\ UNCHANGED <<file, disk, sidecars, conns, starts>>

StartFails ==
    /\ \/ proc.pc = "sidecars" /\ "sidecar" \in world.faults
       \/ proc.pc = "serve" /\ "rpc" \in world.faults
    /\ End("panicked")

-----------------------------------------------------------------------------
(* A development node numbers its blocks itself; an external one is told   *)
(* by a client, the number that follows the last one.  The block is stored *)
(* wherever the process writes blocks to.                                  *)
Produce ==
    /\ \/ proc.pc = "running" /\ proc.runner \in Development
       \/ proc.pc \in {"running", "finish"} /\ conns # {}
    /\ LET number == IF proc.runner \in Development THEN proc.height ELSE Max({0} \cup proc.db.blocks) + 1
           db == [proc.db EXCEPT !.blocks = @ \cup {number}]
           to == IndexesTo(proc) \cup ArchivesTo(proc)
       IN /\ number <= world.blocks
          /\ proc' = [proc EXCEPT !.db = db, !.height = IF proc.runner \in Development THEN number + 1 ELSE number]
          /\ disk' = IF Persistent(proc.runner) THEN db ELSE disk
          /\ sidecars' = [s \in DOMAIN sidecars |->
                            IF s \in to THEN sidecars[s] \cup {number} ELSE sidecars[s]]
    /\ UNCHANGED <<file, conns, starts>>

(* A client of the gRPC server of an external node.  Its connection is     *)
(* served by a task of its own, which holds the service and with it the    *)
(* callback's sender, and which ends with the connection.                  *)
Connect(c) ==
    /\ proc.pc = "running" /\ proc.runner = "external"
    /\ conns' = conns \cup {c}
    /\ UNCHANGED <<file, disk, sidecars, proc, starts>>

Disconnect(c) ==
    /\ c \in conns
    /\ conns' = conns \ {c}
    /\ UNCHANGED <<file, disk, sidecars, proc, starts>>

(* Ctrl+C.                                                                 *)
CtrlC ==
    /\ proc.pc = "running"
    /\ proc' = [proc EXCEPT !.pc = IF proc.runner = "external" THEN "finish" ELSE "save"]
    /\ UNCHANGED <<file, disk, sidecars, conns, starts>>

(* commit_sink.finish joins the worker, which ends when the last sender    *)
(* is dropped.                                                             *)
Finish ==
    /\ proc.pc = "finish" /\ conns = {}
    /\ proc' = [proc EXCEPT !.pc = "save"]
    /\ UNCHANGED <<file, disk, sidecars, conns, starts>>

MutantSaveChainState(height) == {height - 1}
SaveChainState(height) == {height}

(* save_chain_state; its failure is logged.                                *)
Save(ok) ==
    /\ proc.pc = "save"
    /\ ok \/ "save" \in world.faults
    /\ LET db == IF ok THEN [proc.db EXCEPT !.chain = SaveChainState(proc.height)] ELSE proc.db
       IN /\ proc' = [proc EXCEPT !.pc = "stop", !.db = db]
          /\ disk' = IF Persistent(proc.runner) THEN db ELSE disk
    /\ UNCHANGED <<file, sidecars, conns, starts>>

StopServers == proc.pc = "stop" /\ End("stopped")

Kill ==
    /\ proc.pc # "down" /\ "crash" \in world.faults
    /\ End("killed")

RunnerNext ==
    /\ \/ \E env \in world.envs, flags \in world.flags :
           \/ \E mock_storage \in BOOLEAN : TestappRun(mock_storage, env, flags)
           \/ EvdRun(env, flags) \/ InitCommand(env, flags)
       \/ LoadGenesisConfigFails
       \/ RunDevNodeWithRpcAndMempoolEth \/ RunDevNodeWithRpcAndMempoolMockStorage
       \/ RunExternalConsensusNodeEth \/ InitDevNode
       \/ RunDevNode
       \/ \E rpc, indexing \in BOOLEAN :
           RunDevNodeWithRpc(rpc, indexing) \/ RunDevNodeWithRpcAndMempool(rpc, indexing)
       \/ \E readable \in BOOLEAN : Load(readable)
       \/ StorageFails \/ GenesisFails \/ Genesis
       \/ RefuseRpc \/ OpenSidecars \/ \E grpc \in BOOLEAN : StartServers(grpc)
       \/ \E token \in BOOLEAN : Serve(token)
       \/ StartFails
       \/ Produce
       \/ \E c \in Clients : Connect(c) \/ Disconnect(c)
       \/ CtrlC \/ Finish
       \/ \E ok \in BOOLEAN : Save(ok)
       \/ StopServers \/ Kill
    /\ UNCHANGED world

RunnerSpec == RunnerInit /\ [][RunnerNext]_<<process, world>>

(* Once it has begun, the runtime takes a process through its start and    *)
(* its shutdown.  Nothing makes a client go.                               *)
FairSpec ==
    /\ RunnerSpec
    /\ WF_process(\E readable \in BOOLEAN : Load(readable))
    /\ WF_process(Genesis) /\ WF_process(OpenSidecars)
    /\ WF_process(\E grpc \in BOOLEAN : StartServers(grpc))
    /\ WF_process(\E token \in BOOLEAN : Serve(token))
    /\ WF_process(Finish) /\ WF_process(\E ok \in BOOLEAN : Save(ok)) /\ WF_process(StopServers)

-----------------------------------------------------------------------------
(* Genesis is applied to a data directory once: its changes and the record *)
(* that it ran reach the disk together.                                    *)
GenesisOnce == disk.geneses <= 1

(* No server answers before the storage it answers from holds genesis, so  *)
(* that no query finds the token account missing.                          *)
ServedIsInitialised ==
    proc.pc \notin {"down", "main"} /\ proc.servers # {} => proc.db.geneses >= 1 /\ proc.db.chain # {}

(* A development node that was stopped resumes with the number after its   *)
(* last block, whichever of the runners it is resumed with.                *)
ResumesWhereItStopped ==
    proc.pc = "running" /\ proc.runner \in Development =>
        proc.height = Max({0} \cup proc.db.blocks) + 1

(* A process runs with the flag where one is given, else with what the     *)
(* environment has, else the file, and with a default only for what none   *)
(* of them sets.                                                           *)
ConfiguredAsTold ==
    proc.pc = "main" =>
        \A k \in DOMAIN NodeConfigDefault :
            LET setting == {i \in 1..3 : k \in DOMAIN proc.told[i]}
            IN proc.config[k] = IF setting = {} THEN NodeConfigDefault[k] ELSE proc.told[Min(setting)][k]

(* Whichever runners are started on a data directory and wherever they are *)
(* killed, genesis is applied to it once, unless the chain state cannot be *)
(* read, and no server answers before it is.  A process is configured by   *)
(* the strongest of flags, environment, file and defaults that says        *)
(* anything.  A development node that is never killed and always saves its *)
(* chain state resumes with the number after its last block.               *)
StartsAgreeWithDisk ==
    /\ "read" \in world.faults \/ GenesisOnce
    /\ ServedIsInitialised /\ ConfiguredAsTold
    /\ \/ world.faults \cap {"read", "save", "crash"} # {} \/ "external" \in world.runners
       \/ ResumesWhereItStopped

(* "the RPC layer will still use TxContext": the generic runner with a     *)
(* mempool starts when RPC is enabled.                                     *)
GenericStarts ==
    [][proc.pc = "sidecars" /\ proc.runner = "mempool" => proc'.pc = "running"]_process

(* Ctrl+C ends the process.                                                *)
ShutdownEnds == proc.pc = "finish" ~> proc.pc = "down"

-----------------------------------------------------------------------------
(* The proof that starts agree with the disk, for any worlds, any number   *)
(* of starts and blocks.                                                   *)

Stages == {"load", "genesis", "commit", "sidecars", "serve", "listen", "running", "finish", "save", "stop"}
Staged == proc.pc \in Stages

(* A storage with its chain state has seen genesis.                        *)
Database(d) ==
    /\ d = [geneses |-> d.geneses, chain |-> d.chain, blocks |-> d.blocks]
    /\ d.geneses \in Nat /\ (d.chain # {} => d.geneses >= 1)

InStage ==
    /\ proc = [pc |-> proc.pc, runner |-> proc.runner, rpc |-> proc.rpc, indexing |-> proc.indexing,
               db |-> proc.db, height |-> proc.height, servers |-> proc.servers]
    /\ Database(proc.db)
    /\ proc.pc \notin {"load", "genesis"} => proc.db.chain # {}
    /\ proc.pc \in {"load", "genesis", "commit", "sidecars"} => proc.servers = {}
    /\ proc.pc \notin {"load", "genesis", "commit"} => proc.runner # "init"

Shape ==
    /\ Database(disk)
    /\ proc.pc \in {"down", "main"} \cup Stages
    /\ proc.pc # "down" => proc.runner \in world.runners \cap (Development \cup {"init", "external"})
    /\ Staged => InStage

(* Unless the chain state cannot be read, it is there once genesis ran.    *)
Once(d) == d.geneses <= 1 /\ (d.geneses = 1 => d.chain # {})
OnceInDirectory ==
    "read" \in world.faults \/
        /\ Once(disk)
        /\ Staged => Once(proc.db)
        /\ proc.pc = "genesis" => proc.db.geneses = 0

(* The chain state has the number after the last block.                    *)
Top(blocks, n) == n \in Nat /\ n \in {0} \cup blocks /\ blocks \subseteq 0..n
Resumable(d) ==
    \/ d.chain = {} /\ d.blocks = {}
    \/ \E n \in {0} \cup d.blocks : d.chain = {n + 1} /\ Top(d.blocks, n)

Careful == world.faults \cap {"read", "save", "crash"} = {} /\ "external" \notin world.runners
Resumes ==
    Careful =>
        /\ Resumable(disk) \/ (proc.pc \in {"running", "save"} /\ Persistent(proc.runner))
        /\ proc.pc \notin {"listen", "finish"}
        /\ proc.pc = "load" => Resumable(proc.db)
        /\ proc.pc = "genesis" => proc.db.blocks = {}
        /\ proc.pc = "commit" => proc.db.chain = {1} /\ proc.db.blocks = {}
        /\ proc.pc \in {"sidecars", "serve", "running", "save"} =>
            proc.height \in Nat /\ Top(proc.db.blocks, proc.height - 1)

RunnerInv == Shape /\ ConfiguredAsTold /\ OnceInDirectory /\ Resumes

(* An empty data directory without a process satisfies the invariant.      *)
LEMMA RunnerInitial == RunnerInit => RunnerInv
<1> SUFFICES ASSUME RunnerInit PROVE RunnerInv
  OBVIOUS
<1>1. proc.pc = "down" /\ disk = Empty
  BY DEF RunnerInit, Down
<1>2. Database(disk) /\ disk.geneses = 0 /\ disk.chain = {} /\ disk.blocks = {}
  BY <1>1 DEF Empty, Database
<1>3. Shape
  BY <1>1, <1>2 DEF Shape, Staged, Stages
<1>4. ConfiguredAsTold
  BY <1>1 DEF ConfiguredAsTold
<1>5. OnceInDirectory
  BY <1>1, <1>2 DEF OnceInDirectory, Once, Staged, Stages
<1>6. Resumes
  BY <1>1, <1>2 DEF Resumes, Resumable
<1> QED BY <1>3, <1>4, <1>5, <1>6 DEF RunnerInv

(* A process that ends leaves the storage as it was.                       *)
LEMMA EndStep ==
  ASSUME RunnerInv, NEW end, End(end), UNCHANGED world,
         Careful => proc.pc \notin {"running", "save"}
  PROVE RunnerInv'
<1>1. proc'.pc = "down" /\ disk' = disk
  BY DEF End, Down
<1>2. Shape'
  BY <1>1 DEF RunnerInv, Shape, Staged, Stages
<1>3. ConfiguredAsTold'
  BY <1>1 DEF ConfiguredAsTold
<1>4. OnceInDirectory'
  BY <1>1 DEF RunnerInv, OnceInDirectory, Staged, Stages
<1>5. Resumes'
  <2> SUFFICES ASSUME Careful PROVE Resumes'
    BY DEF Resumes, Careful
  <2>1. Resumable(disk)
    BY DEF RunnerInv, Resumes
  <2> QED BY <1>1, <2>1 DEF Resumes
<1> QED BY <1>2, <1>3, <1>4, <1>5 DEF RunnerInv

(* The least of some positions in a tuple of three.                        *)
LEMMA MinOfThree ==
  ASSUME NEW S \in SUBSET (1..3), S # {}
  PROVE Min(S) = IF 1 \in S THEN 1 ELSE IF 2 \in S THEN 2 ELSE 3
<1> DEFINE m == IF 1 \in S THEN 1 ELSE IF 2 \in S THEN 2 ELSE 3
<1>1. \A y \in S : y = 1 \/ y = 2 \/ y = 3
  OBVIOUS
<1>2. m \in S
  BY Zenon, <1>1
<1>3. \A y \in S : m <= y
  BY <1>1
<1>4. \A x \in S : (\A y \in S : x <= y) => x = m
  BY <1>1
<1> HIDE DEF m
<1>5. Min(S) = m
  BY Zenon, <1>2, <1>3, <1>4 DEF Min
<1> QED BY <1>5 DEF m

(* The layers of configuration.                                            *)
LEMMA LayersMerged ==
  ASSUME NEW layer, NEW env, NEW flags, NEW k \in DOMAIN NodeConfigDefault
  PROVE resolve_node_config(layer, env, flags)[k] =
          IF k \in DOMAIN flags THEN flags[k] ELSE IF k \in DOMAIN env THEN env[k]
          ELSE IF k \in DOMAIN layer THEN layer[k] ELSE NodeConfigDefault[k]
<1> DEFINE inner == Over(layer, NodeConfigDefault)
           outer == Over(env, inner)
<1>1. k \in DOMAIN inner /\ inner[k] = IF k \in DOMAIN layer THEN layer[k] ELSE NodeConfigDefault[k]
  BY DEF Over
<1> HIDE DEF inner
<1>2. /\ k \in DOMAIN outer
      /\ outer[k] = IF k \in DOMAIN env THEN env[k] ELSE inner[k]
  BY <1>1 DEF Over
<1> HIDE DEF outer
<1>3. Over(flags, outer)[k] = IF k \in DOMAIN flags THEN flags[k] ELSE outer[k]
  BY <1>2 DEF Over
<1> QED BY <1>1, <1>2, <1>3 DEF resolve_node_config, build_figment, inner, outer
(* main: the configuration is that of the layers.                          *)
LEMMA MainStep ==
  ASSUME RunnerInv, NEW runner, NEW env, NEW flags, Main(runner, env, flags), UNCHANGED world
  PROVE RunnerInv'
<1> DEFINE layer == file'[1]
           none == [k \in DOMAIN flags \ Native |-> flags[k]]
           c == IF runner = "init" THEN resolve_node_config_init(layer, env, flags)
                ELSE resolve_node_config(layer, env, flags)
           told == <<flags, env, layer>>
<1>1. /\ disk' = disk
      /\ \/ proc' = Down("invalid config")
         \/ proc' = [pc |-> "main", runner |-> runner, config |-> c, told |-> told]
  BY Zenon DEF Main
<1>2. runner \in world.runners \cap (Development \cup {"init", "external"})
  BY Zenon DEF Main, Development
<1>3. proc'.pc \in {"down", "main"} /\ (proc'.pc = "main" => proc'.runner = runner)
  <2> HIDE DEF c, told
  <2>1. CASE proc' = Down("invalid config")
    BY Zenon, <2>1 DEF Down
  <2>2. CASE proc' = [pc |-> "main", runner |-> runner, config |-> c, told |-> told]
    BY Zenon, <2>2
  <2> QED BY Zenon, <1>1, <2>1, <2>2
<1>4. proc.pc = "down"
  BY Zenon DEF Main
<1>5. Shape'
  BY Zenon, <1>1, <1>2, <1>3 DEF RunnerInv, Shape, Staged, Stages
<1>6. OnceInDirectory'
  BY ZenonT(60), <1>1, <1>3 DEF RunnerInv, OnceInDirectory, Staged, Stages
<1>7. Resumes'
  BY Zenon, <1>1, <1>3, <1>4 DEF RunnerInv, Resumes, Careful
<1>8. ConfiguredAsTold'
  <2>1. CASE proc' = Down("invalid config")
    BY Zenon, <2>1 DEF ConfiguredAsTold, Down
  <2>2. CASE proc' = [pc |-> "main", runner |-> runner, config |-> c, told |-> told]
    <3> SUFFICES ASSUME NEW k \in DOMAIN NodeConfigDefault
                 PROVE  proc'.config[k] =
                          IF {i \in 1..3 : k \in DOMAIN proc'.told[i]} = {} THEN NodeConfigDefault[k]
                          ELSE proc'.told[Min({i \in 1..3 : k \in DOMAIN proc'.told[i]})][k]
      BY DEF ConfiguredAsTold
    <3>1. proc'.config = c /\ proc'.told = told
      BY Zenon, <2>2
    <3>2. c[k] = IF k \in DOMAIN flags THEN flags[k] ELSE IF k \in DOMAIN env THEN env[k]
                 ELSE IF k \in DOMAIN layer THEN layer[k] ELSE NodeConfigDefault[k]
      <4>1. CASE runner # "init"
        BY SMTT(60), <4>1, LayersMerged
      <4>2. CASE runner = "init"
        <5>1. DOMAIN none = DOMAIN flags
          BY Zenon, <4>2 DEF Main
        <5>2. k \in DOMAIN flags => none[k] = flags[k]
          BY Zenon, <4>2 DEF Main
        <5>3. c = resolve_node_config(layer, env, none)
          BY Zenon, <4>2 DEF resolve_node_config_init
        <5> HIDE DEF c, layer, none
        <5> QED BY SMTT(60), <5>1, <5>2, <5>3, LayersMerged
      <4> QED BY Zenon, <4>1, <4>2
    <3> HIDE DEF c, layer
    <3> DEFINE S == {i \in 1..3 : k \in DOMAIN told[i]}
    <3>3. /\ told[1] = flags /\ told[2] = env /\ told[3] = layer
          /\ 1 \in S <=> k \in DOMAIN flags
          /\ 2 \in S <=> k \in DOMAIN env
          /\ 3 \in S <=> k \in DOMAIN layer
      OBVIOUS
    <3>4. S \in SUBSET (1..3) /\ (S = {} <=> 1 \notin S /\ 2 \notin S /\ 3 \notin S)
      <4>1. \A i \in S : i = 1 \/ i = 2 \/ i = 3
        OBVIOUS
      <4> QED BY <4>1
    <3> HIDE DEF S, told
    <3>5. S # {} => Min(S) = IF 1 \in S THEN 1 ELSE IF 2 \in S THEN 2 ELSE 3
      BY Zenon, <3>4, MinOfThree
    <3>6. c[k] = IF S = {} THEN NodeConfigDefault[k] ELSE told[Min(S)][k]
      BY Zenon, <3>2, <3>3, <3>4, <3>5
    <3> QED BY <3>1, <3>6 DEF S
  <2> QED BY Zenon, <1>1, <2>1, <2>2
<1> QED BY Zenon, <1>5, <1>6, <1>7, <1>8 DEF RunnerInv

(* The entry points.                                                       *)
LEMMA StartStep ==
  ASSUME RunnerInv, UNCHANGED <<world, disk>>, NEW runner, NEW rpc, NEW indexing,
         runner \in world.runners \cap (Development \cup {"init", "external"}),
         proc.pc \in {"down", "main"},
         proc' = Started(runner, rpc, indexing)
  PROVE RunnerInv'
<1> DEFINE db == IF Persistent(runner) THEN disk ELSE Empty
<1>1. /\ proc' = [pc |-> "load", runner |-> runner, rpc |-> rpc, indexing |-> indexing,
                  db |-> db, height |-> 0, servers |-> {}]
      /\ proc'.pc = "load" /\ proc'.runner = runner /\ proc'.db = db /\ proc'.servers = {}
  BY Zenon DEF Started
<1>2. Database(Empty) /\ Once(Empty) /\ Resumable(Empty)
  BY SMTT(60) DEF Empty, Database, Once, Resumable
<1>3. Database(disk) /\ Database(db)
  BY Zenon, <1>2 DEF RunnerInv, Shape
<1>4. "read" \notin world.faults => Once(disk) /\ Once(db)
  BY Zenon, <1>2 DEF RunnerInv, OnceInDirectory
<1>5. Careful => Resumable(disk) /\ Resumable(db)
  BY Zenon, <1>2 DEF RunnerInv, Resumes
<1> HIDE DEF db
<1>6. InStage'
  <2>1. proc' = [pc |-> proc'.pc, runner |-> proc'.runner, rpc |-> proc'.rpc, indexing |-> proc'.indexing,
                 db |-> proc'.db, height |-> proc'.height, servers |-> proc'.servers]
    BY Zenon, <1>1
  <2> QED BY Zenon, <1>1, <1>3, <2>1 DEF InStage
<1>7. Shape'
  BY Zenon, <1>1, <1>3, <1>6 DEF Shape, Staged, Stages
<1>8. ConfiguredAsTold'
  BY Zenon, <1>1 DEF ConfiguredAsTold
<1>9. OnceInDirectory'
  BY Zenon, <1>1, <1>4 DEF OnceInDirectory
<1>10. Resumes'
  BY Zenon, <1>1, <1>5 DEF Resumes, Careful
<1> QED BY Zenon, <1>7, <1>8, <1>9, <1>10 DEF RunnerInv
(* A process that goes on.                                                 *)
Moved(p, database, h, open) ==
    [pc |-> p, runner |-> proc.runner, rpc |-> proc.rpc, indexing |-> proc.indexing,
     db |-> database, height |-> h, servers |-> open]

(* What a process is after it has moved on.                                *)
LEMMA MovedProc ==
  ASSUME NEW p, NEW database, NEW h, NEW open, proc' = Moved(p, database, h, open)
  PROVE /\ proc'.pc = p /\ proc'.runner = proc.runner /\ proc'.db = database
        /\ proc'.height = h /\ proc'.servers = open
        /\ proc' = [pc |-> proc'.pc, runner |-> proc'.runner, rpc |-> proc'.rpc, indexing |-> proc'.indexing,
                    db |-> proc'.db, height |-> proc'.height, servers |-> proc'.servers]
  BY Zenon DEF Moved

(* A step that leaves the storage of the process alone.                    *)
LEMMA MoveStep ==
  ASSUME RunnerInv, UNCHANGED <<world, disk>>, Staged, NEW p \in Stages \ {"load", "commit"}, NEW h, NEW open,
         proc' = Moved(p, proc.db, h, open),
         p # "genesis" => proc.db.chain # {} /\ proc.runner # "init",
         p \in {"genesis", "sidecars"} => open = {},
         p = "genesis" => "read" \in world.faults \/ proc.db.geneses = 0,
         Careful => /\ p \notin {"listen", "finish"}
                    /\ proc.pc \in {"running", "save"} => p \in {"running", "save"}
                    /\ p = "genesis" => proc.db.blocks = {}
                    /\ p \in {"sidecars", "serve", "running", "save"} =>
                         h \in Nat /\ Top(proc.db.blocks, h - 1)
  PROVE RunnerInv'
<1>1. InStage /\ Database(disk) /\ proc.pc \in Stages
      /\ proc.runner \in world.runners \cap (Development \cup {"init", "external"})
  BY Zenon DEF RunnerInv, Shape, Staged, Stages
<1>2. /\ proc'.pc = p /\ proc'.runner = proc.runner /\ proc'.db = proc.db
      /\ proc'.height = h /\ proc'.servers = open
      /\ proc' = [pc |-> proc'.pc, runner |-> proc'.runner, rpc |-> proc'.rpc, indexing |-> proc'.indexing,
                  db |-> proc'.db, height |-> proc'.height, servers |-> proc'.servers]
  BY Zenon, MovedProc
<1>3. InStage'
  <2>1. Database(proc'.db)
    BY Zenon, <1>1, <1>2 DEF InStage
  <2>2. proc'.pc \notin {"load", "genesis"} => proc'.db.chain # {}
    BY Zenon, <1>2
  <2>3. proc'.pc \in {"load", "genesis", "commit", "sidecars"} => proc'.servers = {}
    BY Zenon, <1>2
  <2>4. proc'.pc \notin {"load", "genesis", "commit"} => proc'.runner # "init"
    BY Zenon, <1>2
  <2> QED BY Zenon, <1>2, <2>1, <2>2, <2>3, <2>4 DEF InStage
<1>4. Shape'
  BY Zenon, <1>1, <1>2, <1>3 DEF Shape, Stages, Staged
<1>5. ConfiguredAsTold'
  BY Zenon, <1>2 DEF ConfiguredAsTold, Stages
<1>6. OnceInDirectory'
  <2> SUFFICES ASSUME "read" \notin world.faults PROVE OnceInDirectory'
    BY Zenon DEF OnceInDirectory
  <2>1. Once(disk) /\ Once(proc.db)
    BY Zenon DEF RunnerInv, OnceInDirectory
  <2> QED BY Zenon, <1>2, <2>1 DEF OnceInDirectory
<1>7. Resumes'
  <2> SUFFICES ASSUME Careful PROVE Resumes'
    BY Zenon DEF Resumes, Careful
  <2>1. Resumable(disk) \/ (proc.pc \in {"running", "save"} /\ Persistent(proc.runner))
    BY Zenon DEF RunnerInv, Resumes
  <2>2. Resumable(disk') \/ (proc'.pc \in {"running", "save"} /\ Persistent(proc'.runner))
    BY Zenon, <1>2, <2>1
  <2>3. p # "load" /\ p # "commit"
    OBVIOUS
  <2> QED BY Zenon, <1>2, <2>2, <2>3 DEF Resumes
<1> QED BY Zenon, <1>4, <1>5, <1>6, <1>7 DEF RunnerInv
(* The last of the blocks, and what resuming relies on.                    *)
LEMMA TopIsMax ==
  ASSUME NEW blocks, NEW n, Top(blocks, n)
  PROVE Max({0} \cup blocks) = n
<1> DEFINE S == {0} \cup blocks
<1>1. n \in Nat /\ n \in S /\ \A y \in S : y \in Nat /\ y <= n
  BY DEF Top
<1>2. \A x \in S : (\A y \in S : x >= y) => x = n
  BY <1>1
<1> HIDE DEF S
<1>3. Max(S) = n
  BY Zenon, <1>1, <1>2 DEF Max
<1> QED BY <1>3 DEF S

(* The largest of one number.                                              *)
LEMMA MaxOfOne ==
  ASSUME NEW n \in Int
  PROVE Max({n}) = n
  BY DEF Max

(* The next block is the last one.                                         *)
LEMMA TopGrows ==
  ASSUME NEW blocks, NEW n, Top(blocks, n)
  PROVE Top(blocks \cup {n + 1}, n + 1)
<1>1. n \in Nat /\ n + 1 \in Nat /\ blocks \subseteq 0..n
  BY DEF Top
<1>2. blocks \cup {n + 1} \subseteq 0..(n + 1)
  BY <1>1
<1> QED BY <1>1, <1>2 DEF Top

(* The one chain state to resume from is that after the last block.        *)
LEMMA ResumableAt ==
  ASSUME NEW d, Resumable(d), d.chain # {}
  PROVE /\ Max(d.chain) \in Nat
        /\ d.chain = {Max(d.chain)}
        /\ Top(d.blocks, Max(d.chain) - 1)
<1>1. PICK n \in {0} \cup d.blocks : d.chain = {n + 1} /\ Top(d.blocks, n)
  BY Zenon DEF Resumable
<1>2. n \in Nat
  BY <1>1 DEF Top
<1>3. Max(d.chain) = n + 1 /\ (n + 1) - 1 = n
  BY <1>1, <1>2, MaxOfOne
<1> QED BY <1>1, <1>2, <1>3

(* load_chain_state.                                                       *)
LEMMA LoadStep ==
  ASSUME RunnerInv, NEW readable \in BOOLEAN, Load(readable), UNCHANGED world
  PROVE RunnerInv'
<1> DEFINE found == LoadChainState(readable)
<1>1. /\ proc.pc = "load" /\ Staged /\ InStage
      /\ proc.servers = {} /\ Database(proc.db)
  BY Zenon DEF Load, RunnerInv, Shape, Staged, Stages, InStage
<1>2. readable \/ "read" \in world.faults
  BY Zenon DEF Load
<1>3. found = IF readable THEN proc.db.chain ELSE {}
  BY DEF LoadChainState
<1>4. CASE found # {} /\ proc.runner = "init"
  <2>1. End("refused genesis")
    BY ZenonT(60), <1>4 DEF Load
  <2> QED BY Zenon, <1>1, <2>1, EndStep
<1>5. CASE found # {} /\ proc.runner # "init"
  <2>1. disk' = disk /\ proc' = [proc EXCEPT !.pc = "sidecars", !.height = Max(found)]
    BY Zenon, <1>5 DEF Load
  <2>2. proc' = Moved("sidecars", proc.db, Max(found), {})
    <3> HIDE DEF found
    <3> QED BY Zenon, <1>1, <2>1 DEF InStage, Moved
  <2>3. found = proc.db.chain
    BY <1>3, <1>5
  <2>4. Careful => Max(found) \in Nat /\ Top(proc.db.blocks, Max(found) - 1)
    <3> SUFFICES ASSUME Careful PROVE Max(found) \in Nat /\ Top(proc.db.blocks, Max(found) - 1)
      OBVIOUS
    <3>1. Resumable(proc.db)
      BY <1>1 DEF RunnerInv, Resumes
    <3> QED BY <2>3, <1>5, <3>1, ResumableAt
  <2> HIDE DEF found
  <2>5. "sidecars" \in Stages \ {"load", "commit"}
    BY DEF Stages
  <2> QED BY SMTT(60), <1>1, <1>5, <2>1, <2>2, <2>3, <2>4, <2>5, MoveStep
<1>6. CASE found = {}
  <2>1. disk' = disk /\ proc' = [proc EXCEPT !.pc = "genesis"]
    BY Zenon, <1>6 DEF Load
  <2>2. proc' = Moved("genesis", proc.db, proc.height, {})
    <3> HIDE DEF found
    <3> QED BY Zenon, <1>1, <2>1 DEF InStage, Moved
  <2>3. "read" \notin world.faults => proc.db.chain = {}
    BY Zenon, <1>2, <1>3, <1>6
  <2>4. "read" \notin world.faults => proc.db.geneses = 0
    BY SMTT(60), <1>1, <2>3 DEF RunnerInv, OnceInDirectory, Once, Database
  <2>5. Careful => proc.db.blocks = {}
    <3> SUFFICES ASSUME Careful PROVE proc.db.blocks = {}
      BY Zenon
    <3>1. Resumable(proc.db)
      BY Zenon, <1>1 DEF RunnerInv, Resumes
    <3>2. proc.db.chain = {}
      BY Zenon, <2>3 DEF Careful
    <3> QED BY Zenon, <3>1, <3>2 DEF Resumable
  <2> HIDE DEF found
  <2>6. "genesis" \in Stages \ {"load", "commit"}
    BY DEF Stages
  <2> QED BY Zenon, <1>1, <2>1, <2>2, <2>4, <2>5, <2>6, MoveStep
<1> QED BY <1>4, <1>5, <1>6
(* commit_genesis.                                                         *)
LEMMA GenesisStep ==
  ASSUME RunnerInv, Genesis, UNCHANGED world
  PROVE RunnerInv'
<1>1. CASE proc.pc = "genesis"
  <2> DEFINE made == [geneses |-> proc.db.geneses + 1, chain |-> {1}, blocks |-> proc.db.blocks]
  <2>1. /\ Staged /\ InStage /\ Database(disk) /\ Database(proc.db) /\ proc.servers = {}
        /\ proc.runner \in world.runners \cap (Development \cup {"init", "external"})
    BY <1>1 DEF RunnerInv, Shape, Staged, Stages, InStage
  <2>2. disk' = disk /\ proc' = [proc EXCEPT !.pc = "commit", !.db.geneses = @ + 1, !.db.chain = {1}]
    BY <1>1 DEF Genesis, CommitGenesis
  <2>3. proc' = Moved("commit", made, proc.height, {})
    BY Zenon, <2>1, <2>2 DEF InStage, Moved, Database
  <2>4. /\ proc'.pc = "commit" /\ proc'.runner = proc.runner /\ proc'.db = made /\ proc'.servers = {}
        /\ proc' = [pc |-> proc'.pc, runner |-> proc'.runner, rpc |-> proc'.rpc, indexing |-> proc'.indexing,
                    db |-> proc'.db, height |-> proc'.height, servers |-> proc'.servers]
    BY SMTT(60), <2>3, MovedProc
  <2>5. /\ Database(made) /\ made.chain = {1} /\ made.blocks = proc.db.blocks
        /\ made.geneses = proc.db.geneses + 1
    BY <2>1 DEF Database
  <2> HIDE DEF made
  <2>6. InStage'
    BY <2>4, <2>5 DEF InStage
  <2>7. Shape'
    BY <2>1, <2>2, <2>4, <2>6 DEF Shape, Staged, Stages
  <2>8. ConfiguredAsTold'
    BY <2>4 DEF ConfiguredAsTold
  <2>9. OnceInDirectory'
    <3> SUFFICES ASSUME "read" \notin world.faults PROVE OnceInDirectory'
      BY DEF OnceInDirectory
    <3>1. Once(disk) /\ proc.db.geneses = 0
      BY <1>1 DEF RunnerInv, OnceInDirectory
    <3>2. Once(made)
      BY <2>5, <3>1 DEF Once
    <3> QED BY <2>2, <2>4, <3>1, <3>2 DEF OnceInDirectory
  <2>10. Resumes'
    <3> SUFFICES ASSUME Careful PROVE Resumes'
      BY DEF Resumes, Careful
    <3>1. Resumable(disk) /\ proc.db.blocks = {}
      BY <1>1 DEF RunnerInv, Resumes
    <3> QED BY Zenon, <2>2, <2>4, <2>5, <3>1 DEF Resumes
  <2> QED BY <2>7, <2>8, <2>9, <2>10 DEF RunnerInv
<1>2. CASE proc.pc = "commit"
  <2>1. /\ Staged /\ InStage /\ Database(disk) /\ Database(proc.db) /\ proc.servers = {}
        /\ proc.db.chain # {}
        /\ proc.runner \in world.runners \cap (Development \cup {"init", "external"})
    BY <1>2 DEF RunnerInv, Shape, Staged, Stages, InStage
  <2>2. /\ disk' = IF Persistent(proc.runner) THEN proc.db ELSE disk
        /\ proc' = IF proc.runner = "init" THEN Down("initialised")
                   ELSE [proc EXCEPT !.pc = "sidecars", !.height = 1]
    BY <1>2 DEF Genesis, CommitGenesis
  <2>3. Database(disk')
    BY Zenon, <2>1, <2>2
  <2>4. "read" \notin world.faults => Once(disk') /\ Once(proc.db)
    BY <2>1, <2>2 DEF RunnerInv, OnceInDirectory
  <2>5. Careful => Resumable(disk') /\ Top(proc.db.blocks, 0)
    <3> SUFFICES ASSUME Careful PROVE Resumable(disk') /\ Top(proc.db.blocks, 0)
      OBVIOUS
    <3>1. Resumable(disk) /\ proc.db.chain = {1} /\ proc.db.blocks = {}
      BY <1>2 DEF RunnerInv, Resumes
    <3>2. Top(proc.db.blocks, 0)
      BY <3>1 DEF Top
    <3>3. Resumable(proc.db)
      BY <3>1, <3>2 DEF Resumable
    <3> QED BY <2>2, <3>1, <3>2, <3>3
  <2>6. CASE proc.runner = "init"
    <3>1. proc'.pc = "down"
      BY Zenon, <2>2, <2>6 DEF Down
    <3>2. Shape' /\ ConfiguredAsTold' /\ OnceInDirectory'
      BY Zenon, <2>3, <2>4, <3>1 DEF Shape, ConfiguredAsTold, OnceInDirectory, Staged, Stages
    <3>3. Resumes'
      BY Zenon, <2>5, <3>1 DEF Resumes, Careful
    <3> QED BY <3>2, <3>3 DEF RunnerInv
  <2>7. CASE proc.runner # "init"
    <3>1. proc' = Moved("sidecars", proc.db, 1, {})
      BY Zenon, <2>1, <2>2, <2>7 DEF InStage, Moved
    <3>2. /\ proc'.pc = "sidecars" /\ proc'.runner = proc.runner /\ proc'.db = proc.db
          /\ proc'.height = 1 /\ proc'.servers = {}
          /\ proc' = [pc |-> proc'.pc, runner |-> proc'.runner, rpc |-> proc'.rpc, indexing |-> proc'.indexing,
                      db |-> proc'.db, height |-> proc'.height, servers |-> proc'.servers]
      BY <3>1, MovedProc
    <3>3. InStage'
      BY <2>1, <2>7, <3>2 DEF InStage
    <3>4. Shape'
      BY <2>1, <2>3, <3>2, <3>3 DEF Shape, Staged, Stages
    <3>5. ConfiguredAsTold' /\ OnceInDirectory'
      BY <2>4, <3>2 DEF ConfiguredAsTold, OnceInDirectory
    <3>6. Resumes'
      BY <2>5, <3>2 DEF Resumes, Careful
    <3> QED BY Zenon, <3>4, <3>5, <3>6 DEF RunnerInv
  <2> QED BY Zenon, <2>6, <2>7
<1> QED BY <1>1, <1>2 DEF Genesis, CommitGenesis
(* From the sidecars to the end of the service.                            *)
LEMMA ServingFacts ==
  ASSUME RunnerInv, proc.pc \in {"sidecars", "serve", "listen", "running", "finish", "save"}
  PROVE /\ Staged /\ InStage /\ Database(disk) /\ Database(proc.db)
        /\ proc.db.chain # {} /\ proc.runner # "init"
        /\ proc.runner \in world.runners \cap (Development \cup {"init", "external"})
        /\ Careful => /\ proc.runner # "external" /\ proc.pc \notin {"listen", "finish"}
                      /\ proc.height \in Nat /\ Top(proc.db.blocks, proc.height - 1)
<1>1. /\ Staged /\ InStage /\ Database(disk) /\ Database(proc.db)
      /\ proc.db.chain # {} /\ proc.runner # "init"
      /\ proc.runner \in world.runners \cap (Development \cup {"init", "external"})
  BY DEF RunnerInv, Shape, Staged, Stages, InStage
<1>2. Careful => proc.runner # "external"
  BY Zenon, <1>1 DEF Careful
<1>3. Careful => proc.pc \notin {"listen", "finish"}
  BY Zenon DEF RunnerInv, Resumes
<1>4. Careful => proc.height \in Nat /\ Top(proc.db.blocks, proc.height - 1)
  BY Zenon, <1>3 DEF RunnerInv, Resumes
<1> QED BY <1>1, <1>2, <1>3, <1>4

(* The steps around serving keep the invariant.                            *)
LEMMA ServingStep ==
  ASSUME RunnerInv, UNCHANGED world,
         \/ OpenSidecars \/ \E grpc \in BOOLEAN : StartServers(grpc)
         \/ \E token \in BOOLEAN : Serve(token)
         \/ CtrlC \/ Finish
  PROVE RunnerInv'
<1> USE DEF Moved
<1>1. \A p \in {"serve", "listen", "running", "finish", "save"} : p \in Stages \ {"load", "commit"}
  BY Zenon DEF Stages
<1>2. CASE OpenSidecars
  <2> DEFINE p == IF Serves(proc) THEN "serve" ELSE Ready(proc)
  <2>1. proc.pc = "sidecars" /\ disk' = disk
    BY Zenon, <1>2 DEF OpenSidecars
  <2>2. proc' = Moved(p, proc.db, proc.height, proc.servers)
    <3>1. proc' = [proc EXCEPT !.pc = p]
      BY <1>2 DEF OpenSidecars
    <3> HIDE DEF p
    <3> QED BY Zenon, <2>1, <3>1, ServingFacts DEF InStage
  <2>3. p \in {"serve", "listen", "running"} /\ (p = "listen" => proc.runner = "external")
    BY DEF Ready
  <2> HIDE DEF p, Moved
  <2> QED BY Zenon, <1>1, <2>1, <2>2, <2>3, ServingFacts, MoveStep
<1>3. CASE \E grpc \in BOOLEAN : StartServers(grpc)
  <2> PICK grpc \in BOOLEAN : StartServers(grpc)
    BY Zenon, <1>3
  <2> DEFINE p == Ready(proc)
             open == {"json"} \cup (IF grpc /\ proc.runner # "external" THEN {"grpc"} ELSE {})
  <2>1. proc.pc = "serve" /\ disk' = disk
    BY Zenon DEF StartServers
  <2>2. proc' = Moved(p, proc.db, proc.height, open)
    <3>1. proc' = [proc EXCEPT !.pc = p, !.servers = open]
      BY Zenon DEF StartServers
    <3> HIDE DEF p, open
    <3> QED BY Zenon, <2>1, <3>1, ServingFacts DEF InStage
  <2>3. p \in {"listen", "running"} /\ (p = "listen" => proc.runner = "external")
    BY DEF Ready
  <2> HIDE DEF p, open, Moved
  <2> QED BY Zenon, <1>1, <2>1, <2>2, <2>3, ServingFacts, MoveStep
<1>4. CASE \E token \in BOOLEAN : Serve(token)
  <2>1. proc.pc = "listen" /\ disk' = disk
    BY Zenon, <1>4 DEF Serve
  <2>2. CASE proc' = [proc EXCEPT !.pc = "running", !.servers = @ \cup {"executor"}]
    <3>1. proc' = Moved("running", proc.db, proc.height, proc.servers \cup {"executor"})
      BY Zenon, <2>1, <2>2, ServingFacts DEF InStage
    <3> HIDE DEF Moved
    <3> QED BY Zenon, <1>1, <2>1, <3>1, ServingFacts, MoveStep
  <2>3. CASE proc' = [proc EXCEPT !.pc = "finish"]
    <3>1. proc' = Moved("finish", proc.db, proc.height, proc.servers)
      BY <2>1, <2>3, ServingFacts DEF InStage
    <3> HIDE DEF Moved
    <3> QED BY <1>1, <2>1, <3>1, ServingFacts, MoveStep
  <2> QED BY Zenon, <1>4, <2>2, <2>3 DEF Serve
<1>5. CASE CtrlC
  <2> DEFINE p == IF proc.runner = "external" THEN "finish" ELSE "save"
  <2>1. proc.pc = "running" /\ disk' = disk
    BY <1>5 DEF CtrlC
  <2>2. proc' = Moved(p, proc.db, proc.height, proc.servers)
    <3>1. proc' = [proc EXCEPT !.pc = p]
      BY <1>5 DEF CtrlC
    <3> HIDE DEF p
    <3> QED BY <2>1, <3>1, ServingFacts DEF InStage
  <2>3. p \in {"finish", "save"} /\ (p = "finish" => proc.runner = "external")
    OBVIOUS
  <2> HIDE DEF p, Moved
  <2> QED BY <1>1, <2>1, <2>2, <2>3, ServingFacts, MoveStep
<1>6. CASE Finish
  <2>1. proc.pc = "finish" /\ disk' = disk /\ proc' = [proc EXCEPT !.pc = "save"]
    BY <1>6 DEF Finish
  <2>2. proc' = Moved("save", proc.db, proc.height, proc.servers)
    BY Zenon, <2>1, ServingFacts DEF InStage
  <2> HIDE DEF Moved
  <2> QED BY Zenon, <1>1, <2>1, <2>2, ServingFacts, MoveStep
<1> QED BY Zenon, <1>2, <1>3, <1>4, <1>5, <1>6
(* A step that changes the storage of the process, and with it the disk.   *)
LEMMA StoreStep ==
  ASSUME RunnerInv, UNCHANGED world, NEW p \in {"running", "finish", "stop"}, NEW database, NEW h,
         proc.pc \in {"running", "finish", "save"},
         proc' = Moved(p, database, h, proc.servers),
         disk' = IF Persistent(proc.runner) THEN database ELSE disk,
         Database(database), database.geneses = proc.db.geneses, database.chain # {},
         Careful => /\ p \in {"running", "stop"}
                    /\ p = "running" => h \in Nat /\ Top(database.blocks, h - 1)
                    /\ p = "stop" => Resumable(database)
  PROVE RunnerInv'
<1>1. /\ InStage /\ Database(disk) /\ proc.runner # "init"
      /\ proc.runner \in world.runners \cap (Development \cup {"init", "external"})
  BY Zenon, ServingFacts
<1>2. /\ proc'.pc = p /\ proc'.runner = proc.runner /\ proc'.db = database
      /\ proc'.height = h /\ proc'.servers = proc.servers
      /\ proc' = [pc |-> proc'.pc, runner |-> proc'.runner, rpc |-> proc'.rpc, indexing |-> proc'.indexing,
                  db |-> proc'.db, height |-> proc'.height, servers |-> proc'.servers]
  BY Zenon, MovedProc
<1>3. InStage'
  BY Zenon, <1>1, <1>2 DEF InStage
<1>4. Shape'
  BY Zenon, <1>1, <1>2, <1>3 DEF Shape, Staged, Stages
<1>5. ConfiguredAsTold'
  BY Zenon, <1>2 DEF ConfiguredAsTold
<1>6. OnceInDirectory'
  <2> SUFFICES ASSUME "read" \notin world.faults PROVE OnceInDirectory'
    BY Zenon DEF OnceInDirectory
  <2>1. Once(disk) /\ Once(proc.db)
    BY Zenon DEF RunnerInv, OnceInDirectory, Staged, Stages
  <2>2. Once(database)
    BY Zenon, <2>1 DEF Once
  <2> QED BY Zenon, <1>2, <2>1, <2>2 DEF OnceInDirectory
<1>7. Resumes'
  <2> SUFFICES ASSUME Careful PROVE Resumes'
    BY Zenon DEF Resumes, Careful
  <2>1. ~Persistent(proc.runner) => Resumable(disk)
    BY Zenon DEF RunnerInv, Resumes
  <2>2. Resumable(disk') \/ (proc'.pc \in {"running", "save"} /\ Persistent(proc'.runner))
    BY Zenon, <1>2, <2>1
  <2> QED BY Zenon, <1>2, <2>2 DEF Resumes
<1> QED BY Zenon, <1>4, <1>5, <1>6, <1>7 DEF RunnerInv

(* A block.                                                                *)
LEMMA ProduceStep ==
  ASSUME RunnerInv, Produce, UNCHANGED world
  PROVE RunnerInv'
<1> DEFINE number == IF proc.runner \in Development THEN proc.height ELSE Max({0} \cup proc.db.blocks) + 1
           database == [proc.db EXCEPT !.blocks = @ \cup {number}]
           h == IF proc.runner \in Development THEN number + 1 ELSE number
<1>1. /\ proc.pc \in {"running", "finish"}
      /\ proc' = [proc EXCEPT !.db = database, !.height = h]
      /\ disk' = IF Persistent(proc.runner) THEN database ELSE disk
  BY Zenon DEF Produce
<1>2. /\ InStage /\ Database(proc.db) /\ proc.db.chain # {}
      /\ proc.runner \in world.runners \cap (Development \cup {"init", "external"}) /\ proc.runner # "init"
      /\ Careful => /\ proc.runner # "external" /\ proc.pc \notin {"listen", "finish"}
                    /\ proc.height \in Nat /\ Top(proc.db.blocks, proc.height - 1)
  BY Zenon, <1>1, ServingFacts
<1>3. Careful => /\ proc.pc = "running" /\ number = proc.height /\ h = proc.height + 1
                 /\ proc.height \in Nat /\ Top(proc.db.blocks, proc.height - 1)
  BY Zenon, <1>1, <1>2
<1> HIDE DEF number
<1>4. database = [geneses |-> proc.db.geneses, chain |-> proc.db.chain, blocks |-> proc.db.blocks \cup {number}]
  <2>1. proc.db = [geneses |-> proc.db.geneses, chain |-> proc.db.chain, blocks |-> proc.db.blocks]
    BY Zenon, <1>2 DEF Database
  <2> QED BY SMTT(60), <2>1
<1>5. /\ database.geneses = proc.db.geneses /\ database.chain = proc.db.chain
      /\ database.blocks = proc.db.blocks \cup {number}
  BY Zenon, <1>4
<1>6. Database(database)
  BY Zenon, <1>2, <1>4, <1>5 DEF Database
<1> HIDE DEF database, h
<1>7. proc' = Moved(proc.pc, database, h, proc.servers)
  BY Zenon, <1>1, <1>2 DEF InStage, Moved
<1>8. Careful => h \in Nat /\ Top(database.blocks, h - 1)
  <2> SUFFICES ASSUME Careful PROVE h \in Nat /\ Top(database.blocks, h - 1)
    BY Zenon
  <2>1. Top(proc.db.blocks \cup {(proc.height - 1) + 1}, (proc.height - 1) + 1)
    BY Zenon, <1>3, TopGrows
  <2>2. (proc.height - 1) + 1 = number /\ h - 1 = number /\ h \in Nat
    BY SMTT(60), <1>3
  <2> QED BY Zenon, <1>5, <2>1, <2>2
<1>9. /\ proc.pc \in {"running", "finish", "stop"} /\ proc.pc # "stop"
      /\ proc.pc \in {"running", "finish", "save"}
      /\ Careful => proc.pc \in {"running", "stop"}
  BY Zenon, <1>1, <1>3
<1>10. disk' = IF Persistent(proc.runner) THEN database ELSE disk
  BY Zenon, <1>1
<1>11. database.geneses = proc.db.geneses /\ database.chain # {}
  BY Zenon, <1>2, <1>5
<1> QED BY SMTT(60), <1>6, <1>7, <1>8, <1>9, <1>10, <1>11, StoreStep

(* save_chain_state.                                                       *)
LEMMA SaveStep ==
  ASSUME RunnerInv, NEW ok \in BOOLEAN, Save(ok), UNCHANGED world
  PROVE RunnerInv'
<1> DEFINE saving == [proc.db EXCEPT !.chain = SaveChainState(proc.height)]
           database == IF ok THEN saving ELSE proc.db
<1>1. /\ proc.pc = "save" /\ (ok \/ "save" \in world.faults)
      /\ proc' = [proc EXCEPT !.pc = "stop", !.db = database]
      /\ disk' = IF Persistent(proc.runner) THEN database ELSE disk
  BY DEF Save
<1>2. /\ InStage /\ Database(proc.db) /\ proc.db.chain # {}
      /\ Careful => proc.height \in Nat /\ Top(proc.db.blocks, proc.height - 1)
  BY Zenon, <1>1, ServingFacts
<1>3. saving = [geneses |-> proc.db.geneses, chain |-> {proc.height}, blocks |-> proc.db.blocks]
  BY SMTT(60), <1>2 DEF Database, SaveChainState
<1>4. saving.geneses = proc.db.geneses /\ saving.chain = {proc.height} /\ saving.blocks = proc.db.blocks
  BY <1>3
<1>5. Database(saving) /\ saving.chain # {}
  BY Zenon, <1>2, <1>3, <1>4 DEF Database
<1>6. Careful => ok /\ Resumable(saving)
  <2> SUFFICES ASSUME Careful PROVE ok /\ Resumable(saving)
    OBVIOUS
  <2>1. ok
    BY <1>1 DEF Careful
  <2>2. (proc.height - 1) \in {0} \cup proc.db.blocks /\ (proc.height - 1) + 1 = proc.height
    BY <1>2 DEF Top
  <2> QED BY <1>2, <1>4, <2>1, <2>2 DEF Resumable
<1> HIDE DEF saving
<1>7. /\ Database(database) /\ database.geneses = proc.db.geneses /\ database.chain # {}
      /\ Careful => Resumable(database)
  BY Zenon, <1>2, <1>4, <1>5, <1>6
<1> HIDE DEF database
<1>8. proc' = Moved("stop", database, proc.height, proc.servers)
  BY Zenon, <1>1, <1>2 DEF InStage, Moved
<1> QED BY SMTT(60), <1>1, <1>7, <1>8, StoreStep

(* A step that leaves the process and the disk as they are.                *)
LEMMA StillStep ==
  ASSUME RunnerInv, UNCHANGED <<disk, proc, world>>
  PROVE RunnerInv'
<1>1. Shape'
  BY DEF RunnerInv, Shape, Staged, InStage
<1>2. ConfiguredAsTold'
  BY Zenon DEF RunnerInv, ConfiguredAsTold
<1>3. OnceInDirectory'
  BY DEF RunnerInv, OnceInDirectory, Staged
<1>4. Resumes'
  BY DEF RunnerInv, Resumes, Careful
<1> QED BY <1>1, <1>2, <1>3, <1>4 DEF RunnerInv

(* Every step keeps the invariant.                                         *)
LEMMA RunnerInvStep == RunnerInv /\ [RunnerNext]_<<process, world>> => RunnerInv'
<1> SUFFICES ASSUME RunnerInv, [RunnerNext]_<<process, world>> PROVE RunnerInv'
  OBVIOUS
<1>1. CASE UNCHANGED <<process, world>>
  BY <1>1, StillStep DEF process
<1>2. CASE RunnerNext
  <2>1. UNCHANGED world
    BY <1>2 DEF RunnerNext
  <2>2. ASSUME NEW env, NEW flags, NEW mock_storage, TestappRun(mock_storage, env, flags) PROVE RunnerInv'
    BY Zenon, <2>1, <2>2, MainStep DEF TestappRun
  <2>3. ASSUME NEW env, NEW flags, EvdRun(env, flags) \/ InitCommand(env, flags) PROVE RunnerInv'
    BY Zenon, <2>1, <2>3, MainStep DEF EvdRun, InitCommand
  <2>4. ASSUME NEW runner, Start(runner) PROVE RunnerInv'
    <3>1. proc.pc = "main" /\ proc.runner = runner /\ disk' = disk
      BY Zenon, <2>4 DEF Start
    <3>2. runner \in world.runners \cap (Development \cup {"init", "external"})
      BY Zenon, <3>1 DEF RunnerInv, Shape
    <3>3. \E rpc, indexing : proc' = Started(runner, rpc, indexing)
      BY ZenonT(60), <2>4 DEF Start
    <3> QED BY Zenon, <2>1, <3>1, <3>2, <3>3, StartStep
  <2>5. ASSUME NEW runner \in {"generic", "mempool"}, NEW rpc, NEW indexing, StartOther(runner, rpc, indexing)
        PROVE RunnerInv'
    <3>1. proc.pc = "down" /\ disk' = disk /\ runner \in world.runners
      BY Zenon, <2>5 DEF StartOther
    <3>2. runner \in world.runners \cap (Development \cup {"init", "external"})
      BY <3>1 DEF Development
    <3>3. CASE proc' = Down("refused RPC")
      <4>1. proc'.pc = "down"
        BY Zenon, <3>3 DEF Down
      <4>2. Shape' /\ ConfiguredAsTold' /\ OnceInDirectory'
        BY Zenon, <2>1, <3>1, <4>1 DEF RunnerInv, Shape, ConfiguredAsTold, OnceInDirectory, Staged, Stages
      <4>3. Resumes'
        BY Zenon, <2>1, <3>1, <4>1 DEF RunnerInv, Resumes, Careful
      <4> QED BY <4>2, <4>3 DEF RunnerInv
    <3>4. CASE proc' = Started(runner, rpc, indexing)
      BY Zenon, <2>1, <3>1, <3>2, <3>4, StartStep
    <3> QED BY Zenon, <2>5, <3>3, <3>4 DEF StartOther
  <2>6. ASSUME \/ LoadGenesisConfigFails \/ StorageFails \/ GenesisFails \/ RefuseRpc \/ StartFails
               \/ StopServers \/ Kill
        PROVE RunnerInv'
    <3>1. Careful => proc.pc \notin {"running", "save"}
      BY ZenonT(60), <2>6 DEF LoadGenesisConfigFails, StorageFails, GenesisFails, RefuseRpc, StartFails, StopServers, Kill, Careful
    <3>2. \E end : End(end)
      BY Zenon, <2>6 DEF LoadGenesisConfigFails, StorageFails, GenesisFails, RefuseRpc, StartFails, StopServers, Kill
    <3> QED BY Zenon, <2>1, <3>1, <3>2, EndStep
  <2>7. ASSUME NEW c, Connect(c) \/ Disconnect(c) PROVE RunnerInv'
    BY Zenon, <2>1, <2>7, StillStep DEF Connect, Disconnect
  <2> QED
    BY ZenonT(60), <1>2, <2>1, <2>2, <2>3, <2>4, <2>5, <2>6, <2>7,
       LoadStep, GenesisStep, ServingStep, ProduceStep, SaveStep
    DEF RunnerNext, RunDevNode, RunDevNodeWithRpc, RunDevNodeWithRpcAndMempool, InitDevNode,
        RunDevNodeWithRpcAndMempoolEth, RunDevNodeWithRpcAndMempoolMockStorage, RunExternalConsensusNodeEth
<1> QED BY <1>1, <1>2

(* The invariant holds in every reachable state.                           *)
LEMMA RunnerInvHolds == RunnerSpec => []RunnerInv
<1> QED BY RunnerInitial, RunnerInvStep, PTL DEF RunnerSpec

(* Whichever runners are started on a data directory, however often and    *)
(* wherever they fail or are killed, genesis is applied to it once unless  *)
(* the chain state cannot be read, no server answers before it is, a       *)
(* process is configured by the strongest layer that says anything, and a  *)
(* development node resumes with the number after its last block.          *)
THEOREM StartsAlwaysAgree == RunnerSpec => []StartsAgreeWithDisk
<1>1. RunnerInv => StartsAgreeWithDisk
  <2> SUFFICES ASSUME RunnerInv PROVE StartsAgreeWithDisk
    BY Zenon
  <2>1. "read" \in world.faults \/ GenesisOnce
    BY Zenon DEF RunnerInv, OnceInDirectory, Once, GenesisOnce
  <2>2. ServedIsInitialised
    <3> SUFFICES ASSUME proc.pc \notin {"down", "main"}, proc.servers # {}
                 PROVE proc.db.geneses >= 1 /\ proc.db.chain # {}
      BY Zenon DEF ServedIsInitialised
    <3>1. InStage
      BY Zenon DEF RunnerInv, Shape, Staged
    <3>2. proc.db.chain # {}
      BY Zenon, <3>1 DEF InStage
    <3> QED BY Zenon, <3>1, <3>2 DEF InStage, Database
  <2>3. Careful => ResumesWhereItStopped
    <3> SUFFICES ASSUME Careful, proc.pc = "running" PROVE proc.height = Max({0} \cup proc.db.blocks) + 1
      BY Zenon DEF ResumesWhereItStopped
    <3>1. proc.height \in Nat /\ Top(proc.db.blocks, proc.height - 1)
      BY Zenon, ServingFacts
    <3>2. Max({0} \cup proc.db.blocks) = proc.height - 1
      BY Zenon, <3>1, TopIsMax
    <3> QED BY SMTT(60), <3>1, <3>2
  <2>4. ConfiguredAsTold
    BY DEF RunnerInv
  <2> QED BY Zenon, <2>1, <2>2, <2>3, <2>4 DEF StartsAgreeWithDisk, Careful
<1> QED BY <1>1, RunnerInvHolds, PTL
=============================================================================
