------------------------------ MODULE Simulator ------------------------------
(***************************************************************************)
(* The deterministic simulator: a seeded generator, a virtual clock of     *)
(* ticks and blocks, a storage backend and the run loop.  The generator is *)
(* a stream fixed by the seed, so its state is how many values have been   *)
(* drawn.  An application hash is the storage it was computed from.        *)
(***************************************************************************)
EXTENDS Integers, FiniteSets

CONSTANTS Keys, Values, NoValue,
          Hows,            \* how the simulator may have been made: "new", "random", "built"
          TicksPerBlock,   \* ticks_per_block
          MaxBlocks,       \* max_blocks, 0 for none
          Restores,        \* whether the user restores snapshots
          MaxTick, MaxDraws, MaxRun   \* bounds of the model

NoHash == <<>>
NoSnapshot == <<>>
Empty == [k \in Keys |-> NoValue]

VARIABLES sim,        \* the simulator
          initial,    \* the simulator as it was made
          snapshot,   \* a snapshot taken earlier
          op          \* the last operation and its result
vars == <<sim, initial, snapshot, op>>

\* Simulator::new draws the seed of the storage from its own generator.
New == [draws |-> 1, tick |-> 0, block |-> 0, storage |-> Empty,
        last_app_hash |-> NoHash, running |-> FALSE, aborted |-> FALSE]

\* with_random_seed derives it from the seed and draws nothing.
WithRandomSeed == [New EXCEPT !.draws = 0]

\* The builder puts an initial state into the storage, without a commit.
Build(state) == [New EXCEPT !.storage = state]

Made(how) ==
    CASE how = "new" -> {New}
      [] how = "random" -> {WithRandomSeed}
      [] how = "built" -> {Build(state) : state \in [Keys -> Values]}

Init ==
    /\ \E how \in Hows : sim \in Made(how)
    /\ initial = sim /\ snapshot = NoSnapshot /\ op = <<"make">>

(***************************************************************************)
(* The clock.                                                              *)
(***************************************************************************)
\* advance_tick tells whether the new tick ends a block.
EndsBlock(tick) == tick % TicksPerBlock = 0 /\ tick > 0

BlocksEnded(tick, n) == (tick + n) \div TicksPerBlock - tick \div TicksPerBlock

\* Ticks brought up to the start of a block, and never back.
Aligned(tick, block) == IF tick < block * TicksPerBlock THEN block * TicksPerBlock ELSE tick
NextBlock(s) == [s EXCEPT !.block = @ + 1, !.tick = Aligned(@, s.block + 1)]
Top == MaxTick \div TicksPerBlock   \* the highest block of the model

AdvanceTicks(n) ==
    /\ sim.tick + n <= MaxTick
    /\ sim' = [sim EXCEPT !.tick = @ + n]
    /\ op' = <<"advance_ticks", n, BlocksEnded(sim.tick, n)>>
    /\ UNCHANGED <<initial, snapshot>>

Tick ==
    /\ sim.tick < MaxTick
    /\ sim' = [sim EXCEPT !.tick = @ + 1]
    /\ op' = <<"tick", EndsBlock(sim.tick + 1)>>
    /\ UNCHANGED <<initial, snapshot>>

AdvanceBlock ==
    /\ sim.block < Top
    /\ sim' = NextBlock(sim)
    /\ op' = <<"advance_block">>
    /\ UNCHANGED <<initial, snapshot>>

SetBlockHeight(height) ==
    /\ sim' = [sim EXCEPT !.block = height, !.tick = Aligned(@, height)]
    /\ op' = <<"set_block_height">>
    /\ UNCHANGED <<initial, snapshot>>

(***************************************************************************)
(* The run loop.                                                           *)
(***************************************************************************)
\* run_until with the predicate of run_blocks: the state its loop ends in.
Limit == IF MaxBlocks > 0 THEN MaxBlocks ELSE MaxTick
RECURSIVE RunUntil(_, _)
RunUntil(s, target) ==
    IF s.block >= Limit \/ s.block >= target THEN [s EXCEPT !.running = FALSE]
                                             ELSE RunUntil(NextBlock(s), target)

RunBlocks(n) ==
    LET target == sim.block + n IN
    /\ target <= Top
    /\ sim' = RunUntil([sim EXCEPT !.running = TRUE], target)
    /\ op' = <<"run_blocks", n, IF sim.aborted THEN "Err" ELSE "Ok">>
    /\ UNCHANGED <<initial, snapshot>>

Abort ==
    /\ sim' = [sim EXCEPT !.running = FALSE, !.aborted = TRUE]
    /\ op' = <<"abort">>
    /\ UNCHANGED <<initial, snapshot>>

Reset ==
    /\ sim' = New
    /\ op' = <<"reset">>
    /\ UNCHANGED <<initial, snapshot>>

(***************************************************************************)
(* Randomness, storage, snapshots.                                         *)
(***************************************************************************)
Draw ==
    /\ sim.draws < MaxDraws
    /\ sim' = [sim EXCEPT !.draws = @ + 1]
    /\ op' = <<"draw", sim.draws>>
    /\ UNCHANGED <<initial, snapshot>>

\* The storage backend: a batch with a change, and the hash that a commit returns.
ApplyChanges(storage, k, v) == [storage EXCEPT ![k] = v]
Commit(storage) == <<storage>>

\* apply_state_changes: a batch and a commit; the commit may fail after the batch.
ApplyStateChanges(k, v, committed) ==
    LET storage == ApplyChanges(sim.storage, k, v) IN
    /\ sim' = [sim EXCEPT !.storage = storage,
                          !.last_app_hash = IF committed THEN Commit(storage) ELSE @]
    /\ op' = <<"apply", committed>>
    /\ UNCHANGED <<initial, snapshot>>

TakeSnapshot ==
    /\ snapshot' = [tick |-> sim.tick, block |-> sim.block, app_hash |-> sim.last_app_hash]
    /\ op' = <<"snapshot">>
    /\ UNCHANGED <<sim, initial>>

MutantRestore ==
    /\ Restores /\ snapshot # NoSnapshot
    /\ sim' = [sim EXCEPT !.tick = snapshot.tick, !.last_app_hash = snapshot.app_hash]
    /\ op' = <<"restore">>
    /\ UNCHANGED <<initial, snapshot>>
Restore ==
    /\ Restores /\ snapshot # NoSnapshot
    /\ sim' = [sim EXCEPT !.tick = snapshot.tick, !.block = snapshot.block,
                          !.last_app_hash = snapshot.app_hash]
    /\ op' = <<"restore">>
    /\ UNCHANGED <<initial, snapshot>>

Next ==
    \/ Tick \/ AdvanceBlock \/ Abort \/ Reset \/ Draw \/ TakeSnapshot \/ Restore
    \/ \E n \in 0..MaxTick : AdvanceTicks(n)
    \/ \E height \in 0..Top : SetBlockHeight(height)
    \/ \E n \in 0..MaxRun : RunBlocks(n)
    \/ \E k \in Keys, v \in Values \cup {NoValue}, committed \in BOOLEAN :
          ApplyStateChanges(k, v, committed)

Spec == Init /\ [][Next]_vars
-----------------------------------------------------------------------------
\* The clock never shows a block whose first tick is still to come, whatever
\* mix of ticks, blocks, set heights, runs, snapshots and restores led there
\* (set_block_height: "Also advances ticks to be consistent with the new block
\* height").
TicksCoverBlocks == sim.tick >= sim.block * TicksPerBlock

\* Counting the ends of blocks over n single ticks gives what advance_ticks
\* returns for the n ticks at once.
BoundariesAgree ==
    \A n \in 0..MaxTick :
        BlocksEnded(sim.tick, n) = Cardinality({t \in (sim.tick + 1)..(sim.tick + n) : EndsBlock(t)})

\* run_blocks(n) ends exactly n blocks later, or at max_blocks if that comes
\* first, and never moves the height back.
RunReachesTarget ==
    [][op'[1] = "run_blocks" =>
         LET target == sim.block + op'[2]
             most == IF target < Limit THEN target ELSE Limit
         IN  sim'.block = IF sim.block > most THEN sim.block ELSE most]_vars

\* A reset brings back the simulator as it was made, so the same operations
\* lead to the same values and states again ("Resets the simulator to initial
\* state (same seed)").
ResetReplays == op = <<"reset">> => sim = initial

\* Once the hash is that of the storage, it stays so until the next change of
\* state or reset: no other operation makes the simulator report a hash that is
\* not the latest committed one ("Returns the latest committed app hash").
LatestHashShown ==
    [][op'[1] # "apply" /\ sim.last_app_hash = <<sim.storage>>
         => sim'.last_app_hash = IF op'[1] = "reset" THEN NoHash ELSE <<sim'.storage>>]_vars

\* An aborted simulation simulates no further block until it is reset ("Aborts
\* the simulation with a reason").
AbortStops == [][sim.aborted /\ op'[1] = "run_blocks" => sim'.block = sim.block]_vars
=============================================================================
