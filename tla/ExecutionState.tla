--------------------------- MODULE ExecutionState ---------------------------
(***************************************************************************)
(* The write overlay of one block execution and its undo log               *)
(* (crates/app/stf/src/execution_state.rs), driven the way Invoker::do_exec *)
(* drives it: a call takes a checkpoint, a failed call restores it, calls  *)
(* nest.  The loop of `restore` is kept as the loop it is, one popped      *)
(* change per step, because what it computes is the point of the module.   *)
(***************************************************************************)
EXTENDS Integers, Sequences, FiniteSets

CONSTANTS
  Key, Value,           \* storage keys and messages
  OversizeKey,          \* the keys longer than MAX_KEY_SIZE
  OversizeValue,        \* the messages longer than MAX_VALUE_SIZE
  Event,
  Tombstone,            \* overlay entry None: the key is removed
  NoEntry,              \* the key is not in the overlay
  MaxOverlayEntries,    \* MAX_OVERLAY_ENTRIES
  MaxEvents,            \* MAX_EVENTS_PER_EXECUTION
  MaxBatch, MaxUndo, MaxOpen, MaxObjects   \* bounds of the model, not of the code

ASSUME OverlayAssumption ==
  /\ OversizeKey \subseteq Key
  /\ OversizeValue \subseteq Value
  /\ Tombstone \notin Value
  /\ NoEntry \notin Value
  /\ NoEntry # Tombstone

ASSUME BoundAssumption ==
  /\ MaxOverlayEntries \in Nat /\ MaxEvents \in Nat
  /\ MaxBatch \in Nat /\ MaxUndo \in Nat /\ MaxOpen \in Nat /\ MaxObjects \in Nat

VARIABLES
  overlay,          \* what every key maps to in the overlay, or NoEntry
  undo_log,         \* the changes made so far, each with the entry it replaced
  events,
  unique_objects,
  open,             \* the checkpoints held by the do_exec frames, outermost first
  resp,             \* the answer of the do_exec that returns or returned last
  pc                \* "run", "restore" (inside restore's loop) or "panic"

vars == <<overlay, undo_log, events, unique_objects, open, resp, pc>>

Entry == Value \cup {Tombstone, NoEntry}

\* A StateChange: had_overlay_entry = FALSE is prev = NoEntry.
Change == [key : Key, prev : Entry]

Checkpoint == [undo_log_index : Nat, events_index : Nat, unique_objects_created : Nat]

TypeOK ==
  /\ overlay \in [Key -> Entry]
  /\ undo_log \in Seq(Change)
  /\ events \in Seq(Event)
  /\ unique_objects \in Nat
  /\ open \in Seq(Checkpoint)
  /\ resp \in {"none", "ok", "err"}
  /\ pc \in {"run", "restore", "panic"}

Init ==
  /\ overlay = [k \in Key |-> NoEntry]
  /\ undo_log = << >>
  /\ events = << >>
  /\ unique_objects = 0
  /\ open = << >>
  /\ resp = "none"
  /\ pc = "run"

-----------------------------------------------------------------------------
(* Writes.  An operation that returns Err changes nothing here, so only the *)
(* successful outcome is an action; the error ends the call (FailCall).     *)

Present == {k \in Key : overlay[k] # NoEntry}

\* set and remove, which differ only in the entry they leave behind
Write(k, e) ==
  /\ pc = "run"
  /\ k \notin OversizeKey
  /\ overlay[k] = NoEntry => Cardinality(Present) < MaxOverlayEntries
  /\ Len(undo_log) < MaxUndo
  /\ overlay' = [overlay EXCEPT ![k] = e]
  /\ undo_log' = Append(undo_log, [key |-> k, prev |-> overlay[k]])
  /\ UNCHANGED <<events, unique_objects, open, resp, pc>>

Set(k, v) == v \notin OversizeValue /\ Write(k, v)

Remove(k) == Write(k, Tombstone)

\* The operations of a batch that touch k before the i-th one.
Before(ops, i, k) == {j \in 1..(i - 1) : ops[j].key = k}

LastOf(S) == CHOOSE j \in S : \A i \in S : i <= j

\* What k maps to once the first i - 1 operations of the batch are applied.
AfterPrefix(ops, i, k) ==
  IF Before(ops, i, k) = {} THEN overlay[k] ELSE ops[LastOf(Before(ops, i, k))].entry

BatchOperation == [key : Key, entry : Value \cup {Tombstone}]

\* Mutant: the test for a key that is not in the overlay is inverted.
MutantNewKeys(ops) == {i \in DOMAIN ops : overlay[ops[i].key] # NoEntry}

\* Operations whose key has no overlay entry; a key that appears twice in
\* the batch is counted twice.
NewKeys(ops) == {i \in DOMAIN ops : overlay[ops[i].key] = NoEntry}

ApplyBatch(ops) ==
  /\ pc = "run"
  /\ \A i \in DOMAIN ops : ops[i].key \notin OversizeKey /\ ops[i].entry \notin OversizeValue
  /\ Cardinality(Present) + Cardinality(NewKeys(ops)) <= MaxOverlayEntries
  /\ Len(undo_log) + Len(ops) <= MaxUndo
  /\ overlay' = [k \in Key |-> AfterPrefix(ops, Len(ops) + 1, k)]
  /\ undo_log' = undo_log \o
        [i \in 1..Len(ops) |-> [key |-> ops[i].key, prev |-> AfterPrefix(ops, i, ops[i].key)]]
  /\ UNCHANGED <<events, unique_objects, open, resp, pc>>

EmitEvent(e) ==
  /\ pc = "run"
  /\ Len(events) < MaxEvents
  /\ events' = Append(events, e)
  /\ UNCHANGED <<overlay, undo_log, unique_objects, open, resp, pc>>

NextUniqueObjectId ==
  /\ pc = "run"
  /\ unique_objects < MaxObjects
  /\ unique_objects' = unique_objects + 1
  /\ UNCHANGED <<overlay, undo_log, events, open, resp, pc>>

\* The block pipeline drains the events only between calls (lib.rs).
PopEvents ==
  /\ pc = "run"
  /\ open = << >>
  /\ events' = << >>
  /\ UNCHANGED <<overlay, undo_log, unique_objects, open, resp, pc>>

-----------------------------------------------------------------------------
(* Checkpoints, as do_exec takes, drops and restores them.                 *)

CheckpointNow ==
  [undo_log_index |-> Len(undo_log), events_index |-> Len(events),
   unique_objects_created |-> unique_objects]

OpenCall ==
  /\ pc = "run"
  /\ Len(open) < MaxOpen
  /\ open' = Append(open, CheckpointNow)
  /\ UNCHANGED <<overlay, undo_log, events, unique_objects, resp, pc>>

Innermost == open[Len(open)]

CloseInnermost == open' = SubSeq(open, 1, Len(open) - 1)

SucceedCall ==
  /\ pc = "run"
  /\ open # << >>
  /\ resp' = "ok"
  /\ CloseInnermost
  /\ UNCHANGED <<overlay, undo_log, events, unique_objects, pc>>

\* Mutant: a checkpoint at the end of the undo log is taken for one beyond it.
MutantRestorable(cp) ==
  cp.undo_log_index < Len(undo_log) /\ cp.events_index <= Len(events)

Restorable(cp) ==
  cp.undo_log_index <= Len(undo_log) /\ cp.events_index <= Len(events)

\* Mutant: the error is handed on and nothing is restored.
MutantFailCall ==
  /\ pc = "run"
  /\ open # << >>
  /\ resp' = "err"
  /\ CloseInnermost
  /\ UNCHANGED <<overlay, undo_log, events, unique_objects, pc>>

\* restore rejects a checkpoint beyond the logs, and do_exec then panics.
FailCall ==
  /\ pc = "run"
  /\ open # << >>
  /\ resp' = "err"
  /\ pc' = IF Restorable(Innermost) THEN "restore" ELSE "panic"
  /\ UNCHANGED <<overlay, undo_log, events, unique_objects, open>>

\* One round of restore's loop: pop a change and revert it.
RevertOne ==
  /\ pc = "restore"
  /\ Len(undo_log) > Innermost.undo_log_index
  /\ LET change == undo_log[Len(undo_log)]
     IN  overlay' = [overlay EXCEPT ![change.key] = change.prev]
  /\ undo_log' = SubSeq(undo_log, 1, Len(undo_log) - 1)
  /\ UNCHANGED <<events, unique_objects, open, resp, pc>>

\* Mutant: the object counter is set back one too far.
MutantFinishRestore ==
  /\ pc = "restore"
  /\ Len(undo_log) <= Innermost.undo_log_index
  /\ events' = SubSeq(events, 1, Innermost.events_index)
  /\ unique_objects' = Innermost.unique_objects_created - 1
  /\ CloseInnermost
  /\ pc' = "run"
  /\ UNCHANGED <<overlay, undo_log, resp>>

FinishRestore ==
  /\ pc = "restore"
  /\ Len(undo_log) <= Innermost.undo_log_index
  /\ events' = SubSeq(events, 1, Innermost.events_index)
  /\ unique_objects' = Innermost.unique_objects_created
  /\ CloseInnermost
  /\ pc' = "run"
  /\ UNCHANGED <<overlay, undo_log, resp>>

Next ==
  \/ \E k \in Key, v \in Value : Set(k, v)
  \/ \E k \in Key : Remove(k)
  \/ \E n \in 1..MaxBatch : \E ops \in [1..n -> BatchOperation] : ApplyBatch(ops)
  \/ \E e \in Event : EmitEvent(e)
  \/ NextUniqueObjectId
  \/ PopEvents
  \/ OpenCall
  \/ SucceedCall
  \/ FailCall
  \/ RevertOne
  \/ FinishRestore

Spec == Init /\ [][Next]_vars

-----------------------------------------------------------------------------
(* What the undo log promises.                                             *)

\* The changes to k that a log holds beyond its first n.
Touches(log, n, k) == {j \in (n + 1)..Len(log) : log[j].key = k}

FirstOf(S) == CHOOSE j \in S : \A i \in S : j <= i

\* An overlay with the changes of the log beyond the first n taken back.
Undone(ov, log, n) ==
  [k \in Key |-> IF Touches(log, n, k) = {} THEN ov[k] ELSE log[FirstOf(Touches(log, n, k))].prev]

\* The state a restore of cp must leave.
StateAt(cp) ==
  [overlay |-> Undone(overlay, undo_log, cp.undo_log_index),
   events  |-> SubSeq(events, 1, cp.events_index),
   objects |-> cp.unique_objects_created]

Current == [overlay |-> overlay, events |-> events, objects |-> unique_objects]

\* The copy of the state each open call would get back.  While restore's loop
\* runs, the failing call's copy is still on the stack.
Saved == [i \in 1..Len(open) |-> StateAt(open[i])]

Nested == INSTANCE NestedTx WITH work <- Current, saved <- Saved

\* A do_exec that answers an error leaves overlay, events and object counter
\* exactly as they were when it was called, whatever calls and failures nested
\* inside it, one that answers Ok keeps all its work, and an outer call's
\* checkpoint survives both.
RestoresExactly == Nested!Spec

\* Checkpoints lie within the logs, in the order they were taken.
CheckpointsNested ==
  /\ \A i \in 1..Len(open) : Restorable(open[i])
  /\ \A i, j \in 1..Len(open) : i <= j =>
       /\ open[i].undo_log_index <= open[j].undo_log_index
       /\ open[i].events_index <= open[j].events_index

\* Every key of the log has an overlay entry, and a later change to the same
\* key replaced an entry: writes never take a key out of the overlay.
LogCoversOverlay ==
  /\ \A j \in 1..Len(undo_log) : overlay[undo_log[j].key] # NoEntry
  /\ \A i, j \in 1..Len(undo_log) :
       i < j /\ undo_log[i].key = undo_log[j].key => undo_log[j].prev # NoEntry

\* The inductive invariant behind NeverPanics, OverlayBounded and
\* RestoresExactly.
Inv ==
  /\ TypeOK
  /\ CheckpointsNested
  /\ LogCoversOverlay
  /\ IsFiniteSet(Present) /\ Cardinality(Present) <= MaxOverlayEntries
  /\ pc = "restore" => open # << >> /\ resp = "err"
  /\ pc # "panic"

\* The restore in do_exec never meets ERR_INVALID_CHECKPOINT, so the
\* "blockchain state is corrupted" panic is unreachable.
NeverPanics == pc # "panic"

\* set, remove and apply_batch keep the overlay within MAX_OVERLAY_ENTRIES,
\* batches that repeat a key and entries put back by restore included.
OverlayBounded == Cardinality(Present) <= MaxOverlayEntries
=============================================================================
