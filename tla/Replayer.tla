------------------------------ MODULE Replayer ------------------------------
(***************************************************************************)
(* The debugger: a TraceBuilder records the events of an execution, and a  *)
(* Replayer walks over them forwards and backwards, runs to breakpoints    *)
(* and shows the state at its position.  Positions count from zero, as in  *)
(* the code: at position p the first p events have been applied, and the   *)
(* event at p is events[p + 1].                                            *)
(*                                                                         *)
(* An event has a kind and the one field breakpoints and states look at:   *)
(* the height of a block, the id of a transaction, the key of a change.    *)
(***************************************************************************)
EXTENDS Integers, Sequences, FiniteSets, SequencesExt

CONSTANTS Heights,     \* block heights
          Txs,         \* transaction ids
          Keys,        \* storage keys
          Values,      \* storage values
          NoValue,     \* the value of a key that is removed
          Firsts,      \* the kinds of event a recording may begin with
          Breakpoints, \* the breakpoints a user may set
          MaxEvents,   \* bound on the length of a recording
          MaxBreaks,   \* bound on the number of breakpoints
          MaxHistory   \* max_history, 1000 in the code

VARIABLES events,        \* the recorded trace
          recorded,      \* the trace is finished and given to a replayer
          position, current_state, breakpoints, history,
          result,        \* what the last operation returned
          panicked       \* an operation indexed beyond the trace
vars == <<events, recorded, position, current_state, breakpoints, history, result, panicked>>
replay == <<position, current_state, breakpoints, history, result, panicked>>

TraceEvent ==
    [kind : {"BlockStart", "BlockEnd"}, height : Heights]
      \cup [kind : {"TxStart", "TxEnd"}, tx_id : Txs]
      \cup [kind : {"StateChange"}, key : Keys, new_value : Values \cup {NoValue}]
      \cup [kind : {"Error"}]

EmptyState == [k \in Keys |-> NoValue]
EventAt(p) == events[p + 1]

\* What an event does to a state: only a change of storage does anything.
ApplyEvent(state, e) ==
    IF e.kind = "StateChange" THEN [state EXCEPT ![e.key] = e.new_value] ELSE state

\* The state after the events 0 .. event_index.
StateAt(event_index) ==
    FoldLeft(ApplyEvent, EmptyState,
             SubSeq(events, 1, IF event_index + 1 > Len(events) THEN Len(events)
                                                                ELSE event_index + 1))

SaturatingPred(n) == IF n = 0 THEN 0 ELSE n - 1

\* The state the replayer shows after it has jumped to p.
MutantJumpState(p) == StateAt(p)
JumpState(p) == StateAt(SaturatingPred(p))

\* Breakpoint::matches.  A composite breakpoint has the set of its parts.
RECURSIVE Matches(_, _)
Matches(bp, p) ==
    LET e == EventAt(p) IN
    \/ bp.on = "Block" /\ e.kind = "BlockStart" /\ e.height = bp.height
    \/ bp.on = "Tx" /\ e.kind = "TxStart" /\ e.tx_id = bp.tx_id
    \/ bp.on = "StorageKey" /\ e.kind = "StateChange" /\ e.key = bp.key
    \/ bp.on = "Error" /\ e.kind = "Error"
    \/ bp.on = "EventIndex" /\ p = bp.index
    \/ bp.on = "All" /\ \A part \in bp.parts : Matches(part, p)
    \/ bp.on = "Any" /\ \E part \in bp.parts : Matches(part, p)
    \/ bp.on = "Not" /\ \A part \in bp.parts : ~Matches(part, p)

Returned(op, kind) == [op |-> op, kind |-> kind]
Hit(i) == <<"HitBreakpoint", i>>

\* check_breakpoints at position p: the first breakpoint that matches, or 0.
MutantCheckBreakpoints(p) ==
    IF p > Len(events) - 2 THEN 0
    ELSE LET hits == {i \in DOMAIN breakpoints : Matches(breakpoints[i], p)}
         IN  IF hits = {} THEN 0 ELSE Min(hits)
CheckBreakpoints(p) ==
    IF p >= Len(events) THEN 0
    ELSE LET hits == {i \in DOMAIN breakpoints : Matches(breakpoints[i], p)}
         IN  IF hits = {} THEN 0 ELSE Min(hits)
StepResult(p) == IF CheckBreakpoints(p) = 0 THEN <<"Ok", 0>> ELSE Hit(CheckBreakpoints(p))

PushHistory(h, p) == Append(IF Len(h) >= MaxHistory THEN Tail(h) ELSE h, p)

Init ==
    /\ events = <<>> /\ recorded = FALSE
    /\ position = 0 /\ current_state = EmptyState
    /\ breakpoints = <<>> /\ history = <<>>
    /\ result = Returned(<<"new">>, <<"Ok", 0>>) /\ panicked = FALSE

(***************************************************************************)
(* Recording.                                                              *)
(***************************************************************************)
Record(e) ==
    /\ ~recorded /\ Len(events) < MaxEvents
    /\ events = <<>> => e.kind \in Firsts
    /\ events' = Append(events, e)
    /\ UNCHANGED <<recorded, replay>>

Finish ==
    /\ ~recorded
    /\ recorded' = TRUE
    /\ UNCHANGED <<events, replay>>

(***************************************************************************)
(* Moving.                                                                 *)
(***************************************************************************)
Step ==
    /\ IF position >= Len(events)
       THEN /\ result' = Returned(<<"step">>, <<"AtEnd", 0>>)
            /\ UNCHANGED <<position, current_state, history>>
       ELSE /\ history' = PushHistory(history, position)
            /\ current_state' = ApplyEvent(current_state, EventAt(position))
            /\ position' = position + 1
            /\ result' = Returned(<<"step">>, StepResult(position + 1))
    /\ UNCHANGED <<breakpoints, panicked>>

StepBack ==
    /\ IF position = 0
       THEN /\ result' = Returned(<<"step_back">>, <<"AtBeginning", 0>>)
            /\ UNCHANGED <<position, current_state>>
       ELSE /\ position' = position - 1
            /\ current_state' = JumpState(position - 1)
            /\ result' = Returned(<<"step_back">>, <<"Ok", 0>>)
    /\ UNCHANGED <<breakpoints, history, panicked>>

\* The loop of run_to_breakpoint: the positions it leaves, starting from p.
RECURSIVE RunFrom(_)
RunFrom(p) ==
    IF p >= Len(events) THEN <<>>
    ELSE <<p>> \o (IF CheckBreakpoints(p + 1) # 0 THEN <<>> ELSE RunFrom(p + 1))

RunToBreakpoint ==
    LET left == RunFrom(position)
        to == position + Len(left)
    IN  /\ position' = to
        /\ current_state' = FoldLeft(LAMBDA s, p : ApplyEvent(s, EventAt(p)), current_state, left)
        /\ history' = FoldLeft(PushHistory, history, left)
        /\ result' = Returned(<<"run">>, IF left # <<>> /\ CheckBreakpoints(to) # 0
                                     THEN Hit(CheckBreakpoints(to)) ELSE <<"AtEnd", 0>>)
        /\ UNCHANGED <<breakpoints, panicked>>

\* The loop of run_back_to_breakpoint: where it stops, starting from p.
RECURSIVE RunBackFrom(_)
RunBackFrom(p) ==
    IF p = 0 \/ CheckBreakpoints(p - 1) # 0 THEN SaturatingPred(p) ELSE RunBackFrom(p - 1)

RunBackToBreakpoint ==
    LET to == RunBackFrom(position)
    IN  /\ position' = to
        /\ current_state' = IF position = 0 THEN current_state ELSE JumpState(to)
        /\ result' = Returned(<<"run_back">>, IF position # 0 /\ CheckBreakpoints(to) # 0
                                          THEN Hit(CheckBreakpoints(to)) ELSE <<"AtBeginning", 0>>)
        /\ UNCHANGED <<breakpoints, history, panicked>>

Jump(op, target) ==
    /\ IF target >= Len(events)
       THEN /\ result' = Returned(op, <<"AtEnd", 0>>)
            /\ UNCHANGED <<position, current_state, history>>
       ELSE /\ history' = PushHistory(history, position)
            /\ position' = target
            /\ current_state' = JumpState(target)
            /\ result' = Returned(op, StepResult(target))
    /\ UNCHANGED <<breakpoints, panicked>>

GotoPosition(target) == Jump(<<"goto_position", target>>, target)

\* A jump to the first position of a set, or none at all if the set is empty.
JumpToFirst(op, places) ==
    IF places = {}
    THEN /\ result' = Returned(op, <<"Ok", 0>>)
         /\ UNCHANGED <<position, current_state, breakpoints, history, panicked>>
    ELSE Jump(op, Min(places))

Positions == 0..(Len(events) - 1)
GotoBlock(height) ==
    JumpToFirst(<<"goto_block", height>>,
                {p \in Positions : EventAt(p).kind = "BlockStart" /\ EventAt(p).height = height})
GotoTx(tx_id) ==
    JumpToFirst(<<"goto_tx", tx_id>>,
                {p \in Positions : EventAt(p).kind = "TxStart" /\ EventAt(p).tx_id = tx_id})

Reset ==
    /\ position' = 0 /\ current_state' = EmptyState /\ history' = <<>>
    /\ result' = Returned(<<"reset">>, <<"Ok", 0>>)
    /\ UNCHANGED <<breakpoints, panicked>>

(***************************************************************************)
(* Breakpoints and queries.                                                *)
(***************************************************************************)
AddBreakpoint(bp) ==
    /\ Len(breakpoints) < MaxBreaks
    /\ breakpoints' = Append(breakpoints, bp)
    /\ result' = Returned(<<"breakpoint">>, <<"Ok", 0>>)
    /\ UNCHANGED <<position, current_state, history, panicked>>

RemoveBreakpoint(i) ==
    /\ breakpoints' = RemoveAt(breakpoints, i)
    /\ result' = Returned(<<"breakpoint">>, <<"Ok", 0>>)
    /\ UNCHANGED <<position, current_state, history, panicked>>

ClearBreakpoints ==
    /\ breakpoints' = <<>>
    /\ result' = Returned(<<"breakpoint">>, <<"Ok", 0>>)
    /\ UNCHANGED <<position, current_state, history, panicked>>

\* The slice events[..=min(position, len - 1)] that the queries search backwards.
Latest == IF position < SaturatingPred(Len(events)) THEN position ELSE SaturatingPred(Len(events))
LastOf(kinds) == {p \in 0..Latest : EventAt(p).kind \in kinds
                                    /\ \A q \in (p + 1)..Latest : EventAt(q).kind \notin kinds}

CurrentBlock == {EventAt(p).height : p \in LastOf({"BlockStart"})}
CurrentTx == {EventAt(p).tx_id : p \in {q \in LastOf({"TxStart", "TxEnd"}) : EventAt(q).kind = "TxStart"}}

\* current_block and current_tx; the slice does not exist in an empty trace.
Query ==
    /\ result' = Returned(<<"query">>, IF events = <<>> THEN <<"Panic", 0>>
                                   ELSE <<CurrentBlock, CurrentTx>>)
    /\ panicked' = (panicked \/ events = <<>>)
    /\ UNCHANGED <<position, current_state, breakpoints, history>>

Next ==
    \/ \E e \in TraceEvent : Record(e)
    \/ Finish
    \/ /\ recorded
       /\ \/ Step \/ StepBack \/ RunToBreakpoint \/ RunBackToBreakpoint \/ Reset
          \/ \E target \in 0..MaxEvents : GotoPosition(target)
          \/ \E height \in Heights : GotoBlock(height)
          \/ \E tx_id \in Txs : GotoTx(tx_id)
          \/ \E bp \in Breakpoints : AddBreakpoint(bp)
          \/ \E i \in DOMAIN breakpoints : RemoveBreakpoint(i)
          \/ ClearBreakpoints
          \/ Query
       /\ UNCHANGED <<events, recorded>>

Spec == Init /\ [][Next]_vars
-----------------------------------------------------------------------------
\* Every variable has its type; positions stay within the trace.
TypeOK ==
    /\ events \in Seq(TraceEvent) /\ recorded \in BOOLEAN
    /\ position \in 0..Len(events)
    /\ current_state \in [Keys -> Values \cup {NoValue}]
    /\ breakpoints \in Seq(Breakpoints)
    /\ history \in Seq(0..Len(events)) /\ Len(history) <= MaxHistory
    /\ panicked \in BOOLEAN

\* The state shown at a position is the one after exactly the events before
\* it, whichever mix of steps, runs, jumps and resets led there ("Cached state
\* at current position").
StateFitsPosition ==
    \A k \in Keys :
        LET changes == {i \in 1..position : events[i].kind = "StateChange" /\ events[i].key = k}
        IN  current_state[k] = IF changes = {} THEN NoValue ELSE events[Max(changes)].new_value

Stops(p) == \E i \in DOMAIN breakpoints : Matches(breakpoints[i], p)

\* A run forwards passes over no event that a breakpoint matches: it stops at
\* the first one after its start, with a breakpoint that matches it, or at the
\* end of the trace if there is none.
RunStopsAtFirst ==
    [][result'.op = <<"run">> =>
         /\ \A p \in (position + 1)..(position' - 1) : ~Stops(p)
         /\ IF result'.kind[1] = "HitBreakpoint"
            THEN Matches(breakpoints[result'.kind[2]], position')
            ELSE position' = Len(events)]_vars

\* A run backwards stops at the last matching event before its start, or at
\* position 0 if there is none.
RunBackStopsAtLast ==
    [][result'.op = <<"run_back">> =>
         /\ \A p \in (position' + 1)..(position - 1) : ~Stops(p)
         /\ IF result'.kind[1] = "HitBreakpoint"
            THEN position' < position /\ Matches(breakpoints[result'.kind[2]], position')
            ELSE position' = 0]_vars

\* After a jump to a block that the trace holds, or to a transaction, the
\* queries for the current block and transaction name it (test_goto_block and
\* test_goto_tx state this for one trace).
JumpsArrive ==
    /\ \A h \in Heights :
         result.op = <<"goto_block", h>>
           /\ (\E p \in Positions : EventAt(p).kind = "BlockStart" /\ EventAt(p).height = h)
           => CurrentBlock = {h}
    /\ \A t \in Txs :
         result.op = <<"goto_tx", t>>
           /\ (\E p \in Positions : EventAt(p).kind = "TxStart" /\ EventAt(p).tx_id = t)
           => CurrentTx = {t}

\* No query panics.
QueriesAnswer == ~panicked
=============================================================================
