----------------------------- MODULE SimMetrics -----------------------------
(***************************************************************************)
(* Metrics of a simulation: a builder counts the transactions of a block,  *)
(* finished blocks are added to saturating totals and to a bounded window  *)
(* from which the percentiles of the report are taken.                     *)
(***************************************************************************)
EXTENDS Integers, Sequences, FiniteSets, SequencesExt, TLC

CONSTANTS MaxWord,      \* the largest counter value, u64::MAX in the code
          Times,        \* execution times of a block
          Growths, Shrinks,   \* how much the state may grow and shrink by
          MaxHistory,   \* max_block_history
          Snapshots,    \* whether the user takes snapshots and resets the metrics
          MaxRecorded   \* bound on the number of blocks

VARIABLES block,       \* the block being built: its counts
          blocks_executed, txs_executed, txs_success, txs_failed,
          state_size, peak_state_size,
          block_metrics,   \* the window of recorded blocks
          recorded,        \* every block recorded since a reset, for the properties
          taken,           \* a snapshot taken earlier
          since            \* what was recorded since, and whether a reset was
totals == <<blocks_executed, txs_executed, txs_success, txs_failed,
            state_size, peak_state_size, block_metrics, recorded>>
vars == <<block, totals, taken, since>>

SaturatingAdd(a, b) == IF a + b > MaxWord THEN MaxWord ELSE a + b
SaturatingSub(a, b) == IF a < b THEN 0 ELSE a - b

None == [blocks |-> 0, txs |-> 0, success |-> 0, failed |-> 0]
NewBlock == [count |-> 0, success |-> 0, failed |-> 0]

Init ==
    /\ block = NewBlock
    /\ blocks_executed = 0 /\ txs_executed = 0 /\ txs_success = 0 /\ txs_failed = 0
    /\ state_size = 0 /\ peak_state_size = 0
    /\ block_metrics = <<>> /\ recorded = <<>>
    /\ taken = None /\ since = [reset |-> FALSE] @@ None

\* SimMetricsSnapshot, of the counters, and the difference of two.
Snapshot == [blocks |-> blocks_executed, txs |-> txs_executed, success |-> txs_success, failed |-> txs_failed]
Delta(now, then) == [k \in DOMAIN now |-> SaturatingSub(now[k], then[k])]

TakeSnapshot ==
    /\ Snapshots
    /\ taken' = Snapshot /\ since' = [reset |-> FALSE] @@ None
    /\ UNCHANGED <<block, totals>>

RecordTxSuccess ==
    /\ block.count < 2
    /\ block' = [block EXCEPT !.count = SaturatingAdd(@, 1), !.success = SaturatingAdd(@, 1)]
    /\ UNCHANGED <<totals, taken, since>>

RecordTxFailure ==
    /\ block.count < 2
    /\ block' = [block EXCEPT !.count = SaturatingAdd(@, 1), !.failed = SaturatingAdd(@, 1)]
    /\ UNCHANGED <<totals, taken, since>>

Window(m) == Append(IF Len(block_metrics) >= MaxHistory THEN Tail(block_metrics) ELSE block_metrics, m)

\* finish and record_block.
RecordBlock(time, delta) ==
    /\ Len(recorded) < MaxRecorded
    /\ blocks_executed' = SaturatingAdd(blocks_executed, 1)
    /\ txs_executed' = SaturatingAdd(txs_executed, block.count)
    /\ txs_success' = SaturatingAdd(txs_success, block.success)
    /\ txs_failed' = SaturatingAdd(txs_failed, block.failed)
    /\ state_size' = IF delta >= 0 THEN SaturatingAdd(state_size, delta)
                                   ELSE SaturatingSub(state_size, -delta)
    /\ peak_state_size' = IF state_size' > peak_state_size THEN state_size' ELSE peak_state_size
    /\ block_metrics' = Window(time)
    /\ recorded' = Append(recorded, time)
    /\ block' = NewBlock
    /\ since' = [reset |-> since.reset, blocks |-> SaturatingAdd(since.blocks, 1),
                 txs |-> SaturatingAdd(since.txs, block.count),
                 success |-> SaturatingAdd(since.success, block.success),
                 failed |-> SaturatingAdd(since.failed, block.failed)]
    /\ UNCHANGED taken

\* A block that is being built is recorded after the reset.
Reset ==
    /\ Snapshots
    /\ blocks_executed' = 0 /\ txs_executed' = 0 /\ txs_success' = 0 /\ txs_failed' = 0
    /\ state_size' = 0 /\ peak_state_size' = 0
    /\ block_metrics' = <<>> /\ recorded' = <<>>
    /\ since' = [since EXCEPT !.reset = TRUE]
    /\ UNCHANGED <<block, taken>>

Next ==
    \/ RecordTxSuccess \/ RecordTxFailure \/ TakeSnapshot \/ Reset
    \/ \E time \in Times, delta \in Growths \cup {-s : s \in Shrinks} : RecordBlock(time, delta)
    \/ Len(recorded) = MaxRecorded /\ UNCHANGED vars

Spec == Init /\ [][Next]_vars

\* percentile of a sorted sequence, p in percent.
MutantPercentile(s, p) ==
    IF s = <<>> THEN 0 ELSE s[IF (Len(s) * p) \div 100 = 0 THEN 1 ELSE (Len(s) * p) \div 100]
Percentile(s, p) ==
    IF s = <<>> THEN 0
    ELSE LET index == IF (Len(s) * p) \div 100 < Len(s) - 1 THEN (Len(s) * p) \div 100 ELSE Len(s) - 1
         IN  s[index + 1]

\* generate_report, of the block times.
Report == LET times == SortSeq(block_metrics, <)
          IN [p50 |-> Percentile(times, 50), p99 |-> Percentile(times, 99)]
-----------------------------------------------------------------------------
\* The totals agree with each other even after a counter has saturated: every
\* transaction counted is a success or a failure.
TotalsAgree == txs_executed = SaturatingAdd(txs_success, txs_failed)

\* The window holds the latest blocks, as many as it may and in their order.
WindowIsLatest ==
    LET n == IF Len(recorded) < MaxHistory THEN Len(recorded) ELSE MaxHistory
    IN  block_metrics = SubSeq(recorded, Len(recorded) - n + 1, Len(recorded))

\* What a snapshot shows to have been added since an earlier one is what was
\* recorded between them; a counter that saturated and a reset may hide some of
\* it, and never make more of it.
DeltaIsRecorded ==
    \A k \in DOMAIN taken :
        LET d == Delta(Snapshot, taken)[k]
        IN /\ d <= since[k]
           /\ ~since.reset /\ Snapshot[k] < MaxWord => d = since[k]

\* At least p percent of the block times in the window lie at or below the p-th
\* percentile of the report.
PercentileCovers ==
    LET Covers(v, p) == 100 * Cardinality({i \in DOMAIN block_metrics : block_metrics[i] <= v})
                          >= p * Len(block_metrics)
    IN Covers(Report.p50, 50) /\ Covers(Report.p99, 99)
=============================================================================
