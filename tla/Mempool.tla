------------------------------ MODULE Mempool -------------------------------
(***************************************************************************)
(* The transaction pool (crates/app/mempool/src/pool.rs).  Every operation *)
(* runs under the write lock of SharedMempool, so it is one action; only   *)
(* the selection loop of `propose` is kept as a loop, one popped heap      *)
(* entry per step, with every other operation shut out meanwhile.          *)
(* A heap entry is never removed with its transaction: it goes stale.      *)
(***************************************************************************)
EXTENDS Integers, Sequences, FiniteSets

CONSTANTS
  Tx, Sender,
  NoSender,           \* sender_key() = None
  SenderOf, GasPrice, Nonce, GasLimit,   \* functions of the transaction
  Budget,             \* the [max_gas, max_txs] that propose is called with
  MaxU64,             \* the largest u64: gas totals saturate there
  MaxHeap, MaxSeq     \* bounds of the model, not of the code

ASSUME PoolAssumption ==
  /\ NoSender \notin Sender
  /\ SenderOf \in [Tx -> Sender \cup {NoSender}]
  /\ GasPrice \in [Tx -> Nat] /\ Nonce \in [Tx -> Nat] /\ GasLimit \in [Tx -> Nat]
  /\ Budget \subseteq [max_gas : Nat, max_txs : Nat]
  /\ MaxU64 \in Nat /\ \A t \in Tx : GasLimit[t] <= MaxU64
  /\ MaxHeap \in Nat /\ MaxSeq \in Nat

VARIABLES
  by_hash,          \* the transactions in the pool
  by_priority,      \* how many heap entries each transaction has
  by_sender,        \* the (sequence number, transaction) pairs of each sender
  by_sender_seq,    \* the next sequence number of each sender
  in_flight,
  budget,           \* the arguments of the running propose, or Idle
  selected,         \* of the running propose, or what the last one returned
  total_gas,
  skipped,          \* entries popped and too large, to be pushed back
  left              \* history: the transactions that left the pool

poolVars == <<by_hash, by_priority, by_sender, by_sender_seq, in_flight>>
loopVars == <<budget, selected, total_gas, skipped>>
vars == <<by_hash, by_priority, by_sender, by_sender_seq, in_flight,
          budget, selected, total_gas, skipped, left>>

Idle == [max_gas |-> 0, max_txs |-> -1]

NoEntries == [t \in Tx |-> 0]

TypeOK ==
  /\ by_hash \subseteq Tx
  /\ by_priority \in [Tx -> Nat]
  /\ by_sender \in [Sender -> SUBSET (Nat \X Tx)]
  /\ by_sender_seq \in [Sender -> Nat]
  /\ in_flight \subseteq Tx
  /\ budget \in Budget \cup {Idle}
  /\ selected \in Seq(Tx)
  /\ total_gas \in Nat
  /\ skipped \in [Tx -> Nat]
  /\ left \subseteq Tx

Init ==
  /\ by_hash = {}
  /\ by_priority = NoEntries
  /\ by_sender = [s \in Sender |-> {}]
  /\ by_sender_seq = [s \in Sender |-> 0]
  /\ in_flight = {}
  /\ budget = Idle /\ selected = << >> /\ total_gas = 0 /\ skipped = NoEntries
  /\ left = {}

-----------------------------------------------------------------------------
\* GasPriceOrdering: higher gas price first, then lower nonce.
Higher(t, u) ==
  GasPrice[t] > GasPrice[u] \/ (GasPrice[t] = GasPrice[u] /\ Nonce[t] < Nonce[u])

Add(t) ==
  /\ budget = Idle
  /\ t \notin by_hash
  /\ by_priority[t] < MaxHeap
  /\ by_hash' = by_hash \cup {t}
  /\ by_priority' = [by_priority EXCEPT ![t] = @ + 1]
  /\ IF SenderOf[t] = NoSender
     THEN UNCHANGED <<by_sender, by_sender_seq>>
     ELSE /\ by_sender_seq[SenderOf[t]] < MaxSeq
          /\ by_sender' = [by_sender EXCEPT ![SenderOf[t]] =
                             @ \cup {<<by_sender_seq[SenderOf[t]], t>>}]
          /\ by_sender_seq' = [by_sender_seq EXCEPT ![SenderOf[t]] = @ + 1]
  /\ UNCHANGED <<in_flight, budget, selected, total_gas, skipped, left>>

\* The effect of remove_many: the hash and sender indexes forget the
\* transactions; heap entries and in_flight are left alone.
RemoveMany(S) ==
  /\ by_hash' = by_hash \ S
  /\ by_sender' = [s \in Sender |-> {p \in by_sender[s] : p[2] \notin S \cap by_hash}]
  /\ by_sender_seq' = [s \in Sender |->
       IF by_sender[s] # {} /\ by_sender'[s] = {} THEN 0 ELSE by_sender_seq[s]]
  /\ left' = left \cup (S \cap by_hash)

Remove(t) ==
  /\ budget = Idle
  /\ t \in by_hash
  /\ RemoveMany({t})
  /\ UNCHANGED <<by_priority, in_flight, budget, selected, total_gas, skipped>>

\* Mutant: what was proposed and not executed is dropped from in_flight only.
MutantFinalize(executed) ==
  /\ budget = Idle
  /\ RemoveMany(executed)
  /\ in_flight' = {}
  /\ UNCHANGED <<by_priority, budget, selected, total_gas, skipped>>

\* Mutant: finalize settles the latest proposal only.
MutantFinalizeLatest(executed) ==
  /\ budget = Idle
  /\ RemoveMany(executed)
  /\ in_flight' = in_flight \ (executed \cup {selected[i] : i \in DOMAIN selected})
  /\ by_priority' = [t \in Tx |->
       IF t \in (in_flight \ (executed \cup in_flight')) \cap by_hash' THEN by_priority[t] + 1 ELSE by_priority[t]]
  /\ \A t \in Tx : by_priority'[t] <= MaxHeap
  /\ UNCHANGED <<budget, selected, total_gas, skipped>>

\* Executed transactions leave; every other in-flight one that is still in the
\* pool goes back to the heap, whichever proposal it came from.
Finalize(executed) ==
  /\ budget = Idle
  /\ RemoveMany(executed)
  /\ in_flight' = {}
  /\ by_priority' = [t \in Tx |->
       IF t \in (in_flight \ executed) \cap by_hash' THEN by_priority[t] + 1 ELSE by_priority[t]]
  /\ \A t \in Tx : by_priority'[t] <= MaxHeap
  /\ UNCHANGED <<budget, selected, total_gas, skipped>>

Clear ==
  /\ budget = Idle
  /\ by_hash' = {}
  /\ by_priority' = NoEntries
  /\ by_sender' = [s \in Sender |-> {}]
  /\ by_sender_seq' = [s \in Sender |-> 0]
  /\ in_flight' = {}
  /\ left' = left \cup by_hash
  /\ UNCHANGED loopVars

-----------------------------------------------------------------------------
(* propose: select_with_gas_budget, then mark the selection in flight.     *)

BeginPropose(b) ==
  /\ budget = Idle
  /\ budget' = b /\ selected' = << >> /\ total_gas' = 0 /\ skipped' = NoEntries
  /\ UNCHANGED <<poolVars, left>>

RoomForMore == budget.max_txs = 0 \/ Len(selected) < budget.max_txs

\* The entries the heap may pop next; equal keys are popped in any order.
Top == {t \in Tx : by_priority[t] > 0 /\ \A u \in Tx : by_priority[u] > 0 => ~Higher(u, t)}

WithGasOf(t) ==
  IF total_gas + GasLimit[t] > MaxU64 THEN MaxU64 ELSE total_gas + GasLimit[t]

\* Mutant: the budget is compared with the gas already selected only.
MutantFits(t) == budget.max_gas = 0 \/ total_gas < budget.max_gas

Fits(t) == budget.max_gas = 0 \/ WithGasOf(t) <= budget.max_gas

PopEntry(t) ==
  /\ budget # Idle /\ RoomForMore
  /\ t \in Top
  /\ by_priority' = [by_priority EXCEPT ![t] = @ - 1]
  /\ \/ t \notin by_hash /\ UNCHANGED <<selected, total_gas, skipped>>
     \/ /\ t \in by_hash /\ Fits(t)
        /\ selected' = Append(selected, t)
        /\ total_gas' = WithGasOf(t)
        /\ UNCHANGED skipped
     \/ /\ t \in by_hash /\ ~Fits(t)
        /\ skipped' = [skipped EXCEPT ![t] = @ + 1]
        /\ UNCHANGED <<selected, total_gas>>
  /\ UNCHANGED <<by_hash, by_sender, by_sender_seq, in_flight, budget, left>>

InSelection == {selected[i] : i \in DOMAIN selected}

FinishPropose ==
  /\ budget # Idle
  /\ ~RoomForMore \/ Top = {}
  /\ by_priority' = [t \in Tx |-> by_priority[t] + skipped[t]]
  /\ in_flight' = in_flight \cup InSelection
  /\ budget' = Idle /\ total_gas' = 0 /\ skipped' = NoEntries
  /\ UNCHANGED <<by_hash, by_sender, by_sender_seq, selected, left>>

Next ==
  \/ \E t \in Tx : Add(t) \/ Remove(t) \/ PopEntry(t)
  \/ \E executed \in SUBSET Tx : Finalize(executed)
  \/ Clear
  \/ \E b \in Budget : BeginPropose(b)
  \/ FinishPropose

Spec == Init /\ [][Next]_vars

-----------------------------------------------------------------------------
\* A transaction in the pool can still be proposed: it has a heap entry or is
\* in flight, and finalize gives it an entry again.  Losing both would keep it
\* in by_hash for ever, refused as AlreadyExists and never proposed.
NothingStranded ==
  \A t \in by_hash :
    \/ by_priority[t] > 0 \/ skipped[t] > 0
    \/ t \in in_flight
    \/ budget # Idle /\ t \in InSelection

\* The transactions that came back after they had left: their stale entries,
\* if any, count again.
Again == left \cap by_hash

\* propose: "Repeated calls return different transactions."  A selection repeats
\* neither itself nor a transaction of a proposal that is not finalized, except
\* for a transaction that came back.
DistinctProposals ==
  budget # Idle =>
    /\ InSelection \cap in_flight \subseteq Again
    /\ \A i, j \in DOMAIN selected : i # j /\ selected[i] = selected[j] => selected[i] \in Again

\* The selection stays within max_gas, is in priority order and no queued entry
\* precedes it, and an entry that was passed over does not fit at the end either.
GreedySelection ==
  budget # Idle =>
    /\ budget.max_gas # 0 => total_gas <= budget.max_gas
    /\ \A t \in Tx : skipped[t] > 0 => ~Fits(t)
    /\ \A i \in DOMAIN selected :
         /\ \A j \in (i + 1)..Len(selected) : ~Higher(selected[j], selected[i])
         /\ \A t \in Tx : by_priority[t] > 0 => ~Higher(t, selected[i])

\* propose: the selection is the greedy one within max_gas, and neither repeats
\* itself nor takes a transaction of a proposal that is not finalized yet
\* ("Repeated calls return different transactions."), but for one that was added
\* again after it had left.
SelectionHolds == GreedySelection /\ DistinctProposals

\* by_sender lists exactly the pool's transactions of the sender, each once and
\* under its own number, although numbering restarts when a sender's last
\* transaction is removed.
SenderIndexExact ==
  \A s \in Sender :
    /\ {p[2] : p \in by_sender[s]} = {t \in by_hash : SenderOf[t] = s}
    /\ \A p, q \in by_sender[s] : p[1] = q[1] \/ p[2] = q[2] => p = q
    /\ \A p \in by_sender[s] : p[1] < by_sender_seq[s]

\* Both: whatever is in by_hash is in its sender's list once, and can still be
\* proposed.
PoolConsistent == NothingStranded /\ SenderIndexExact

Status ==
  [t \in Tx |-> IF t \notin by_hash THEN "absent"
               ELSE IF t \in in_flight THEN "proposed" ELSE "queued"]

Pool == INSTANCE PoolSpec WITH
  status <- Status, again <- Again, returned <- IF budget = Idle THEN selected ELSE << >>

\* The heap with its stale entries behaves as the pool of PoolSpec: a transaction
\* that did not come back is proposed again only after a finalize, whatever was
\* removed, cleared and selected in between.
ImplementsPool == Pool!Spec
=============================================================================
