---------------------------- MODULE MempoolProofs ----------------------------
(***************************************************************************)
(* The pool stays consistent, its selections are greedy and distinct, and  *)
(* it implements PoolSpec, for every set of transactions, every budget and *)
(* any number of calls.                                                    *)
(***************************************************************************)
EXTENDS Mempool, TLAPS

(* Between two proposals nothing waits to be pushed back.                  *)
LoopClean == budget = Idle => skipped = NoEntries

(* A transaction that has never left the pool is in one place at most: in  *)
(* the heap, among the skipped entries, in the selection or in flight.     *)
OnePlace(t) ==
  /\ t \notin by_hash => by_priority[t] = 0 /\ skipped[t] = 0 /\ t \notin in_flight
  /\ by_priority[t] + skipped[t] <= 1
  /\ t \in in_flight => by_priority[t] = 0 /\ skipped[t] = 0
  /\ budget # Idle /\ t \in InSelection => by_priority[t] = 0 /\ skipped[t] = 0 /\ t \notin in_flight
  /\ budget # Idle => \A i, j \in DOMAIN selected : selected[i] = t /\ selected[j] = t => i = j

OnePlaceEach == \A t \in Tx \ left : OnePlace(t)

(* What a running propose has selected is in the pool.                     *)
SelectedPooled == budget # Idle => InSelection \subseteq by_hash

GasBounded == total_gas <= MaxU64

Inv ==
  /\ TypeOK /\ LoopClean /\ GasBounded
  /\ NothingStranded /\ SenderIndexExact
  /\ OnePlaceEach /\ SelectedPooled /\ GreedySelection

-----------------------------------------------------------------------------
(* A budget is never Idle, and has two natural numbers.                    *)
LEMMA BudgetFacts ==
  ASSUME NEW b \in Budget
  PROVE  b # Idle /\ b.max_gas \in Nat /\ b.max_txs \in Nat
<1>1. b \in [max_gas : Nat, max_txs : Nat]
  BY PoolAssumption
<1>2. Idle.max_txs = -1
  BY DEF Idle
<1> QED
  BY <1>1, <1>2

(* Appending to the selection.                                             *)
LEMMA AppendFacts ==
  ASSUME NEW s \in Seq(Tx), NEW t \in Tx
  PROVE  /\ Append(s, t) \in Seq(Tx)
         /\ Len(Append(s, t)) = Len(s) + 1
         /\ DOMAIN Append(s, t) = DOMAIN s \cup {Len(s) + 1}
         /\ Append(s, t)[Len(s) + 1] = t
         /\ \A i \in DOMAIN s : Append(s, t)[i] = s[i] /\ i # Len(s) + 1
         /\ {Append(s, t)[i] : i \in DOMAIN Append(s, t)} = {s[i] : i \in DOMAIN s} \cup {t}
<1>1. /\ Append(s, t) \in Seq(Tx)
      /\ Len(Append(s, t)) = Len(s) + 1
      /\ DOMAIN Append(s, t) = DOMAIN s \cup {Len(s) + 1}
      /\ Append(s, t)[Len(s) + 1] = t
      /\ \A i \in DOMAIN s : Append(s, t)[i] = s[i] /\ i # Len(s) + 1
  OBVIOUS
<1> QED
  BY <1>1

(* A position after i that is not the new last one is an old one.          *)
LEMMA Between ==
  ASSUME NEW n \in Nat, NEW i \in 1..n, NEW j \in (i + 1)..(n + 1), j # n + 1
  PROVE  j \in (i + 1)..n /\ j \in 1..n
OBVIOUS

(* Taking one more transaction never lowers the gas nor passes the bound.  *)
LEMMA WithGasFacts ==
  ASSUME TypeOK, GasBounded, NEW t \in Tx
  PROVE  WithGasOf(t) \in Nat /\ WithGasOf(t) <= MaxU64 /\ total_gas <= WithGasOf(t)
BY SMTT(60), PoolAssumption DEF WithGasOf, TypeOK, GasBounded

-----------------------------------------------------------------------------
(* Every operation keeps the types.                                        *)
LEMMA TypeInit == Init => TypeOK
BY PoolAssumption DEF Init, TypeOK, NoEntries, Idle

(* Every step keeps the types.                                             *)
LEMMA TypeStep == TypeOK /\ [Next]_vars => TypeOK'
<1> SUFFICES ASSUME TypeOK, [Next]_vars PROVE TypeOK'
  OBVIOUS
<1> USE PoolAssumption DEF TypeOK
<1>1. ASSUME NEW t \in Tx, Add(t) PROVE TypeOK'
  <2>1. CASE SenderOf[t] = NoSender
    BY SMTT(60), <1>1, <2>1 DEF Add
  <2>2. CASE SenderOf[t] # NoSender
    <3>1. SenderOf[t] \in Sender
      BY <2>2
    <3>2. <<by_sender_seq[SenderOf[t]], t>> \in Nat \X Tx
      BY Zenon, <3>1
    <3>3. /\ by_sender' = [by_sender EXCEPT ![SenderOf[t]] =
                             by_sender[SenderOf[t]] \cup {<<by_sender_seq[SenderOf[t]], t>>}]
          /\ by_sender_seq' = [by_sender_seq EXCEPT ![SenderOf[t]] = by_sender_seq[SenderOf[t]] + 1]
      BY Zenon, <1>1, <2>2 DEF Add
    <3>4. by_sender' \in [Sender -> SUBSET (Nat \X Tx)]
      BY ZenonT(60), <3>1, <3>2, <3>3
    <3>5. by_sender_seq' \in [Sender -> Nat]
      BY SMTT(60), <3>1, <3>3
    <3>6. /\ by_hash' \subseteq Tx /\ by_priority' \in [Tx -> Nat]
          /\ UNCHANGED <<in_flight, budget, selected, total_gas, skipped, left>>
      BY SMTT(60), <1>1 DEF Add
    <3> QED
      BY Zenon, <3>4, <3>5, <3>6
  <2> QED
    BY Zenon, <2>1, <2>2
<1>2. ASSUME NEW S \in SUBSET Tx, RemoveMany(S)
      PROVE  /\ by_hash' \subseteq Tx /\ by_sender' \in [Sender -> SUBSET (Nat \X Tx)]
             /\ by_sender_seq' \in [Sender -> Nat] /\ left' \subseteq Tx
  BY Zenon, <1>2 DEF RemoveMany
<1>3. ASSUME NEW t \in Tx, Remove(t) PROVE TypeOK'
  <2>1. {t} \in SUBSET Tx /\ RemoveMany({t})
    BY <1>3 DEF Remove
  <2> QED
    BY Zenon, <1>2, <1>3, <2>1 DEF Remove
<1>4. ASSUME NEW executed \in SUBSET Tx, Finalize(executed) PROVE TypeOK'
  <2>1. RemoveMany(executed)
    BY <1>4 DEF Finalize
  <2>2. by_priority' \in [Tx -> Nat]
    BY SMTT(60), <1>4 DEF Finalize
  <2> QED
    BY Zenon, <1>2, <1>4, <2>1, <2>2 DEF Finalize
<1>5. CASE Clear
  BY <1>5 DEF Clear, loopVars, NoEntries
<1>6. ASSUME NEW b \in Budget, BeginPropose(b) PROVE TypeOK'
  BY <1>6 DEF BeginPropose, poolVars, NoEntries
<1>7. ASSUME NEW t \in Tx, PopEntry(t) PROVE TypeOK'
  <2>1. by_priority[t] > 0
    BY <1>7 DEF PopEntry, Top
  <2>2. by_priority' \in [Tx -> Nat]
    <3>1. by_priority' = [by_priority EXCEPT ![t] = by_priority[t] - 1]
      BY Zenon, <1>7 DEF PopEntry
    <3>2. by_priority \in [Tx -> Nat]
      BY Zenon
    <3> QED
      BY SMTT(60), <2>1, <3>1, <3>2
  <2>3. WithGasOf(t) \in Nat /\ Append(selected, t) \in Seq(Tx)
    BY SMTT(60) DEF WithGasOf
  <2>4. selected' \in Seq(Tx) /\ total_gas' \in Nat /\ skipped' \in [Tx -> Nat]
    <3>1. CASE UNCHANGED <<selected, total_gas, skipped>>
      BY <3>1
    <3>2. CASE selected' = Append(selected, t) /\ total_gas' = WithGasOf(t) /\ UNCHANGED skipped
      BY <2>3, <3>2
    <3>3. CASE skipped' = [skipped EXCEPT ![t] = skipped[t] + 1] /\ UNCHANGED <<selected, total_gas>>
      BY SMTT(60), <3>3
    <3> QED
      BY Zenon, <1>7, <3>1, <3>2, <3>3 DEF PopEntry
  <2> QED
    BY Zenon, <1>7, <2>2, <2>4 DEF PopEntry
<1>8. CASE FinishPropose
  BY SMTT(60), <1>8 DEF FinishPropose, NoEntries, InSelection
<1>9. CASE UNCHANGED vars
  BY <1>9 DEF vars
<1> QED
  BY Zenon, <1>1, <1>3, <1>4, <1>5, <1>6, <1>7, <1>8, <1>9 DEF Next

(* The loop of propose starts and ends clean, and gas saturates.           *)
LEMMA LoopStep ==
  TypeOK /\ LoopClean /\ GasBounded /\ SelectedPooled /\ [Next]_vars => (LoopClean /\ GasBounded /\ SelectedPooled)'
<1> SUFFICES ASSUME TypeOK, LoopClean, GasBounded, SelectedPooled, [Next]_vars
             PROVE  (LoopClean /\ GasBounded /\ SelectedPooled)'
  BY Zenon
<1> USE DEF LoopClean, GasBounded, SelectedPooled, InSelection
<1>1. ASSUME NEW t \in Tx, Add(t) PROVE (LoopClean /\ GasBounded /\ SelectedPooled)'
  BY <1>1 DEF Add, NoEntries
<1>2. ASSUME NEW t \in Tx, Remove(t) PROVE (LoopClean /\ GasBounded /\ SelectedPooled)'
  BY Zenon, <1>2 DEF Remove, NoEntries
<1>3. ASSUME NEW executed \in SUBSET Tx, Finalize(executed) PROVE (LoopClean /\ GasBounded /\ SelectedPooled)'
  BY <1>3 DEF Finalize, NoEntries
<1>4. CASE Clear
  BY Zenon, <1>4 DEF Clear, loopVars, NoEntries
<1>5. ASSUME NEW b \in Budget, BeginPropose(b) PROVE (LoopClean /\ GasBounded /\ SelectedPooled)'
  BY SMTT(60), <1>5, BudgetFacts, PoolAssumption DEF BeginPropose, poolVars
<1>6. ASSUME NEW t \in Tx, PopEntry(t) PROVE (LoopClean /\ GasBounded /\ SelectedPooled)'
  <2>1. budget' = budget /\ budget # Idle /\ by_hash' = by_hash
    BY <1>6 DEF PopEntry
  <2>2. GasBounded'
    BY <1>6, WithGasFacts DEF PopEntry
  <2>3. CASE selected' = selected
    BY Zenon, <2>1, <2>2, <2>3
  <2>4. CASE t \in by_hash /\ selected' = Append(selected, t)
    BY SMTT(60), <2>1, <2>2, <2>4, AppendFacts DEF TypeOK
  <2> QED
    BY <1>6, <2>3, <2>4 DEF PopEntry
<1>7. CASE FinishPropose
  BY <1>7, PoolAssumption DEF FinishPropose
<1>8. CASE UNCHANGED vars
  BY Zenon, <1>8 DEF vars
<1> QED
  BY <1>1, <1>2, <1>3, <1>4, <1>5, <1>6, <1>7, <1>8 DEF Next

-----------------------------------------------------------------------------
(* Nothing in the pool loses its last place: a popped entry goes to the    *)
(* selection or to the skipped ones, and both come back.                   *)
LEMMA StrandedStep == TypeOK /\ LoopClean /\ NothingStranded /\ [Next]_vars => NothingStranded'
<1> SUFFICES ASSUME TypeOK, LoopClean, NothingStranded, [Next]_vars PROVE NothingStranded'
  OBVIOUS
<1> USE DEF TypeOK, NothingStranded
<1>1. ASSUME NEW t \in Tx, Add(t) PROVE NothingStranded'
  BY SMTT(60), <1>1 DEF Add
<1>2. ASSUME NEW t \in Tx, Remove(t) PROVE NothingStranded'
  BY Zenon, <1>2 DEF Remove, RemoveMany
<1>3. ASSUME NEW executed \in SUBSET Tx, Finalize(executed) PROVE NothingStranded'
  <2>1. by_hash' = by_hash \ executed /\ budget = Idle /\ skipped' = skipped
    BY <1>3 DEF Finalize, RemoveMany
  <2>2. ASSUME NEW u \in by_hash' PROVE by_priority'[u] > 0 \/ skipped'[u] > 0
    <3>1. by_priority[u] > 0 \/ skipped[u] > 0 \/ u \in in_flight
      BY <2>1, <2>2
    <3>2. by_priority'[u] = IF u \in in_flight \ executed THEN by_priority[u] + 1 ELSE by_priority[u]
      BY Zenon, <1>3, <2>1, <2>2 DEF Finalize
    <3> QED
      BY <2>1, <2>2, <3>1, <3>2
  <2> QED
    BY Zenon, <2>2
<1>4. CASE Clear
  BY <1>4 DEF Clear
<1>5. ASSUME NEW b \in Budget, BeginPropose(b) PROVE NothingStranded'
  BY Zenon, <1>5 DEF BeginPropose, poolVars, LoopClean
<1>6. ASSUME NEW t \in Tx, PopEntry(t) PROVE NothingStranded'
  <2>1. /\ by_hash' = by_hash /\ in_flight' = in_flight /\ budget' = budget /\ budget # Idle
        /\ \A u \in Tx : u # t => by_priority'[u] = by_priority[u]
    BY <1>6 DEF PopEntry
  <2>2. CASE t \notin by_hash /\ UNCHANGED <<selected, skipped>>
    BY Zenon, <2>1, <2>2 DEF InSelection
  <2>3. CASE selected' = Append(selected, t) /\ UNCHANGED skipped
    <3>1. InSelection' = InSelection \cup {t}
      BY SMTT(60), <2>3, AppendFacts DEF InSelection
    <3> QED
      BY Zenon, <2>1, <2>3, <3>1
  <2>4. CASE skipped' = [skipped EXCEPT ![t] = @ + 1] /\ UNCHANGED selected
    BY SMTT(60), <2>1, <2>4 DEF InSelection
  <2> QED
    BY Zenon, <1>6, <2>2, <2>3, <2>4 DEF PopEntry
<1>7. CASE FinishPropose
  <2>1. /\ by_hash' = by_hash /\ in_flight' = in_flight \cup InSelection
        /\ \A u \in Tx : by_priority'[u] = by_priority[u] + skipped[u]
    BY Zenon, <1>7 DEF FinishPropose
  <2> QED
    BY <2>1
<1>8. CASE UNCHANGED vars
  BY Zenon, <1>8 DEF vars, InSelection
<1> QED
  BY Zenon, <1>1, <1>2, <1>3, <1>4, <1>5, <1>6, <1>7, <1>8 DEF Next

-----------------------------------------------------------------------------
(* Numbering restarts at 0 only when the sender's list is empty.           *)
LEMMA RemoveManySender ==
  ASSUME TypeOK, SenderIndexExact, NEW S \in SUBSET Tx, RemoveMany(S)
  PROVE  SenderIndexExact'
<1> SUFFICES ASSUME NEW s \in Sender
             PROVE  /\ {p[2] : p \in by_sender'[s]} = {t \in by_hash' : SenderOf[t] = s}
                    /\ \A p, q \in by_sender'[s] : p[1] = q[1] \/ p[2] = q[2] => p = q
                    /\ \A p \in by_sender'[s] : p[1] < by_sender_seq'[s]
  BY Zenon DEF SenderIndexExact
<1>1. by_sender'[s] = {p \in by_sender[s] : p[2] \notin S \cap by_hash} /\ by_hash' = by_hash \ S
  BY DEF RemoveMany
<1>2. by_sender'[s] # {} => by_sender_seq'[s] = by_sender_seq[s]
  BY Zenon DEF RemoveMany
<1>3. {p[2] : p \in by_sender[s]} = {t \in by_hash : SenderOf[t] = s}
  BY Zenon DEF SenderIndexExact
<1>4. {p[2] : p \in by_sender'[s]} = {t \in by_hash' : SenderOf[t] = s}
  BY SMTT(60), <1>1, <1>3
<1>5. \A p, q \in by_sender'[s] : p[1] = q[1] \/ p[2] = q[2] => p = q
  BY Zenon, <1>1 DEF SenderIndexExact
<1>6. \A p \in by_sender'[s] : p[1] < by_sender_seq'[s]
  BY Zenon, <1>1, <1>2 DEF SenderIndexExact
<1> QED
  BY Zenon, <1>4, <1>5, <1>6

(* Every step keeps by_sender the index of what is in by_hash.             *)
LEMMA SenderStep == TypeOK /\ SenderIndexExact /\ [Next]_vars => SenderIndexExact'
<1> SUFFICES ASSUME TypeOK, SenderIndexExact, [Next]_vars PROVE SenderIndexExact'
  OBVIOUS
<1>1. ASSUME NEW t \in Tx, Add(t) PROVE SenderIndexExact'
  <2>1. by_hash' = by_hash \cup {t} /\ t \notin by_hash
    BY Zenon, <1>1 DEF Add
  <2>2. CASE SenderOf[t] = NoSender
    BY SMTT(60), <1>1, <2>1, <2>2, PoolAssumption DEF Add, SenderIndexExact
  <2>3. CASE SenderOf[t] # NoSender
    <3> DEFINE r == SenderOf[t]
               n == by_sender_seq[r]
    <3>1. r \in Sender /\ n \in Nat
      BY Zenon, <2>3, PoolAssumption DEF TypeOK
    <3>2. /\ by_sender'[r] = by_sender[r] \cup {<<n, t>>} /\ by_sender_seq'[r] = n + 1
          /\ \A s \in Sender : s # r => by_sender'[s] = by_sender[s] /\ by_sender_seq'[s] = by_sender_seq[s]
      BY Zenon, <1>1, <2>3, <3>1 DEF Add, TypeOK
    <3>3. /\ {p[2] : p \in by_sender[r]} = {u \in by_hash : SenderOf[u] = r}
          /\ \A p, q \in by_sender[r] : p[1] = q[1] \/ p[2] = q[2] => p = q
          /\ \A p \in by_sender[r] : p[1] < n /\ p[1] \in Nat /\ p[2] # t
      <4>1. \A p \in by_sender[r] : p[1] \in Nat
        BY SMTT(60), <3>1 DEF TypeOK
      <4>2. {p[2] : p \in by_sender[r]} = {u \in by_hash : SenderOf[u] = r}
        BY Zenon, <3>1 DEF SenderIndexExact
      <4> QED
        BY SMTT(60), <2>1, <3>1, <4>1, <4>2 DEF SenderIndexExact
    <3>4. {p[2] : p \in by_sender'[r]} = {u \in by_hash' : SenderOf[u] = r}
      <4>1. {p[2] : p \in by_sender'[r]} = {p[2] : p \in by_sender[r]} \cup {t}
        <5>1. <<n, t>>[2] = t
          OBVIOUS
        <5> HIDE DEF n, r
        <5> QED
          BY ZenonT(60), <3>2, <5>1
      <4>2. {u \in by_hash' : SenderOf[u] = r} = {u \in by_hash : SenderOf[u] = r} \cup {t}
        BY <2>1
      <4> QED
        BY Zenon, <3>3, <4>1, <4>2
    <3>5. \A p, q \in by_sender'[r] : p[1] = q[1] \/ p[2] = q[2] => p = q
      BY <3>1, <3>2, <3>3
    <3>6. \A p \in by_sender'[r] : p[1] < by_sender_seq'[r]
      BY <3>1, <3>2, <3>3
    <3>7. ASSUME NEW s \in Sender, s # r
          PROVE  /\ {p[2] : p \in by_sender'[s]} = {u \in by_hash' : SenderOf[u] = s}
                 /\ \A p, q \in by_sender'[s] : p[1] = q[1] \/ p[2] = q[2] => p = q
                 /\ \A p \in by_sender'[s] : p[1] < by_sender_seq'[s]
      BY <2>1, <3>2, <3>7 DEF SenderIndexExact
    <3> QED
      BY Zenon, <3>4, <3>5, <3>6, <3>7 DEF SenderIndexExact
  <2> QED
    BY Zenon, <2>2, <2>3
<1>2. ASSUME NEW t \in Tx, Remove(t) PROVE SenderIndexExact'
  BY <1>2, RemoveManySender DEF Remove
<1>3. ASSUME NEW executed \in SUBSET Tx, Finalize(executed) PROVE SenderIndexExact'
  BY Zenon, <1>3, RemoveManySender DEF Finalize
<1>4. CASE Clear
  BY SMTT(60), <1>4 DEF Clear, SenderIndexExact
<1>5. ASSUME UNCHANGED <<by_hash, by_sender, by_sender_seq>> PROVE SenderIndexExact'
  BY <1>5 DEF SenderIndexExact
<1> QED
  BY Zenon, <1>1, <1>2, <1>3, <1>4, <1>5 DEF Next, vars, BeginPropose, poolVars, PopEntry, FinishPropose

-----------------------------------------------------------------------------
(* A transaction that never left the pool has one place: it leaves the     *)
(* heap when it is popped, and finalize makes a new entry only for what    *)
(* has none.                                                               *)
LEMMA OnePlaceStep ==
  TypeOK /\ LoopClean /\ SelectedPooled /\ OnePlaceEach /\ [Next]_vars => OnePlaceEach'
<1> SUFFICES ASSUME TypeOK, LoopClean, SelectedPooled, OnePlaceEach, [Next]_vars,
                    NEW u \in Tx, u \notin left'
             PROVE  OnePlace(u)'
  BY DEF OnePlaceEach
<1> USE DEF TypeOK
<1>0. u \notin left => OnePlace(u)
  BY DEF OnePlaceEach
<1>1. ASSUME NEW t \in Tx, Add(t) PROVE OnePlace(u)'
  <2>1. /\ budget' = Idle /\ budget = Idle /\ u \notin left /\ t \notin by_hash
        /\ by_hash' = by_hash \cup {t} /\ skipped' = skipped /\ in_flight' = in_flight
        /\ by_priority'[t] = by_priority[t] + 1 /\ (u # t => by_priority'[u] = by_priority[u])
    BY <1>1 DEF Add
  <2> QED
    BY <1>0, <2>1 DEF OnePlace
<1>2. ASSUME NEW S \in SUBSET Tx, RemoveMany(S)
      PROVE  u \notin left /\ (u \in by_hash' <=> u \in by_hash)
  BY <1>2 DEF RemoveMany
<1>3. ASSUME NEW t \in Tx, Remove(t) PROVE OnePlace(u)'
  <2>1. {t} \in SUBSET Tx /\ RemoveMany({t}) /\ budget = Idle
        /\ UNCHANGED <<by_priority, in_flight, budget, selected, skipped>>
    BY <1>3 DEF Remove
  <2>2. u \notin left /\ (u \in by_hash' <=> u \in by_hash)
    BY <1>2, <2>1
  <2> QED
    BY <1>0, <2>1, <2>2 DEF OnePlace
<1>4. ASSUME NEW executed \in SUBSET Tx, Finalize(executed) PROVE OnePlace(u)'
  <2>1. RemoveMany(executed) /\ budget = Idle /\ UNCHANGED <<budget, selected, skipped>> /\ in_flight' = {}
    BY <1>4 DEF Finalize
  <2>2. u \notin left /\ (u \in by_hash' <=> u \in by_hash)
    BY <1>2, <2>1
  <2>3. by_priority'[u] = by_priority[u] \/ (u \in in_flight /\ u \in by_hash /\ by_priority'[u] = by_priority[u] + 1)
    BY <1>4, <2>2 DEF Finalize
  <2>4. skipped[u] = 0
    BY <2>1 DEF LoopClean, NoEntries
  <2> QED
    BY SMTT(60), <1>0, <2>1, <2>2, <2>3, <2>4 DEF OnePlace
<1>5. CASE Clear
  <2>1. by_priority'[u] = 0 /\ skipped'[u] = 0 /\ in_flight' = {} /\ budget' = Idle
    BY <1>5 DEF Clear, loopVars, NoEntries, LoopClean
  <2> QED
    BY <2>1 DEF OnePlace
<1>6. ASSUME NEW b \in Budget, BeginPropose(b) PROVE OnePlace(u)'
  <2>1. /\ u \notin left /\ UNCHANGED <<by_hash, by_priority, in_flight, skipped>>
        /\ selected' = << >>
    BY <1>6 DEF BeginPropose, poolVars, LoopClean
  <2> QED
    BY <1>0, <2>1 DEF OnePlace, InSelection
<1>7. ASSUME NEW t \in Tx, PopEntry(t) PROVE OnePlace(u)'
  <2>1. /\ budget # Idle /\ by_priority[t] > 0 /\ u \notin left
        /\ UNCHANGED <<by_hash, in_flight, budget>>
        /\ by_priority'[t] = by_priority[t] - 1 /\ (u # t => by_priority'[u] = by_priority[u])
    BY <1>7 DEF PopEntry, Top
  <2>2. OnePlace(u)
    BY <1>0, <2>1
  <2>3. CASE UNCHANGED <<selected, skipped>> /\ t \notin by_hash
    BY SMTT(60), <2>1, <2>2, <2>3 DEF OnePlace, InSelection
  <2>4. CASE selected' = Append(selected, t) /\ UNCHANGED skipped
    <3>1. /\ DOMAIN selected' = DOMAIN selected \cup {Len(selected) + 1}
          /\ selected'[Len(selected) + 1] = t
          /\ \A i \in DOMAIN selected : selected'[i] = selected[i] /\ i # Len(selected) + 1
      BY <2>4, AppendFacts
    <3>2. InSelection' = InSelection \cup {t}
      BY SMTT(60), <2>4, AppendFacts DEF InSelection
    <3>3. CASE u # t
      BY ZenonT(60), <2>1, <2>2, <2>4, <3>1, <3>2, <3>3 DEF OnePlace
    <3>4. CASE u = t
      <4>1. by_priority[u] = 1 /\ skipped[u] = 0 /\ u \notin in_flight /\ u \notin InSelection /\ u \in by_hash
        BY <2>1, <2>2, <3>4 DEF OnePlace
      <4>2. \A i \in DOMAIN selected : selected[i] # u
        BY <4>1 DEF InSelection
      <4> QED
        BY <2>1, <2>4, <3>1, <3>2, <3>4, <4>1, <4>2 DEF OnePlace
    <3> QED
      BY <3>3, <3>4
  <2>5. CASE skipped' = [skipped EXCEPT ![t] = @ + 1] /\ UNCHANGED selected
    <3>1. skipped'[t] = skipped[t] + 1 /\ (u # t => skipped'[u] = skipped[u])
      BY <2>5
    <3>2. CASE u # t
      BY Zenon, <2>1, <2>2, <2>5, <3>1, <3>2 DEF OnePlace, InSelection
    <3>3. CASE u = t
      <4>1. by_priority[u] = 1 /\ skipped[u] = 0 /\ u \notin in_flight /\ u \notin InSelection /\ u \in by_hash
        BY <2>1, <2>2, <3>3 DEF OnePlace
      <4>2. by_priority'[u] = 0 /\ skipped'[u] = 1 /\ InSelection' = InSelection
        BY SMTT(60), <2>1, <2>5, <3>1, <3>3, <4>1 DEF InSelection
      <4> QED
        BY <2>1, <2>2, <2>5, <4>1, <4>2 DEF OnePlace
    <3> QED
      BY <3>2, <3>3
  <2> QED
    BY Zenon, <1>7, <2>3, <2>4, <2>5 DEF PopEntry
<1>8. CASE FinishPropose
  <2>1. /\ budget # Idle /\ budget' = Idle /\ u \notin left /\ by_hash' = by_hash
        /\ by_priority'[u] = by_priority[u] + skipped[u] /\ skipped'[u] = 0
        /\ in_flight' = in_flight \cup InSelection
    BY Zenon, <1>8 DEF FinishPropose, NoEntries
  <2> QED
    BY <1>0, <2>1 DEF OnePlace, SelectedPooled
<1>9. CASE UNCHANGED vars
  BY Zenon, <1>0, <1>9 DEF vars, OnePlace, InSelection
<1> QED
  BY <1>1, <1>3, <1>4, <1>5, <1>6, <1>7, <1>8, <1>9 DEF Next

-----------------------------------------------------------------------------
(* The heap only loses entries while propose runs, and the gas only grows: *)
(* what precedes nothing selected goes on to do so, and what did not fit   *)
(* still does not.                                                         *)
LEMMA GreedyStep ==
  TypeOK /\ GasBounded /\ GreedySelection /\ [Next]_vars => GreedySelection'
<1> SUFFICES ASSUME TypeOK, GasBounded, GreedySelection, [Next]_vars PROVE GreedySelection'
  OBVIOUS
<1> USE DEF TypeOK
<1>1. CASE budget' = Idle
  BY <1>1 DEF GreedySelection
<1>2. ASSUME NEW b \in Budget, BeginPropose(b) PROVE GreedySelection'
  <2>1. budget' = b /\ total_gas' = 0 /\ selected' = << >> /\ \A t \in Tx : skipped'[t] = 0
    BY <1>2 DEF BeginPropose, NoEntries
  <2> QED
    BY <2>1, BudgetFacts DEF GreedySelection
<1>3. ASSUME NEW t \in Tx, PopEntry(t) PROVE GreedySelection'
  <2>1. /\ budget # Idle /\ budget' = budget /\ budget.max_gas \in Nat
        /\ by_priority[t] > 0 /\ \A v \in Tx : by_priority[v] > 0 => ~Higher(v, t)
        /\ \A v \in Tx : by_priority'[v] <= by_priority[v]
    <3>1. by_priority' = [by_priority EXCEPT ![t] = by_priority[t] - 1]
      BY <1>3 DEF PopEntry
    <3> QED
      BY SMTT(60), <1>3, <3>1, BudgetFacts DEF PopEntry, Top
  <2>2. /\ budget.max_gas # 0 => total_gas <= budget.max_gas
        /\ \A v \in Tx : skipped[v] > 0 => ~Fits(v)
        /\ \A i \in DOMAIN selected :
             /\ \A j \in (i + 1)..Len(selected) : ~Higher(selected[j], selected[i])
             /\ \A v \in Tx : by_priority[v] > 0 => ~Higher(v, selected[i])
    BY Zenon, <2>1 DEF GreedySelection
  <2>3. \A v \in Tx : by_priority'[v] > 0 => by_priority[v] > 0
    <3>1. by_priority' \in [Tx -> Nat]
      BY TypeStep
    <3> QED
      BY <2>1, <3>1
  <2>4. CASE UNCHANGED <<selected, total_gas, skipped>>
    <3>1. \A v \in Tx : Fits(v)' = Fits(v)
      BY <2>1, <2>4 DEF Fits, WithGasOf
    <3> QED
      BY Zenon, <2>1, <2>2, <2>3, <2>4, <3>1 DEF GreedySelection
  <2>5. CASE Fits(t) /\ selected' = Append(selected, t) /\ total_gas' = WithGasOf(t) /\ UNCHANGED skipped
    <3>1. budget'.max_gas # 0 => total_gas' <= budget'.max_gas
      BY Zenon, <2>1, <2>5 DEF Fits
    <3>2. ASSUME NEW v \in Tx, skipped'[v] > 0 PROVE ~Fits(v)'
      <4>1. ~Fits(v)
        BY <2>2, <2>5, <3>2
      <4>2. WithGasOf(v)' >= WithGasOf(v) /\ WithGasOf(v) \in Nat /\ WithGasOf(v)' \in Nat
        <5>1. total_gas' \in Nat /\ total_gas' <= MaxU64 /\ total_gas <= total_gas'
          BY Zenon, <2>5, WithGasFacts
        <5>2. GasLimit[v] \in Nat /\ MaxU64 \in Nat
          BY PoolAssumption
        <5>3. /\ WithGasOf(v) = IF total_gas + GasLimit[v] > MaxU64 THEN MaxU64 ELSE total_gas + GasLimit[v]
              /\ WithGasOf(v)' = IF total_gas' + GasLimit[v] > MaxU64 THEN MaxU64 ELSE total_gas' + GasLimit[v]
          BY DEF WithGasOf
        <5> QED
          BY SMTT(60), <5>1, <5>2, <5>3
      <4> QED
        BY SMTT(60), <2>1, <4>1, <4>2 DEF Fits
    <3>3. /\ Len(selected') = Len(selected) + 1 /\ DOMAIN selected' = DOMAIN selected \cup {Len(selected) + 1}
          /\ selected'[Len(selected) + 1] = t /\ DOMAIN selected = 1..Len(selected) /\ Len(selected) \in Nat
          /\ \A i \in DOMAIN selected : selected'[i] = selected[i]
      BY <2>5, AppendFacts
    <3>4. ASSUME NEW i \in DOMAIN selected'
          PROVE  /\ \A j \in (i + 1)..Len(selected') : ~Higher(selected'[j], selected'[i])
                 /\ \A v \in Tx : by_priority'[v] > 0 => ~Higher(v, selected'[i])
      <4>1. CASE i = Len(selected) + 1
        BY <2>1, <2>3, <3>3, <4>1
      <4>2. CASE i \in DOMAIN selected
        <5>1. ASSUME NEW j \in (i + 1)..Len(selected') PROVE ~Higher(selected'[j], selected'[i])
          <6>1. CASE j = Len(selected) + 1
            BY Zenon, <2>1, <2>2, <3>3, <4>2, <6>1
          <6>2. CASE j # Len(selected) + 1
            <7>0. i \in 1..Len(selected) /\ j \in (i + 1)..(Len(selected) + 1) /\ Len(selected) \in Nat
              BY <3>3, <4>2
            <7>1. j \in (i + 1)..Len(selected) /\ j \in 1..Len(selected)
              BY ONLY <6>2, <7>0, Between
            <7> QED
              <8>1. ~Higher(selected[j], selected[i])
                BY Zenon, <2>2, <4>2, <7>1
              <8>2. selected'[j] = selected[j] /\ selected'[i] = selected[i]
                BY Zenon, <3>3, <4>2, <7>1
              <8> QED
                BY Zenon, <8>1, <8>2
          <6> QED
            BY <6>1, <6>2
        <5> QED
          BY Zenon, <2>2, <2>3, <3>3, <4>2, <5>1
      <4> QED
        BY <3>3, <4>1, <4>2
    <3> QED
      BY Zenon, <3>1, <3>2, <3>4 DEF GreedySelection
  <2>6. CASE ~Fits(t) /\ skipped' = [skipped EXCEPT ![t] = @ + 1] /\ UNCHANGED <<selected, total_gas>>
    <3>1. \A v \in Tx : Fits(v)' = Fits(v)
      BY Zenon, <2>1, <2>6 DEF Fits, WithGasOf
    <3>2. \A v \in Tx : v # t => skipped'[v] = skipped[v]
      BY Zenon, <2>6
    <3> QED
      BY Zenon, <2>1, <2>2, <2>3, <2>6, <3>1, <3>2 DEF GreedySelection
  <2> QED
    BY Zenon, <1>3, <2>4, <2>5, <2>6 DEF PopEntry
<1>4. CASE UNCHANGED vars
  BY <1>4 DEF vars, GreedySelection, Fits, WithGasOf
<1> QED
  BY Zenon, <1>1, <1>2, <1>3, <1>4 DEF Next, Add, Remove, Finalize, Clear, loopVars, FinishPropose

-----------------------------------------------------------------------------
(* The empty pool satisfies the invariant.                                 *)
LEMMA InvInit == Init => Inv
<1> SUFFICES ASSUME Init PROVE Inv
  OBVIOUS
<1>1. TypeOK
  BY Zenon, TypeInit
<1>2. LoopClean /\ GasBounded /\ NothingStranded /\ SelectedPooled /\ GreedySelection
  BY PoolAssumption DEF Init, LoopClean, GasBounded, NothingStranded, SelectedPooled, GreedySelection
<1>3. SenderIndexExact
  BY DEF Init, SenderIndexExact
<1>4. OnePlaceEach
  BY DEF Init, OnePlaceEach, OnePlace, NoEntries
<1> QED
  BY <1>1, <1>2, <1>3, <1>4 DEF Inv

(* Every step keeps the invariant.                                         *)
LEMMA InvStep == Inv /\ [Next]_vars => Inv'
BY TypeStep, LoopStep, StrandedStep, SenderStep, OnePlaceStep, GreedyStep DEF Inv

(* The invariant holds in every reachable state.                           *)
LEMMA InvHolds == Spec => []Inv
BY InvInit, InvStep, PTL DEF Spec

(* Whatever is in by_hash is listed once for its sender and can still be   *)
(* proposed, after any calls of add, remove, propose, finalize and clear.  *)
THEOREM PoolStaysConsistent == Spec => []PoolConsistent
<1>1. Inv => PoolConsistent
  BY DEF Inv, PoolConsistent
<1> QED
  BY <1>1, InvHolds, PTL

(* Every proposal is the greedy one within its budget, and repeats nothing *)
(* but what was added again after it had left.                             *)
THEOREM SelectionAlwaysHolds == Spec => []SelectionHolds
<1>1. ASSUME Inv PROVE SelectionHolds
  <2>1. ASSUME budget # Idle, NEW t \in InSelection, t \notin Again
        PROVE  t \notin in_flight /\ \A i, j \in DOMAIN selected : selected[i] = t /\ selected[j] = t => i = j
    <3>1. t \in Tx /\ t \in by_hash
      BY <1>1, <2>1 DEF Inv, TypeOK, SelectedPooled
    <3>2. OnePlace(t)
      BY <1>1, <2>1, <3>1 DEF Inv, OnePlaceEach, Again
    <3> QED
      BY <2>1, <3>2 DEF OnePlace
  <2>2. DistinctProposals
    BY <2>1 DEF DistinctProposals, InSelection
  <2> QED
    BY Zenon, <1>1, <2>2 DEF Inv, SelectionHolds
<1> QED
  BY <1>1, InvHolds, PTL

-----------------------------------------------------------------------------
(* The empty pool is the empty pool of PoolSpec.                           *)
LEMMA InitIsPoolInit == Init => Pool!Init
BY DEF Init, Pool!Init, Status, Again

(* Every step is a step of PoolSpec, or none.                              *)
LEMMA StepIsPoolStep == Inv /\ [Next]_vars => [Pool!Next]_(Pool!psVars)
<1> SUFFICES ASSUME Inv, [Next]_vars PROVE [Pool!Next]_(Pool!psVars)
  OBVIOUS
<1> USE DEF Status, Again
<1>0. TypeOK
  BY DEF Inv
<1>1. ASSUME NEW t \in Tx, Add(t) PROVE Pool!Add(t) \/ Pool!AddProposed(t)
  <2>1. /\ by_hash' = by_hash \cup {t} /\ t \notin by_hash
        /\ UNCHANGED <<in_flight, left, budget, selected>>
    BY <1>1 DEF Add
  <2>2. t \in in_flight => t \in left
    BY <2>1 DEF Inv, OnePlaceEach, OnePlace
  <2>3. CASE t \in in_flight
    BY Zenon, <2>1, <2>2, <2>3 DEF Pool!AddProposed
  <2>4. CASE t \notin in_flight
    BY Zenon, <2>1, <2>4 DEF Pool!Add
  <2> QED
    BY <2>3, <2>4
<1>2. ASSUME NEW t \in Tx, Remove(t) PROVE {t} \in SUBSET Tx /\ Pool!Remove({t})
  BY <1>2 DEF Remove, RemoveMany, Pool!Remove
<1>3. ASSUME NEW executed \in SUBSET Tx, Finalize(executed) PROVE Pool!Finalize(executed)
  BY <1>3 DEF Finalize, RemoveMany, Pool!Finalize
<1>4. CASE Clear
  <2>1. Pool!Remove(Tx)
    BY Zenon, <1>0, <1>4 DEF Clear, loopVars, Pool!Remove, TypeOK
  <2> QED
    BY Zenon, <2>1 DEF Pool!Next
<1>5. ASSUME NEW b \in Budget, BeginPropose(b) PROVE Pool!Ask
  BY Zenon, <1>5, BudgetFacts DEF BeginPropose, poolVars, Pool!Ask
<1>6. ASSUME NEW t \in Tx, PopEntry(t) PROVE UNCHANGED Pool!psVars
  BY Zenon, <1>6 DEF PopEntry, Pool!psVars
<1>7. CASE FinishPropose
  <2>1. /\ budget # Idle /\ budget' = Idle /\ selected' = selected /\ by_hash' = by_hash /\ left' = left
        /\ in_flight' = in_flight \cup InSelection
    BY Zenon, <1>7 DEF FinishPropose
  <2>2. ASSUME NEW i \in DOMAIN selected
        PROVE  selected[i] \in Tx /\ selected[i] \in by_hash /\ selected[i] \in InSelection
               /\ (selected[i] \in in_flight => selected[i] \in Again)
    <3>1. selected[i] \in Tx /\ selected[i] \in InSelection
      BY SMTT(60), <1>0 DEF TypeOK, InSelection
    <3>2. selected[i] \in by_hash
      BY Zenon, <2>1, <3>1 DEF Inv, SelectedPooled
    <3>3. selected[i] \notin left => OnePlace(selected[i])
      BY Zenon, <3>1 DEF Inv, OnePlaceEach
    <3> QED
      BY Zenon, <2>1, <3>1, <3>2, <3>3 DEF OnePlace
  <2>3. ASSUME NEW i \in DOMAIN selected, NEW j \in DOMAIN selected, i # j, selected[i] = selected[j]
        PROVE  selected[i] \in Again
    <3>1. selected[i] \notin left => OnePlace(selected[i])
      BY Zenon, <2>2 DEF Inv, OnePlaceEach
    <3> QED
      BY Zenon, <2>1, <2>2, <2>3, <3>1 DEF OnePlace
  <2>4. Status' = [t \in Tx |-> IF \E i \in DOMAIN selected : selected[i] = t THEN "proposed" ELSE Status[t]]
    BY Zenon, <2>1, <2>2 DEF InSelection
  <2> QED
    BY SMTT(60), <2>1, <2>2, <2>3, <2>4 DEF Pool!Propose, Pool!Next
<1>8. CASE UNCHANGED vars
  BY <1>8 DEF vars, Pool!psVars
<1> QED
  BY Zenon, <1>1, <1>2, <1>3, <1>4, <1>5, <1>6, <1>7, <1>8 DEF Next, Pool!Next

(* The pool with its stale heap entries implements PoolSpec.               *)
THEOREM IsAPool == Spec => ImplementsPool
BY InitIsPoolInit, StepIsPoolStep, InvHolds, PTL DEF Spec, ImplementsPool, Pool!Spec
=============================================================================
