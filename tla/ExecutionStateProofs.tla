------------------------ MODULE ExecutionStateProofs ------------------------
(***************************************************************************)
(* The undo log restores exactly, for any keys, values and limits.         *)
(***************************************************************************)
EXTENDS ExecutionState, FiniteSetTheorems, SequenceTheorems, WellFoundedInduction, TLAPS

USE OverlayAssumption, BoundAssumption

-----------------------------------------------------------------------------
(* Least and greatest elements.                                            *)

\* A set of naturals with a member has a least member, which is what FirstOf
\* picks: the first change to a key since a checkpoint.
LEMMA FirstOfIsLeast ==
  ASSUME NEW T \in SUBSET Nat, T # {}
  PROVE  FirstOf(T) \in T /\ \A y \in T : FirstOf(T) <= y
<1>1. IsWellFoundedOn(OpToRel(<, Nat), Nat)
  BY Zenon, NatLessThanWellFounded
<1>2. PICK x \in T : \A y \in T : ~ (<<y, x>> \in OpToRel(<, Nat))
  BY Zenon, <1>1, WFMin
<1>3. \A y \in T : ~ (y < x)
  BY Zenon, <1>2 DEF OpToRel
<1>4. \A y \in T : x <= y
  BY <1>3
<1>. QED
  BY Zenon, <1>4 DEF FirstOf

\* Likewise LastOf of a bounded set: the last operation of a batch on a key.
LEMMA LastOfIsGreatest ==
  ASSUME NEW m \in Nat, NEW T \in SUBSET (1..m), T # {}
  PROVE  LastOf(T) \in T /\ \A y \in T : y <= LastOf(T)
<1> DEFINE D == {n \in Nat : m - n \in T}
<1>1. D \in SUBSET Nat /\ D # {}
  <2>1. PICK y \in T : TRUE
    BY Zenon
  <2>2. m - y \in Nat /\ m - (m - y) = y
    OBVIOUS
  <2>. QED
    BY Zenon, <2>1, <2>2
<1>2. PICK f \in D : \A y \in D : f <= y
  BY Zenon, <1>1, FirstOfIsLeast
<1>3. \A y \in T : m - y \in D
  OBVIOUS
<1>4. m - f \in T /\ \A y \in T : y <= m - f
  BY <1>2, <1>3
<1>. QED
  BY Zenon, <1>4 DEF LastOf

-----------------------------------------------------------------------------
(* What a batch leaves.                                                    *)

\* A batch never leaves NoEntry on a key it touches, and leaves the other keys
\* alone.
LEMMA AfterPrefixEntry ==
  ASSUME TypeOK, NEW n \in Nat, NEW ops \in [1..n -> BatchOperation],
         NEW i \in 1..(n + 1), NEW k \in Key
  PROVE  /\ AfterPrefix(ops, i, k) \in Entry
         /\ Before(ops, i, k) = {} => AfterPrefix(ops, i, k) = overlay[k]
         /\ Before(ops, i, k) # {} => AfterPrefix(ops, i, k) \in Value \cup {Tombstone}
<1>1. CASE Before(ops, i, k) = {}
  BY <1>1 DEF AfterPrefix, TypeOK
<1>2. CASE Before(ops, i, k) # {}
  <2>1. Before(ops, i, k) \in SUBSET (1..n)
    BY DEF Before
  <2>2. LastOf(Before(ops, i, k)) \in 1..n
    BY Zenon, <1>2, <2>1, LastOfIsGreatest
  <2>3. ops[LastOf(Before(ops, i, k))].entry \in Value \cup {Tombstone}
    BY <2>2 DEF BatchOperation
  <2>. QED
    BY <1>2, <2>3 DEF AfterPrefix, Entry
<1>. QED
  BY <1>1, <1>2

\* The log entries of a batch.
LEMMA BatchLog ==
  ASSUME TypeOK, NEW n \in Nat, NEW ops \in [1..n -> BatchOperation], ApplyBatch(ops)
  PROVE  /\ overlay' \in [Key -> Entry]
         /\ undo_log' \in Seq(Change)
         /\ Len(undo_log') = Len(undo_log) + n
         /\ \A j \in 1..Len(undo_log) : undo_log'[j] = undo_log[j]
         /\ \A i \in 1..n : undo_log'[Len(undo_log) + i] =
              [key |-> ops[i].key, prev |-> AfterPrefix(ops, i, ops[i].key)]
<1> DEFINE b == [i \in 1..n |-> [key |-> ops[i].key, prev |-> AfterPrefix(ops, i, ops[i].key)]]
<1>1. ops \in Seq(BatchOperation) /\ Len(ops) = n
  OBVIOUS
<1>2. \A i \in 1..n : ops[i].key \in Key
  BY DEF BatchOperation
<1>3. \A i \in 1..n : AfterPrefix(ops, i, ops[i].key) \in Entry
  BY <1>2, AfterPrefixEntry
<1>4. \A i \in 1..n : b[i] \in Change
  BY <1>2, <1>3 DEF Change
<1>5. b \in Seq(Change) /\ Len(b) = n
  BY <1>4
<1>6. undo_log' = undo_log \o b
  BY <1>1 DEF ApplyBatch
<1>7. undo_log \in Seq(Change)
  BY DEF TypeOK
<1>8. overlay' \in [Key -> Entry]
  <2>1. \A k \in Key : AfterPrefix(ops, n + 1, k) \in Entry
    BY AfterPrefixEntry
  <2>. QED
    BY <1>1, <2>1 DEF ApplyBatch
<1> HIDE DEF b
<1>9. /\ undo_log' \in Seq(Change)
      /\ Len(undo_log') = Len(undo_log) + n
      /\ \A j \in 1..Len(undo_log) : undo_log'[j] = undo_log[j]
      /\ \A i \in 1..n : undo_log'[Len(undo_log) + i] = b[i]
  <2>1. /\ undo_log' \in Seq(Change)
        /\ Len(undo_log') = Len(undo_log) + Len(b)
        /\ \A j \in 1..(Len(undo_log) + Len(b)) :
             undo_log'[j] = IF j <= Len(undo_log) THEN undo_log[j] ELSE b[j - Len(undo_log)]
    BY <1>5, <1>6, <1>7, ConcatProperties
  <2>2. Len(undo_log) \in Nat
    BY <1>7
  <2>3. \A i \in 1..n : undo_log'[Len(undo_log) + i] = b[i]
    <3>1. TAKE i \in 1..n
    <3>2. Len(undo_log) + i \in 1..(Len(undo_log) + Len(b)) /\ ~ (Len(undo_log) + i <= Len(undo_log))
      BY <1>5, <2>2
    <3>3. (Len(undo_log) + i) - Len(undo_log) = i
      BY <2>2
    <3>. QED
      BY <2>1, <3>2, <3>3
  <2>. QED
    BY <1>5, <2>1, <2>2, <2>3
<1>10. \A i \in 1..n : b[i] = [key |-> ops[i].key, prev |-> AfterPrefix(ops, i, ops[i].key)]
  BY DEF b
<1>. QED
  BY Zenon, <1>8, <1>9, <1>10

\* The log entry of set and remove.
LEMMA WriteLog ==
  ASSUME TypeOK, NEW k \in Key, NEW e \in Value \cup {Tombstone}, Write(k, e)
  PROVE  /\ overlay' \in [Key -> Entry]
         /\ undo_log' \in Seq(Change)
         /\ Len(undo_log') = Len(undo_log) + 1
         /\ \A j \in 1..Len(undo_log) : undo_log'[j] = undo_log[j]
         /\ undo_log'[Len(undo_log) + 1] = [key |-> k, prev |-> overlay[k]]
<1>1. [key |-> k, prev |-> overlay[k]] \in Change
  BY DEF TypeOK, Change
<1>2. undo_log \in Seq(Change)
  BY DEF TypeOK
<1>3. undo_log' = Append(undo_log, [key |-> k, prev |-> overlay[k]])
  BY DEF Write
<1>4. overlay' \in [Key -> Entry]
  BY DEF Write, TypeOK, Entry
<1>. QED
  BY <1>1, <1>2, <1>3, <1>4, AppendProperties

\* The log once restore's loop has popped a change.
LEMMA RevertLog ==
  ASSUME TypeOK, open # << >>, RevertOne
  PROVE  /\ overlay' \in [Key -> Entry]
         /\ undo_log' \in Seq(Change)
         /\ Len(undo_log) \in Nat /\ Len(undo_log) >= 1
         /\ Len(undo_log') = Len(undo_log) - 1
         /\ \A j \in 1..Len(undo_log') : undo_log'[j] = undo_log[j]
         /\ undo_log[Len(undo_log)] \in Change
<1>1. undo_log \in Seq(Change) /\ Len(open) \in 1..Len(open)
  BY DEF TypeOK
<1>2. Innermost.undo_log_index \in Nat
  <2>1. Innermost \in Checkpoint
    BY <1>1 DEF TypeOK, Innermost
  <2>. QED
    BY <2>1 DEF Checkpoint
<1>3. Len(undo_log) \in Nat /\ Len(undo_log) >= 1
  BY <1>1, <1>2 DEF RevertOne
<1>4. undo_log[Len(undo_log)] \in Change
  BY <1>1, <1>3
<1>5. overlay' \in [Key -> Entry]
  BY <1>4 DEF RevertOne, TypeOK, Change
<1>6. \A i \in 1..(Len(undo_log) - 1) : undo_log[i] \in Change
  BY <1>1
<1>7. /\ undo_log' \in Seq(Change)
      /\ Len(undo_log') = Len(undo_log) - 1
      /\ \A j \in 1..Len(undo_log') : undo_log'[j] = undo_log[j]
  <2>1. undo_log' = SubSeq(undo_log, 1, Len(undo_log) - 1)
    BY DEF RevertOne
  <2>2. /\ undo_log' \in Seq(Change)
        /\ Len(undo_log') = IF 1 <= Len(undo_log) - 1 THEN (Len(undo_log) - 1) - 1 + 1 ELSE 0
        /\ \A j \in 1..((Len(undo_log) - 1) - 1 + 1) : undo_log'[j] = undo_log[1 + j - 1]
    <3>1. Len(undo_log) - 1 \in Int
      BY <1>3
    <3>. QED
      BY <1>6, <2>1, <3>1, SubSeqProperties
  <2>3. Len(undo_log') = Len(undo_log) - 1
    <3>1. PICK n \in Nat : n = Len(undo_log)
      BY <1>3
    <3>2. Len(undo_log') = IF 1 <= n - 1 THEN (n - 1) - 1 + 1 ELSE 0
      BY <2>2, <3>1
    <3>3. n >= 1
      BY <1>3, <3>1
    <3>. QED
      BY <3>1, <3>2, <3>3
  <2>4. \A j \in 1..(Len(undo_log) - 1) : undo_log'[j] = undo_log[j]
    <3>1. TAKE j \in 1..(Len(undo_log) - 1)
    <3>2. j \in 1..((Len(undo_log) - 1) - 1 + 1) /\ 1 + j - 1 = j
      BY <1>3
    <3>. QED
      BY <2>2, <3>2
  <2>. QED
    BY <2>2, <2>3, <2>4
<1>. QED
  BY <1>3, <1>4, <1>5, <1>7

-----------------------------------------------------------------------------
(* The heart of the matter: an overlay and a log that grew out of others   *)
(* undo to the same overlays, provided the first new change to each key    *)
(* remembers the entry the key had.                                        *)
GrewFrom(ov2, log2, ov1, log1) ==
  /\ Len(log1) <= Len(log2)
  /\ \A j \in 1..Len(log1) : log2[j] = log1[j]
  /\ \A k \in Key :
       IF Touches(log2, Len(log1), k) = {}
       THEN ov2[k] = ov1[k]
       ELSE log2[FirstOf(Touches(log2, Len(log1), k))].prev = ov1[k]

\* Truthful entries at the end of the log leave the earlier states restorable.
LEMMA UndoneStable ==
  ASSUME NEW ov1, NEW log1 \in Seq(Change), NEW ov2, NEW log2 \in Seq(Change),
         GrewFrom(ov2, log2, ov1, log1)
  PROVE  \A n \in 0..Len(log1) : Undone(ov2, log2, n) = Undone(ov1, log1, n)
<1> SUFFICES ASSUME NEW n \in 0..Len(log1), NEW k \in Key
             PROVE  Undone(ov2, log2, n)[k] = Undone(ov1, log1, n)[k]
  BY DEF Undone
<1> DEFINE old == Touches(log1, n, k)
           new == Touches(log2, Len(log1), k)
           all == Touches(log2, n, k)
<1>1. Len(log1) \in Nat /\ Len(log2) \in Nat
  OBVIOUS
<1>2. all = old \cup new
  BY <1>1 DEF Touches, GrewFrom
<1>3. /\ old \in SUBSET Nat /\ \A j \in old : j <= Len(log1) /\ j \in 1..Len(log1)
      /\ new \in SUBSET Nat /\ \A j \in new : j > Len(log1)
  BY <1>1 DEF Touches
<1>4. CASE old # {}
  <2>1. FirstOf(old) \in old /\ \A y \in old : FirstOf(old) <= y
    BY <1>3, <1>4, FirstOfIsLeast
  <2>2. all \in SUBSET Nat /\ all # {}
    BY <1>2, <1>3, <1>4
  <2>3. FirstOf(all) \in all /\ \A y \in all : FirstOf(all) <= y
    BY <2>2, FirstOfIsLeast
  <2>4. FirstOf(all) = FirstOf(old)
    <3>1. FirstOf(old) \in all
      BY <1>2, <2>1
    <3>2. FirstOf(all) <= FirstOf(old)
      BY <2>3, <3>1
    <3>3. FirstOf(old) \in Nat /\ FirstOf(old) <= Len(log1) /\ FirstOf(all) \in Nat
      BY <1>3, <2>1, <2>2, <2>3
    <3>4. FirstOf(all) \in old
      BY SMTT(30), <1>1, <1>2, <1>3, <2>3, <3>2, <3>3
    <3>5. FirstOf(old) <= FirstOf(all)
      BY <2>1, <3>4
    <3>. QED
      BY <3>2, <3>3, <3>5
  <2>5. log2[FirstOf(old)] = log1[FirstOf(old)]
    BY <1>3, <2>1 DEF GrewFrom
  <2>. QED
    BY <1>4, <2>2, <2>4, <2>5 DEF Undone
<1>5. CASE old = {}
  <2>1. all = new
    BY <1>2, <1>5
  <2>. QED
    BY <1>5, <2>1 DEF Undone, GrewFrom
<1>. QED
  BY <1>4, <1>5

\* A write leaves every state that a checkpoint could restore.
LEMMA WriteUndone ==
  ASSUME TypeOK, NEW k \in Key, NEW e \in Value \cup {Tombstone}, Write(k, e)
  PROVE  \A n \in 0..Len(undo_log) : Undone(overlay', undo_log', n) = Undone(overlay, undo_log, n)
<1>1. /\ undo_log' \in Seq(Change)
      /\ Len(undo_log') = Len(undo_log) + 1
      /\ \A j \in 1..Len(undo_log) : undo_log'[j] = undo_log[j]
      /\ undo_log'[Len(undo_log) + 1] = [key |-> k, prev |-> overlay[k]]
  BY WriteLog
<1>2. undo_log \in Seq(Change)
  BY DEF TypeOK
<1>3. PICK L \in Nat : L = Len(undo_log)
  BY <1>2
<1>4. \A c \in Key : IF Touches(undo_log', Len(undo_log), c) = {}
                     THEN overlay'[c] = overlay[c]
                     ELSE undo_log'[FirstOf(Touches(undo_log', Len(undo_log), c))].prev = overlay[c]
  <2>1. TAKE c \in Key
  <2>2. CASE c = k
    <3>1. Touches(undo_log', Len(undo_log), c) = {L + 1}
      BY <1>1, <1>3, <2>2 DEF Touches
    <3>2. FirstOf({L + 1}) = L + 1
      BY FirstOfIsLeast
    <3>. QED
      BY <1>1, <1>3, <2>2, <3>1, <3>2
  <2>3. CASE c # k
    <3>1. Touches(undo_log', Len(undo_log), c) = {}
      BY <1>1, <1>3, <2>3 DEF Touches
    <3>2. overlay'[c] = overlay[c]
      BY <2>3 DEF Write, TypeOK
    <3>. QED
      BY <3>1, <3>2
  <2>. QED
    BY <2>2, <2>3
<1>5. GrewFrom(overlay', undo_log', overlay, undo_log)
  <2>1. Len(undo_log) <= Len(undo_log')
    BY <1>1, <1>3
  <2>. QED
    BY <1>1, <1>4, <2>1 DEF GrewFrom
<1>. QED
  BY <1>1, <1>2, <1>5, UndoneStable

\* So does a batch.
LEMMA BatchUndone ==
  ASSUME TypeOK, NEW m \in Nat, NEW ops \in [1..m -> BatchOperation], ApplyBatch(ops)
  PROVE  \A n \in 0..Len(undo_log) : Undone(overlay', undo_log', n) = Undone(overlay, undo_log, n)
<1>1. /\ undo_log' \in Seq(Change)
      /\ Len(undo_log') = Len(undo_log) + m
      /\ \A j \in 1..Len(undo_log) : undo_log'[j] = undo_log[j]
      /\ \A i \in 1..m : undo_log'[Len(undo_log) + i] =
           [key |-> ops[i].key, prev |-> AfterPrefix(ops, i, ops[i].key)]
  BY Zenon, BatchLog
<1>2. undo_log \in Seq(Change)
  BY DEF TypeOK
<1>3. PICK L \in Nat : L = Len(undo_log)
  BY <1>2
<1>4. \A i \in 1..m : /\ undo_log'[L + i].key = ops[i].key
                      /\ undo_log'[L + i].prev = AfterPrefix(ops, i, ops[i].key)
  <2>1. TAKE i \in 1..m
  <2>2. undo_log'[L + i] = [key |-> ops[i].key, prev |-> AfterPrefix(ops, i, ops[i].key)]
    BY SMTT(30), <1>1, <1>3
  <2>. QED
    BY <2>2
<1>5. \A c \in Key : IF Touches(undo_log', Len(undo_log), c) = {}
                     THEN overlay'[c] = overlay[c]
                     ELSE undo_log'[FirstOf(Touches(undo_log', Len(undo_log), c))].prev = overlay[c]
  <2>1. TAKE c \in Key
  <2> DEFINE T == Touches(undo_log', Len(undo_log), c)
  <2>2. T \in SUBSET Nat /\ \A j \in T : j - L \in 1..m /\ ops[j - L].key = c
    <3>1. \A j \in (L + 1)..(L + m) : j - L \in 1..m /\ L + (j - L) = j
      BY <1>3
    <3>2. \A j \in (L + 1)..(L + m) : undo_log'[j].key = ops[j - L].key
      BY <1>4, <3>1
    <3>3. T = {j \in (L + 1)..(L + m) : undo_log'[j].key = c}
      BY <1>1, <1>3 DEF Touches
    <3>. QED
      BY SMTT(30), <1>3, <3>1, <3>2, <3>3
  <2>3. \A i \in 1..m : ops[i].key = c => L + i \in T
    <3>1. \A i \in 1..m : L + i \in (L + 1)..(L + m)
      OBVIOUS
    <3>2. T = {j \in (L + 1)..(L + m) : undo_log'[j].key = c}
      BY <1>1, <1>3 DEF Touches
    <3>. QED
      BY <1>4, <3>1, <3>2
  <2>4. CASE T = {}
    <3>1. Before(ops, m + 1, c) = {}
      BY <2>3, <2>4 DEF Before
    <3>2. overlay'[c] = AfterPrefix(ops, m + 1, c)
      BY DEF ApplyBatch
    <3>3. m + 1 \in 1..(m + 1)
      OBVIOUS
    <3>. QED
      BY <2>4, <3>1, <3>2, <3>3, AfterPrefixEntry
  <2>5. CASE T # {}
    <3>1. FirstOf(T) \in T /\ \A y \in T : FirstOf(T) <= y
      BY SMTT(30), <2>2, <2>5, FirstOfIsLeast
    <3>2. PICK i \in 1..m : FirstOf(T) = L + i /\ ops[i].key = c
      BY <2>2, <3>1
    <3>3. Before(ops, i, c) = {}
      BY <2>3, <3>1, <3>2 DEF Before
    <3>4. AfterPrefix(ops, i, c) = overlay[c]
      BY <3>3, AfterPrefixEntry
    <3>. QED
      BY <1>4, <2>5, <3>2, <3>4
  <2>. QED
    BY <2>4, <2>5
<1>6. GrewFrom(overlay', undo_log', overlay, undo_log)
  <2>1. Len(undo_log) <= Len(undo_log')
    BY <1>1, <1>3
  <2>. QED
    BY <1>1, <1>5, <2>1 DEF GrewFrom
<1>. QED
  BY <1>1, <1>2, <1>6, UndoneStable

\* Taking back the last change leaves the earlier states restorable.
LEMMA RevertUndone ==
  ASSUME TypeOK, open # << >>, RevertOne
  PROVE  \A n \in 0..Len(undo_log') : Undone(overlay', undo_log', n) = Undone(overlay, undo_log, n)
<1> DEFINE ch == undo_log[Len(undo_log)]
<1>1. /\ undo_log' \in Seq(Change)
      /\ Len(undo_log) >= 1
      /\ Len(undo_log') = Len(undo_log) - 1
      /\ \A j \in 1..Len(undo_log') : undo_log'[j] = undo_log[j]
      /\ ch \in Change
  BY RevertLog
<1>2. undo_log \in Seq(Change)
  BY DEF TypeOK
<1>3. PICK L \in Nat : L = Len(undo_log)
  BY <1>2
<1>4. \A c \in Key : IF Touches(undo_log, Len(undo_log'), c) = {}
                     THEN overlay[c] = overlay'[c]
                     ELSE undo_log[FirstOf(Touches(undo_log, Len(undo_log'), c))].prev = overlay'[c]
  <2>1. TAKE c \in Key
  <2>2. CASE c = ch.key
    <3>1. Touches(undo_log, Len(undo_log'), c) = {L}
      BY <1>1, <1>3, <2>2 DEF Touches
    <3>2. FirstOf({L}) = L
      BY FirstOfIsLeast
    <3>3. overlay'[c] = ch.prev
      BY <2>2 DEF RevertOne, TypeOK
    <3>. QED
      BY <1>3, <3>1, <3>2, <3>3
  <2>3. CASE c # ch.key
    <3>1. Touches(undo_log, Len(undo_log'), c) = {}
      BY <1>1, <1>3, <2>3 DEF Touches
    <3>2. overlay'[c] = overlay[c]
      BY <2>3 DEF RevertOne, TypeOK
    <3>. QED
      BY <3>1, <3>2
  <2>. QED
    BY <2>2, <2>3
<1>5. GrewFrom(overlay, undo_log, overlay', undo_log')
  <2>1. Len(undo_log') <= Len(undo_log)
    BY <1>1, <1>3
  <2>. QED
    BY <1>1, <1>4, <2>1 DEF GrewFrom
<1>6. \A n \in 0..Len(undo_log') : Undone(overlay, undo_log, n) = Undone(overlay', undo_log', n)
  BY <1>1, <1>2, <1>5, UndoneStable
<1>. QED
  BY <1>6

-----------------------------------------------------------------------------
(* The inductive invariant, one lemma per action that moves the log.       *)

\* What the sequences of the state hold.
LEMMA Elements ==
  ASSUME TypeOK
  PROVE  /\ \A j \in 1..Len(undo_log) : undo_log[j].key \in Key /\ undo_log[j].prev \in Entry
         /\ \A i \in 1..Len(open) :
              /\ open[i].undo_log_index \in Nat
              /\ open[i].events_index \in Nat
              /\ open[i].unique_objects_created \in Nat
<1>1. \A j \in 1..Len(undo_log) : undo_log[j] \in Change
  BY DEF TypeOK
<1>2. \A i \in 1..Len(open) : open[i] \in Checkpoint
  BY DEF TypeOK
<1>. QED
  BY <1>1, <1>2 DEF Change, Checkpoint

\* The empty overlay satisfies the invariant.
LEMMA InitInv == Init => Inv
<1> SUFFICES ASSUME Init PROVE Inv
  OBVIOUS
<1>1. TypeOK
  BY DEF Init, TypeOK, Entry
<1>2. CheckpointsNested /\ LogCoversOverlay
  BY DEF Init, CheckpointsNested, LogCoversOverlay
<1>3. Present = {}
  BY DEF Init, Present
<1>. QED
  BY <1>1, <1>2, <1>3, FS_EmptySet DEF Inv, Init

\* A write keeps the invariant.
LEMMA WriteInv ==
  ASSUME Inv, NEW k \in Key, NEW e \in Value \cup {Tombstone}, Write(k, e)
  PROVE  Inv'
<1> USE DEF Inv
<1>1. /\ overlay' \in [Key -> Entry]
      /\ undo_log' \in Seq(Change)
      /\ Len(undo_log') = Len(undo_log) + 1
      /\ \A j \in 1..Len(undo_log) : undo_log'[j] = undo_log[j]
      /\ undo_log'[Len(undo_log) + 1] = [key |-> k, prev |-> overlay[k]]
  BY WriteLog
<1>2. PICK L \in Nat : L = Len(undo_log)
  BY DEF TypeOK
<1>3. TypeOK'
  BY <1>1 DEF TypeOK, Write
<1>4. CheckpointsNested'
  <2>1. \A i \in 1..Len(open) : open[i].undo_log_index \in Nat /\ open[i].undo_log_index <= L
    BY <1>2, Elements DEF CheckpointsNested, Restorable
  <2>2. \A i \in 1..Len(open) : open[i].undo_log_index <= L + 1
    BY <2>1
  <2>. QED
    BY <1>1, <1>2, <2>2 DEF CheckpointsNested, Restorable, Write
<1>5. overlay'[k] = e /\ e # NoEntry /\ \A c \in Key \ {k} : overlay'[c] = overlay[c]
  BY DEF Write, TypeOK
<1>6. \A j \in 1..L : undo_log[j].key \in Key
  BY <1>2, Elements
<1>7. LogCoversOverlay'
  <2>1. \A j \in 1..(L + 1) : overlay'[undo_log'[j].key] # NoEntry
    BY <1>1, <1>2, <1>5, <1>6 DEF LogCoversOverlay
  <2>2. \A i, j \in 1..(L + 1) :
          i < j /\ undo_log'[i].key = undo_log'[j].key => undo_log'[j].prev # NoEntry
    BY <1>1, <1>2 DEF LogCoversOverlay
  <2>. QED
    BY <1>1, <1>2, <2>1, <2>2 DEF LogCoversOverlay
<1>8. Present' = Present \cup {k}
  BY <1>1, <1>5 DEF Present
<1>9. IsFiniteSet(Present') /\ Cardinality(Present') <= MaxOverlayEntries
  <2>1. Cardinality(Present) \in Nat
    BY FS_CardinalityType
  <2>2. CASE k \in Present
    BY Zenon, <1>8, <2>2, Present \cup {k} = Present
  <2>3. CASE k \notin Present
    <3>1. Cardinality(Present) < MaxOverlayEntries
      BY <2>3 DEF Write, Present
    <3>2. IsFiniteSet(Present \cup {k}) /\ Cardinality(Present \cup {k}) = Cardinality(Present) + 1
      BY <2>3, FS_AddElement
    <3>. QED
      BY <1>8, <2>1, <3>1, <3>2
  <2>. QED
    BY <2>2, <2>3
<1>. QED
  BY <1>3, <1>4, <1>7, <1>9 DEF Write

\* Taking back the last change keeps the invariant.
LEMMA RevertInv ==
  ASSUME Inv, RevertOne
  PROVE  Inv'
<1> USE DEF Inv
<1> DEFINE ch == undo_log[Len(undo_log)]
<1>0. open # << >>
  BY DEF RevertOne
<1>1. /\ overlay' \in [Key -> Entry]
      /\ undo_log' \in Seq(Change)
      /\ Len(undo_log) >= 1
      /\ Len(undo_log') = Len(undo_log) - 1
      /\ \A j \in 1..Len(undo_log') : undo_log'[j] = undo_log[j]
      /\ ch \in Change
  BY <1>0, RevertLog
<1>2. PICK L \in Nat : L = Len(undo_log)
  BY DEF TypeOK
<1>3. TypeOK'
  BY <1>1 DEF TypeOK, RevertOne
<1>4. CheckpointsNested'
  <2>1. PICK o \in Nat : o = Len(open) /\ o >= 1
    BY <1>0 DEF TypeOK
  <2>2. L > open[o].undo_log_index /\ \A i \in 1..o : open[i] \in Checkpoint
    BY <1>2, <2>1 DEF RevertOne, Innermost, TypeOK
  <2>3. \A i \in 1..o : open[i].undo_log_index <= open[o].undo_log_index
    BY <2>1 DEF CheckpointsNested
  <2>4. \A i \in 1..o : open[i].undo_log_index <= L - 1
    BY <2>1, <2>2, <2>3 DEF Checkpoint
  <2>. QED
    BY <1>1, <1>2, <2>1, <2>4 DEF CheckpointsNested, Restorable, RevertOne
<1>5. overlay'[ch.key] = ch.prev /\ \A c \in Key \ {ch.key} : overlay'[c] = overlay[c]
  BY <1>1 DEF RevertOne, TypeOK, Change
<1>6. ch.key \in Key /\ overlay[ch.key] # NoEntry
  BY <1>1, <1>2 DEF LogCoversOverlay, Change
<1>7. LogCoversOverlay'
  <2>1. \A j \in 1..(L - 1) : overlay'[undo_log'[j].key] # NoEntry
    <3>1. TAKE j \in 1..(L - 1)
    <3>2. undo_log'[j] = undo_log[j] /\ undo_log[j].key \in Key
      BY <1>1, <1>2, Elements
    <3>3. CASE undo_log[j].key = ch.key
      BY <1>1, <1>2, <1>5, <3>2, <3>3 DEF LogCoversOverlay
    <3>4. CASE undo_log[j].key # ch.key
      BY <1>1, <1>2, <1>5, <3>2, <3>4 DEF LogCoversOverlay
    <3>. QED
      BY <3>3, <3>4
  <2>2. \A i, j \in 1..(L - 1) :
          i < j /\ undo_log'[i].key = undo_log'[j].key => undo_log'[j].prev # NoEntry
    BY SMTT(30), <1>1, <1>2 DEF LogCoversOverlay
  <2>. QED
    BY <1>1, <1>2, <2>1, <2>2 DEF LogCoversOverlay
<1>8. Present' \in SUBSET Present
  BY <1>1, <1>5, <1>6 DEF Present
<1>9. IsFiniteSet(Present') /\ Cardinality(Present') <= MaxOverlayEntries
  <2>1. Cardinality(Present) \in Nat /\ Cardinality(Present') \in Nat
    BY <1>8, FS_CardinalityType, FS_Subset
  <2>. QED
    BY <1>8, <2>1, FS_Subset
<1>. QED
  BY <1>3, <1>4, <1>7, <1>9 DEF RevertOne

\* A batch keeps the invariant, keys that it repeats included.
LEMMA BatchInv ==
  ASSUME Inv, NEW n \in Nat, NEW ops \in [1..n -> BatchOperation], ApplyBatch(ops)
  PROVE  Inv'
<1> USE DEF Inv
<1>1. /\ overlay' \in [Key -> Entry]
      /\ undo_log' \in Seq(Change)
      /\ Len(undo_log') = Len(undo_log) + n
      /\ \A j \in 1..Len(undo_log) : undo_log'[j] = undo_log[j]
      /\ \A i \in 1..n : undo_log'[Len(undo_log) + i] =
           [key |-> ops[i].key, prev |-> AfterPrefix(ops, i, ops[i].key)]
  BY BatchLog
<1>2. PICK L \in Nat : L = Len(undo_log)
  BY DEF TypeOK
<1>3. TypeOK'
  BY <1>1 DEF TypeOK, ApplyBatch
<1>4. CheckpointsNested'
  <2>1. \A i \in 1..Len(open) : open[i].undo_log_index \in Nat /\ open[i].undo_log_index <= L
    BY <1>2, Elements DEF CheckpointsNested, Restorable
  <2>2. \A i \in 1..Len(open) : open[i].undo_log_index <= L + n
    BY <2>1
  <2>. QED
    BY <1>1, <1>2, <2>2 DEF CheckpointsNested, Restorable, ApplyBatch
<1>5. \A i \in 1..n : ops[i].key \in Key /\ ops[i] \in BatchOperation
  BY DEF BatchOperation
<1>6. \A c \in Key :
        /\ (\A i \in 1..n : ops[i].key # c) => overlay'[c] = overlay[c]
        /\ (\E i \in 1..n : ops[i].key = c) => overlay'[c] # NoEntry
  <2>1. TAKE c \in Key
  <2>2. overlay'[c] = AfterPrefix(ops, n + 1, c)
    BY DEF ApplyBatch
  <2>3. Before(ops, n + 1, c) = {i \in 1..n : ops[i].key = c}
    BY DEF Before
  <2>4. /\ Before(ops, n + 1, c) = {} => AfterPrefix(ops, n + 1, c) = overlay[c]
        /\ Before(ops, n + 1, c) # {} => AfterPrefix(ops, n + 1, c) \in Value \cup {Tombstone}
    <3>1. n + 1 \in 1..(n + 1)
      BY SMTT(30)
    <3>. QED
      BY <3>1, AfterPrefixEntry
  <2>. QED
    BY <2>2, <2>3, <2>4
<1>7. LogCoversOverlay'
  <2>1. \A i \in 1..n : /\ undo_log'[L + i].key = ops[i].key
                        /\ undo_log'[L + i].prev = AfterPrefix(ops, i, ops[i].key)
    <3>1. TAKE i \in 1..n
    <3>2. undo_log'[L + i] = [key |-> ops[i].key, prev |-> AfterPrefix(ops, i, ops[i].key)]
      BY ZenonT(30), <1>1, <1>2
    <3>. QED
      BY SMTT(30), <3>2
  <2>2. \A j \in 1..(L + n) : j \in 1..L \/ \E i \in 1..n : j = L + i
    <3>1. TAKE j \in 1..(L + n)
    <3>2. CASE j > L
      <4>1. j - L \in 1..n /\ j = L + (j - L)
        BY <1>2, <3>2
      <4>. QED
        BY <4>1
    <3>. QED
      BY <1>2, <3>2
  <2>3. \A j \in 1..L : undo_log'[j] = undo_log[j] /\ undo_log[j].key \in Key
    BY <1>1, <1>2, Elements
  <2>4. \A j \in 1..(L + n) : overlay'[undo_log'[j].key] # NoEntry
    <3>1. TAKE j \in 1..(L + n)
    <3>2. CASE j \in 1..L
      <4>1. overlay[undo_log[j].key] # NoEntry
        BY <1>2, <3>2 DEF LogCoversOverlay
      <4>. QED
        BY <1>6, <2>3, <3>2, <4>1
    <3>3. CASE \E i \in 1..n : j = L + i
      BY <1>5, <1>6, <2>1, <3>3
    <3>. QED
      BY <2>2, <3>2, <3>3
  <2>5. ASSUME NEW i \in 1..(L + n), NEW j \in 1..(L + n),
               i < j, undo_log'[i].key = undo_log'[j].key
        PROVE  undo_log'[j].prev # NoEntry
    <3>1. CASE j \in 1..L
      BY <1>2, <2>3, <2>5, <3>1 DEF LogCoversOverlay
    <3>2. ASSUME NEW q \in 1..n, j = L + q
          PROVE  undo_log'[j].prev # NoEntry
      <4>1. undo_log'[j].prev = AfterPrefix(ops, q, ops[q].key) /\ q \in 1..(n + 1)
            /\ undo_log'[j].key = ops[q].key /\ ops[q].key \in Key
        BY SMTT(30), <1>5, <2>1, <3>2
      <4>2. CASE i \in 1..L
        <5>1. overlay[ops[q].key] # NoEntry
          BY SMTT(30), <1>2, <2>3, <2>5, <4>1, <4>2 DEF LogCoversOverlay
        <5>. QED
          BY SMTT(30), <4>1, <5>1, AfterPrefixEntry
      <4>3. ASSUME NEW p \in 1..n, i = L + p
            PROVE  undo_log'[j].prev # NoEntry
        <5>1. p \in Before(ops, q, ops[q].key)
          BY <2>1, <2>5, <3>2, <4>1, <4>3 DEF Before
        <5>. QED
          BY SMTT(30), <4>1, <5>1, AfterPrefixEntry
      <4>. QED
        BY <2>2, <4>2, <4>3
    <3>. QED
      BY <2>2, <3>1, <3>2
  <2>. QED
    BY SMTT(30), <1>1, <1>2, <2>4, <2>5 DEF LogCoversOverlay
<1>8. IsFiniteSet(Present') /\ Cardinality(Present') <= MaxOverlayEntries
  <2> DEFINE N == NewKeys(ops)
             F == [i \in N |-> ops[i].key]
             K == {ops[i].key : i \in N}
  <2>1. N \in SUBSET (1..n)
    BY DEF NewKeys
  <2>2. IsFiniteSet(N) /\ Cardinality(N) \in Nat /\ IsFiniteSet(Present) /\ Cardinality(Present) \in Nat
    <3>1. IsFiniteSet(1..n)
      BY FS_Interval
    <3>. QED
      BY <2>1, <3>1, FS_Subset, FS_CardinalityType
  <2>3. F \in Surjection(N, K)
    BY DEF Surjection
  <2>4. IsFiniteSet(K) /\ Cardinality(K) <= Cardinality(N)
    BY SMTT(30), <2>2, <2>3, FS_Surjection
  <2>5. Present' = Present \cup K
    <3>1. ASSUME NEW c \in Key PROVE c \in Present' <=> c \in Present \cup K
      <4>1. CASE \A i \in 1..n : ops[i].key # c
        BY <1>6, <2>1, <4>1 DEF Present
      <4>2. CASE \E i \in 1..n : ops[i].key = c
        BY <1>6, <4>2 DEF Present, NewKeys
      <4>. QED
        BY <4>1, <4>2
    <3>2. K \subseteq Key
      BY <1>5, <2>1
    <3>. QED
      BY <3>1, <3>2 DEF Present
  <2>6. Cardinality(Present) + Cardinality(N) <= MaxOverlayEntries
    BY DEF ApplyBatch
  <2>7. /\ IsFiniteSet(Present \cup K)
        /\ Cardinality(Present \cup K) =
             Cardinality(Present) + Cardinality(K) - Cardinality(Present \cap K)
    BY <2>2, <2>4, FS_Union
  <2>8. Cardinality(K) \in Nat /\ Cardinality(Present \cap K) \in Nat
    BY SMTT(30), <2>2, <2>4, FS_CardinalityType, FS_Intersection
  <2> HIDE DEF N, K
  <2>. QED
    BY <2>2, <2>4, <2>5, <2>6, <2>7, <2>8
<1>. QED
  BY <1>3, <1>4, <1>7, <1>8 DEF ApplyBatch

\* Dropping the innermost checkpoint keeps the others where they are.
LEMMA CloseLog ==
  ASSUME TypeOK, open # << >>, CloseInnermost
  PROVE  /\ open' \in Seq(Checkpoint)
         /\ Len(open) \in Nat /\ Len(open) >= 1
         /\ Len(open') = Len(open) - 1
         /\ \A i \in 1..Len(open') : i \in 1..Len(open) /\ open'[i] = open[i]
<1>1. PICK n \in Nat : n = Len(open) /\ n >= 1
  BY DEF TypeOK
<1>2. open' = SubSeq(open, 1, n - 1)
  BY <1>1 DEF CloseInnermost
<1>3. \A i \in 1..(n - 1) : open[i] \in Checkpoint
  BY <1>1 DEF TypeOK
<1>4. n - 1 \in Int
  OBVIOUS
<1>5. /\ open' \in Seq(Checkpoint)
      /\ Len(open') = IF 1 <= n - 1 THEN (n - 1) - 1 + 1 ELSE 0
      /\ \A i \in 1..((n - 1) - 1 + 1) : open'[i] = open[1 + i - 1]
  BY <1>2, <1>3, <1>4, SubSeqProperties
<1>6. Len(open') = n - 1
  BY <1>1, <1>5
<1>7. \A i \in 1..(n - 1) : i \in 1..n /\ open'[i] = open[i]
  <2>1. TAKE i \in 1..(n - 1)
  <2>2. i \in 1..n /\ i \in 1..((n - 1) - 1 + 1) /\ 1 + i - 1 = i
    BY <1>1
  <2>. QED
    BY <1>5, <2>2
<1>. QED
  BY <1>1, <1>5, <1>6, <1>7

\* Every step keeps the invariant.
LEMMA StepInv == Inv /\ [Next]_vars => Inv'
<1> SUFFICES ASSUME Inv, [Next]_vars PROVE Inv'
  OBVIOUS
<1>0. TypeOK /\ CheckpointsNested /\ LogCoversOverlay
  BY DEF Inv
<1>1. CASE \E k \in Key, v \in Value : Set(k, v)
  BY <1>1, WriteInv DEF Set
<1>2. CASE \E k \in Key : Remove(k)
  BY <1>2, WriteInv DEF Remove
<1>3. CASE \E n \in 1..MaxBatch : \E ops \in [1..n -> BatchOperation] : ApplyBatch(ops)
  BY <1>3, BatchInv
<1>4. CASE \E e \in Event : EmitEvent(e)
  <2>1. PICK e \in Event : EmitEvent(e)
    BY <1>4
  <2>2. PICK n \in Nat : n = Len(events)
    BY <1>0 DEF TypeOK
  <2>3. events' \in Seq(Event) /\ Len(events') = n + 1
    BY SMTT(30), <1>0, <2>1, <2>2 DEF EmitEvent, TypeOK
  <2>4. \A i \in 1..Len(open) : open[i].events_index <= n + 1
    BY <1>0, <2>2, Elements DEF CheckpointsNested, Restorable
  <2>5. TypeOK' /\ CheckpointsNested'
    BY ZenonT(30), <1>0, <2>1, <2>3, <2>4 DEF TypeOK, EmitEvent, CheckpointsNested, Restorable
  <2>. QED
    BY <1>0, <2>1, <2>5 DEF Inv, EmitEvent, LogCoversOverlay, Present
<1>5. CASE NextUniqueObjectId
  <2>1. TypeOK' /\ CheckpointsNested'
    BY <1>0, <1>5 DEF TypeOK, NextUniqueObjectId, CheckpointsNested, Restorable
  <2>. QED
    BY <1>0, <1>5, <2>1 DEF Inv, NextUniqueObjectId, LogCoversOverlay, Present
<1>6. CASE PopEvents
  <2>1. TypeOK' /\ CheckpointsNested'
    BY <1>0, <1>6 DEF TypeOK, PopEvents, CheckpointsNested
  <2>. QED
    BY <1>0, <1>6, <2>1 DEF Inv, PopEvents, LogCoversOverlay, Present
<1>7. CASE OpenCall
  <2>1. PICK o \in Nat : o = Len(open)
    BY <1>0 DEF TypeOK
  <2>2. CheckpointNow \in Checkpoint
    BY <1>0 DEF CheckpointNow, Checkpoint, TypeOK
  <2>3. /\ open' \in Seq(Checkpoint) /\ Len(open') = o + 1
        /\ \A i \in 1..o : open'[i] = open[i]
        /\ open'[o + 1] = CheckpointNow
    BY SMTT(30), <1>0, <1>7, <2>1, <2>2, AppendProperties DEF OpenCall, TypeOK
  <2>4. TypeOK'
    BY <1>0, <1>7, <2>3 DEF TypeOK, OpenCall
  <2>5. \A i \in 1..(o + 1) :
          open'[i].undo_log_index <= Len(undo_log) /\ open'[i].events_index <= Len(events)
    BY SMTT(30), <1>0, <2>1, <2>3 DEF CheckpointsNested, Restorable, CheckpointNow, TypeOK
  <2>6. CheckpointNow.undo_log_index = Len(undo_log) /\ CheckpointNow.events_index = Len(events)
    BY DEF CheckpointNow
  <2>7. \A i, j \in 1..(o + 1) : i <= j =>
          /\ open'[i].undo_log_index <= open'[j].undo_log_index
          /\ open'[i].events_index <= open'[j].events_index
    <3>1. TAKE i, j \in 1..(o + 1)
    <3>2. CASE j = o + 1
      BY SMTT(30), <2>3, <2>5, <2>6, <3>2
    <3>3. CASE j \in 1..o
      BY SMTT(30), <1>0, <2>1, <2>3, <3>3 DEF CheckpointsNested
    <3>. QED
      BY <3>2, <3>3
  <2>8. CheckpointsNested'
    BY SMTT(30), <1>7, <2>3, <2>5, <2>7 DEF CheckpointsNested, Restorable, OpenCall
  <2>. QED
    BY <1>0, <1>7, <2>4, <2>8 DEF Inv, OpenCall, LogCoversOverlay, Present
<1>8. CASE SucceedCall
  <2>1. /\ open' \in Seq(Checkpoint)
        /\ \A i \in 1..Len(open') : i \in 1..Len(open) /\ open'[i] = open[i]
    BY <1>0, <1>8, CloseLog DEF SucceedCall
  <2>2. TypeOK' /\ CheckpointsNested'
    BY ZenonT(30), <1>0, <1>8, <2>1 DEF TypeOK, CheckpointsNested, Restorable, SucceedCall
  <2>. QED
    BY <1>0, <1>8, <2>2 DEF Inv, SucceedCall, LogCoversOverlay, Present
<1>9. CASE FailCall
  <2>1. Restorable(Innermost)
    BY <1>0, <1>9 DEF FailCall, CheckpointsNested, Innermost, TypeOK
  <2>2. TypeOK' /\ CheckpointsNested' /\ pc' = "restore" /\ open' # << >>
    BY <1>0, <1>9, <2>1 DEF TypeOK, CheckpointsNested, Restorable, FailCall
  <2>. QED
    BY <1>0, <1>9, <2>2 DEF Inv, FailCall, LogCoversOverlay, Present
<1>10. CASE RevertOne
  BY <1>10, RevertInv
<1>11. CASE FinishRestore
  <2>1. /\ open' \in Seq(Checkpoint)
        /\ \A i \in 1..Len(open') : i \in 1..Len(open) /\ open'[i] = open[i]
        /\ Len(open) \in Nat /\ Len(open) >= 1
    BY <1>0, <1>11, CloseLog DEF FinishRestore, Inv
  <2>2. /\ Innermost.events_index \in Nat /\ Innermost.events_index <= Len(events)
        /\ Innermost.unique_objects_created \in Nat
    BY <1>0, <2>1, Elements DEF Innermost, CheckpointsNested, Restorable
  <2>3. events' \in Seq(Event) /\ Len(events') = Innermost.events_index
    BY SMTT(30), <1>0, <1>11, <2>2 DEF FinishRestore, TypeOK
  <2>4. TypeOK'
    BY <1>0, <1>11, <2>1, <2>2, <2>3 DEF TypeOK, FinishRestore
  <2>5. \A i \in 1..Len(open) : open[i].events_index <= Innermost.events_index
    BY <1>0, <2>1 DEF CheckpointsNested, Innermost
  <2>6. CheckpointsNested'
    BY ZenonT(30), <1>0, <1>11, <2>1, <2>3, <2>5 DEF CheckpointsNested, Restorable, FinishRestore
  <2>. QED
    BY SMTT(30), <1>0, <1>11, <2>4, <2>6 DEF Inv, FinishRestore, LogCoversOverlay, Present
<1>12. CASE UNCHANGED vars
  BY <1>0, <1>12 DEF Inv, vars, TypeOK, CheckpointsNested, Restorable, LogCoversOverlay, Present
<1>. QED
  BY SMTT(30), <1>1, <1>2, <1>3, <1>4, <1>5, <1>6, <1>7, <1>8, <1>9, <1>10, <1>11, <1>12 DEF Next

\* The invariant holds in every reachable state.
THEOREM InvHolds == Spec => []Inv
<1>. QED
  BY InitInv, StepInv, PTL DEF Spec

\* Every index a checkpoint holds stays a natural number and every undo entry a
\* key with its former value, through writes, batches, failures and restores.
THEOREM StateStaysTyped == Spec => []TypeOK
<1>1. Inv => TypeOK
  BY Zenon DEF Inv
<1>. QED
  BY <1>1, InvHolds, PTL

\* do_exec's restore is always given a checkpoint within the logs: the panic
\* "Failed to restore checkpoint" is unreachable.
THEOREM NoPanic == Spec => []NeverPanics
<1>1. Inv => NeverPanics
  BY DEF Inv, NeverPanics
<1>. QED
  BY <1>1, InvHolds, PTL

\* No sequence of writes, batches, failures and restores takes the overlay
\* past MAX_OVERLAY_ENTRIES.
THEOREM OverlayStaysBounded == Spec => []OverlayBounded
<1>1. Inv => OverlayBounded
  BY DEF Inv, OverlayBounded
<1>. QED
  BY <1>1, InvHolds, PTL

-----------------------------------------------------------------------------
(* Refinement of NestedTx.                                                 *)

\* Taking back no change at all gives the overlay itself.
LEMMA UndoneAtEnd ==
  ASSUME TypeOK, NEW n, n = Len(undo_log)
  PROVE  Undone(overlay, undo_log, n) = overlay
<1>1. PICK L \in Nat : L = Len(undo_log)
  BY DEF TypeOK
<1>2. \A k \in Key : Touches(undo_log, n, k) = {}
  BY <1>1 DEF Touches
<1>3. Undone(overlay, undo_log, n) = [k \in Key |-> overlay[k]]
  BY <1>2 DEF Undone
<1>. QED
  BY <1>3 DEF TypeOK

\* A step that keeps the checkpoints and what they stand for keeps the copies.
LEMMA SavedStable ==
  ASSUME open' = open,
         \A i \in 1..Len(open) :
           Undone(overlay', undo_log', open[i].undo_log_index) =
             Undone(overlay, undo_log, open[i].undo_log_index),
         \A i \in 1..Len(open) :
           SubSeq(events', 1, open[i].events_index) = SubSeq(events, 1, open[i].events_index)
  PROVE  Saved' = Saved
<1>1. \A i \in 1..Len(open) : StateAt(open[i])' = StateAt(open[i])
  BY Zenon DEF StateAt
<1>. QED
  BY <1>1 DEF Saved

\* Closing the innermost call drops the newest copy, if the copies below it
\* are kept.
LEMMA SavedShrinks ==
  ASSUME TypeOK, open # << >>, CloseInnermost,
         \A i \in 1..(Len(open) - 1) : StateAt(open[i])' = StateAt(open[i])
  PROVE  /\ Saved # << >>
         /\ Saved' = SubSeq(Saved, 1, Len(Saved) - 1)
         /\ Saved[Len(Saved)] = StateAt(Innermost)
<1>1. PICK n \in Nat : n = Len(open) /\ n >= 1
  BY DEF TypeOK
<1>2. /\ Len(open') = n - 1
      /\ \A i \in 1..(n - 1) : open'[i] = open[i]
  BY <1>1, CloseLog
<1>3. Saved = [i \in 1..n |-> StateAt(open[i])]
  BY <1>1 DEF Saved
<1>4. Len(Saved) = n /\ Saved # << >> /\ Saved[n] = StateAt(Innermost)
  BY SMTT(30), <1>1, <1>3 DEF Innermost
<1>5. Saved' = [i \in 1..(n - 1) |-> StateAt(open[i])]
  <2>1. \A i \in 1..(n - 1) : StateAt(open[i])' = StateAt(open[i]) /\ open'[i] = open[i]
    BY <1>1, <1>2
  <2>2. \A i \in 1..(n - 1) : StateAt(open[i])' = StateAt(open[i])
    BY <2>1
  <2>. QED
    BY <1>2, <2>2 DEF Saved
<1>6. SubSeq(Saved, 1, n - 1) = [i \in 1..(n - 1) |-> StateAt(open[i])]
  BY <1>1, <1>3
<1>. QED
  BY <1>4, <1>5, <1>6

\* Sequences that agree up to a position have the same prefix there.
LEMMA SamePrefix ==
  ASSUME NEW S, NEW s \in Seq(S), NEW t \in Seq(S), NEW e \in Nat,
         e <= Len(s), e <= Len(t), \A i \in 1..e : s[i] = t[i]
  PROVE  SubSeq(s, 1, e) = SubSeq(t, 1, e)
OBVIOUS

\* Every step of the execution state is a step of NestedTx or a stutter.
LEMMA StepRefines ==
  Inv /\ [Next]_vars => [Nested!Next]_(Nested!ntVars)
<1> SUFFICES ASSUME Inv, [Next]_vars
             PROVE  Nested!Next \/ Nested!ntVars' = Nested!ntVars
  OBVIOUS
<1>0. TypeOK /\ CheckpointsNested /\ LogCoversOverlay
  BY DEF Inv
<1>a. \A i \in 1..Len(open) :
        /\ open[i].undo_log_index \in 0..Len(undo_log)
        /\ open[i].events_index \in Nat /\ open[i].events_index <= Len(events)
  BY <1>0, Elements DEF CheckpointsNested, Restorable, TypeOK
<1>w. Saved' = Saved => Nested!Next
  BY DEF Nested!Next, Nested!Work
<1>1. CASE \E k \in Key, v \in Value : Set(k, v)
  <2>1. PICK k \in Key, v \in Value : Write(k, v)
    BY <1>1 DEF Set
  <2>2. Saved' = Saved
    BY Zenon, <1>0, <1>a, <2>1, WriteUndone, SavedStable DEF Write
  <2>. QED
    BY <1>w, <2>2
<1>2. CASE \E k \in Key : Remove(k)
  <2>1. PICK k \in Key : Write(k, Tombstone)
    BY <1>2 DEF Remove
  <2>2. Saved' = Saved
    BY Zenon, <1>0, <1>a, <2>1, WriteUndone, SavedStable DEF Write
  <2>. QED
    BY <1>w, <2>2
<1>3. CASE \E n \in 1..MaxBatch : \E ops \in [1..n -> BatchOperation] : ApplyBatch(ops)
  <2>1. PICK n \in Nat : \E ops \in [1..n -> BatchOperation] : ApplyBatch(ops)
    BY <1>3
  <2>2. PICK ops \in [1..n -> BatchOperation] : ApplyBatch(ops)
    BY <2>1
  <2>3. Saved' = Saved
    BY Zenon, <1>0, <1>a, <2>2, BatchUndone, SavedStable DEF ApplyBatch
  <2>. QED
    BY <1>w, <2>3
<1>4. CASE \E e \in Event : EmitEvent(e)
  <2>1. PICK e \in Event : EmitEvent(e)
    BY <1>4
  <2>2. events \in Seq(Event) /\ events' = Append(events, e)
    BY <1>0, <2>1 DEF TypeOK, EmitEvent
  <2>3. PICK n \in Nat : n = Len(events)
    BY <2>2
  <2>4. events' \in Seq(Event) /\ Len(events') = n + 1 /\ \A i \in 1..n : events'[i] = events[i]
    BY <2>2, <2>3, AppendProperties
  <2>5. ASSUME NEW i \in 1..Len(open)
        PROVE  SubSeq(events', 1, open[i].events_index) = SubSeq(events, 1, open[i].events_index)
    <3>1. PICK x \in Nat : x = open[i].events_index /\ x <= n
      BY <1>a, <2>3
    <3>2. \A j \in 1..x : events'[j] = events[j]
      BY <2>4, <3>1
    <3>3. x <= Len(events') /\ x <= Len(events)
      BY <2>3, <2>4, <3>1
    <3>. QED
      BY <2>2, <2>4, <3>1, <3>2, <3>3, SamePrefix
  <2>6. Saved' = Saved
    BY Zenon, <2>1, <2>5, SavedStable DEF EmitEvent
  <2>. QED
    BY <1>w, <2>6
<1>5. CASE NextUniqueObjectId
  BY Zenon, <1>5, <1>w, SavedStable DEF NextUniqueObjectId
<1>6. CASE PopEvents
  <2>1. Saved' = Saved
    BY <1>6, SavedStable DEF PopEvents
  <2>. QED
    BY <1>w, <2>1
<1>7. CASE OpenCall
  <2>1. PICK n \in Nat : n = Len(open)
    BY <1>0 DEF TypeOK
  <2>2. CheckpointNow \in Checkpoint /\ open \in Seq(Checkpoint)
    BY <1>0 DEF CheckpointNow, Checkpoint, TypeOK
  <2>3. /\ Len(open') = n + 1
        /\ \A i \in 1..n : open'[i] = open[i]
        /\ open'[n + 1] = CheckpointNow
    BY SMTT(30), <1>7, <2>1, <2>2, AppendProperties DEF OpenCall
  <2>4. StateAt(CheckpointNow) = Current
    <3>1. Undone(overlay, undo_log, Len(undo_log)) = overlay
      BY <1>0, UndoneAtEnd
    <3>2. SubSeq(events, 1, Len(events)) = events
      BY <1>0, SubSeqFull DEF TypeOK
    <3>. QED
      BY <3>1, <3>2 DEF StateAt, CheckpointNow, Current
  <2>5. Saved' = [i \in 1..(n + 1) |-> StateAt(open'[i])]
    BY <1>7, <2>3 DEF Saved, StateAt, OpenCall
  <2>6. Saved = [i \in 1..n |-> StateAt(open[i])]
    BY <2>1 DEF Saved
  <2>7. Append(Saved, Current) = [i \in 1..(n + 1) |-> StateAt(open'[i])]
    BY <2>3, <2>4, <2>6
  <2>8. Current' = Current
    BY <1>7 DEF OpenCall, Current
  <2>9. resp' = resp
    BY <1>7 DEF OpenCall
  <2>. QED
    BY <2>5, <2>7, <2>8, <2>9 DEF Nested!Next, Nested!Begin
<1>8. CASE SucceedCall
  <2>1. Current' = Current
    BY <1>8 DEF SucceedCall, Current
  <2>2. \A i \in 1..(Len(open) - 1) : StateAt(open[i])' = StateAt(open[i])
    <3>1. TAKE i \in 1..(Len(open) - 1)
    <3>2. open'[i] = open[i]
      BY <1>0, <1>8, CloseLog DEF SucceedCall
    <3>. QED
      BY <1>8, <3>2 DEF SucceedCall, StateAt
  <2>3. Saved # << >> /\ Saved' = SubSeq(Saved, 1, Len(Saved) - 1)
    BY <1>0, <1>8, <2>2, SavedShrinks DEF SucceedCall
  <2>4. resp' = "ok"
    BY <1>8 DEF SucceedCall
  <2>. QED
    BY <2>1, <2>3, <2>4 DEF Nested!Next, Nested!Commit, Nested!Outer
<1>9. CASE FailCall
  <2>1. Saved' = Saved
    BY ZenonT(30), <1>9, SavedStable DEF FailCall
  <2>. QED
    BY <1>w, <2>1
<1>10. CASE RevertOne
  <2>0. open # << >>
    BY <1>10 DEF RevertOne, Inv
  <2>1. PICK n \in Nat : n = Len(open) /\ n >= 1
    BY <1>0, <2>0 DEF TypeOK
  <2>2. PICK L \in Nat : L = Len(undo_log) /\ L - 1 = Len(undo_log')
    BY ZenonT(30), <1>0, <1>10, <2>0, RevertLog
  <2>3. \A i \in 1..n : open[i].undo_log_index \in Nat /\ open[i].undo_log_index <= L - 1
    <3>1. open[n].undo_log_index < L
      BY <1>10, <2>1, <2>2 DEF RevertOne, Innermost
    <3>2. \A i \in 1..n : /\ open[i].undo_log_index \in Nat
                          /\ open[i].undo_log_index <= open[n].undo_log_index
      BY <1>0, <1>a, <2>1 DEF CheckpointsNested
    <3>. QED
      BY <2>1, <3>1, <3>2
  <2>4. \A i \in 1..Len(open) :
          Undone(overlay', undo_log', open[i].undo_log_index) =
            Undone(overlay, undo_log, open[i].undo_log_index)
    <3>1. \A i \in 1..n : open[i].undo_log_index \in 0..Len(undo_log')
      BY <2>2, <2>3
    <3>. QED
      BY <1>0, <1>10, <2>0, <2>1, <3>1, RevertUndone
  <2>5. Saved' = Saved
    BY Zenon, <1>10, <2>4, SavedStable DEF RevertOne
  <2>. QED
    BY <1>w, <2>5
<1>11. CASE FinishRestore
  <2>0. open # << >> /\ CloseInnermost
    BY <1>11 DEF FinishRestore, Inv
  <2>1. PICK n \in Nat : n = Len(open) /\ n >= 1
    BY <1>0, <2>0 DEF TypeOK
  <2>2. Innermost.undo_log_index = Len(undo_log)
    BY <1>a, <1>11, <2>1 DEF FinishRestore, Innermost
  <2>3. Current' = StateAt(Innermost)
    BY Zenon, <1>0, <1>11, <2>2, UndoneAtEnd DEF FinishRestore, Current, StateAt
  <2>4. PICK x \in Nat : x = Innermost.events_index /\ x <= Len(events)
    BY <1>a, <2>1 DEF Innermost
  <2>5. events' = SubSeq(events, 1, x)
    BY <1>11, <2>4 DEF FinishRestore
  <2>6. events \in Seq(Event)
    BY <1>0 DEF TypeOK
  <2>7. events' \in Seq(Event) /\ Len(events') = x /\ \A j \in 1..x : events'[j] = events[j]
    BY <2>4, <2>5, <2>6
  <2>8. ASSUME NEW i \in 1..(n - 1)
        PROVE  StateAt(open[i])' = StateAt(open[i])
    <3>1. open'[i] = open[i]
      BY <1>0, <2>0, <2>1, CloseLog
    <3>2. i \in 1..n /\ n \in 1..n /\ i <= n
      BY <2>1
    <3>3. PICK y \in Nat : y = open[i].events_index /\ y <= x
      BY <1>0, <1>a, <2>1, <2>4, <3>2 DEF CheckpointsNested, Innermost
    <3>4. SubSeq(events', 1, y) = SubSeq(events, 1, y)
      <4>1. \A j \in 1..y : events'[j] = events[j]
        BY <2>7, <3>3
      <4>2. y <= Len(events') /\ y <= Len(events)
        BY <2>4, <2>6, <2>7, <3>3
      <4>. QED
        BY <2>6, <2>7, <3>3, <4>1, <4>2, SamePrefix
    <3>. QED
      BY ZenonT(30), <1>11, <3>1, <3>3, <3>4 DEF StateAt, FinishRestore
  <2>9. /\ Saved # << >>
        /\ Saved' = SubSeq(Saved, 1, Len(Saved) - 1)
        /\ Saved[Len(Saved)] = StateAt(Innermost)
    BY SMTT(30), <1>0, <2>0, <2>1, <2>8, SavedShrinks
  <2>10. resp' = "err"
    BY <1>11 DEF FinishRestore, Inv
  <2>. QED
    BY <2>3, <2>9, <2>10 DEF Nested!Next, Nested!Abort, Nested!Outer
<1>12. CASE UNCHANGED vars
  BY <1>12 DEF vars, Nested!ntVars, Current, Saved, StateAt
<1>. QED
  BY SMTT(30), <1>1, <1>2, <1>3, <1>4, <1>5, <1>6, <1>7, <1>8, <1>9, <1>10, <1>11, <1>12 DEF Next

\* The execution state implements NestedTx: a do_exec that answers an error puts
\* back exactly the state its caller had, one that answers Ok keeps its work,
\* for any nesting of calls, failures and batches.
THEOREM RestoreIsExact == Spec => RestoresExactly
<1>1. Init => Nested!Init
  BY DEF Init, Nested!Init, Saved
<1>. QED
  BY <1>1, InvHolds, StepRefines, PTL DEF Spec, RestoresExactly, Nested!Spec
=============================================================================
