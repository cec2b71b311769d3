--------------------------- MODULE CollectionProofs ---------------------------
(***************************************************************************)
(* The proofs about the collections, for every set of keys and values and  *)
(* any number of calls: UnorderedMap is a map, Queue is a sequence.        *)
(***************************************************************************)
EXTENDS UnorderedMap, Queue, SequenceTheorems, TLAPS

-----------------------------------------------------------------------------
(* The proofs that UnorderedMap is a map, for every set of keys and values *)
(* and any number of calls.  KeysMatch is inductive as it stands; the      *)
(* refinement rests on its second conjunct.                                *)

(* A new key takes the position after the last one.                        *)
LEMMA InsertNewKeeps ==
    ASSUME KeysMatch, NEW k \in Key, NEW v \in Value, k \notin DOMAIN index_map, InsertNew(k, v)
    PROVE  KeysMatch'
<1> PICK n \in Nat : n = Length
    BY DEF KeysMatch, Length
<1>1. index' = n + 1 /\ Length' = n + 1
    BY DEF InsertNew, PushElem, Length, Absent
<1>2. elems' = Put(elems, n, k) /\ index_map' = Put(index_map, k, n) /\ values_map' = Put(values_map, k, v)
    BY DEF InsertNew, PushElem
<1>3. values_map' \in [DOMAIN index_map' -> Value]
    BY <1>2 DEF KeysMatch, Put
<1>4. ASSUME NEW i \in 0..n
      PROVE  i \in DOMAIN elems' /\ elems'[i] \in DOMAIN index_map' /\ index_map'[elems'[i]] = i
    <2>1. CASE i = n
        BY <1>2, <2>1 DEF Put
    <2>2. CASE i # n
        <3>1. i \in 0..n - 1
            BY <2>2
        <3>2. i \in DOMAIN elems /\ elems[i] \in DOMAIN index_map /\ index_map[elems[i]] = i
            BY <3>1 DEF KeysMatch
        <3>3. elems[i] # k
            BY <3>2
        <3> QED
            BY <1>2, <2>2, <3>2, <3>3 DEF Put
    <2> QED
        BY <2>1, <2>2
<1>5. ASSUME NEW j \in DOMAIN index_map'
      PROVE  j \in Key /\ index_map'[j] \in 0..n /\ elems'[index_map'[j]] = j
    <2>1. CASE j = k
        <3>1. index_map'[j] = n
            BY <1>2, <2>1 DEF Put
        <3>2. elems'[n] = k
            BY <1>2 DEF Put
        <3> QED
            BY <2>1, <3>1, <3>2
    <2>2. CASE j # k
        <3>1. j \in DOMAIN index_map /\ index_map'[j] = index_map[j]
            BY <1>2, <2>2 DEF Put
        <3>2. j \in Key /\ index_map[j] \in 0..n - 1 /\ elems[index_map[j]] = j
            BY <3>1 DEF KeysMatch
        <3>3. index_map[j] \in DOMAIN elems /\ index_map[j] # n
            BY <3>2 DEF KeysMatch
        <3>4. elems'[index_map[j]] = j
            BY <1>2, <3>2, <3>3 DEF Put
        <3> QED
            BY <3>1, <3>2, <3>4
    <2> QED
        BY <2>1, <2>2
<1> QED
    BY <1>1, <1>3, <1>4, <1>5 DEF KeysMatch, Absent

(* A value that is replaced moves no key.                                  *)
LEMMA InsertAgainKeeps ==
    ASSUME KeysMatch, NEW k \in Key, NEW v \in Value, k \in DOMAIN index_map, InsertAgain(k, v)
    PROVE  KeysMatch'
<1>1. values_map' \in [DOMAIN index_map -> Value]
    BY DEF InsertAgain, KeysMatch, Put
<1> QED
    BY <1>1 DEF InsertAgain, KeysMatch, Length

(* Removing a key: the last key takes its position, every other key stays. *)
LEMMA RemovePresentKeeps ==
    ASSUME KeysMatch, NEW k \in DOMAIN index_map, RemovePresent(k)
    PROVE  KeysMatch'
<1> PICK n \in Nat : n = Length
    BY DEF KeysMatch, Length
<1>1. n # 0 /\ index = n
    BY DEF KeysMatch, Length
<1>2. index' = IF n = 1 THEN Absent ELSE n - 1
    BY <1>1 DEF RemovePresent, PoppedIndex
<1>3. Length' = n - 1
    BY <1>1, <1>2 DEF Length, Absent
<1>4. PICK p \in 0..n - 1 : p = index_map[k] /\ elems[p] = k
    BY DEF KeysMatch
<1>5. PICK l : l = elems[n - 1] /\ l \in DOMAIN index_map /\ index_map[l] = n - 1
    BY <1>1 DEF KeysMatch
<1>6. values_map' = Del(values_map, k)
    BY DEF RemovePresent
<1>7. CASE p < n - 1
    <2>1. elems' = Put(elems, p, l) /\ index_map' = Put(Del(index_map, k), l, p)
        BY <1>4, <1>5, <1>7 DEF RemovePresent
    <2>2. l # k
        BY <1>4, <1>5, <1>7
    <2>3. values_map' \in [DOMAIN index_map' -> Value]
        BY <1>5, <1>6, <2>1, <2>2 DEF KeysMatch, Put, Del
    <2>4. ASSUME NEW i \in 0..n - 2
          PROVE  i \in DOMAIN elems' /\ elems'[i] \in DOMAIN index_map' /\ index_map'[elems'[i]] = i
        <3>1. CASE i = p
            BY <2>1, <3>1 DEF Put
        <3>2. CASE i # p
            <4>1. i \in 0..n - 1 /\ i # n - 1
                OBVIOUS
            <4>2. i \in DOMAIN elems /\ elems[i] \in DOMAIN index_map /\ index_map[elems[i]] = i
                BY <4>1 DEF KeysMatch
            <4>3. elems[i] # k /\ elems[i] # l
                BY <4>1, <4>2, <3>2, <1>4, <1>5
            <4> QED
                BY <2>1, <3>2, <4>2, <4>3 DEF Put, Del
        <3> QED
            BY <3>1, <3>2
    <2>5. ASSUME NEW j \in DOMAIN index_map'
          PROVE  j \in Key /\ index_map'[j] \in 0..n - 2 /\ elems'[index_map'[j]] = j
        <3>1. j # k /\ j \in DOMAIN index_map
            BY <1>5, <2>1, <2>2 DEF Put, Del
        <3>2. j \in Key /\ index_map[j] \in 0..n - 1 /\ elems[index_map[j]] = j /\ index_map[j] \in DOMAIN elems
            BY <3>1 DEF KeysMatch
        <3>3. CASE j = l
            <4>1. index_map'[j] = p /\ elems'[p] = l
                BY <2>1, <3>3 DEF Put
            <4> QED
                BY <1>7, <3>2, <3>3, <4>1
        <3>4. CASE j # l
            <4>1. index_map'[j] = index_map[j]
                BY <2>1, <3>1, <3>4 DEF Put, Del
            <4>2. index_map[j] # n - 1 /\ index_map[j] # p
                BY <1>4, <1>5, <3>1, <3>2, <3>4
            <4>3. elems'[index_map[j]] = j
                BY <2>1, <3>2, <4>2 DEF Put
            <4>4. index_map[j] \in 0..n - 2
                BY <3>2, <4>2
            <4> QED
                BY <3>2, <4>1, <4>3, <4>4
        <3> QED
            BY <3>3, <3>4
    <2> QED
        BY <1>1, <1>2, <1>3, <2>3, <2>4, <2>5 DEF KeysMatch, Absent
<1>8. CASE ~(p < n - 1)
    <2>1. p = n - 1
        BY <1>8
    <2>2. elems' = elems /\ index_map' = Del(index_map, k)
        BY <1>4, <1>8 DEF RemovePresent
    <2>3. values_map' \in [DOMAIN index_map' -> Value]
        BY <1>6, <2>2 DEF KeysMatch, Del
    <2>4. ASSUME NEW i \in 0..n - 2
          PROVE  i \in DOMAIN elems' /\ elems'[i] \in DOMAIN index_map' /\ index_map'[elems'[i]] = i
        <3>1. i \in 0..n - 1 /\ i # p
            BY <2>1
        <3>2. i \in DOMAIN elems /\ elems[i] \in DOMAIN index_map /\ index_map[elems[i]] = i
            BY <3>1 DEF KeysMatch
        <3>3. elems[i] # k
            BY <1>4, <3>1, <3>2
        <3> QED
            BY <2>2, <3>2, <3>3 DEF Del
    <2>5. ASSUME NEW j \in DOMAIN index_map'
          PROVE  j \in Key /\ index_map'[j] \in 0..n - 2 /\ elems'[index_map'[j]] = j
        <3>1. j # k /\ j \in DOMAIN index_map /\ index_map'[j] = index_map[j]
            BY <2>2 DEF Del
        <3>2. j \in Key /\ index_map[j] \in 0..n - 1 /\ elems[index_map[j]] = j
            BY <3>1 DEF KeysMatch
        <3>3. index_map[j] # n - 1
            BY <1>4, <2>1, <3>1, <3>2
        <3>4. index_map[j] \in 0..n - 2
            BY <3>2, <3>3
        <3> QED
            BY <2>2, <3>1, <3>2, <3>4
    <2> QED
        BY <1>1, <1>2, <1>3, <2>3, <2>4, <2>5 DEF KeysMatch, Absent
<1> QED
    BY <1>7, <1>8

(* An empty map has no keys on either side.                                *)
LEMMA InitMatches == Init => KeysMatch
BY DEF Init, VectorInit, KeysMatch, Length, Absent, Empty

(* Every call of UnorderedMap keeps the vector of keys and index_map inverse. *)
LEMMA StepKeeps == KeysMatch /\ [Next]_vars => KeysMatch'
<1> SUFFICES ASSUME KeysMatch, [Next]_vars PROVE KeysMatch'
    OBVIOUS
<1>1. ASSUME NEW k \in Key, NEW v \in Value, InsertEntry(k, v) PROVE KeysMatch'
    BY <1>1, InsertNewKeeps, InsertAgainKeeps DEF InsertEntry
<1>2. ASSUME NEW k \in Key, Remove(k) PROVE KeysMatch'
    <2>1. CASE k \in DOMAIN index_map
        BY <1>2, <2>1, RemovePresentKeeps DEF Remove
    <2>2. CASE k \notin DOMAIN index_map
        <3>1. UNCHANGED <<index, elems, index_map, values_map>>
            BY <1>2, <2>2 DEF Remove
        <3> QED
            BY <3>1 DEF KeysMatch, Length
    <2> QED
        BY <2>1, <2>2
<1>3. CASE UNCHANGED vars
    BY <1>3 DEF vars, KeysMatch, Length
<1> QED
    BY <1>1, <1>2, <1>3 DEF Next, Insert, Update

(* The vector of keys and the position of every key agree after any calls: *)
(* the iterator yields every entry exactly once.                           *)
THEOREM KeysAlwaysMatch == Spec => []KeysMatch
BY InitMatches, StepKeeps, PTL DEF Spec

(* Every call does to values_map, and returns, what a map would.           *)
LEMMA StepIsMapStep == KeysMatch /\ [Next]_vars => [M!Next]_(M!vars)
<1> SUFFICES ASSUME KeysMatch, [Next]_vars PROVE [M!Next]_(M!vars)
    OBVIOUS
<1>0. DOMAIN index_map = DOMAIN values_map
    BY DEF KeysMatch
<1>1. ASSUME NEW k \in Key, NEW v \in Value, InsertEntry(k, v) PROVE values_map' = M!Put(values_map, k, v)
    BY <1>0, <1>1 DEF InsertEntry, InsertNew, InsertAgain, Put, M!Put
<1>2. ASSUME NEW k \in Key, NEW v \in Value, Insert(k, v) PROVE M!Insert(k, v)
    BY <1>0, <1>1, <1>2 DEF Insert, OldValue, M!Insert, M!Old
<1>3. ASSUME NEW k \in Key, NEW v \in Value, Update(k, v) PROVE M!Insert(k, v) \/ M!Update(k, v)
    BY <1>0, <1>1, <1>3 DEF Update, OldValue, M!Insert, M!Update, M!Old
<1>4. ASSUME NEW k \in Key, Remove(k) PROVE M!Remove(k)
    <2>1. CASE k \in DOMAIN index_map
        BY <1>0, <1>4, <2>1 DEF Remove, RemovePresent, OldValue, Del, M!Del, M!Remove, M!Old
    <2>2. CASE k \notin DOMAIN index_map
        <3>1. values_map' = values_map /\ ret' = "none"
            BY <1>4, <2>2 DEF Remove
        <3>2. values_map = M!Del(values_map, k)
            BY ZenonT(30), <1>0, <2>2 DEF KeysMatch, M!Del
        <3> QED
            BY <1>0, <2>2, <3>1, <3>2 DEF M!Remove, M!Old
    <2> QED
        BY <2>1, <2>2
<1>5. CASE UNCHANGED vars
    BY <1>5 DEF vars, M!vars
<1> QED
    BY <1>2, <1>3, <1>4, <1>5 DEF Next, M!Next

(* UnorderedMap implements MapSpec: whatever the calls, each one returns   *)
(* what the key really had, and none of the lookups fails.                 *)
THEOREM IsAMap == Spec => RefinesMap
<1>1. Init => M!Init
    BY DEF Init, M!Init, Empty, M!Empty
<1> QED
    BY <1>1, KeysAlwaysMatch, StepIsMapStep, PTL DEF Spec, RefinesMap, M!Spec

-----------------------------------------------------------------------------
(* A queue is a sequence for every set of values and any number of calls.  *)
(* ItemsBetween is inductive as it stands; under it no pop can miss an     *)
(* item, and each call is a step of SeqSpec.                               *)

(* Each call keeps the items between the counters.                         *)
LEMMA CallKeeps == ItemsBetween /\ [QueueNext]_queue => ItemsBetween'
<1> SUFFICES ASSUME ItemsBetween, [QueueNext]_queue PROVE ItemsBetween'
    OBVIOUS
<1> USE DEF ItemsBetween
<1>1. ASSUME NEW x \in Item, PushBack(x) PROVE ItemsBetween'
    BY <1>1 DEF PushBack, Put
<1>2. CASE PopFront
    <2>1. CASE front = back
        BY <1>2, <2>1 DEF PopFront, Takes
    <2>2. CASE front # back
        <3>1. Takes(front)
            BY <2>2 DEF Takes
        <3>2. items' = [i \in front + 1..back - 1 |-> items[i]] /\ front' = front + 1 /\ back' = back
            <4>1. items' = Del(items, front) /\ front' = front + 1 /\ back' = back
                BY <1>2, <3>1 DEF PopFront
            <4>2. DOMAIN items \ {front} = front + 1..back - 1
                OBVIOUS
            <4> QED
                BY <4>1, <4>2 DEF Del
        <3> QED
            BY <2>2, <3>2
    <2> QED
        BY <2>1, <2>2
<1>3. CASE PopBack
    <2>1. CASE front = back
        BY <1>3, <2>1 DEF PopBack, Takes
    <2>2. CASE front # back
        <3>1. Takes(back - 1)
            BY <2>2 DEF Takes
        <3>2. items' = [i \in front..back - 2 |-> items[i]] /\ front' = front /\ back' = back - 1
            <4>1. items' = Del(items, back - 1) /\ front' = front /\ back' = back - 1
                BY <1>3, <3>1 DEF PopBack
            <4>2. DOMAIN items \ {back - 1} = front..back - 2
                OBVIOUS
            <4> QED
                BY <4>1, <4>2 DEF Del
        <3> QED
            BY <2>2, <3>2
    <2> QED
        BY <2>1, <2>2
<1>4. CASE UNCHANGED queue
    BY <1>4 DEF queue
<1> QED
    BY <1>1, <1>2, <1>3, <1>4 DEF QueueNext

(* The items in storage are those between the counters after any calls.    *)
THEOREM ItemsStayBetween == QueueSpec => []ItemsBetween
<1>1. QueueInit => ItemsBetween
    BY DEF QueueInit, ItemsBetween, Empty
<1> QED
    BY <1>1, CallKeeps, PTL DEF QueueSpec

(* The contents are a sequence as long as the counters are apart.          *)
QueuedFit ==
    /\ Queued \in Seq(Item) /\ Len(Queued) = back - front
    /\ \A i \in 1..back - front : Queued[i] = items[front + i - 1]

(* What lies between the counters of a Queue is a sequence of values.      *)
LEMMA QueuedAreSeq == ItemsBetween => QueuedFit
<1> SUFFICES ASSUME ItemsBetween PROVE QueuedFit
    OBVIOUS
<1>1. Queued \in [1..back - front -> Item]
    BY DEF Queued, ItemsBetween
<1> QED
    BY <1>1 DEF Queued, QueuedFit, ItemsBetween

(* Two sequences of one length with the same elements are equal.           *)
LEMMA SameSeq ==
    ASSUME NEW T, NEW s \in Seq(T), NEW t \in Seq(T), NEW n \in Nat, Len(s) = n, Len(t) = n,
           \A i \in 1..n : s[i] = t[i]
    PROVE  s = t
BY SeqEqual

(* Every call of Queue is a call of the sequence it stands for.            *)
LEMMA StepIsSeqStep == ItemsBetween /\ [QueueNext]_queue => [Sequence!Next]_(Sequence!vars)
<1> SUFFICES ASSUME ItemsBetween, [QueueNext]_queue PROVE [Sequence!Next]_(Sequence!vars)
    OBVIOUS
<1>0. ItemsBetween'
    BY CallKeeps
<1> PICK n \in Nat : n = back - front
    BY DEF ItemsBetween
<1>s. Queued \in Seq(Item) /\ Len(Queued) = n /\ \A i \in 1..n : Queued[i] = items[front + i - 1]
    BY QueuedAreSeq DEF QueuedFit
<1>c. QueuedFit'
    BY <1>0, QueuedAreSeq, PTL
<1>t. Queued' \in Seq(Item) /\ Len(Queued') = back' - front'
      /\ \A i \in 1..back' - front' : Queued'[i] = items'[front' + i - 1]
    BY <1>c DEF QueuedFit
<1>n. front \in Nat /\ back \in Nat /\ front <= back /\ DOMAIN items = front..back - 1
    BY DEF ItemsBetween
<1>e. front = back => Queued = <<>>
    BY <1>s, <1>n
<1>f. front # back => Queued # <<>> /\ n # 0
    BY <1>s, <1>n
<1>1. ASSUME NEW x \in Item, PushBack(x) PROVE Sequence!PushBack(<<x>>)
    <2>1. back' - front' = n + 1 /\ front' = front
        BY <1>1, <1>n DEF PushBack
    <2>2. Queued \o <<x>> \in Seq(Item) /\ Len(Queued \o <<x>>) = n + 1
        BY <1>s
    <2>3. ASSUME NEW i \in 1..n + 1 PROVE Queued'[i] = (Queued \o <<x>>)[i]
        <3>1. Queued'[i] = items'[front + i - 1]
            BY <1>t, <2>1
        <3>2. CASE i = n + 1
            <4>1. items'[back] = x
                BY <1>1 DEF PushBack, Put
            <4>2. front + i - 1 = back
                BY <3>2, <1>n
            <4>3. (Queued \o <<x>>)[i] = x
                BY <1>s, <3>2
            <4> QED
                BY ZenonT(30), <3>1, <4>1, <4>2, <4>3
        <3>3. CASE i \in 1..n
            <4>1. front + i - 1 \in front..back - 1 /\ front + i - 1 # back
                BY <3>3, <1>n
            <4>2. items'[front + i - 1] = items[front + i - 1]
                BY <1>1, <1>n, <4>1 DEF PushBack, Put
            <4>3. (Queued \o <<x>>)[i] = Queued[i]
                BY <1>s, <3>3
            <4> QED
                BY <1>s, <3>1, <3>3, <4>2, <4>3
        <3>4. i = n + 1 \/ i \in 1..n
            OBVIOUS
        <3> QED
            BY ZenonT(30), <3>2, <3>3, <3>4
    <2>4. Len(Queued') = n + 1
        BY <1>t, <2>1
    <2>5. Queued' = Queued \o <<x>>
        BY <1>t, <2>2, <2>3, <2>4, SameSeq
    <2> QED
        BY <1>1, <2>5 DEF PushBack, Sequence!PushBack
<1>2. CASE PopFront /\ front # back
    <2>1. front \in DOMAIN items
        BY <1>n, <1>2
    <2>2. answer' = items[front] /\ items' = Del(items, front) /\ front' = front + 1 /\ back' = back
        BY <1>2, <2>1 DEF PopFront, Takes, Taken
    <2>3. answer' = Head(Queued)
        <3>1. Head(Queued) = Queued[1] /\ 1 \in 1..n
            BY <1>2, <1>f, <1>s
        <3>2. Queued[1] = items[front + 1 - 1] /\ front + 1 - 1 = front
            BY <3>1, <1>s, <1>n
        <3> QED
            BY <2>2, <3>1, <3>2
    <2>4. Tail(Queued) \in Seq(Item) /\ Len(Tail(Queued)) = n - 1 /\ n - 1 \in Nat
        BY <1>2, <1>f, <1>s
    <2>5. Len(Queued') = n - 1 /\ back' - front' = n - 1
        BY <1>t, <2>2, <1>n
    <2>6. ASSUME NEW i \in 1..n - 1 PROVE Queued'[i] = Tail(Queued)[i]
        <3>1. Queued'[i] = items'[front + 1 + i - 1]
            BY <1>t, <2>2, <2>5
        <3>2. Tail(Queued)[i] = Queued[i + 1]
            BY <1>2, <1>f, <1>s
        <3>3. i + 1 \in 1..n /\ front + (i + 1) - 1 = front + 1 + i - 1
            BY <1>n
        <3>4. Queued[i + 1] = items[front + 1 + i - 1]
            BY <1>s, <3>3
        <3>5. front + 1 + i - 1 \in front..back - 1 /\ front + 1 + i - 1 # front
            BY <1>n
        <3>6. items'[front + 1 + i - 1] = items[front + 1 + i - 1]
            BY <2>2, <1>n, <3>5 DEF Del
        <3> QED
            BY ZenonT(30), <3>1, <3>2, <3>4, <3>6
    <2>7. Queued' = Tail(Queued)
        BY <1>t, <2>4, <2>5, <2>6, SameSeq
    <2> QED
        BY <1>2, <1>f, <2>3, <2>7 DEF Sequence!PopFront, Sequence!Next
<1>3. CASE PopBack /\ front # back
    <2>1. back - 1 \in DOMAIN items
        BY <1>n, <1>3
    <2>2. answer' = items[back - 1] /\ items' = Del(items, back - 1) /\ front' = front /\ back' = back - 1
        BY <1>3, <2>1 DEF PopBack, Takes, Taken
    <2>3. answer' = Queued[Len(Queued)]
        <3>1. n \in 1..n /\ front + n - 1 = back - 1
            BY <1>3, <1>f, <1>n
        <3> QED
            BY <1>s, <2>2, <3>1
    <2>4. SubSeq(Queued, 1, n - 1) \in Seq(Item) /\ Len(SubSeq(Queued, 1, n - 1)) = n - 1 /\ n - 1 \in Nat
          /\ \A i \in 1..n - 1 : SubSeq(Queued, 1, n - 1)[i] = Queued[i]
        <3>1. n - 1 \in Nat /\ 1 \in 1..n + 1 /\ n - 1 \in 1 - 1..n
            BY <1>3, <1>f
        <3> QED
            BY <1>s, <3>1, SubSeqProperties
    <2>5. Len(Queued') = n - 1 /\ back' - front' = n - 1
        BY <1>t, <2>2, <1>n
    <2>6. ASSUME NEW i \in 1..n - 1 PROVE Queued'[i] = SubSeq(Queued, 1, n - 1)[i]
        <3>1. Queued'[i] = items'[front + i - 1]
            BY <1>t, <2>2, <2>5
        <3>2. i \in 1..n /\ front + i - 1 \in front..back - 1 /\ front + i - 1 # back - 1
            BY <1>n
        <3>3. items'[front + i - 1] = items[front + i - 1]
            BY <2>2, <1>n, <3>2 DEF Del
        <3>4. Queued[i] = items[front + i - 1]
            BY <1>s, <3>2
        <3> QED
            BY <2>4, <3>1, <3>3, <3>4
    <2>7. Queued' = SubSeq(Queued, 1, n - 1)
        BY <1>t, <2>4, <2>5, <2>6, SameSeq
    <2> QED
        BY <1>3, <1>f, <1>s, <2>3, <2>7 DEF Sequence!PopBack, Sequence!Next
<1>4. CASE (PopFront \/ PopBack) /\ front = back
    <2>1. answer' = "ERR_EMPTY" /\ front' = front /\ back' = back /\ items' = items
        BY <1>4 DEF PopFront, PopBack, Taken, Takes
    <2> QED
        BY <1>4, <1>e, <2>1 DEF Queued, Sequence!PopEmpty, Sequence!Next
<1>5. CASE UNCHANGED queue
    BY <1>5 DEF queue, Sequence!vars, Queued
<1> QED
    BY ZenonT(30), <1>1, <1>2, <1>3, <1>4, <1>5 DEF QueueNext, Sequence!Next

(* Queue implements SeqSpec: items come out in the order they went in, at  *)
(* either end, and a pop fails only on an empty queue.                     *)
THEOREM IsASequence == QueueSpec => RefinesQueue
<1>1. QueueInit => Sequence!Init
    BY DEF QueueInit, Sequence!Init, Queued
<1> QED
    BY <1>1, ItemsStayBetween, StepIsSeqStep, PTL DEF QueueSpec, RefinesQueue, Sequence!Spec
=============================================================================
