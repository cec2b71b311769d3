----------------------------- MODULE UnorderedMap -----------------------------
(***************************************************************************)
(* UnorderedMap<K, V> (crates/app/sdk/collections/src/unordered_map.rs): a *)
(* vector of the keys, so that the map can be iterated, the position of    *)
(* every key in it, and the values.  Its keys are the elements of Vector.  *)
(* Removing a key moves the last key into its place.                       *)
(***************************************************************************)
EXTENDS Vector

CONSTANTS Value

VARIABLES
    index_map,  \* Map<K, u64>
    values_map  \* Map<K, V>

vars == <<index, elems, index_map, values_map, ret>>

Key == Elem

Init ==
    /\ VectorInit
    /\ index_map = Empty /\ values_map = Empty
    /\ ret = "none"

(* values_map.get: fails if the key has a position but no value, and with  *)
(* it the call, whose writes are then reverted.                            *)
OldValue(k) == IF k \in DOMAIN values_map THEN values_map[k] ELSE "error"

InsertNew(k, v) ==
    /\ PushElem(k)
    /\ index_map' = Put(index_map, k, Length)
    /\ values_map' = Put(values_map, k, v)

MutantInsertAgain(k, v) == UNCHANGED <<index, elems, index_map, values_map>>

InsertAgain(k, v) ==
    /\ values_map' = IF k \in DOMAIN values_map THEN Put(values_map, k, v) ELSE values_map
    /\ UNCHANGED <<index, elems, index_map>>

InsertEntry(k, v) == IF k \in DOMAIN index_map THEN InsertAgain(k, v) ELSE InsertNew(k, v)

Insert(k, v) ==
    /\ InsertEntry(k, v)
    /\ ret' = IF k \in DOMAIN index_map THEN OldValue(k) ELSE "none"

(* may_get, the caller's function, insert. *)
Update(k, v) ==
    /\ InsertEntry(k, v)
    /\ ret' = IF k \in DOMAIN index_map /\ OldValue(k) = "error" THEN "error" ELSE v

MutantRemovePresent(k) ==
    LET last_index == Length - 1
    IN /\ values_map' = Del(values_map, k)
       /\ IF index_map[k] < last_index
          THEN /\ elems' = Put(elems, index_map[k], elems[last_index])
               /\ index_map' = Del(index_map, k)
          ELSE UNCHANGED elems /\ index_map' = Del(index_map, k)
       /\ index' = PoppedIndex

(* The last key fills the place of k, then the vector is popped.           *)
RemovePresent(k) ==
    LET last_index == Length - 1
    IN /\ values_map' = Del(values_map, k)
       /\ IF index_map[k] < last_index
          THEN /\ elems' = Put(elems, index_map[k], elems[last_index])
               /\ index_map' = Put(Del(index_map, k), elems[last_index], index_map[k])
          ELSE UNCHANGED elems /\ index_map' = Del(index_map, k)
       /\ index' = PoppedIndex

Remove(k) ==
    \/ /\ k \notin DOMAIN index_map
       /\ ret' = "none"
       /\ UNCHANGED <<index, elems, index_map, values_map>>
    \/ /\ k \in DOMAIN index_map
       /\ RemovePresent(k)
       /\ ret' = OldValue(k)

Next == \E k \in Key : Remove(k) \/ \E v \in Value : Insert(k, v) \/ Update(k, v)

Spec == Init /\ [][Next]_vars

-----------------------------------------------------------------------------
(* The vector holds each key of the map once, and index_map is its         *)
(* inverse: the iterator yields every entry exactly once, with a value.    *)
KeysMatch ==
    /\ index \in (Nat \ {0}) \cup {Absent}
    /\ values_map \in [DOMAIN index_map -> Value]
    /\ \A i \in 0..Length - 1 :
        i \in DOMAIN elems /\ elems[i] \in DOMAIN index_map /\ index_map[elems[i]] = i
    /\ \A k \in DOMAIN index_map :
        k \in Key /\ index_map[k] \in 0..Length - 1 /\ elems[index_map[k]] = k

M == INSTANCE MapSpec WITH map <- values_map

(* For any sequence of calls the map behaves as a map: every call returns  *)
(* the value the key really had, and none fails.                           *)
RefinesMap == M!Spec
=============================================================================
