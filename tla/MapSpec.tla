-------------------------------- MODULE MapSpec --------------------------------
(***************************************************************************)
(* What UnorderedMap promises: a finite map, and the old value of the key  *)
(* each call is about.                                                     *)
(***************************************************************************)
EXTENDS Stored

CONSTANTS Key, Value

VARIABLES map, ret

vars == <<map, ret>>

Init == map = Empty /\ ret = "none"

Old(k) == IF k \in DOMAIN map THEN map[k] ELSE "none"

Insert(k, v) == map' = Put(map, k, v) /\ ret' = Old(k)

Remove(k) == map' = Del(map, k) /\ ret' = Old(k)

Update(k, v) == map' = Put(map, k, v) /\ ret' = v

Next == \E k \in Key : Remove(k) \/ \E v \in Value : Insert(k, v) \/ Update(k, v)

Spec == Init /\ [][Next]_vars
=============================================================================
