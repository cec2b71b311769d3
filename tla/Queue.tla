--------------------------------- MODULE Queue ---------------------------------
(***************************************************************************)
(* Queue<V> (crates/app/sdk/collections/src/queue.rs): two counters that   *)
(* start at 0 and never wrap back, and the items between them.             *)
(***************************************************************************)
EXTENDS Integers, Sequences, Stored

CONSTANTS
    Item,      \* values that are pushed
    MaxIndex   \* bound on the counters

VARIABLES
    front, back,  \* Item<u64>, 0 when absent
    items,        \* Map<u64, V>
    answer           \* what the last call returned

queue == <<front, back, items, answer>>

QueueInit == front = 0 /\ back = 0 /\ items = Empty /\ answer = "ok"

PushBack(x) ==
    /\ back < MaxIndex
    /\ items' = Put(items, back, x)
    /\ back' = back + 1
    /\ answer' = "ok"
    /\ UNCHANGED front

(* The answer of a pop at position i; Map::get fails if nothing is there.  *)
Taken(i) ==
    IF front = back THEN "ERR_EMPTY" ELSE IF i \in DOMAIN items THEN items[i] ELSE "ERR_NOT_FOUND"

MutantTakes(i) == front + 1 # back /\ i \in DOMAIN items

Takes(i) == front # back /\ i \in DOMAIN items

PopFront ==
    /\ answer' = Taken(front)
    /\ items' = IF Takes(front) THEN Del(items, front) ELSE items
    /\ front' = IF Takes(front) THEN front + 1 ELSE front
    /\ UNCHANGED back

PopBack ==
    /\ answer' = Taken(back - 1)
    /\ items' = IF Takes(back - 1) THEN Del(items, back - 1) ELSE items
    /\ back' = IF Takes(back - 1) THEN back - 1 ELSE back
    /\ UNCHANGED front

QueueNext == (\E x \in Item : PushBack(x)) \/ PopFront \/ PopBack

QueueSpec == QueueInit /\ [][QueueNext]_queue

-----------------------------------------------------------------------------
(* The items in storage are those between the counters: nothing is left    *)
(* behind by a pop from either end.                                        *)
ItemsBetween ==
    /\ front \in Nat /\ back \in Nat /\ front <= back
    /\ DOMAIN items = front..back - 1
    /\ \A i \in front..back - 1 : items[i] \in Item

(* What the iterator yields. *)
Queued == [i \in 1..back - front |-> items[front + i - 1]]

Sequence == INSTANCE SeqSpec WITH
    contents <- Queued, Pushes <- {<<x>> : x \in Item},
    OnEmpty <- "ERR_EMPTY", FromFront <- TRUE, ret <- answer

(* A queue is a sequence that is pushed at the back and popped at both     *)
(* ends, for any sequence of calls; it fails only when it is empty.        *)
RefinesQueue == Sequence!Spec
=============================================================================
