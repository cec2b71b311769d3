-------------------------------- MODULE Vector --------------------------------
(***************************************************************************)
(* Vector<V> (crates/app/sdk/collections/src/vector.rs): a length that is  *)
(* absent while nothing was pushed, and the elements by position.  pop     *)
(* leaves the element in storage and only lowers the length.               *)
(***************************************************************************)
EXTENDS Integers, Sequences, Stored

CONSTANTS
    Elem,      \* values that are pushed
    Batches,   \* sequences that are given to extend
    MaxLength  \* bound on the length

VARIABLES
    index,  \* the length, or Absent
    elems,  \* Map<u64, V>
    ret     \* what the last call returned

storage == <<index, elems>>

Absent == -1

Length == IF index = Absent THEN 0 ELSE index

VectorInit == index = Absent /\ elems = Empty

PushElem(x) ==
    /\ elems' = Put(elems, Length, x)
    /\ index' = Length + 1

(* The length after a pop that succeeds. *)
PoppedIndex == IF index = 1 THEN Absent ELSE index - 1

-----------------------------------------------------------------------------
Push(x) ==
    /\ Length < MaxLength
    /\ PushElem(x)
    /\ ret' = "ok"

(* Writes the length even when nothing was added. *)
Extend(xs) ==
    /\ Length + Len(xs) <= MaxLength
    /\ elems' = [i \in DOMAIN elems \cup Length..Length + Len(xs) - 1 |->
                    IF i >= Length /\ i < Length + Len(xs) THEN xs[i - Length + 1] ELSE elems[i]]
    /\ index' = Length + Len(xs)
    /\ ret' = "ok"

(* With a stored length of 0, index - 1 is no position of an element.      *)
Pop ==
    LET found == index - 1 \in DOMAIN elems
    IN /\ ret' = IF index = Absent THEN "none" ELSE IF found THEN elems[index - 1] ELSE "error"
       /\ index' = IF index # Absent /\ found THEN PoppedIndex ELSE index
       /\ UNCHANGED elems

VInit == VectorInit /\ ret = "ok"

VNext ==
    \/ \E x \in Elem : Push(x)
    \/ \E xs \in Batches : Extend(xs)
    \/ Pop

-----------------------------------------------------------------------------
(* What the iterator yields. *)
Contents == [i \in 1..Length |-> elems[i - 1]]

S == INSTANCE SeqSpec WITH
    contents <- Contents, Pushes <- {<<x>> : x \in Elem} \cup Batches,
    OnEmpty <- "none", FromFront <- FALSE

(* A vector is a sequence: push and extend append, pop takes the last      *)
(* element or answers None, and what pop leaves in storage is never seen.  *)
RefinesSeq == S!Spec

(* Popping an empty vector answers None and never fails: "Another pop ->   *)
(* None".                                                                  *)
PopNeverFails == ret # "error"
=============================================================================
