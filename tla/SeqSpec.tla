-------------------------------- MODULE SeqSpec --------------------------------
(***************************************************************************)
(* What Vector and Queue promise: a sequence, and what each call returns.  *)
(***************************************************************************)
EXTENDS Integers, Sequences

CONSTANTS
    Pushes,      \* sequences that are appended by one call
    OnEmpty,     \* the answer to a pop of the empty sequence
    FromFront    \* whether elements may be taken from the front too

VARIABLES contents, ret

vars == <<contents, ret>>

Init == contents = <<>> /\ ret = "ok"

PushBack(xs) == contents' = contents \o xs /\ ret' = "ok"

PopEmpty == contents = <<>> /\ ret' = OnEmpty /\ UNCHANGED contents

PopBack ==
    /\ contents # <<>>
    /\ ret' = contents[Len(contents)]
    /\ contents' = SubSeq(contents, 1, Len(contents) - 1)

PopFront == contents # <<>> /\ ret' = Head(contents) /\ contents' = Tail(contents)

Next ==
    \/ \E xs \in Pushes : PushBack(xs)
    \/ PopEmpty \/ PopBack
    \/ FromFront /\ PopFront

Spec == Init /\ [][Next]_vars
=============================================================================
