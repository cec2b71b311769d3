------------------------------ MODULE NestedTx ------------------------------
(***************************************************************************)
(* What a caller of the execution state is promised: a working state and a *)
(* stack of saved copies of it.  Opening a call saves the working state,   *)
(* a call that answers "ok" forgets the copy, one that answers "err" puts  *)
(* the copy back.  Nothing here knows about overlays or undo logs.         *)
(***************************************************************************)
EXTENDS Sequences, Naturals

VARIABLES
  work, saved,
  resp          \* the answer of the call that returned last

ntVars == <<work, saved, resp>>

Init == saved = << >>

\* Account code changes the working state or settles on its answer; open
\* calls keep their copies.
Work == saved' = saved

Begin == work' = work /\ saved' = Append(saved, work) /\ resp' = resp

\* What is left of the stack once its newest copy is gone.
Outer == SubSeq(saved, 1, Len(saved) - 1)

Commit == saved # << >> /\ work' = work /\ saved' = Outer /\ resp' = "ok"

Abort == saved # << >> /\ work' = saved[Len(saved)] /\ saved' = Outer /\ resp' = "err"

Next == Work \/ Begin \/ Commit \/ Abort

Spec == Init /\ [][Next]_ntVars
=============================================================================
