------------------------------ MODULE PoolSpec ------------------------------
(***************************************************************************)
(* What the mempool promises its users: a transaction is absent, queued or *)
(* proposed; a proposal only hands out queued transactions, so no two      *)
(* outstanding proposals share one; finalizing removes what was executed   *)
(* and queues again what was proposed and not executed.  A transaction     *)
(* that came back after it had left is exempt: it may be handed out twice. *)
(***************************************************************************)
EXTENDS Naturals, Sequences

CONSTANT Tx

VARIABLES
  status,
  again,        \* the transactions that came back
  returned      \* what the last propose returned, empty while one is running

psVars == <<status, again, returned>>

Init == status = [t \in Tx |-> "absent"] /\ again = {} /\ returned = << >>

Add(t) ==
  /\ status[t] = "absent"
  /\ status' = [status EXCEPT ![t] = "queued"]
  /\ again' \in {again, again \cup {t}}
  /\ UNCHANGED returned

\* A mark of a proposal outlives a removal: what is added again with one is
\* proposed at once.
AddProposed(t) ==
  /\ status[t] = "absent"
  /\ status' = [status EXCEPT ![t] = "proposed"]
  /\ again' = again \cup {t}
  /\ UNCHANGED returned

Remove(S) ==
  /\ status' = [t \in Tx |-> IF t \in S THEN "absent" ELSE status[t]]
  /\ again' = again \ S
  /\ UNCHANGED returned

Ask == returned' = << >> /\ UNCHANGED <<status, again>>

\* The answer repeats nothing and holds only queued transactions.
Propose ==
  /\ returned = << >>
  /\ \A i \in DOMAIN returned' :
       \/ status[returned'[i]] = "queued"
       \/ status[returned'[i]] = "proposed" /\ returned'[i] \in again
  /\ \A i, j \in DOMAIN returned' :
       i # j /\ returned'[i] = returned'[j] => returned'[i] \in again
  /\ status' = [t \in Tx |->
       IF \E i \in DOMAIN returned' : returned'[i] = t THEN "proposed" ELSE status[t]]
  /\ UNCHANGED again

Finalize(executed) ==
  /\ status' = [t \in Tx |-> IF t \in executed THEN "absent"
                             ELSE IF status[t] = "proposed" THEN "queued" ELSE status[t]]
  /\ again' = again \ executed
  /\ UNCHANGED returned

Next ==
  \/ \E t \in Tx : Add(t) \/ AddProposed(t)
  \/ \E S \in SUBSET Tx : Remove(S) \/ Finalize(S)
  \/ Ask
  \/ Propose

Spec == Init /\ [][Next]_psVars
=============================================================================
