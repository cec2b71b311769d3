----------------------------- MODULE MCExecution -----------------------------
(***************************************************************************)
(* The execution of a block, in two parts: "block" is Stf, the phases of a *)
(* block of two transactions, and "calls" is Invoker, the calls that       *)
(* account code makes inside a phase.  A behaviour belongs to one part.    *)
(*                                                                         *)
(* The world of the calls: accounts a and b, the derivable id d, one       *)
(* sequential id, two codes and two assets, gold less scarce than silver.  *)
(***************************************************************************)
EXTENDS Stf, TLC

CONSTANTS a, b, d, c1, c2, gold, silver, Runtime, UnknownCode, NoCode

VARIABLES part, st, stack

Calls == INSTANCE Invoker WITH
    Existing <- {a, b}, Derived <- {d}, MaxNew <- 1, Codes <- {c1, c2}, Assets <- {gold, silver},
    FundsChoices <- {<< >>, <<gold, silver>>}, CreateFunds <- {<< >>, <<silver>>}, MaxDepth <- 2, MaxFrames <- 4,
    Endowment <- [x \in {gold, silver} |-> IF x = gold THEN 2 ELSE 1]

(* The accounts a and b are alike.                                         *)
Alike == Permutations({a, b})

MCInit ==
    /\ Init
    /\ Calls!Init
    /\ \/ part = "block"
       \/ part = "calls" /\ gas_limit = [t \in Txs |-> 0]

MCNext ==
    \/ part = "block" /\ Next /\ UNCHANGED <<part, st, stack>>
    \/ part = "calls" /\ Calls!Next /\ UNCHANGED <<part, vars>>

MCSpec == MCInit /\ [][MCNext]_<<part, vars, st, stack>>

-----------------------------------------------------------------------------
(* Whatever fails inside a transaction, and however deep (do_exec starts   *)
(* nothing beyond MAX_CALL_DEPTH): at its end every account with a code    *)
(* identifier has run its init to the end, no unit of an asset is lost or  *)
(* made up, and the runtime holds just what was attached to the creations  *)
(* and registrations that took effect ("Execute all transfers atomically - *)
(* if any fail, all fail").                                                *)
CallsContained ==
    Calls!RegisteredAreInitialised /\ Calls!FundsAllOrNothing /\ Calls!ExecDepthBounded

(* When an account called by another one starts to execute, exactly the    *)
(* funds its environment shows have reached it; and a code identifier is   *)
(* replaced only by a migration that the account itself asked for.         *)
CallsDeliver == Calls!CallDeliversFunds /\ Calls!CodeChangesOnlyByOwner
=============================================================================
