------------------------------- MODULE Scheduler -------------------------------
(***************************************************************************)
(* The scheduler account and the begin and end blockers that call it        *)
(* (crates/app/sdk/extensions/scheduler/src/lib.rs and server.rs), around   *)
(* the transactions of a block.  A blocker that fails makes the block       *)
(* panic: what the block has written is lost with the process, and the      *)
(* process starts again from what is committed.                             *)
(***************************************************************************)
EXTENDS Integers, Sequences

CONSTANTS
    Blockers,    \* accounts with do_begin_block or do_end_block
    Senders,     \* senders of transactions
    Runtime,     \* RUNTIME_ACCOUNT_ID
    MaxBlocks,   \* bound on the blocks committed
    MaxPanics    \* bound on the panics

VARIABLES
    pc,         \* "genesis", "begin", "txs", "end", "panicked"
    lists,      \* begin_block_accounts and end_block_accounts, as committed
    work,       \* the block: the blockers it ran, and the lists as it leaves them
    committed,  \* blocks that were committed
    panics

vars == <<pc, lists, work, committed, panics>>

Lists == {<<>>} \cup {<<b>> : b \in Blockers} \cup (Blockers \X Blockers)

Fresh(l) == [ran |-> [begin |-> <<>>, end |-> <<>>], lists |-> l]

Init ==
    /\ pc = "genesis"
    /\ lists = [begin |-> <<>>, end |-> <<>>]
    /\ work = Fresh(lists)
    /\ committed = <<>>
    /\ panics = 0

(* initialize and update_begin_blockers, called by genesis.                *)
Initialize(begin, end) ==
    /\ pc = "genesis"
    /\ lists' = [begin |-> begin, end |-> end]
    /\ work' = Fresh(lists')
    /\ pc' = "begin"
    /\ UNCHANGED <<committed, panics>>

\* The check of update_begin_blockers and update_end_blockers.
MayUpdate(sender) == sender = Runtime

(* A transaction that calls update_begin_blockers or update_end_blockers.  *)
Update(sender, which, list) ==
    /\ pc = "txs"
    /\ work' = IF MayUpdate(sender) THEN [work EXCEPT !.lists[which] = list] ELSE work
    /\ UNCHANGED <<pc, lists, committed, panics>>

-----------------------------------------------------------------------------
Left(which) == Len(work.lists[which]) - Len(work.ran[which])

(* schedule_begin_block and schedule_end_block call the accounts of the    *)
(* list in order.                                                          *)
Run(which) ==
    /\ pc = which /\ Left(which) > 0
    /\ work' = [work EXCEPT !.ran[which] = Append(@, work.lists[which][Len(@) + 1])]
    /\ UNCHANGED <<pc, lists, committed, panics>>

(* The first account that fails ends the loop, and the unwrap of the       *)
(* blocker panics.                                                         *)
Fails(which) ==
    /\ pc = which /\ Left(which) > 0 /\ panics < MaxPanics
    /\ pc' = "panicked"
    /\ work' = Fresh(lists)
    /\ panics' = panics + 1
    /\ UNCHANGED <<lists, committed>>

BeginBlocked ==
    /\ pc = "begin" /\ Left("begin") = 0
    /\ pc' = "txs"
    /\ UNCHANGED <<lists, work, committed, panics>>

EndTxs ==
    /\ pc = "txs"
    /\ pc' = "end"
    /\ UNCHANGED <<lists, work, committed, panics>>

(* The block ends and is committed.                                        *)
Commit ==
    /\ pc = "end" /\ Left("end") = 0
    /\ Len(committed) < MaxBlocks
    /\ committed' = Append(committed, work)
    /\ lists' = work.lists
    /\ work' = Fresh(lists')
    /\ pc' = "begin"
    /\ UNCHANGED panics

Restart ==
    /\ pc = "panicked"
    /\ pc' = "begin"
    /\ UNCHANGED <<lists, work, committed, panics>>

Next ==
    \/ \E begin, end \in Lists : Initialize(begin, end)
    \/ \E sender \in Senders, which \in {"begin", "end"}, list \in Lists : Update(sender, which, list)
    \/ \E which \in {"begin", "end"} : Run(which) \/ Fails(which)
    \/ BeginBlocked \/ EndTxs \/ Commit \/ Restart

Spec == Init /\ [][Next]_vars

-----------------------------------------------------------------------------
(* A block that is committed has run every blocker of its lists, in order, *)
(* whichever blockers failed in earlier attempts at it.                    *)
CommittedRanAll == \A i \in DOMAIN committed : committed[i].ran = committed[i].lists

(* The lists are those of genesis for good, in every block that was        *)
(* committed and in the one that runs: no transaction has the runtime as   *)
(* its sender.                                                             *)
ListsAreGenesis ==
    /\ work.lists = lists
    /\ \A i \in DOMAIN committed : committed[i].lists = lists
=============================================================================
