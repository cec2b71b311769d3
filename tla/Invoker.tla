-------------------------------- MODULE Invoker --------------------------------
(***************************************************************************)
(* Calls between accounts (crates/app/stf/src/invoker.rs, handlers.rs,     *)
(* runtime_api_impl.rs): do_exec with its checkpoint, the transfer of the  *)
(* attached funds, account creation, registration at a chosen id,          *)
(* migration and nested queries.  Storage writes are in ExecutionState.    *)
(*                                                                         *)
(* The stack holds one frame per call in progress.  Account code is        *)
(* arbitrary: the frame on top calls whatever it likes, returns or fails,  *)
(* and a caller may go on after a failed call.  A checkpoint is a copy of  *)
(* the state; that restoring by undo log amounts to that is what           *)
(* ExecutionState and its proofs establish.                                *)
(***************************************************************************)
EXTENDS Integers, Sequences, FiniteSets, FiniteSetsExt

CONSTANTS
    Existing,     \* accounts that exist in the initial state
    Derived,      \* ids register_account_at_id may be asked for
    MaxNew,       \* bound on the sequential ids create_account hands out
    Runtime,      \* RUNTIME_ACCOUNT_ID
    Codes,        \* code identifiers with a registered code
    UnknownCode,  \* an identifier without one
    NoCode,       \* no account at this id
    Assets,       \* fungible assets
    FundsChoices, \* the fund lists calls attach: sequences of assets, one unit each
    CreateFunds,  \* the fund lists account creations and registrations attach
    MaxDepth,     \* MAX_CALL_DEPTH
    MaxFrames,    \* bound on the call stack
    Endowment     \* units of each asset an existing account owns initially

New == 1..MaxNew
Ids == Existing \cup Derived \cup New \cup {Runtime}

VARIABLES
    st,    \* the overlay: code identifiers, next account number, balances, and
           \* as ghosts the accounts initialised and the funds the runtime keeps
    stack  \* the calls in progress, innermost last

vars == <<st, stack>>

Top == stack[Len(stack)]
Pop == SubSeq(stack, 1, Len(stack) - 1)

Root(a) == [kind |-> "root", status |-> "runs", who |-> a, sender |-> Runtime,
            depth |-> 0, funds |-> << >>, owed |-> << >>, arg |-> NoCode, saved |-> << >>]

Init ==
    /\ st = [code |-> [i \in Ids |-> IF i \in Existing THEN CHOOSE c \in Codes : TRUE ELSE NoCode],
             next |-> 1,
             bal |-> [x \in Assets |-> [i \in Ids |-> IF i \in Existing THEN Endowment[x] ELSE 0]],
             inited |-> Existing, kept |-> [x \in Assets |-> 0]]
    /\ stack \in {<<Root(a)>> : a \in Existing}

-----------------------------------------------------------------------------
(* Leaving a call. *)

MutantFailTop == stack' = Pop /\ UNCHANGED st

FailTop == stack' = Pop /\ st' = Top.saved

-----------------------------------------------------------------------------
(* Entering a call. *)

Runs == stack # << >> /\ Top.status = "runs"

MayExec == Runs /\ Top.kind # "query" /\ Len(stack) < MaxFrames

DepthLeft == Top.depth < MaxDepth

(* The head of do_exec: the checkpoint is taken before any transfer.       *)
DoExec(kind, to, arg, funds) ==
    /\ MayExec
    /\ DepthLeft
    /\ stack' = Append(stack,
            [kind |-> kind, status |-> "owes", who |-> to, sender |-> Top.who,
             depth |-> Top.depth + 1, funds |-> funds, owed |-> funds,
             arg |-> arg, saved |-> st])
    /\ UNCHANGED st

CallAccount ==
    \E to \in Ids \ {Runtime}, funds \in FundsChoices : DoExec("exec", to, NoCode, funds)

CallCreate ==
    /\ st.next \in New
    /\ \E funds \in CreateFunds : DoExec("create", Runtime, NoCode, funds)

CallRegister ==
    \E i \in Derived \cup Existing, funds \in CreateFunds : DoExec("register", Runtime, i, funds)

CallMigrate ==
    /\ Len(stack) + 1 < MaxFrames
    /\ \E i \in Existing, funds \in FundsChoices : DoExec("migrate", Runtime, i, funds)

Query ==
    /\ Runs /\ Len(stack) < MaxFrames
    /\ \E to \in Ids :
        /\ st.code[to] # NoCode
        /\ stack' = Append(stack,
              [kind |-> "query", status |-> "runs", who |-> to, sender |-> Runtime,
               depth |-> Top.depth + 1, funds |-> << >>, owed |-> << >>,
               arg |-> NoCode, saved |-> st])
    /\ UNCHANGED st

-----------------------------------------------------------------------------
(* handle_transfers moves the attached funds one asset at a time from the  *)
(* caller to the callee, the asset's own checkpoint-free transfer failing  *)
(* when the balance is short.                                              *)

Owes == stack # << >> /\ Top.status = "owes"

Set(status) == [stack EXCEPT ![Len(stack)].status = status]

TransferOne ==
    /\ Owes /\ Top.owed # << >>
    /\ LET x == Head(Top.owed)
       IN IF st.bal[x][Top.sender] = 0
          THEN FailTop
          ELSE /\ st' = [st EXCEPT !.bal[x] =
                   [[@ EXCEPT ![Top.sender] = @ - 1] EXCEPT ![Top.who] = @ + 1]]
               /\ stack' = [stack EXCEPT ![Len(stack)].owed = Tail(@)]

Paid == Owes /\ Top.owed = << >>

-----------------------------------------------------------------------------
(* exec_without_transfers and the runtime's handlers, once the funds moved. *)
(* The code identifier that a request names is chosen where it is looked at. *)

Asked == Codes \cup {UnknownCode}

StartExec ==
    /\ Paid /\ Top.kind = "exec"
    /\ IF st.code[Top.who] = NoCode
       THEN FailTop
       ELSE stack' = Set("runs") /\ UNCHANGED st

(* create_account: next account number, code identifier, then init in the  *)
(* new account's environment, which shows the funds; the runtime keeps     *)
(* them.  An unknown code is found out last, and all is undone.            *)
Units(funds, x) == Cardinality({k \in 1..Len(funds) : funds[k] = x})

Kept == [x \in Assets |-> st.kept[x] + Units(Top.funds, x)]

RunInit(i) == stack' = [stack EXCEPT ![Len(stack)].status = "runs", ![Len(stack)].who = i]

StartCreate ==
    /\ Paid /\ Top.kind = "create"
    /\ \E c \in Asked :
        IF c = UnknownCode
        THEN FailTop
        ELSE /\ st' = [st EXCEPT !.next = @ + 1, !.code[st.next] = c, !.kept = Kept]
             /\ RunInit(st.next)

(* register_account_at_id: nothing to do when the id is taken, whatever    *)
(* the code.  Its init sees no funds.                                      *)
StartRegister ==
    /\ Paid /\ Top.kind = "register"
    /\ IF st.code[Top.arg] # NoCode
       THEN st' = [st EXCEPT !.kept = Kept] /\ stack' = Pop
       ELSE \E c \in Asked :
            IF c = UnknownCode
            THEN FailTop
            ELSE st' = [st EXCEPT !.code[Top.arg] = c, !.kept = Kept] /\ RunInit(Top.arg)

MigrationAllowed(i, c) ==
    /\ i = Top.sender
    /\ st.code[i] # NoCode
    /\ c # UnknownCode
    /\ st.code[i] # c

MutantStartMigrate ==
    /\ Paid /\ Top.kind = "migrate"
    /\ \E c \in Asked :
       LET i == Top.arg
       IN IF ~MigrationAllowed(i, c) \/ ~DepthLeft
          THEN FailTop
          ELSE LET migrated == [st EXCEPT !.code[i] = c]
               IN /\ st' = migrated
                  /\ stack' = Append(Set("waits"),
                       [kind |-> "exec", status |-> "owes", who |-> i, sender |-> Runtime,
                        depth |-> Top.depth + 1, funds |-> Top.funds, owed |-> << >>,
                        arg |-> NoCode, saved |-> migrated])

StartMigrate ==
    /\ Paid /\ Top.kind = "migrate"
    /\ \E c \in Asked :
       LET i == Top.arg
       IN IF ~MigrationAllowed(i, c) \/ ~DepthLeft
          THEN FailTop
          ELSE LET migrated == [st EXCEPT !.code[i] = c]
               IN /\ st' = migrated
                  /\ stack' = Append(Set("waits"),
                       [kind |-> "exec", status |-> "owes", who |-> i, sender |-> Runtime,
                        depth |-> Top.depth + 1, funds |-> Top.funds, owed |-> Top.funds,
                        arg |-> NoCode, saved |-> migrated])

-----------------------------------------------------------------------------
(* The code on top finishes. *)

Waiting(i) == i > 0 /\ stack[i].status = "waits"

(* A migration returns what its inner call returned: both frames leave.    *)
Return ==
    /\ Runs /\ Top.kind # "root"
    /\ LET below == Len(stack) - 1
       IN stack' = SubSeq(stack, 1, IF Waiting(below) THEN below - 1 ELSE below)
    /\ st' = IF Top.kind \in {"create", "register"}
             THEN [st EXCEPT !.inited = @ \cup {Top.who}]
             ELSE st

FailCall ==
    /\ Runs /\ Top.kind # "root"
    /\ LET below == Len(stack) - 1
       IN IF Waiting(below)
          THEN stack' = SubSeq(stack, 1, below - 1) /\ st' = stack[below].saved
          ELSE FailTop

NextTx ==
    /\ Runs /\ Top.kind = "root"
    /\ \E a \in Existing : stack' = <<Root(a)>>
    /\ UNCHANGED st

(* The inner call of a migration failed on its transfers: so does the      *)
(* migration.                                                              *)
PropagateFailure ==
    /\ stack # << >> /\ Top.status = "waits"
    /\ FailTop

Next ==
    \/ CallAccount \/ CallCreate \/ CallRegister \/ CallMigrate
    \/ Query
    \/ TransferOne \/ StartExec \/ StartCreate \/ StartRegister \/ StartMigrate
    \/ Return \/ FailCall \/ PropagateFailure \/ NextTx

Spec == Init /\ [][Next]_vars

-----------------------------------------------------------------------------
(* The types of the overlay and of the frames. *)
TypeOK ==
    /\ st.code \in [Ids -> Codes \cup {NoCode}]
    /\ st.next \in 1..MaxNew + 1
    /\ \A x \in Assets, i \in Ids : st.bal[x][i] \in Nat
    /\ st.inited \subseteq Ids /\ st.kept \in [Assets -> Nat]
    /\ Len(stack) \in 1..MaxFrames
    /\ \A i \in 1..Len(stack) :
        /\ stack[i].kind \in {"root", "exec", "create", "register", "migrate", "query"}
        /\ stack[i].status \in {"owes", "runs", "waits"}

AtRest == Len(stack) = 1

(* Between transactions every account that has a code identifier has run   *)
(* its init to the end, whatever calls failed or were nested inside init:  *)
(* creation and registration through do_exec are all-or-nothing.           *)
RegisteredAreInitialised ==
    AtRest => \A i \in Ids : st.code[i] # NoCode => i \in st.inited

(* An account's code identifier is replaced only by a migration the        *)
(* account itself asked for; create_account and register_account_at_id     *)
(* never land on an id in use.  (A rollback, which shortens the stack,     *)
(* brings earlier code back.)                                              *)
CodeChangesOnlyByOwner ==
    [][\A i \in Ids :
        st.code[i] # NoCode /\ st'.code[i] # st.code[i] =>
            \/ Len(stack') < Len(stack)
            \/ Top.kind = "migrate" /\ Top.sender = i]_vars

(* do_exec, through account code, init and migration alike, never starts   *)
(* an environment deeper than MAX_CALL_DEPTH.                              *)
ExecDepthBounded ==
    \A i \in 1..Len(stack) : stack[i].kind # "query" => stack[i].depth <= MaxDepth

Started(i) ==
    /\ i = Len(stack') /\ Len(stack') = Len(stack)
    /\ stack[i].status = "owes" /\ stack'[i].status = "runs"

Received(f, bal) ==
    \A x \in Assets : bal[x][f.who] = f.saved.bal[x][f.who] + Units(f.funds, x)

(* When an account called by another one starts to execute, exactly the    *)
(* funds its environment shows have reached it, through the runtime too    *)
(* when it is called by a migration.                                       *)
CallDeliversFunds ==
    [][\A i \in 1..Len(stack) :
        Started(i) /\ stack[i].kind = "exec" /\ stack[i].who # stack[i].sender =>
            Received(stack'[i], st'.bal)]_vars

(* "Execute all transfers atomically - if any fail, all fail": between     *)
(* transactions no unit of an asset is lost or made up, and the runtime    *)
(* holds what was attached to the creations and registrations that took    *)
(* effect, nothing of a migration or a failed call.                        *)
FundsAllOrNothing ==
    AtRest => \A x \in Assets :
        /\ st.bal[x][Runtime] = st.kept[x]
        /\ MapThenSumSet(LAMBDA i : st.bal[x][i], Ids) = Cardinality(Existing) * Endowment[x]

(* The funds attached to a creation reach the account whose init sees      *)
(* them, as the handler's doc says: "Fungible assets to transfer with the  *)
(* request".  Violated: they stay with the runtime account.                *)
CreateDeliversFunds ==
    [][\A i \in 1..Len(stack) :
        Started(i) /\ stack[i].kind = "create" => Received(stack'[i], st'.bal)]_vars

(* "Maximum call depth to prevent stack overflow from deeply nested        *)
(* inter-account calls."  Violated: do_query makes a deeper environment    *)
(* without looking at the depth.                                           *)
DepthBounded == \A i \in 1..Len(stack) : stack[i].depth <= MaxDepth
=============================================================================
