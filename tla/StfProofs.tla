------------------------------ MODULE StfProofs ------------------------------
(***************************************************************************)
(* The block pipeline, for blocks of any number of transactions with any   *)
(* gas limits, any block limit, any width of the gas counter and any       *)
(* choice of the phases that mint objects.                                 *)
(***************************************************************************)
EXTENDS Stf, TLAPS

InTx == {"resolve", "bootstrap", "pop_bootstrap", "validate", "recipient",
         "execute", "post", "result"}
AtEnd == {"end", "pop_end", "done"}
SenderPhases == {"resolve", "bootstrap"}

TxResults == [tx : Txs, response : Responses, events : SUBSET Minted,
              gas_used : 0..MaxGas, minted : Nat]

BlockResult ==
    [begin_block_events : SUBSET Minted, tx_results : Seq(TxResults),
     end_block_events : SUBSET Minted, gas_used : 0..MaxU64, txs_skipped : Int]

Typed ==
    /\ pc \in Phases \cup {"pop_begin", "loop", "pop_bootstrap", "result",
                           "pop_end", "done"}
    /\ gas_limit \in [Txs -> 0..MaxGas]
    /\ next \in 1..N + 1
    /\ objects \subseteq Minted
    /\ events \subseteq Minted
    /\ unique_objects \in Nat
    /\ gas_used \in 0..MaxGas
    /\ response \in Responses
    /\ minted \in Nat
    /\ result \in BlockResult
    /\ pc \in InTx => next \in Txs

(* The counter has reached the number of every object in the state. *)
Numbered == \A o \in objects : o.id[2] <= unique_objects

(* A transaction that was started has its whole gas limit left in the      *)
(* block, and uses no more than that.                                      *)
Reserved ==
    pc \in InTx =>
        /\ gas_used <= gas_limit[next]
        /\ Sat(result.gas_used + gas_limit[next]) <= BlockGasLimit

(* Nobody has left an object behind before their turn, nor in a phase      *)
(* they have not reached.                                                  *)
InTurn ==
    \A o \in objects :
        /\ o.by \in Txs => IF pc \in InTx THEN o.by <= next ELSE o.by < next
        /\ o.by = N + 1 => pc \in {"pop_end", "done"}
        /\ pc \in InTx /\ o.by = next =>
            /\ pc \in {"resolve", "bootstrap", "pop_bootstrap"} => o.phase \in SenderPhases
            /\ o.phase = "execute" => pc \in {"post", "result"}

(* The events that wait to be popped are those of the one who is running,  *)
(* and all of them but those a bootstrap discarded.                        *)
Pending ==
    /\ events \subseteq objects
    /\ pc \in {"begin", "loop", "end", "done"} => events = {}
    /\ pc = "pop_begin" => \A o \in events : o.by = 0
    /\ pc = "pop_end" => \A o \in events : o.by = N + 1
    /\ pc \in InTx =>
        /\ \A o \in events : o.by = next
        /\ \A o \in objects \ events : o.by = next => o.phase \in SenderPhases

(* Results belong to the transactions before the current one.              *)
Past == \A i \in DOMAIN result.tx_results : result.tx_results[i].tx < next

Unfit(t) ==
    \/ Sat(result.gas_used + gas_limit[t]) > BlockGasLimit
    \/ result.gas_used >= BlockGasLimit

(* A transaction that was passed over did not fit, and never will.         *)
PassedOver == \A t \in Txs \ Executed : t < next \/ pc \in AtEnd => Unfit(t)

Ordered ==
    \A i, j \in DOMAIN result.tx_results :
        i < j => result.tx_results[i].tx < result.tx_results[j].tx

Inv ==
    /\ Typed /\ Numbered /\ UniqueIdsDistinct
    /\ Reserved /\ GasWithinBlock
    /\ InTurn /\ Pending /\ EventsMatchState /\ FailedExecUndone
    /\ Past /\ Ordered /\ PassedOver

-----------------------------------------------------------------------------
(* What the steps have in common. *)

(* A phase of a transaction, failed or not, seen from the invariant. *)
TxStep ==
    /\ pc \in {"resolve", "bootstrap", "validate", "recipient", "execute", "post"}
    /\ pc' \in InTx \ {"resolve"}
    /\ pc' \in {"bootstrap", "pop_bootstrap"} => pc \in SenderPhases
    /\ pc = "execute" <=> pc' = "post"
    /\ pc = "post" => pc' = "result"
    /\ gas_used' = gas_used \/ Burn
    /\ response' \in Responses /\ minted' \in Nat
    /\ \/ Mint(next, pc) /\ (pc = "execute" => response' = "ok")
       \/ UNCHANGED <<objects, events>> /\ unique_objects' \in {unique_objects, unique_objects + 1}
    /\ UNCHANGED <<gas_limit, next, result>>

(* The other steps that leave the objects, the results and the transaction *)
(* alone, with the events they pop.                                        *)
PopStep ==
    \/ PopBeginEvents \/ PopBootstrapEvents \/ PopEndEvents

BlockerStep == DoBeginBlock \/ DoEndBlock

(* A phase before execution is a TxStep.                                   *)
LEMMA PhaseIsTxStep ==
    ASSUME Typed, NEW phase \in {"resolve", "bootstrap", "validate", "recipient"}, NEW then,
           <<phase, then>> \in {<<"resolve", "bootstrap">>, <<"bootstrap", "pop_bootstrap">>,
                                <<"validate", "recipient">>, <<"recipient", "execute">>},
           Phase(phase, then)
    PROVE  TxStep
<1>1. pc = phase /\ pc' \in {then, "result"} /\ Burn /\ UNCHANGED <<gas_limit, next, result>>
    BY DEF Phase, Succeed, Fail
<1>2. \/ Mint(next, pc)
      \/ UNCHANGED <<objects, events>> /\ unique_objects' \in {unique_objects, unique_objects + 1}
    BY <1>1 DEF Phase, Idle, MintTooMany, NextUniqueObjectId
<1>3. response' \in Responses /\ minted' \in Nat
    BY DEF Phase, Succeed, Fail, Mint, MintTooMany, NextUniqueObjectId, Idle, Typed, Responses
<1> QED
    BY <1>1, <1>2, <1>3 DEF TxStep, InTx, SenderPhases

(* The execution of a transaction is a TxStep.                             *)
LEMMA ExecuteIsTxStep ==
    ASSUME Typed, ExecuteTx
    PROVE  TxStep
<1>1. pc = "execute" /\ pc' = "post" /\ Burn /\ UNCHANGED <<gas_limit, next, result>>
    BY DEF ExecuteTx, Succeed, Fail
<1>2. \/ Mint(next, pc) /\ response' = "ok"
      \/ UNCHANGED <<objects, events>> /\ unique_objects' \in {unique_objects, unique_objects + 1}
    BY <1>1 DEF ExecuteTx, Idle, Succeed, Fail, state
<1>3. response' \in Responses /\ minted' \in Nat
    BY DEF ExecuteTx, Succeed, Fail, Mint, Idle, Typed, Responses
<1> QED
    BY <1>1, <1>2, <1>3 DEF TxStep, InTx

(* The hook after a transaction is a TxStep.                               *)
LEMMA AfterIsTxStep ==
    ASSUME Typed, AfterTxExecuted
    PROVE  TxStep
<1>1. pc = "post" /\ pc' = "result" /\ Burn /\ UNCHANGED <<gas_limit, next, result>>
    BY DEF AfterTxExecuted
<1>2. \/ Mint(next, pc)
      \/ UNCHANGED <<objects, events>> /\ unique_objects' \in {unique_objects, unique_objects + 1}
    BY <1>1 DEF AfterTxExecuted, Idle, MintTooMany, NextUniqueObjectId
<1>3. response' \in Responses /\ minted' \in Nat
    BY DEF AfterTxExecuted, Mint, MintTooMany, NextUniqueObjectId, Idle, Typed, Responses
<1> QED
    BY <1>1, <1>2, <1>3 DEF TxStep, InTx

(* The kinds of steps. *)
LEMMA Kinds ==
    ASSUME Typed, [Next]_vars
    PROVE  \/ TxStep \/ BlockerStep \/ PopStep
           \/ SkipTx \/ StartTx \/ FinishTx \/ LoopEnds \/ UNCHANGED vars
<1>1. CASE ResolveSender
    BY <1>1, PhaseIsTxStep DEF ResolveSender
<1>2. CASE BootstrapSender
    BY <1>2, PhaseIsTxStep DEF BootstrapSender
<1>3. CASE ValidateTx
    BY <1>3, PhaseIsTxStep DEF ValidateTx
<1>4. CASE ResolveRecipient
    BY <1>4, PhaseIsTxStep DEF ResolveRecipient
<1>5. CASE NoBootstrap
    BY <1>5 DEF NoBootstrap, TxStep, Typed, InTx, SenderPhases, state
<1> QED
    BY <1>1, <1>2, <1>3, <1>4, <1>5, ExecuteIsTxStep, AfterIsTxStep DEF Next, BlockerStep, PopStep

(* The narrowing to 16 bits changes no number that passed the limit. *)
LEMMA NarrowedFact ==
    ASSUME NEW n \in Nat, n <= MaxObjects
    PROVE  Narrowed(n) = n
    BY StfAssumption DEF Narrowed

(* A minted object, its owner, phase and number. *)
LEMMA MintFacts ==
    ASSUME Typed, NEW owner \in Owners, NEW phase \in Phases,
           owner \in Txs \/ phase \in {"begin", "end"}, Mint(owner, phase)
    PROVE  \E o \in Minted :
              /\ o.by = owner /\ o.phase = phase /\ o.id[2] = unique_objects + 1
              /\ objects' = objects \cup {o} /\ events' = events \cup {o}
              /\ unique_objects' = unique_objects + 1
<1> DEFINE o == Object(owner, phase)
<1>1. Scope(owner, phase) \in Txs \cup {BlockScope}
    BY DEF Scope
<1>0. Number(owner, phase) = unique_objects + 1
    <2>1. Scope(owner, phase) = BlockScope \/ unique_objects + 1 <= MaxObjects
        BY StfAssumption DEF Mint, TooMany, NextUniqueObjectId, Typed
    <2> QED
        BY <2>1, NarrowedFact DEF Number, NextUniqueObjectId, Typed
<1>2. o \in Minted /\ o.by = owner /\ o.phase = phase /\ o.id[2] = unique_objects + 1
    BY <1>0, <1>1 DEF Object, Minted, Ids, Typed
<1>3. objects' = objects \cup {o} /\ events' = events \cup {o} /\ unique_objects' = unique_objects + 1
    BY DEF Mint, NextUniqueObjectId
<1> HIDE DEF o
<1> QED
    BY <1>2, <1>3

(* A transaction's phases mint in its name, the blockers in theirs. *)
LEMMA OwnerFacts ==
    ASSUME Typed
    PROVE  /\ TxStep => next \in Txs /\ next \in Owners /\ pc \in Phases /\ pc \in InTx
           /\ 0 \in Owners /\ N + 1 \in Owners
    BY DEF Typed, TxStep, Owners, Phases, InTx

(* What a step does to the objects and their counter. *)
LEMMA ObjectsStep ==
    ASSUME Typed, [Next]_vars
    PROVE  \/ objects' = objects /\ unique_objects' \in {unique_objects, unique_objects + 1}
           \/ \E o \in Minted :
                 /\ o.id[2] = unique_objects + 1
                 /\ objects' = objects \cup {o}
                 /\ unique_objects' = unique_objects + 1
<1>1. CASE TxStep
    BY <1>1, MintFacts, OwnerFacts DEF TxStep
<1>2. CASE BlockerStep
    <2>1. CASE DoBeginBlock
        BY <2>1, MintFacts, OwnerFacts DEF DoBeginBlock, Idle, Phases
    <2>2. CASE DoEndBlock
        BY <2>2, MintFacts, OwnerFacts DEF DoEndBlock, Idle, Phases
    <2> QED
        BY <1>2, <2>1, <2>2 DEF BlockerStep
<1>3. CASE PopStep
    BY <1>3 DEF PopStep, PopBeginEvents, PopBootstrapEvents, PopEndEvents
<1>4. CASE SkipTx \/ StartTx \/ FinishTx \/ LoopEnds \/ UNCHANGED vars
    BY <1>4 DEF SkipTx, StartTx, FinishTx, LoopEnds, vars, state
<1> QED
    BY <1>1, <1>2, <1>3, <1>4, Kinds

(* Object numbers only grow, so no two objects share one. *)
LEMMA NumbersStep ==
    ASSUME Typed, Numbered, UniqueIdsDistinct, [Next]_vars
    PROVE  Numbered' /\ UniqueIdsDistinct'
<1>1. CASE objects' = objects /\ unique_objects' \in {unique_objects, unique_objects + 1}
    <2>1. \A o \in objects : o.id[2] \in Nat
        BY DEF Typed, Minted, Ids
    <2> QED
        BY <1>1, <2>1 DEF Numbered, UniqueIdsDistinct, Typed
<1>2. CASE \E o \in Minted :
              /\ o.id[2] = unique_objects + 1
              /\ objects' = objects \cup {o}
              /\ unique_objects' = unique_objects + 1
    <2> PICK o \in Minted :
              /\ o.id[2] = unique_objects + 1
              /\ objects' = objects \cup {o}
              /\ unique_objects' = unique_objects + 1
        BY <1>2
    <2>1. \A x \in objects : x.id[2] \in Nat /\ x.id[2] <= unique_objects
        BY DEF Typed, Minted, Ids, Numbered
    <2>2. \A x \in objects : x.id # o.id
        BY <2>1 DEF Typed
    <2>3. Numbered'
        BY <2>1 DEF Numbered, Typed
    <2>4. UniqueIdsDistinct'
        BY <2>2 DEF UniqueIdsDistinct
    <2> QED
        BY <2>3, <2>4
<1> QED
    BY <1>1, <1>2, ObjectsStep

(* The record of a block's results, field by field. *)
LEMMA ResultFields ==
    ASSUME Typed
    PROVE  /\ result.tx_results \in Seq(TxResults)
           /\ result.gas_used \in 0..MaxU64 /\ result.txs_skipped \in Int
           /\ result.begin_block_events \subseteq Minted /\ result.end_block_events \subseteq Minted
           /\ \A i \in DOMAIN result.tx_results :
                 /\ result.tx_results[i] \in TxResults
                 /\ result.tx_results[i].tx \in Txs
                 /\ result.tx_results[i].gas_used \in 0..MaxGas
                 /\ gas_limit[result.tx_results[i].tx] \in 0..MaxGas
<1>1. /\ result.tx_results \in Seq(TxResults)
      /\ result.gas_used \in 0..MaxU64 /\ result.txs_skipped \in Int
      /\ result.begin_block_events \subseteq Minted /\ result.end_block_events \subseteq Minted
    BY DEF Typed, BlockResult
<1>2. ASSUME NEW i \in DOMAIN result.tx_results
      PROVE  result.tx_results[i] \in TxResults
    BY <1>1
<1>3. gas_limit \in [Txs -> 0..MaxGas]
    BY DEF Typed
<1> QED
    BY Zenon, <1>1, <1>2, <1>3 DEF TxResults

(* The end of a transaction appends its result and charges its gas. *)
LEMMA FinishFacts ==
    ASSUME Typed, FinishTx
    PROVE  /\ pc = "result" /\ next \in Txs /\ next' = next + 1 /\ events' = {}
           /\ TxResult \in TxResults
           /\ result'.tx_results = Append(result.tx_results, TxResult)
           /\ result'.gas_used = Cumulative /\ Cumulative \in 0..MaxU64
           /\ result' \in BlockResult
           /\ result'.begin_block_events = result.begin_block_events
           /\ result'.end_block_events = result.end_block_events
           /\ pc' = IF Cumulative >= BlockGasLimit THEN "end" ELSE "loop"
           /\ UNCHANGED <<gas_limit, objects, unique_objects, gas_used, response, minted>>
<1>1. pc = "result" /\ next \in Txs /\ next' = next + 1 /\ events' = {}
    BY DEF FinishTx, Typed, InTx
<1>2. TxResult \in TxResults
    BY <1>1 DEF TxResult, TxResults, Typed
<1>3. Cumulative \in 0..MaxU64
    BY SMTT(60), ResultFields, StfAssumption DEF Cumulative, Sat, Typed
<1>4. SkippedWithRest \in Int
    BY SMTT(60), ResultFields, StfAssumption DEF SkippedWithRest
<1>5. Append(result.tx_results, TxResult) \in Seq(TxResults)
    BY <1>2, ResultFields
<1>6. /\ result'.tx_results = Append(result.tx_results, TxResult)
      /\ result'.gas_used = Cumulative
      /\ result' \in BlockResult
      /\ result'.begin_block_events = result.begin_block_events
      /\ result'.end_block_events = result.end_block_events
    <2>1. CASE Cumulative >= BlockGasLimit
        <3>1. result' = [result EXCEPT !.gas_used = Cumulative,
                  !.tx_results = Append(@, TxResult), !.txs_skipped = SkippedWithRest]
            BY <2>1 DEF FinishTx
        <3> QED
            BY Zenon, <3>1, <1>3, <1>4, <1>5 DEF Typed, BlockResult
    <2>2. CASE ~(Cumulative >= BlockGasLimit)
        <3>1. result' = [result EXCEPT !.gas_used = Cumulative, !.tx_results = Append(@, TxResult)]
            BY <2>2 DEF FinishTx
        <3> QED
            BY Zenon, <3>1, <1>3, <1>5 DEF Typed, BlockResult
    <2> QED
        BY <2>1, <2>2
<1> QED
    BY <1>1, <1>2, <1>3, <1>6 DEF FinishTx

(* The results after one more.                                             *)
LEMMA AppendFacts ==
    ASSUME NEW s \in Seq(TxResults), NEW r \in TxResults
    PROVE  /\ DOMAIN Append(s, r) = DOMAIN s \cup {Len(s) + 1}
           /\ Append(s, r)[Len(s) + 1] = r
           /\ \A i \in DOMAIN s : Append(s, r)[i] = s[i] /\ i \in Nat /\ i < Len(s) + 1
    OBVIOUS

(* The results after a transaction are those before it and its own, the    *)
(* last.                                                                   *)
LEMMA Appended ==
    ASSUME Typed, FinishTx
    PROVE  /\ DOMAIN result'.tx_results = DOMAIN result.tx_results \cup {Len(result.tx_results) + 1}
           /\ result'.tx_results[Len(result.tx_results) + 1] = TxResult
           /\ \A i \in DOMAIN result.tx_results :
                 /\ result'.tx_results[i] = result.tx_results[i]
                 /\ i \in Nat /\ i < Len(result.tx_results) + 1
<1>1. result.tx_results \in Seq(TxResults) /\ TxResult \in TxResults
    BY FinishFacts, ResultFields
<1> QED
    BY <1>1, FinishFacts, AppendFacts

(* The variables keep their types. *)
LEMMA TypeStep ==
    ASSUME Typed, [Next]_vars
    PROVE  Typed'
<1>1. CASE TxStep
    <2>1. gas_used' \in 0..MaxGas
        <3>1. gas_limit[next] \in 0..MaxGas
            BY <1>1, OwnerFacts DEF Typed
        <3>2. gas_used' = gas_used \/ gas_used' \in gas_used..gas_limit[next]
            BY <1>1 DEF TxStep, Burn
        <3>3. gas_used \in 0..MaxGas
            BY DEF Typed
        <3> QED
            BY <3>1, <3>2, <3>3, StfAssumption
    <2>2. objects' \subseteq Minted /\ events' \subseteq Minted /\ unique_objects' \in Nat
        <3>1. CASE Mint(next, pc)
            <4>1. next \in Owners /\ pc \in Phases /\ next \in Txs
                BY <1>1, OwnerFacts
            <4> PICK o \in Minted : objects' = objects \cup {o} /\ events' = events \cup {o} /\ unique_objects' = unique_objects + 1
                BY <3>1, <4>1, MintFacts
            <4> QED
                BY DEF Typed
        <3>2. CASE ~Mint(next, pc)
            BY <1>1, <3>2 DEF TxStep, Typed
        <3> QED
            BY <3>1, <3>2
    <2>3. pc' \in Phases \cup {"pop_begin", "loop", "pop_bootstrap", "result", "pop_end", "done"}
        BY <1>1 DEF TxStep, InTx, Phases
    <2> QED
        BY <1>1, <2>1, <2>2, <2>3, OwnerFacts DEF TxStep, Typed
<1>2. CASE BlockerStep
    <2>1. objects' \subseteq Minted /\ events' \subseteq Minted /\ unique_objects' \in Nat
        <3>1. CASE Mint(0, "begin") \/ Mint(N + 1, "end")
            <4> PICK o \in Minted : objects' = objects \cup {o} /\ events' = events \cup {o} /\ unique_objects' = unique_objects + 1
                BY <3>1, MintFacts, OwnerFacts DEF Phases
            <4> QED
                BY DEF Typed
        <3>2. CASE Idle
            BY <3>2 DEF Idle, Typed
        <3> QED
            BY <1>2, <3>1, <3>2 DEF BlockerStep, DoBeginBlock, DoEndBlock
    <2>2. minted' \in Nat
        BY <1>2 DEF BlockerStep, DoBeginBlock, DoEndBlock, Mint, Idle, Typed
    <2> QED
        BY <1>2, <2>1, <2>2 DEF BlockerStep, DoBeginBlock, DoEndBlock, Typed, InTx, Phases
<1>3. CASE PopBeginEvents
    <2>1. result' \in BlockResult
        BY Zenon, <1>3 DEF PopBeginEvents, Typed, BlockResult
    <2> QED
        BY <1>3, <2>1 DEF PopBeginEvents, Typed, InTx
<1>4. CASE PopEndEvents
    <2>1. result' \in BlockResult
        BY Zenon, <1>4 DEF PopEndEvents, Typed, BlockResult
    <2> QED
        BY <1>4, <2>1 DEF PopEndEvents, Typed, InTx
<1>5. CASE PopBootstrapEvents
    BY <1>5 DEF PopBootstrapEvents, Typed, InTx, Phases
<1>6. CASE SkipTx
    <2>1. result.txs_skipped + 1 \in Int /\ result' = [result EXCEPT !.txs_skipped = result.txs_skipped + 1]
        BY <1>6, ResultFields DEF SkipTx
    <2>2. result' \in BlockResult
        BY Zenon, <2>1 DEF Typed, BlockResult
    <2> QED
        BY <1>6, <2>2, StfAssumption DEF SkipTx, Typed, InTx
<1>7. CASE StartTx
    BY <1>7, StfAssumption DEF StartTx, Typed, InTx, Phases, Responses, Txs
<1>8. CASE FinishTx
    <2>1. next' \in 1..N + 1
        BY SMTT(60), <1>8, FinishFacts, StfAssumption DEF Txs
    <2>2. pc' \in {"end", "loop"}
        BY <1>8, FinishFacts
    <2> QED
        BY Zenon, <1>8, <2>1, <2>2, FinishFacts DEF Typed, InTx, Phases
<1>9. CASE LoopEnds
    BY <1>9 DEF LoopEnds, Typed, InTx, Phases, state
<1>10. CASE UNCHANGED vars
    BY <1>10 DEF vars, Typed
<1> QED
    BY Zenon, <1>1, <1>2, <1>3, <1>4, <1>5, <1>6, <1>7, <1>8, <1>9, <1>10, Kinds DEF PopStep

(* Nothing but the end of a transaction touches the results. *)
LEMMA ResultsKept ==
    ASSUME Typed, TxStep \/ BlockerStep \/ PopStep \/ SkipTx \/ StartTx \/ LoopEnds \/ UNCHANGED vars
    PROVE  /\ result'.tx_results = result.tx_results /\ result'.gas_used = result.gas_used
           /\ gas_limit' = gas_limit
<1>1. CASE TxStep \/ BlockerStep \/ PopBootstrapEvents \/ StartTx \/ LoopEnds \/ UNCHANGED vars
    BY <1>1 DEF TxStep, BlockerStep, DoBeginBlock, DoEndBlock, PopBootstrapEvents, StartTx, LoopEnds, vars
<1>2. CASE PopBeginEvents
    BY <1>2 DEF PopBeginEvents, Typed, BlockResult
<1>3. CASE PopEndEvents
    BY <1>3 DEF PopEndEvents, Typed, BlockResult
<1>4. CASE SkipTx
    BY <1>4 DEF SkipTx, Typed, BlockResult
<1> QED
    BY SMTT(60), <1>1, <1>2, <1>3, <1>4 DEF PopStep

(* What a transaction may use is reserved before it starts, and what it    *)
(* used is charged when it ends.                                           *)
LEMMA GasStep ==
    ASSUME Typed, Reserved, GasWithinBlock, [Next]_vars
    PROVE  Reserved' /\ GasWithinBlock'
<1>1. CASE FinishTx
    <2>1. pc' \notin InTx
        BY Zenon, <1>1, FinishFacts DEF InTx
    <2>2. gas_used <= gas_limit[next] /\ Sat(result.gas_used + gas_limit[next]) <= BlockGasLimit
        BY Zenon, <1>1, FinishFacts DEF Reserved, InTx
    <2>3. result.gas_used \in Nat /\ gas_used \in Nat /\ gas_limit[next] \in Nat
        BY SMTT(60), <1>1, FinishFacts, ResultFields DEF Typed
    <2>4. Cumulative <= BlockGasLimit
        BY <2>2, <2>3, StfAssumption DEF Cumulative, Sat
    <2>5. TxResult.tx = next /\ TxResult.gas_used = gas_used
        BY Zenon DEF TxResult
    <2>6. ASSUME NEW i \in DOMAIN result'.tx_results
          PROVE  result'.tx_results[i].gas_used <= gas_limit'[result'.tx_results[i].tx]
        <3>1. CASE i = Len(result.tx_results) + 1
            BY Zenon, <1>1, <3>1, <2>2, <2>5, Appended, FinishFacts
        <3>2. CASE i \in DOMAIN result.tx_results
            <4>1. result'.tx_results[i] = result.tx_results[i] /\ gas_limit' = gas_limit
                BY Zenon, <1>1, <3>2, Appended, FinishFacts
            <4> QED
                BY Zenon, <3>2, <4>1 DEF GasWithinBlock
        <3> QED
            BY Zenon, <1>1, <3>1, <3>2, Appended
    <2>7. result'.gas_used <= BlockGasLimit
        BY <1>1, <2>4, FinishFacts
    <2> QED
        BY Zenon, <2>1, <2>6, <2>7 DEF Reserved, GasWithinBlock
<1>2. CASE TxStep \/ BlockerStep \/ PopStep \/ SkipTx \/ StartTx \/ LoopEnds \/ UNCHANGED vars
    <2>1. GasWithinBlock'
        BY <1>2, ResultsKept DEF GasWithinBlock
    <2>2. CASE TxStep
        <3>1. next' = next /\ pc \in InTx /\ (gas_used' = gas_used \/ gas_used' \in gas_used..gas_limit[next])
            BY <2>2, OwnerFacts DEF TxStep, Burn
        <3>2. gas_limit[next] \in Nat /\ gas_used \in Nat
            BY <2>2, OwnerFacts DEF Typed
        <3>3. gas_used' <= gas_limit[next]
            BY SMTT(60), <3>1, <3>2 DEF Reserved
        <3> QED
            BY Zenon, <1>2, <2>1, <3>1, <3>3, ResultsKept DEF Reserved
    <2>3. CASE StartTx
        <3>1. next' = next /\ next \in Txs /\ gas_used' = 0 /\ ~(Sat(result.gas_used + gas_limit[next]) > BlockGasLimit)
            BY SMTT(60), <2>3 DEF StartTx, WouldExceed, Typed, Txs
        <3>2. gas_limit[next] \in Nat /\ result.gas_used \in Nat
            BY <3>1, ResultFields DEF Typed
        <3>3. Sat(result.gas_used + gas_limit[next]) <= BlockGasLimit
            BY SMTT(60), <3>1, <3>2, StfAssumption DEF Sat
        <3> QED
            BY <1>2, <2>1, <3>1, <3>2, <3>3, ResultsKept DEF Reserved
    <2>4. CASE PopBootstrapEvents \/ UNCHANGED vars
        <3>1. next' = next /\ gas_used' = gas_used /\ (pc' \in InTx => pc \in InTx)
            BY <2>4 DEF PopBootstrapEvents, InTx, vars
        <3> QED
            BY Zenon, <1>2, <2>1, <3>1, ResultsKept DEF Reserved
    <2>5. CASE BlockerStep \/ PopBeginEvents \/ PopEndEvents \/ SkipTx \/ LoopEnds
        <3>1. pc' \notin InTx
            BY <2>5 DEF BlockerStep, DoBeginBlock, DoEndBlock, PopBeginEvents, PopEndEvents, SkipTx, LoopEnds, InTx
        <3> QED
            BY <2>1, <3>1 DEF Reserved
    <2> QED
        BY Zenon, <1>2, <2>2, <2>3, <2>4, <2>5 DEF PopStep
<1> QED
    BY Zenon, <1>1, <1>2, Kinds

(* Objects and pending events belong to whoever had their turn: a phase of *)
(* a transaction.                                                          *)
LEMMA TurnTxStep ==
    ASSUME Typed, InTurn, Pending, TxStep
    PROVE  InTurn' /\ Pending' /\ FailedExecUndone'
<1>1. next \in Txs /\ next' = next /\ pc \in InTx /\ pc' \in InTx /\ next # N + 1
    BY OwnerFacts, StfAssumption DEF TxStep, Txs
<1>2. /\ pc' \in {"resolve", "bootstrap", "pop_bootstrap"} => pc \in SenderPhases
      /\ pc \in {"post", "result"} => pc' \in {"post", "result"}
      /\ pc = "execute" => pc' = "post"
      /\ pc' = "post" => pc = "execute"
    BY DEF TxStep
<1>3. ASSUME NEW x \in objects
      PROVE  /\ x.by \in Txs => x.by <= next
             /\ x.by # N + 1
             /\ x.by = next /\ pc \in SenderPhases => x.phase \in SenderPhases
             /\ x.by = next /\ x.phase = "execute" => pc \in {"post", "result"}
    BY <1>1 DEF InTurn, InTx, SenderPhases
<1>4. /\ events \subseteq objects
      /\ \A x \in events : x.by = next
      /\ \A x \in objects \ events : x.by = next => x.phase \in SenderPhases
    BY <1>1 DEF Pending
<1>5. pc' \notin {"begin", "loop", "end", "done", "pop_begin", "pop_end"}
    BY <1>1 DEF InTx
<1>6. CASE Mint(next, pc) /\ (pc = "execute" => response' = "ok")
    <2> PICK o \in Minted :
            /\ o.by = next /\ o.phase = pc
            /\ objects' = objects \cup {o} /\ events' = events \cup {o}
        BY <1>1, <1>6, MintFacts, OwnerFacts
    <2>1. InTurn'
        <3> SUFFICES ASSUME NEW x \in objects'
                     PROVE  /\ x.by \in Txs => x.by <= next
                            /\ x.by # N + 1
                            /\ x.by = next =>
                                /\ pc' \in {"resolve", "bootstrap", "pop_bootstrap"} => x.phase \in SenderPhases
                                /\ x.phase = "execute" => pc' \in {"post", "result"}
            BY <1>1 DEF InTurn
        <3>1. CASE x = o
            BY <1>1, <1>2, <3>1 DEF Txs
        <3>2. CASE x \in objects
            BY <1>2, <1>3, <3>2
        <3> QED
            BY <3>1, <3>2
    <2>2. Pending'
        BY <1>1, <1>4, <1>5 DEF Pending
    <2>3. FailedExecUndone'
        BY <1>2, <1>6 DEF FailedExecUndone
    <2> QED
        BY <2>1, <2>2, <2>3
<1>7. CASE UNCHANGED <<objects, events>>
    <2>1. InTurn'
        BY <1>1, <1>2, <1>3, <1>7 DEF InTurn
    <2>2. Pending'
        BY <1>1, <1>4, <1>5, <1>7 DEF Pending
    <2>3. FailedExecUndone'
        BY Zenon, <1>1, <1>2, <1>3, <1>7 DEF FailedExecUndone
    <2> QED
        BY <2>1, <2>2, <2>3
<1> QED
    BY <1>6, <1>7 DEF TxStep

(* The same for the blockers. *)
LEMMA TurnBlockerStep ==
    ASSUME Typed, InTurn, Pending, BlockerStep
    PROVE  InTurn' /\ Pending' /\ FailedExecUndone'
<1>1. /\ pc' \in {"pop_begin", "pop_end"} /\ next' = next /\ events = {}
      /\ pc = "begin" <=> pc' = "pop_begin"
      /\ pc \notin InTx /\ pc' \notin InTx
    BY DEF BlockerStep, DoBeginBlock, DoEndBlock, Pending, InTx
<1>2. ASSUME NEW x \in objects
      PROVE  (x.by \in Txs => x.by < next) /\ x.by # N + 1
    BY <1>1 DEF InTurn, BlockerStep, DoBeginBlock, DoEndBlock
<1>3. CASE Idle
    <2>1. objects' = objects /\ events' = {}
        BY <1>1, <1>3 DEF Idle
    <2>2. InTurn'
        BY <1>1, <1>2, <2>1 DEF InTurn
    <2>3. Pending' /\ FailedExecUndone'
        BY <1>1, <2>1 DEF Pending, FailedExecUndone
    <2> QED
        BY <2>2, <2>3
<1>4. CASE pc = "begin" /\ Mint(0, "begin")
    <2> PICK o \in Minted : o.by = 0 /\ objects' = objects \cup {o} /\ events' = events \cup {o}
        BY <1>4, MintFacts, OwnerFacts DEF Phases
    <2>1. 0 \notin Txs /\ N + 1 # 0
        BY StfAssumption DEF Txs
    <2>2. InTurn'
        BY Zenon, <1>1, <1>2, <2>1 DEF InTurn
    <2>3. Pending' /\ FailedExecUndone'
        BY <1>1, <1>4 DEF Pending, FailedExecUndone
    <2> QED
        BY <2>2, <2>3
<1>5. CASE pc = "end" /\ Mint(N + 1, "end")
    <2> PICK o \in Minted : o.by = N + 1 /\ objects' = objects \cup {o} /\ events' = events \cup {o}
        BY <1>5, MintFacts, OwnerFacts DEF Phases
    <2>1. N + 1 \notin Txs /\ pc' = "pop_end"
        BY <1>1, <1>5, StfAssumption DEF Txs
    <2>2. InTurn'
        BY <1>1, <1>2, <2>1 DEF InTurn
    <2>3. Pending' /\ FailedExecUndone'
        BY <1>1, <2>1 DEF Pending, FailedExecUndone
    <2> QED
        BY Zenon, <2>2, <2>3
<1> QED
    BY <1>3, <1>4, <1>5 DEF BlockerStep, DoBeginBlock, DoEndBlock

(* The steps that pop the events, and those that go on to the next         *)
(* transaction.                                                            *)
LEMMA TurnOtherStep ==
    ASSUME Typed, InTurn, Pending, FailedExecUndone,
           PopStep \/ SkipTx \/ StartTx \/ FinishTx \/ LoopEnds \/ UNCHANGED vars
    PROVE  InTurn' /\ Pending' /\ FailedExecUndone'
<1>1. CASE PopBeginEvents \/ PopEndEvents
    <2>1. pc' \in {"loop", "done"} /\ events' = {} /\ objects' = objects /\ next' = next
          /\ pc \in {"pop_begin", "pop_end"} /\ (pc = "pop_end" <=> pc' = "done")
        BY <1>1 DEF PopBeginEvents, PopEndEvents
    <2>2. InTurn'
        BY <2>1 DEF InTurn, InTx
    <2> QED
        BY <2>1, <2>2 DEF Pending, FailedExecUndone, InTx
<1>2. CASE PopBootstrapEvents
    <2>1. pc = "pop_bootstrap" /\ pc' = "validate" /\ events' = {} /\ objects' = objects /\ next' = next
        BY <1>2 DEF PopBootstrapEvents
    <2>2. \A x \in objects : x.by = next => x.phase \in SenderPhases
        BY <2>1 DEF InTurn, InTx
    <2>3. InTurn'
        BY <2>1, <2>2 DEF InTurn, InTx, SenderPhases
    <2> QED
        BY <2>1, <2>2, <2>3 DEF Pending, FailedExecUndone, InTx
<1>3. CASE SkipTx
    <2>1. pc = "loop" /\ pc' = "loop" /\ events' = events /\ objects' = objects /\ next' = next + 1 /\ next \in Nat
        BY SMTT(60), <1>3 DEF SkipTx, Typed
    <2>2. ASSUME NEW x \in objects, x.by \in Txs
          PROVE  x.by < next + 1
        BY <2>1, <2>2 DEF InTurn, InTx, Txs
    <2>3. InTurn'
        BY <2>1, <2>2 DEF InTurn, InTx
    <2> QED
        BY <2>1, <2>3 DEF Pending, FailedExecUndone, InTx
<1>4. CASE StartTx
    <2>1. pc = "loop" /\ pc' = "resolve" /\ events' = {} /\ objects' = objects /\ next' = next /\ next \in Txs
        BY <1>4 DEF StartTx, Pending, Typed, Txs
    <2>2. ASSUME NEW x \in objects
          PROVE  (x.by \in Txs => x.by <= next) /\ x.by # next /\ x.by # N + 1
        <3>1. (x.by \in Txs => x.by < next) /\ x.by # N + 1
            BY <2>1 DEF InTurn, InTx
        <3> QED
            BY <2>1, <3>1 DEF Txs
    <2>3. InTurn'
        BY <2>1, <2>2 DEF InTurn, InTx
    <2> QED
        BY <2>1, <2>2, <2>3 DEF Pending, FailedExecUndone, InTx
<1>5. CASE FinishTx
    <2>1. pc = "result" /\ pc' \in {"loop", "end"} /\ events' = {} /\ objects' = objects /\ next' = next + 1 /\ next \in Txs
        BY <1>5, FinishFacts
    <2>2. ASSUME NEW x \in objects
          PROVE  (x.by \in Txs => x.by < next + 1) /\ x.by # N + 1
        <3>1. (x.by \in Txs => x.by <= next) /\ x.by # N + 1
            BY Zenon, <2>1 DEF InTurn, InTx
        <3> QED
            BY <2>1, <3>1 DEF Txs
    <2>3. InTurn'
        BY <2>1, <2>2 DEF InTurn, InTx
    <2> QED
        BY <2>1, <2>3 DEF Pending, FailedExecUndone, InTx
<1>6. CASE LoopEnds
    <2>1. pc = "loop" /\ pc' = "end" /\ events' = {} /\ objects' = objects /\ next' = next
        BY <1>6 DEF LoopEnds, Pending, state
    <2>2. InTurn'
        BY <2>1 DEF InTurn, InTx
    <2> QED
        BY <2>1, <2>2 DEF Pending, FailedExecUndone, InTx
<1>7. CASE UNCHANGED vars
    BY <1>7 DEF vars, InTurn, Pending, FailedExecUndone
<1> QED
    BY <1>1, <1>2, <1>3, <1>4, <1>5, <1>6, <1>7 DEF PopStep

(* No step removes an object, and a new one is not a finished              *)
(* transaction's.                                                          *)
LEMMA NewObjects ==
    ASSUME Typed, [Next]_vars
    PROVE  objects \subseteq objects' /\ \A o \in objects' \ objects : o.by = next \/ o.by \notin Txs
<1>1. CASE TxStep
    BY <1>1, MintFacts, OwnerFacts DEF TxStep
<1>2. CASE BlockerStep
    <2>1. 0 \notin Txs /\ N + 1 \notin Txs
        BY StfAssumption DEF Txs
    <2>2. CASE Mint(0, "begin")
        BY <2>1, <2>2, MintFacts, OwnerFacts DEF Phases
    <2>3. CASE Mint(N + 1, "end")
        BY <2>1, <2>3, MintFacts, OwnerFacts DEF Phases
    <2>4. CASE Idle
        BY <2>4 DEF Idle
    <2> QED
        BY Zenon, <1>2, <2>2, <2>3, <2>4 DEF BlockerStep, DoBeginBlock, DoEndBlock
<1>3. CASE PopStep
    BY <1>3 DEF PopStep, PopBeginEvents, PopBootstrapEvents, PopEndEvents
<1>4. CASE SkipTx \/ StartTx \/ FinishTx \/ LoopEnds \/ UNCHANGED vars
    BY <1>4 DEF SkipTx, StartTx, FinishTx, LoopEnds, vars, state
<1> QED
    BY Zenon, <1>1, <1>2, <1>3, <1>4, Kinds

Reports(r, objs) ==
    /\ \A o \in r.events : o \in objs /\ o.by = r.tx
    /\ \A o \in objs \ r.events : o.by = r.tx => o.phase \in SenderPhases

(* EventsMatchState, result by result. *)
LEMMA EventsByResult ==
    EventsMatchState <=>
        /\ \A i \in DOMAIN result.tx_results : Reports(result.tx_results[i], objects)
        /\ \A o \in result.begin_block_events : o.by = 0
        /\ \A o \in result.end_block_events : o.by = N + 1
    BY DEF EventsMatchState, Reports, SenderPhases

(* A result keeps telling the truth once its transaction is over. *)
LEMMA ReportsKept ==
    ASSUME Typed, Past, [Next]_vars, NEW i \in DOMAIN result.tx_results,
           Reports(result.tx_results[i], objects)
    PROVE  Reports(result.tx_results[i], objects')
<1>1. result.tx_results[i].tx \in Txs /\ result.tx_results[i].tx # next
    BY SMTT(60), ResultFields DEF Past, Typed
<1> QED
    BY Zenon, <1>1, NewObjects DEF Reports

(* Every step keeps the events of the results those of the state.          *)
LEMMA EventsStep ==
    ASSUME Typed, InTurn, Pending, Past, EventsMatchState, [Next]_vars
    PROVE  EventsMatchState'
<1>1. \A i \in DOMAIN result.tx_results : Reports(result.tx_results[i], objects')
    BY EventsByResult, ReportsKept
<1>2. \A i \in DOMAIN result'.tx_results : Reports(result'.tx_results[i], objects')
    <2>1. CASE FinishTx
        <3>1. pc \in InTx /\ objects' = objects /\ TxResult.tx = next /\ TxResult.events = events
            BY <2>1, FinishFacts DEF TxResult, InTx
        <3>2. Reports(TxResult, objects')
            BY <3>1 DEF Reports, Pending
        <3> QED
            BY SMTT(60), <1>1, <2>1, <3>2, Appended
    <2>2. CASE ~FinishTx
        BY Zenon, <1>1, <2>2, Kinds, ResultsKept
    <2> QED
        BY <2>1, <2>2
<1>3. (\A o \in result'.begin_block_events : o.by = 0) /\ (\A o \in result'.end_block_events : o.by = N + 1)
    <2>1. CASE PopBeginEvents
        <3>1. result'.begin_block_events = events /\ result'.end_block_events = result.end_block_events
            BY <2>1 DEF PopBeginEvents, Typed, BlockResult
        <3> QED
            BY <2>1, <3>1, EventsByResult DEF PopBeginEvents, Pending
    <2>2. CASE PopEndEvents
        <3>1. result'.end_block_events = events /\ result'.begin_block_events = result.begin_block_events
            BY SMTT(60), <2>2 DEF PopEndEvents, Typed, BlockResult
        <3> QED
            BY <2>2, <3>1, EventsByResult DEF PopEndEvents, Pending
    <2>3. CASE FinishTx
        BY <2>3, FinishFacts, EventsByResult
    <2>4. CASE SkipTx
        <3>1. result'.end_block_events = result.end_block_events /\ result'.begin_block_events = result.begin_block_events
            BY Zenon, <2>4 DEF SkipTx, Typed, BlockResult
        <3> QED
            BY <3>1, EventsByResult
    <2>5. CASE TxStep \/ BlockerStep \/ PopBootstrapEvents \/ StartTx \/ LoopEnds \/ UNCHANGED vars
        <3>1. result' = result
            BY <2>5 DEF TxStep, BlockerStep, DoBeginBlock, DoEndBlock, PopBootstrapEvents, StartTx, LoopEnds, vars
        <3> QED
            BY Zenon, <3>1, EventsByResult
    <2> QED
        BY <2>1, <2>2, <2>3, <2>4, <2>5, Kinds DEF PopStep
<1> QED
    BY <1>2, <1>3 DEF EventsMatchState, Reports, SenderPhases

-----------------------------------------------------------------------------
(* What is left unfit stays unfit: the gas the block has used only grows. *)
LEMMA UnfitStays ==
    ASSUME Typed, [Next]_vars, NEW t \in Txs, Unfit(t)
    PROVE  Unfit(t)'
<1>1. CASE FinishTx
    <2>1. result'.gas_used = Sat(result.gas_used + gas_used) /\ gas_limit' = gas_limit
        BY Zenon, <1>1, FinishFacts DEF Cumulative
    <2>2. result.gas_used \in 0..MaxU64 /\ gas_used \in Nat /\ gas_limit[t] \in Nat
        BY ResultFields DEF Typed
    <2> QED
        BY SMTT(60), <2>1, <2>2, StfAssumption DEF Unfit, Sat
<1>2. CASE ~FinishTx
    BY Zenon, <1>2, Kinds, ResultsKept DEF Unfit
<1> QED
    BY Zenon, <1>1, <1>2

(* The results come in block order and miss only what did not fit. *)
LEMMA OrderStep ==
    ASSUME Typed, Past, Ordered, PassedOver, [Next]_vars
    PROVE  Past' /\ Ordered' /\ PassedOver'
<1> USE DEF Txs
<1>1. CASE FinishTx
    <2>1. next \in Nat /\ next' = next + 1 /\ TxResult.tx = next
        BY SMTT(60), <1>1, FinishFacts DEF TxResult
    <2>2. \A i \in DOMAIN result.tx_results : result.tx_results[i].tx \in Nat /\ result.tx_results[i].tx < next
        BY SMTT(60), ResultFields DEF Past
    <2>3. Past'
        BY SMTT(60), <1>1, <2>1, <2>2, Appended DEF Past
    <2>4. Ordered'
        <3> SUFFICES ASSUME NEW i \in DOMAIN result'.tx_results, NEW j \in DOMAIN result'.tx_results, i < j
                     PROVE  result'.tx_results[i].tx < result'.tx_results[j].tx
            BY DEF Ordered
        <3>1. i \in DOMAIN result.tx_results
            BY <1>1, Appended
        <3>2. CASE j \in DOMAIN result.tx_results
            BY Zenon, <1>1, <3>1, <3>2, Appended DEF Ordered
        <3>3. CASE j = Len(result.tx_results) + 1
            BY Zenon, <1>1, <2>1, <2>2, <3>1, <3>3, Appended
        <3> QED
            BY <1>1, <3>2, <3>3, Appended
    <2>5. Executed' = Executed \cup {next}
        BY SMTT(60), <1>1, <2>1, Appended DEF Executed
    <2>6. ASSUME NEW t \in Txs \ Executed', t < next' \/ pc' \in AtEnd
          PROVE  Unfit(t)'
        <3>1. t \notin Executed /\ t # next
            BY <2>5
        <3>2. CASE t < next
            BY Zenon, <3>1, <3>2, UnfitStays DEF PassedOver
        <3>3. CASE pc' \in AtEnd
            <4>1. Cumulative >= BlockGasLimit
                BY Zenon, <1>1, <3>3, FinishFacts DEF AtEnd
            <4> QED
                BY Zenon, <1>1, <4>1, FinishFacts DEF Unfit
        <3> QED
            BY <2>1, <2>6, <3>1, <3>2, <3>3
    <2> QED
        BY Zenon, <2>3, <2>4, <2>6 DEF PassedOver
<1>2. CASE SkipTx
    <2>1. next \in Txs /\ next' = next + 1 /\ pc = "loop" /\ pc' = "loop" /\ WouldExceed
        BY <1>2 DEF SkipTx, Typed
    <2>2. result'.tx_results = result.tx_results
        BY Zenon, <1>2, ResultsKept
    <2>3. \A i \in DOMAIN result.tx_results : result.tx_results[i].tx \in Nat /\ result.tx_results[i].tx < next
        BY ResultFields DEF Past
    <2>4. ASSUME NEW t \in Txs \ Executed, t < next + 1
          PROVE  Unfit(t)
        <3>1. CASE t = next
            BY <2>1, <3>1 DEF WouldExceed, Unfit
        <3>2. CASE t < next
            BY <3>2 DEF PassedOver
        <3> QED
            BY SMTT(60), <2>1, <2>4, <3>1, <3>2
    <2>5. Executed' = Executed
        BY <2>2 DEF Executed
    <2>6. PassedOver'
        BY Zenon, <2>1, <2>4, <2>5, UnfitStays DEF PassedOver, AtEnd
    <2> QED
        BY <2>1, <2>2, <2>3, <2>6 DEF Past, Ordered
<1>3. CASE TxStep \/ BlockerStep \/ PopStep \/ StartTx \/ LoopEnds \/ UNCHANGED vars
    <2>1. result'.tx_results = result.tx_results /\ next' = next
        BY <1>3, ResultsKept DEF TxStep, BlockerStep, DoBeginBlock, DoEndBlock, PopStep, PopBeginEvents,
           PopBootstrapEvents, PopEndEvents, StartTx, LoopEnds, vars
    <2>2. Executed' = Executed
        BY <2>1 DEF Executed
    <2>3. ASSUME NEW t \in Txs, t < next' \/ pc' \in AtEnd
          PROVE  t < next \/ pc \in AtEnd
        <3>1. CASE LoopEnds
            <4>1. next > N /\ next \in Nat
                BY <3>1 DEF LoopEnds, Typed
            <4> QED
                BY <4>1, StfAssumption
        <3>2. CASE TxStep \/ BlockerStep \/ PopStep \/ StartTx \/ UNCHANGED vars
            <4>1. pc' \in AtEnd => pc \in AtEnd
                BY <3>2 DEF TxStep, InTx, BlockerStep, DoBeginBlock, DoEndBlock, PopStep, PopBeginEvents,
                   PopBootstrapEvents, PopEndEvents, StartTx, vars, AtEnd
            <4> QED
                BY Zenon, <2>1, <2>3, <4>1
        <3> QED
            BY <1>3, <3>1, <3>2
    <2>4. PassedOver'
        BY <2>2, <2>3, UnfitStays DEF PassedOver
    <2> QED
        BY Zenon, <2>1, <2>4 DEF Past, Ordered
<1> QED
    BY Zenon, <1>1, <1>2, <1>3, Kinds

-----------------------------------------------------------------------------
(* A block that has not begun satisfies the invariant.                     *)
LEMMA InvInit == Init => Inv
<1> SUFFICES ASSUME Init PROVE Inv
    BY Zenon
<1>1. /\ result.tx_results = << >> /\ result.gas_used = 0
      /\ result.begin_block_events = {} /\ result.end_block_events = {}
    BY Zenon DEF Init
<1>2. result \in BlockResult
    BY StfAssumption DEF Init, BlockResult
<1>3. Typed
    BY SMTT(60), <1>2, StfAssumption DEF Init, Typed, Phases, Responses, InTx
<1>4. Numbered /\ UniqueIdsDistinct /\ InTurn /\ Pending /\ FailedExecUndone /\ Reserved
    BY Zenon DEF Init, Numbered, UniqueIdsDistinct, InTurn, Pending, FailedExecUndone, Reserved, InTx
<1>5. GasWithinBlock /\ EventsMatchState /\ Past /\ Ordered
    BY <1>1, StfAssumption DEF GasWithinBlock, EventsMatchState, Past, Ordered
<1>6. PassedOver
    BY DEF Init, PassedOver, AtEnd, Txs
<1> QED
    BY <1>3, <1>4, <1>5, <1>6 DEF Inv

(* Every step keeps the invariant.                                         *)
LEMMA InvStep == Inv /\ [Next]_vars => Inv'
<1> SUFFICES ASSUME Inv, [Next]_vars PROVE Inv'
    OBVIOUS
<1> USE DEF Inv
<1>1. Typed'
    BY TypeStep
<1>2. Numbered' /\ UniqueIdsDistinct'
    BY NumbersStep
<1>3. Reserved' /\ GasWithinBlock'
    BY GasStep
<1>4. InTurn' /\ Pending' /\ FailedExecUndone'
    BY Kinds, TurnTxStep, TurnBlockerStep, TurnOtherStep
<1>5. EventsMatchState'
    BY EventsStep
<1>6. Past' /\ Ordered' /\ PassedOver'
    BY OrderStep
<1> QED
    BY <1>1, <1>2, <1>3, <1>4, <1>5, <1>6

(* The invariant holds in every reachable state.                           *)
LEMMA InvHolds == Spec => []Inv
    BY InvInit, InvStep, PTL DEF Spec

(* For blocks of any size: no two objects in the state carry the same      *)
(* unique id (Invoker::unique_id).                                         *)
THEOREM IdsStayDistinct == Spec => []UniqueIdsDistinct
<1>1. Inv => UniqueIdsDistinct
    BY DEF Inv
<1> QED
    BY <1>1, InvHolds, PTL

(* For any gas limits, the saturation at the top of u64 included: a block  *)
(* stays within its gas limit and a transaction within its own             *)
(* (apply_block, GasCounter::consume_gas).                                 *)
THEOREM GasStaysWithinBlock == Spec => []GasWithinBlock
<1>1. Inv => GasWithinBlock
    BY DEF Inv
<1> QED
    BY <1>1, InvHolds, PTL

(* For blocks of any size and any failures: the results of a block tell    *)
(* what is in the state, and nothing that would have fitted was skipped    *)
(* (apply_block, apply_tx and do_exec).                                    *)
THEOREM ResultsAlwaysTellState == Spec => []ResultsTellState
<1>1. Inv => ResultsTellState
    BY DEF Inv, ResultsTellState, NoNeedlessSkip, Ordered, PassedOver, Unfit, AtEnd
<1> QED
    BY <1>1, InvHolds, PTL
=============================================================================
