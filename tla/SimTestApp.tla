------------------------------ MODULE SimTestApp ------------------------------
(***************************************************************************)
(* The simulated application (bin/testapp/src/sim_testing.rs) with the     *)
(* traffic that DynamicAccountTransferGenerator makes for it: signed token *)
(* transfers go through the mempool into blocks, while the generator keeps *)
(* books of its own on who can pay and the application counts nonces.      *)
(* Tests make transactions, accounts and blocks of their own beside it,    *)
(* and may record a trace of the blocks for the debugger.                  *)
(*                                                                         *)
(* Every transfer has the same fees, so the mempool hands out lower nonces *)
(* first, of whatever sender (Mempool, Higher).  A block has gas for as    *)
(* many transactions as it may hold.  The accounts check nonces            *)
(* (bin/testapp/src/eth_eoa.rs); a transfer that fails keeps its nonce     *)
(* (Stf, Invoker).  A sender without an account gets one with its first    *)
(* transaction, and one with another code is refused.                      *)
(***************************************************************************)
EXTENDS Integers, Sequences, FiniteSets, FiniteSetsExt, SequencesExt

CONSTANTS
    Signers,      \* the accounts of genesis, in order
    Initial,      \* their balances
    Fresh,        \* accounts that may be created, in order
    Faucet,
    MinAmount, MaxAmount, FundingAmount, CreateEveryNBlocks, MaxNewAccounts,
    MaxTxs,       \* max_txs_per_block
    MaxHeight,    \* bound on the blocks
    MaxOutside    \* bound on transfers and accounts made by the test itself

VARIABLES
    height,     \* of the simulator
    nonces,     \* SimTestApp.nonces: the next nonce of every signer
    mempool,
    chain,      \* in storage: balances, nonces of the EOAs, accounts with another code
    generator,  \* participants, balances and number of created accounts
    round,      \* the block being generated or produced, and the trace of the blocks before it
    outside,    \* what the test did besides the generator (ghost)
    failed      \* transactions refused for their nonce or code, failed ones, tokens minted,
                \* and senders of whose nonces one was passed over (ghost)
vars == <<height, nonces, mempool, chain, generator, round, outside, failed>>

Idle == [pc |-> "idle", trace |-> <<>>]

\* DynamicAccountTransferGenerator::new
NewGenerator == [participants |-> Signers, balances |-> Initial, created |-> 0]
EveryNBlocks == Max({CreateEveryNBlocks, 1})

Init ==
    /\ height = 0
    /\ nonces = [a \in DOMAIN Initial |-> 0]
    /\ mempool = {}
    /\ chain = [balances |-> Initial, nonces |-> nonces, foreign |-> {}]
    /\ generator = NewGenerator
    /\ round = Idle
    /\ outside = 0
    /\ failed = [nonce |-> 0, code |-> 0, transfer |-> 0, minted |-> 0, passed |-> {}]

-----------------------------------------------------------------------------
Added(f, a, v) == [x \in DOMAIN f \cup {a} |-> IF x = a THEN v ELSE f[x]]
SaturatingSub(a, b) == IF b > a THEN 0 ELSE a - b

Moved(b, from, to, amount) ==
    LET debited == [b EXCEPT ![from] = SaturatingSub(@, amount)]
    IN [debited EXCEPT ![to] = @ + amount]

(* record_transfer. *)
RecordTransfer(b, from, to, amount) == Moved(b, from, to, amount)

(* A signer has a key and a nonce; create_eoa gives it an account as well. *)
NumCreated == Cardinality(DOMAIN nonces) - Cardinality(DOMAIN Initial)
NextFresh == Fresh[NumCreated + 1]
CreateSigner(a, from, next) == nonces' = Added([nonces EXCEPT ![from] = next], a, 0)
CreateEoa(a, from, next) ==
    /\ CreateSigner(a, from, next)
    /\ chain' = [chain EXCEPT !.balances = Added(@, a, 0), !.nonces = Added(@, a, 0)]

(* build_token_transfer_tx takes the sender's next nonce.                  *)
Tx(from, to, amount) == [from |-> from, to |-> to, amount |-> amount, nonce |-> nonces[from]]

-----------------------------------------------------------------------------
(* run_blocks_with_registry: max_txs_per_block tries at a transaction.     *)
BeginRound ==
    /\ round.pc = "idle" /\ height < MaxHeight
    /\ round' = [pc |-> "generate", left |-> MaxTxs, txs |-> <<>>, traced |-> FALSE, trace |-> <<>>]
    /\ UNCHANGED <<height, nonces, mempool, chain, generator, outside, failed>>

Tried(txs) == round' = [round EXCEPT !.left = @ - 1, !.txs = @ \o txs]

MayCreate ==
    /\ generator.created < MaxNewAccounts
    /\ height % EveryNBlocks = 0
    /\ generator.balances[Faucet] >= FundingAmount

MaybeCreateAndFund ==
    /\ round.pc = "generate" /\ round.left > 0 /\ MayCreate
    /\ LET a == NextFresh
       IN /\ CreateEoa(a, Faucet, nonces[Faucet] + 1)
          /\ generator' = [participants |-> Append(generator.participants, a),
                           created |-> generator.created + 1,
                           balances |-> RecordTransfer(Added(generator.balances, a, 0), Faucet, a, FundingAmount)]
          /\ Tried(<<Tx(Faucet, a, FundingAmount)>>)
    /\ UNCHANGED <<height, mempool, outside, failed>>

Funded == {a \in ToSet(generator.participants) : generator.balances[a] >= MinAmount}

(* The recipient is drawn until it is not the sender, and is the first     *)
(* participant after as many draws as there are participants.              *)
Recipients(sender) == (ToSet(generator.participants) \ {sender}) \cup {Head(generator.participants)}

GenerateTx ==
    /\ round.pc = "generate" /\ round.left > 0 /\ ~MayCreate
    /\ IF Funded = {} \/ Len(generator.participants) < 2 \/ MinAmount > MaxAmount
       THEN Tried(<<>>) /\ UNCHANGED <<nonces, generator>>
       ELSE \E sender \in Funded : \E recipient \in Recipients(sender),
                                 amount \in MinAmount..Min({generator.balances[sender], MaxAmount}) :
                /\ nonces' = [nonces EXCEPT ![sender] = @ + 1]
                /\ generator' = [generator EXCEPT !.balances = RecordTransfer(@, sender, recipient, amount)]
                /\ Tried(<<Tx(sender, recipient, amount)>>)
    /\ UNCHANGED <<height, mempool, chain, outside, failed>>

Proposing(max, traced, trace) == [pc |-> "propose", max |-> max, traced |-> traced, trace |-> trace]

(* Every transaction of the round is submitted, and the mempool asked for  *)
(* a block's worth.                                                        *)
SubmitRound ==
    /\ round.pc = "generate" /\ round.left = 0
    /\ mempool' = mempool \cup ToSet(round.txs)
    /\ round' = Proposing(MaxTxs, round.traced, round.trace)
    /\ UNCHANGED <<height, nonces, chain, generator, outside, failed>>

-----------------------------------------------------------------------------
(* A test that builds and submits a transfer, or creates an account, or    *)
(* mints, itself.                                                          *)
Outside ==
    /\ round.pc = "idle" /\ outside < MaxOutside
    /\ outside' = outside + 1

SubmitRawTx(sender, recipient, amount) ==
    /\ Outside
    /\ mempool' = mempool \cup {Tx(sender, recipient, amount)}
    /\ nonces' = [nonces EXCEPT ![sender] = @ + 1]
    /\ round' = Idle
    /\ UNCHANGED <<height, chain, generator, failed>>

CreateAccount ==
    /\ Outside /\ NumCreated < Len(Fresh)
    /\ CreateEoa(NextFresh, Faucet, nonces[Faucet])
    /\ round' = Idle
    /\ UNCHANGED <<height, mempool, generator, failed>>

CreateSignerWithoutAccount ==
    /\ Outside /\ NumCreated < Len(Fresh)
    /\ CreateSigner(NextFresh, Faucet, nonces[Faucet])
    /\ chain' = [chain EXCEPT !.balances = Added(@, NextFresh, 0)]
    /\ round' = Idle
    /\ UNCHANGED <<height, mempool, generator, failed>>

CreateSignerWithCode ==
    /\ Outside /\ NumCreated < Len(Fresh)
    /\ CreateSigner(NextFresh, Faucet, nonces[Faucet])
    /\ chain' = [chain EXCEPT !.balances = Added(@, NextFresh, 0), !.foreign = @ \cup {NextFresh}]
    /\ round' = Idle
    /\ UNCHANGED <<height, mempool, generator, failed>>

(* mint_atom, as the minter.                                               *)
MintAtom(recipient, amount) ==
    /\ Outside
    /\ chain' = [chain EXCEPT !.balances[recipient] = @ + amount]
    /\ failed' = [failed EXCEPT !.minted = @ + amount]
    /\ round' = Idle
    /\ UNCHANGED <<height, nonces, mempool, generator>>

(* next_block and go_to_height: the clock moves, and nothing is executed.  *)
GoToHeight(h) ==
    /\ Outside /\ height < h
    /\ height' = h /\ round' = Idle
    /\ UNCHANGED <<nonces, mempool, chain, generator, failed>>

ProduceBlockFromMempool(max) ==
    /\ round.pc = "idle" /\ height < MaxHeight
    /\ round' = Proposing(max, FALSE, <<>>)
    /\ UNCHANGED <<height, nonces, mempool, chain, generator, outside, failed>>

SubmitTransferAndProduceBlock(sender, recipient, amount) ==
    /\ Outside /\ height < MaxHeight
    /\ mempool' = mempool \cup {Tx(sender, recipient, amount)}
    /\ nonces' = [nonces EXCEPT ![sender] = @ + 1]
    /\ round' = Proposing(1, FALSE, <<>>)
    /\ UNCHANGED <<height, chain, generator, failed>>

(* A block of transactions that go past the mempool, and whatever waits    *)
(* there of the same sender.                                               *)
Applying(block, traced, trace) ==
    [pc |-> "apply", block |-> block, next |-> 1, traced |-> traced, trace |-> trace,
     before |-> chain, touched |-> {}, ok |-> <<>>]
Waiting(sender) == {t \in mempool : t.from = sender}

ProduceBlockWithTxs(sender, recipient, amount) ==
    /\ Outside /\ height < MaxHeight
    /\ nonces' = [nonces EXCEPT ![sender] = @ + 1]
    /\ round' = Applying(<<Tx(sender, recipient, amount)>>, FALSE, <<>>)
    /\ failed' = IF Waiting(sender) = {} THEN failed ELSE [failed EXCEPT !.passed = @ \cup {sender}]
    /\ UNCHANGED <<height, mempool, chain, generator>>

(* run_blocks_with and run_blocks_with_trace: the test makes transactions, *)
(* of which a block's worth is submitted.                                  *)
RunBlock(traced) ==
    /\ round.pc = "idle" /\ height < MaxHeight
    /\ round' = [pc |-> "make", txs |-> <<>>, traced |-> traced, trace |-> IF traced THEN round.trace ELSE <<>>]
    /\ UNCHANGED <<height, nonces, mempool, chain, generator, outside, failed>>

MakeTx(sender, recipient, amount) ==
    /\ round.pc = "make" /\ outside < MaxOutside
    /\ nonces' = [nonces EXCEPT ![sender] = @ + 1]
    /\ round' = [round EXCEPT !.txs = Append(@, Tx(sender, recipient, amount))]
    /\ outside' = outside + 1
    /\ UNCHANGED <<height, mempool, chain, generator, failed>>

SubmitMade ==
    /\ round.pc = "make"
    /\ LET kept == SubSeq(round.txs, 1, Min({MaxTxs, Len(round.txs)}))
           dropped == ToSet(round.txs) \ ToSet(kept)
       IN /\ mempool' = mempool \cup ToSet(kept)
          /\ failed' = [failed EXCEPT !.passed = @ \cup {t.from : t \in dropped}]
    /\ round' = Proposing(MaxTxs, round.traced, round.trace)
    /\ UNCHANGED <<height, nonces, chain, generator, outside>>

-----------------------------------------------------------------------------
InOrder(s) == \A i, j \in DOMAIN s : i < j => s[i] # s[j] /\ s[i].nonce <= s[j].nonce

(* propose_mempool_batch. *)
Propose ==
    /\ round.pc = "propose"
    /\ LET n == Min({round.max, Cardinality(mempool)})
       IN \E s \in [1..n -> mempool] :
            /\ InOrder(s)
            /\ \A t \in mempool \ ToSet(s) : \A i \in 1..n : s[i].nonce <= t.nonce
            /\ round' = Applying(s, round.traced, round.trace)
    /\ UNCHANGED <<height, nonces, mempool, chain, generator, outside, failed>>

(* authenticate_canonical_tx: neither too low nor too high. *)
NonceOf(a) == IF a \in DOMAIN chain.nonces THEN chain.nonces[a] ELSE 0
Authenticate(tx) == NonceOf(tx.from) = tx.nonce

Pays(tx) == chain.balances[tx.from] >= tx.amount

(* The keys that a transaction leaves written.                             *)
Writes(tx) ==
    IF tx.from \in chain.foreign THEN {}
    ELSE (IF Authenticate(tx) \/ tx.from \notin DOMAIN chain.nonces THEN {<<"nonce", tx.from>>} ELSE {})
         \cup IF Authenticate(tx) /\ Pays(tx) THEN {<<"balance", tx.from>>, <<"balance", tx.to>>} ELSE {}

(* apply_block_and_commit, transaction by transaction: a sender that has   *)
(* no account gets one before it is asked to authenticate.                 *)
ApplyTx ==
    /\ round.pc = "apply" /\ round.next <= Len(round.block)
    /\ LET tx == round.block[round.next]
           ok == tx.from \notin chain.foreign /\ Authenticate(tx) /\ Pays(tx)
           balances == IF Pays(tx) THEN Moved(chain.balances, tx.from, tx.to, tx.amount) ELSE chain.balances
       IN /\ CASE tx.from \in chain.foreign ->
                    /\ failed' = [failed EXCEPT !.code = @ + 1]
                    /\ UNCHANGED chain
               [] tx.from \notin chain.foreign /\ Authenticate(tx) ->
                    /\ chain' = [chain EXCEPT !.balances = balances, !.nonces = Added(@, tx.from, tx.nonce + 1)]
                    /\ failed' = IF Pays(tx) THEN failed ELSE [failed EXCEPT !.transfer = @ + 1]
               [] OTHER ->
                    /\ chain' = [chain EXCEPT !.nonces = Added(@, tx.from, NonceOf(tx.from))]
                    /\ failed' = [failed EXCEPT !.nonce = @ + 1]
          /\ round' = [round EXCEPT !.next = @ + 1, !.touched = @ \cup Writes(tx), !.ok = Append(@, ok)]
    /\ UNCHANGED <<height, nonces, mempool, generator, outside>>

(* apply_block_with_trace: the changes of the whole block between the      *)
(* starts and the ends of all its transactions.                            *)
ValueIn(state, key) ==
    IF key[1] = "balance" THEN state.balances[key[2]]
    ELSE IF key[2] \in DOMAIN state.nonces THEN state.nonces[key[2]] ELSE -1
Change(key) ==
    [kind |-> "StateChange", key |-> key, old_value |-> ValueIn(round.before, key), new_value |-> ValueIn(chain, key)]
BlockTrace ==
    <<[kind |-> "BlockStart", height |-> height]>>
    \o [i \in DOMAIN round.block |-> [kind |-> "TxStart", tx |-> round.block[i]]]
    \o SetToSeq({Change(key) : key \in round.touched})
    \o [i \in DOMAIN round.block |-> [kind |-> "TxEnd", tx |-> round.block[i], success |-> round.ok[i]]]
    \o <<[kind |-> "BlockEnd", height |-> height]>>

(* finalize_proposed_batch, and the clock moves to the next block. *)
FinalizeBatch ==
    /\ round.pc = "apply" /\ round.next > Len(round.block)
    /\ mempool' = mempool \ ToSet(round.block)
    /\ height' = height + 1
    /\ round' = [Idle EXCEPT !.trace = IF round.traced THEN round.trace \o BlockTrace ELSE @]
    /\ UNCHANGED <<nonces, chain, generator, outside, failed>>

(* query changes nothing, and is always answered. *)
Query == round.pc = "idle" /\ UNCHANGED vars

Next ==
    \/ Query
    \/ BeginRound \/ MaybeCreateAndFund \/ GenerateTx \/ SubmitRound
    \/ \E a, b \in DOMAIN nonces : \E amount \in {MinAmount, MaxAmount} :
        \/ SubmitRawTx(a, b, amount) \/ SubmitTransferAndProduceBlock(a, b, amount)
        \/ ProduceBlockWithTxs(a, b, amount) \/ MakeTx(a, b, amount)
    \/ \E a \in DOMAIN nonces : MintAtom(a, MaxAmount)
    \/ CreateAccount \/ CreateSignerWithoutAccount \/ CreateSignerWithCode
    \/ \E h \in 1..MaxHeight : GoToHeight(h)
    \/ (\E traced \in BOOLEAN : RunBlock(traced)) \/ SubmitMade
    \/ \E max \in 1..MaxTxs : ProduceBlockFromMempool(max)
    \/ Propose \/ ApplyTx \/ FinalizeBatch

Spec == Init /\ [][Next]_vars

-----------------------------------------------------------------------------
Total(b) == MapThenSumSet(LAMBDA a : b[a], DOMAIN b)

(* Between blocks, the nonce that the application will give next is the    *)
(* one that the account expects, once what waits in the mempool has been   *)
(* executed, and no transaction was ever refused for its nonce: the        *)
(* mempool's order over several senders and blocks keeps each sender's.    *)
(* Not so of a sender of whose nonces one was passed over.                 *)
NoncesInStep ==
    /\ failed.passed = {} => failed.nonce = 0
    /\ round.pc = "idle" => \A a \in DOMAIN nonces \ (chain.foreign \cup failed.passed) :
        nonces[a] = NonceOf(a) + Cardinality(Waiting(a))

(* Transfers create and destroy nothing, on the chain and in the books of  *)
(* the generator ("Total supply must be preserved across transfers").      *)
SupplyPreserved ==
    /\ Total(chain.balances) = Total(Initial) + failed.minted
    /\ Total(generator.balances) = Total(Initial)

(* Whoever replays the trace of a run arrives at what the chain has under  *)
(* the keys that the run has written, and every change began with the      *)
(* value at which the one before it had ended.                             *)
TraceReplays ==
    round.pc = "idle" =>
        /\ \A i \in DOMAIN round.trace : round.trace[i].kind = "StateChange" =>
            LET key == round.trace[i].key
                Later == {j \in (i + 1)..Len(round.trace) :
                            round.trace[j].kind = "StateChange" /\ round.trace[j].key = key}
            IN round.trace[i].new_value = IF Later = {} THEN ValueIn(chain, key) ELSE round.trace[Min(Later)].old_value
        /\ Cardinality({i \in DOMAIN round.trace : round.trace[i].kind = "TxStart"})
             = Cardinality({i \in DOMAIN round.trace : round.trace[i].kind = "TxEnd"})

(* Between blocks the books of the generator are the balances of the       *)
(* chain, unless a transfer failed or the test made some of its own.       *)
BooksAgree ==
    round.pc = "idle" /\ failed.transfer = 0 /\ outside = 0 =>
        \A a \in ToSet(generator.participants) : generator.balances[a] = chain.balances[a]

(* "New accounts are then included in future transfer traffic": what the   *)
(* books say an account can pay, it can.  Violated when an account is      *)
(* funded and pays in one block: its nonce is lower than the faucet's, so  *)
(* the mempool hands out its transfer first.                               *)
BookedIsPaid == outside = 0 => failed.transfer = 0
=============================================================================
