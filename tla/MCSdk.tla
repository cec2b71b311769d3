--------------------------------- MODULE MCSdk ---------------------------------
(***************************************************************************)
(* The collections, the accounts built on them and genesis, in nine        *)
(* parts: "queue", "vector", "map" (the collections), "eoa", "nonceless"   *)
(* (TxAccounts), "token", "scheduler", "genesis" and "code" (AccountCode). *)
(* A behaviour belongs to one part.                                        *)
(***************************************************************************)
EXTENDS UnorderedMap

CONSTANTS a, b, c, rt, t1, t2, t3

VARIABLES part, front, back, items, q_ret

queue == <<front, back, items, q_ret>>
Queues == INSTANCE Queue WITH Item <- {"a", "b", "c"}, MaxIndex <- 4, answer <- q_ret

VARIABLES v_index, v_elems, v_ret

vector == <<v_index, v_elems, v_ret>>
Vectors == INSTANCE Vector WITH
    Elem <- {a, b}, Batches <- {<<a>>, <<b, a>>, <<a, b, b>>}, MaxLength <- 4,
    index <- v_index, elems <- v_elems, ret <- v_ret

-----------------------------------------------------------------------------
VARIABLES eoa_pc, tx, registered, nonce, has_address, a2i, i2a, log, called, last_seen, network, accepted, deliveries

eoa == <<eoa_pc, tx, registered, nonce, has_address, a2i, i2a, log, called>>
nonceless == <<last_seen, network, accepted, deliveries>>
Sending == INSTANCE TxAccounts WITH
    Addr <- {a, b}, Contract <- {c}, Runtime <- rt, MaxNonce <- 2, pc <- eoa_pc,
    Senders <- {a, b}, Owner <- a, Transactions <- {t1, t2, t3}, Time <- 0..3, MaxDeliveries <- 4

VARIABLES minted, made_accounts, has_code, manager, balances, supply, upset

token == <<minted, made_accounts, has_code, manager, balances, supply, upset>>

(* Files of up to two accounts, with each form of address and balance, and *)
(* variables that are absent, malformed or set, to one address or to two.  *)
Balances == {[json |-> j, number |-> n] : j \in {"number", "string"}, n \in -1..5} \cup {[json |-> "other", number |-> 0]}
Entry(address, balance) == [eth_address |-> address, balance |-> balance]
AccountLists == UNION {[1..n -> {Entry(x, y) : x \in {a, b, "malformed"}, y \in Balances}] : n \in 0..2}

Tokens == INSTANCE Token WITH
    Accounts <- {a, b, c}, Minter <- rt, Limit <- 5, NumberLimit <- 3,
    Alice <- a, Bob <- b, AliceBalance <- 1, BobBalance <- 2,
    Files <- [minter_id : {rt, t1}, accounts : AccountLists],
    Envs <- [alice : {"absent", "malformed", c}, bob : {"absent", b, c}, alice_balance : {-1, 0, 4, 5}, bob_balance : {-1, 0}],
    created <- minted, genesis <- made_accounts, registered <- has_code

VARIABLES sched_pc, lists, work, committed, panics

scheduler == <<sched_pc, lists, work, committed, panics>>
Schedulers == INSTANCE Scheduler WITH
    Blockers <- {a, b}, Senders <- {c, a}, Runtime <- rt, MaxBlocks <- 2, MaxPanics <- 2, pc <- sched_pc

-----------------------------------------------------------------------------
VARIABLES json, file, phase, error, id_to_account, next_account_id, txs, results, code, last, created, calls, params

genesis == <<json, file, phase, error, id_to_account, next_account_id, txs, results, code, last, created, calls, params>>

(* Creations and calls, with and without ids and references, and each way  *)
(* a transaction can be refused.                                           *)
Word(w) == [json |-> "word", word |-> w]
Ref(id) == [json |-> "ref", id |-> id]
Number(n) == [json |-> "number", number |-> n]
Hex(n) == [json |-> "hex", account |-> n]
System == [json |-> "absent"]
GenesisTx(id, sender, recipient, msg_type, refs) ==
    [id |-> id, sender |-> sender, recipient |-> recipient, msg_type |-> msg_type, refs |-> refs,
     well_formed |-> TRUE, fails |-> FALSE]
Creation == GenesisTx("none", Word("system"), Word("runtime"), "account/create", {})

SomeTxs ==
    {GenesisTx(i, System, Word("runtime"), "account/create", r) : i \in {"a", "b", "none"}, r \in {{}, {"a"}}}
    \cup {GenesisTx("none", s, r, "account/call", {}) : s \in {System, Ref("a")}, r \in {Ref("a"), Ref("b"), Hex(100)}}
    \cup {GenesisTx("a", System, Ref("a"), "account/call", {}),
          GenesisTx("b", System, Number(100), "account/call", {"a"}),
          GenesisTx("none", Word("runtime"), Hex(100), "account/call", {}),
          GenesisTx("none", System, Word("system"), "account/call", {}),
          GenesisTx("none", System, System, "account/call", {}),
          GenesisTx("none", Number(-1), Word("runtime"), "account/create", {}),
          [Creation EXCEPT !.msg_type = "unknown"],
          [Creation EXCEPT !.well_formed = FALSE],
          [Creation EXCEPT !.fails = TRUE]}

Files == INSTANCE Genesis WITH
    None <- "none", Txs <- SomeTxs, MaxTxs <- 3, Limits <- {<<>>, <<7>>}, Existing <- {100},
    Registrations <- <<[type |-> "account/call", request |-> "create"], [type |-> "account/create", request |-> "create"],
                       [type |-> "account/call", request |-> "call"]>>

-----------------------------------------------------------------------------
VARIABLES module, account_code, call, fields, store, shadow

accountcode == <<module, account_code, call, fields, store, shadow>>

(* Modules for the macro: an impl block with a function of each kind, in   *)
(* which one function is written in each way that the macro tells apart,   *)
(* and beside it a second block, a trait or a block of another account.    *)
Ty(head) == [head |-> head, args |-> <<>>]
Pair == [head |-> "tuple", args |-> <<Ty("u8"), Ty("u16")>>]
Attr(path, form, args) == [path |-> path, form |-> form, args |-> args]
Fn(name, attr, types, output, err) ==
    [name |-> name, attrs |-> <<Attr("doc", "value", <<>>), attr>>, inputs |-> <<Ty("self")>> \o types \o <<Ty("env")>>,
     output |-> output, body |-> [error |-> err, cost |-> 1]]
Plain(name, kind, types) == Fn(name, Attr(kind, "path", <<>>), types, "SdkResult", <<>>)
Base == <<Plain("initialize", "init", <<Ty("u8")>>), Plain("transfer", "exec", <<Ty("u8")>>), Plain("get", "query", <<>>)>>
Payable == Attr("exec", "list", <<"payable">>)

Ways ==
    {Fn("mint", Payable, <<t>>, "SdkResult", e) :
        t \in {Ty("u16"), Pair, Ty("AccountId"), Ty("Own"), Ty("pattern"), Ty("self")}, e \in {<<>>, <<"evolve_collections", 2>>}}
    \cup {Fn("mint", at, <<Ty("u16")>>, o, <<>>) :
        at \in {Attr(p, f, x) : p \in {"init", "exec", "query", "other"}, f \in {"path", "list", "value"},
                               x \in {<<>>, <<"payable">>, <<"payable", "other">>}},
        o \in {"none", "SdkResult", "other"}}
    \cup {Plain(n, k, <<Ty("u16")>>) : n \in {"clash", "new", "get"}, k \in {"exec", "query"}}
    \cup {[Plain("mint", "exec", <<>>) EXCEPT !.inputs = i] : i \in {<<Ty("self")>>, <<Ty("u8"), Ty("env")>>}}
Item(block, of, fns) == [block |-> block, of |-> of, fns |-> fns]

SomeModules ==
    {<<Item("impl", "Token", Base), Item("trait", "Token", <<w>>)>> : w \in Ways}
    \cup {<<Item("impl", "Token", <<w>>), Item(k, o, Base)>> :
            w \in Ways, k \in {"impl", "struct"}, o \in {"Token", "Other"}}
    \cup {<<Item("trait", "Token", Base)>>}

Field(name, skip, prefix, type) == [name |-> name, skip |-> skip, storage |-> prefix, type |-> type]
SomeStructs ==
    {<<Field("x", FALSE, <<0>>, "Item"), Field("y", s, p, t), Field("z", FALSE, <<255>>, "Map")>> :
        s \in BOOLEAN, p \in {<<>>, <<0>>, <<1>>, <<255>>, <<256>>}, t \in {"Map", "Queue", "Emitter"}}

Codes == INSTANCE AccountCode WITH
    Account <- "Token", Modules <- SomeModules, Structs <- SomeStructs, Keys <- {<<1>>, <<2>>},
    Selector <- [initialize |-> 9, transfer |-> 1, mint |-> 2, get |-> 3, clash |-> 1, new |-> 4],
    Camel <- [initialize |-> "Initialize", transfer |-> "Transfer", mint |-> "Mint", get |-> "Get", clash |-> "Clash", new |-> "New"],
    Inputs <- {<<>>} \cup {<<s>> \o [i \in 1..n |-> i] : s \in 1..4, n \in 0..3},
    Values <- 0..3, Balance <- 1, MaxAmount <- 2, Gas <- 0..1, DefaultGas <- 2, code <- account_code

-----------------------------------------------------------------------------
MCInit ==
    /\ part \in {"queue", "vector", "map", "eoa", "nonceless", "token", "scheduler", "genesis", "code"}
    /\ Queues!QueueInit /\ Vectors!VInit /\ Init /\ Sending!NoncelessInit /\ Tokens!Init /\ Schedulers!Init
    /\ Sending!Init /\ (part # "eoa" => tx = [from |-> a, to |-> b, nonce |-> 0])
    /\ Files!Init /\ (part # "genesis" => json.transactions = <<>> /\ json.consensus_params = <<>>)
    /\ (Len(json.transactions) > 2 => json.consensus_params = <<>>)
    \* A module and a struct have nothing to do with one another: one of them is enough.
    /\ LET SomeModule == CHOOSE m \in SomeModules : TRUE
           SomeStruct == CHOOSE f \in SomeStructs : TRUE
       IN \/ module = SomeModule /\ fields = SomeStruct /\ Codes!Init
          \/ part = "code" /\ module = SomeModule /\ Codes!Init
          \/ part = "code" /\ fields = SomeStruct /\ Codes!Init

MCNext ==
    /\ UNCHANGED part
    /\ \/ part = "queue" /\ Queues!QueueNext /\ UNCHANGED <<vector, vars, eoa, nonceless, token, scheduler, genesis, accountcode>>
       \/ part = "vector" /\ Vectors!VNext /\ UNCHANGED <<queue, vars, eoa, nonceless, token, scheduler, genesis, accountcode>>
       \/ part = "map" /\ Next /\ UNCHANGED <<queue, vector, eoa, nonceless, token, scheduler, genesis, accountcode>>
       \/ part = "eoa" /\ Sending!Next /\ UNCHANGED <<queue, vector, vars, nonceless, token, scheduler, genesis, accountcode>>
       \/ part = "nonceless" /\ Sending!NoncelessNext /\ UNCHANGED <<queue, vector, vars, eoa, token, scheduler, genesis, accountcode>>
       \/ part = "token" /\ Tokens!Next /\ UNCHANGED <<queue, vector, vars, eoa, nonceless, scheduler, genesis, accountcode>>
       \/ part = "scheduler" /\ Schedulers!Next /\ UNCHANGED <<queue, vector, vars, eoa, nonceless, token, genesis, accountcode>>
       \/ part = "genesis" /\ Files!Next /\ UNCHANGED <<queue, vector, vars, eoa, nonceless, token, scheduler, accountcode>>
       \/ part = "code" /\ Codes!Next /\ UNCHANGED <<queue, vector, vars, eoa, nonceless, token, scheduler, genesis>>

MCSpec == MCInit /\ [][MCNext]_<<part, queue, vector, vars, eoa, nonceless, token, scheduler, genesis, accountcode>>

-----------------------------------------------------------------------------
(* For any sequence of calls a Queue is a sequence pushed at the back and  *)
(* popped at both ends, and a Vector one pushed and popped at the back:    *)
(* what a pop leaves behind in storage is never seen again.                *)
SequencesRefined == Queues!RefinesQueue /\ Vectors!RefinesSeq

(* No account executes a transaction twice.  An EthEoaAccount              *)
(* authenticates transactions of ascending nonces, however often they are  *)
(* submitted and wherever earlier attempts ran out of gas; every nonce     *)
(* below its own was used up once, by a transaction or by a call of        *)
(* authenticate, which anyone may make; and its address is registered both *)
(* ways before it is validated.  A nonceless account executes deliveries   *)
(* in the order of their timestamps, whatever the network repeats or       *)
(* reorders.                                                               *)
ExecutedOnce == Sending!NoReplay /\ Sending!SenderMapped /\ Sending!ExecutedOnceInOrder

(* The total supply of a token is what the accounts hold, modulo 2^128,    *)
(* from a genesis that lists no account twice through every order of       *)
(* mints, burns and transfers, transfers to oneself included.  As long as  *)
(* the supply manager issues no more than 2^128 - 1, which nothing keeps   *)
(* them from, the accounts hold no more than the supply, so with no        *)
(* account listed twice they hold just that, and a transfer never          *)
(* overflows the balance it goes to.  testapp and evd make the same of a   *)
(* file, and the accounts a genesis hands to the node are there.           *)
SupplyIsSum ==
    /\ Tokens!SupplyIsSum
    /\ Tokens!GenesisAccountsThere
    /\ part = "token" => Tokens!SameFromFile

(* A genesis that apply_genesis accepts had every transaction of the file  *)
(* take effect; its references were replaced by the numbers predicted for  *)
(* earlier transactions, which are not the accounts these created but, if  *)
(* just the transactions with an id create accounts, lie below them by the *)
(* same distance; a syncing node then reads the parameters of the file;    *)
(* the error of one that is refused names the first transaction at fault;  *)
(* a file that is written out reads back the same; and the lists of        *)
(* blockers that it gives the scheduler stay for good, and a committed     *)
(* block has run every one of them, in order, whichever failed in earlier  *)
(* attempts at it.                                                         *)
GenesisComplete ==
    /\ Files!AcceptedIsComplete /\ Files!ReferencesArePredicted
    /\ Files!ParamsAreTheFiles /\ Files!ReadsBackTheSame /\ Files!BlamesTheFirst
    /\ Schedulers!CommittedRanAll /\ Schedulers!ListsAreGenesis

(* A method of the wrapper that #[account_impl] generates runs the         *)
(* function it is named after, a call from outside runs a function only as *)
(* the schema declares it, and what is written to a field of a             *)
(* #[derive(AccountState)] struct is not touched by the other fields.      *)
DispatchedAsDeclared == Codes!RunsWhatIsNamed /\ Codes!OnlyAsDeclared /\ Codes!FieldsApart

(* A caller of eth_call or eth_estimateGas is told of the error with which *)
(* the call failed, and a call is tried again as a query only if the       *)
(* account has no such function.                                           *)
ErrorsToldApart == Codes!ErrorsToldApart
=============================================================================
