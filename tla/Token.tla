--------------------------------- MODULE Token ---------------------------------
(***************************************************************************)
(* The fungible token (crates/app/sdk/extensions/token/src/lib.rs) from the *)
(* genesis that creates it (bin/testapp/src/genesis_config.rs, lib.rs and   *)
(* main.rs) through mints, burns and transfers.                             *)
(*                                                                         *)
(* Amounts are u128, here numbers below Limit.  The sums that the code      *)
(* writes with + wrap, as they do in the release builds of the justfile and *)
(* the Dockerfiles.  A build with overflow checks panics instead, and a     *)
(* block that panics is not committed: its behaviours are those of this     *)
(* module in which nothing wraps.  An error leaves the state as it was: the *)
(* Invoker restores a failed call.  An Ethereum address is the account it   *)
(* resolves to (TxAccounts).                                                *)
(***************************************************************************)
EXTENDS Integers, Sequences, SequencesExt

CONSTANTS
    Accounts,        \* the addresses; each is also the account it resolves to
    Minter,          \* MINTER, the supply manager of the default genesis
    Limit,           \* 2^128
    NumberLimit,     \* 2^64: serde_json keeps a larger number as a float
    Alice, Bob,      \* the addresses of the default genesis
    AliceBalance, BobBalance,  \* and their balances, 1000 and 2000
    Files,           \* genesis files: [minter_id, accounts]
    Envs             \* GENESIS_* variables: [alice, bob, alice_balance, bob_balance]

VARIABLES
    created,   \* whether genesis has run
    genesis,   \* the accounts it returns: [token, scheduler, named]
    registered,\* the accounts with code
    manager,   \* Token.supply_manager
    balances,  \* Token.balances
    supply,    \* Token.total_supply
    upset      \* what nothing guards against has happened (ghost)

made == <<created, genesis, registered, manager>>
vars == <<made, balances, supply, upset>>

Amount == 0..Limit - 1
InitialAccountNumber == 65535

Add(a, b) == (a + b) % Limit

(* checked_sub.                                                            *)
CheckedSub(a, b) == IF b <= a THEN {a - b} ELSE {}

Balance(b, account) == IF account \in DOMAIN b THEN b[account] ELSE 0
Set(b, account, amount) ==
    [a \in DOMAIN b \cup {account} |-> IF a = account THEN amount ELSE b[a]]

Total(b) == MapThenSumSet(LAMBDA a : b[a], DOMAIN b)

Init ==
    /\ created = FALSE /\ genesis = [token |-> 0, scheduler |-> 0, named |-> {}]
    /\ registered = {} /\ manager = Minter
    /\ balances = [a \in {} |-> 0] /\ supply = 0 /\ upset = {}

-----------------------------------------------------------------------------
(* EvdGenesisConfig::load.  A set is a Result: empty, an error.            *)
parse_address(entry) == {entry.eth_address} \cap Accounts

deserialize_u128_balance(value) ==
    CASE value.json = "number" -> {value.number} \cap (0..NumberLimit - 1)
      [] value.json = "string" -> {value.number} \cap Amount
      [] OTHER                 -> {}

Validate(accounts) ==
    /\ Len(accounts) > 0
    /\ \A i \in DOMAIN accounts : parse_address(accounts[i]) # {}
    /\ \A i, j \in DOMAIN accounts : accounts[i].eth_address = accounts[j].eth_address => i = j

Load(config) ==
    IF /\ \A i \in DOMAIN config.accounts : deserialize_u128_balance(config.accounts[i].balance) # {}
       /\ Validate(config.accounts)
    THEN {[i \in DOMAIN config.accounts |-> <<config.accounts[i].eth_address, config.accounts[i].balance.number>>]}
    ELSE {}

Funded(accounts) == SelectSeq(accounts, LAMBDA entry : entry[2] > 0)
Addresses(accounts) == {accounts[i][1] : i \in DOMAIN accounts}

-----------------------------------------------------------------------------
(* What a genesis does: the list it initializes the token with, the EOAs   *)
(* it registers at the accounts their addresses resolve to, how many       *)
(* accounts the runtime numbers before the token, the supply manager, and  *)
(* the accounts it returns as alice and bob.                               *)
Plan(entries, eoas, numbered, minter, named) ==
    [entries |-> entries, eoas |-> eoas, numbered |-> numbered, minter |-> minter, named |-> named]

run_custom_genesis(accounts, minter) ==
    Plan(Funded(accounts), Addresses(accounts), 0, minter, {accounts[1][1], accounts[Min({2, Len(accounts)})][1]})

run_custom_evd_genesis(accounts, minter) ==
    Plan(Funded(accounts), Addresses(Funded(accounts)), 0, minter, {})

parse_genesis_address_env(value, default) == IF value \in Accounts THEN value ELSE default
ParseBalanceEnv(value, default) == IF value \in Amount THEN value ELSE default

do_eth_genesis_inner(env) ==
    LET alice == parse_genesis_address_env(env.alice, Alice)
        bob == parse_genesis_address_env(env.bob, Bob)
    IN Plan(<<<<alice, ParseBalanceEnv(env.alice_balance, AliceBalance)>>,
              <<bob, ParseBalanceEnv(env.bob_balance, BobBalance)>>>>, {alice, bob}, 0, Minter, {alice, bob})

(* testapp returns alice and bob, evd does not.                            *)
run_default_genesis(env) == do_eth_genesis_inner(env)
run_default_evd_genesis(env) == [do_eth_genesis_inner(env) EXCEPT !.named = {}]

(* The genesis of the evnode service creates its EOAs through the runtime, *)
(* which numbers them.                                                     *)
do_genesis_with_addresses ==
    LET alice == InitialAccountNumber
        bob == InitialAccountNumber + 1
    IN Plan(<<<<alice, AliceBalance>>, <<bob, BobBalance>>>>, {}, 2, Minter, {alice, bob})

run_genesis == do_genesis_with_addresses

run_genesis_output ==
    UNION {{run_custom_genesis(accounts, config.minter_id) : accounts \in Load(config)} : config \in Files}
    \cup {run_default_genesis(env) : env \in Envs}

run_evd_genesis_output ==
    UNION {{run_custom_evd_genesis(accounts, config.minter_id) : accounts \in Load(config)} : config \in Files}
    \cup {run_default_evd_genesis(env) : env \in Envs}

(* More is issued than an amount can say.                                  *)
Wraps(sum) == IF sum < Limit THEN {} ELSE {"wrapped"}

(* An address may be on the list twice: its second balance replaces the    *)
(* first, the sum counts both.                                             *)
Repeats(entries) == IF IsInjective([i \in DOMAIN entries |-> entries[i][1]]) THEN {} ELSE {"listed twice"}

Initialize(entries) ==
    /\ supply' = FoldLeft(LAMBDA sum, entry : Add(sum, entry[2]), 0, entries)
    /\ balances' = FoldLeft(LAMBDA b, entry : Set(b, entry[1], entry[2]), balances, entries)
    /\ upset' = Repeats(entries) \cup Wraps(FoldLeft(LAMBDA sum, entry : sum + entry[2], 0, entries))

(* The token, then the scheduler, each registered once it is created; a    *)
(* genesis that fails leaves nothing.                                      *)
Genesis(plan) ==
    LET token == InitialAccountNumber + plan.numbered IN
    /\ ~created /\ created' = TRUE
    /\ Initialize(plan.entries)
    /\ manager' = plan.minter
    /\ genesis' = [token |-> token, scheduler |-> token + 1, named |-> plan.named]
    /\ registered' = plan.eoas \cup (InitialAccountNumber..token + 1)

-----------------------------------------------------------------------------
(* mint and mint_unchecked.                                                *)
Mint(sender, recipient, amount) ==
    /\ created /\ sender = manager
    /\ balances' = Set(balances, recipient, Add(Balance(balances, recipient), amount))
    /\ supply' = Add(supply, amount)
    /\ upset' = upset \cup Wraps(supply + amount)
    /\ UNCHANGED made

(* burn and burn_unchecked.                                                *)
Burn(sender, from, amount) ==
    /\ created /\ sender = manager
    /\ \E b \in CheckedSub(Balance(balances, from), amount) : balances' = Set(balances, from, b)
    /\ supply' \in CheckedSub(supply, amount)
    /\ UNCHANGED <<made, upset>>

MutantTransfer(sender, to, amount) ==
    /\ created
    /\ \E b \in CheckedSub(Balance(balances, sender), amount) :
        balances' = Set(Set(balances, sender, b), to, Add(Balance(balances, to), amount))
    /\ UNCHANGED <<made, supply, upset>>

(* The recipient's balance is read after the sender's was written: they    *)
(* may be the same account.                                                *)
Transfer(sender, to, amount) ==
    /\ created
    /\ \E b \in CheckedSub(Balance(balances, sender), amount) :
        LET debited == Set(balances, sender, b)
        IN balances' = Set(debited, to, Add(Balance(debited, to), amount))
    /\ UNCHANGED <<made, supply, upset>>

Next ==
    \/ ~created /\ \E plan \in run_genesis_output : Genesis(plan)
    \/ ~created /\ \E plan \in run_evd_genesis_output : Genesis(plan)
    \/ Genesis(run_genesis)
    \/ \E sender \in Accounts \cup {manager}, account \in Accounts, amount \in Amount :
        Mint(sender, account, amount) \/ Burn(sender, account, amount) \/ Transfer(sender, account, amount)

Spec == Init /\ [][Next]_vars

-----------------------------------------------------------------------------
(* A transfer of what one has never overflows the balance it goes to.      *)
TransfersFit ==
    \A a, b \in Accounts : a # b => Balance(balances, a) + Balance(balances, b) < Limit

(* The total supply is what the accounts hold, modulo 2^128, from a        *)
(* genesis with any list of accounts, none of them listed twice, through   *)
(* every order of mints, burns and transfers, transfers to oneself         *)
(* included.  As long as no more than 2^128 - 1 was issued the accounts    *)
(* hold no more than the supply, so with no account listed twice they hold *)
(* just that, and no transfer of what one has overflows the balance it     *)
(* goes to (mint_unchecked, burn_unchecked, transfer).                     *)
SupplyIsSum ==
    /\ "listed twice" \notin upset => supply = Total(balances) % Limit
    /\ "wrapped" \notin upset => Total(balances) <= supply /\ TransfersFit

(* total_supply is what the accounts hold.  Violated: nothing keeps the    *)
(* supply manager from issuing more than 2^128 - 1, and the environment    *)
(* may give alice and bob one address.                                     *)
AlwaysSum == supply = Total(balances)

(* The accounts that genesis hands to the node are there: token and        *)
(* scheduler are different, and they and the accounts returned as alice    *)
(* and bob have code, whichever of the files, variables and binaries it    *)
(* came from.                                                              *)
GenesisAccountsThere ==
    created =>
        /\ genesis.token # genesis.scheduler
        /\ genesis.named \cap {genesis.token, genesis.scheduler} = {}
        /\ genesis.named \cup {genesis.token, genesis.scheduler} \subseteq registered

(* testapp and evd give the token the same balances from the same file:    *)
(* run_custom_genesis resolves every account and then drops the unfunded   *)
(* ones, run_custom_evd_genesis drops them first.                          *)
SameFromFile ==
    ~created =>
        \A config \in Files : \A accounts \in Load(config) :
            LET testapp == run_custom_genesis(accounts, config.minter_id)
                evd == run_custom_evd_genesis(accounts, config.minter_id)
            IN /\ testapp.entries = evd.entries /\ testapp.numbered = evd.numbered
               /\ Addresses(testapp.entries) \subseteq evd.eoas
               /\ \A i, j \in DOMAIN evd.entries : evd.entries[i][1] = evd.entries[j][1] => i = j

(* "Genesis with custom Ethereum addresses": what genesis lists for an     *)
(* address is held by the account that the address resolves to.            *)
HeldByAddresses == created => genesis.named \subseteq Accounts
=============================================================================
