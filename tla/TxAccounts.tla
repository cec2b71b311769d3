------------------------------ MODULE TxAccounts ------------------------------
(***************************************************************************)
(* The two kinds of accounts that send transactions.                       *)
(*                                                                         *)
(* Externally owned accounts: how a transaction's sender and recipient     *)
(* addresses become accounts (crates/app/tx/eth/src/mempool.rs and         *)
(* eoa_registry.rs), the sender bootstrap of the state transition function *)
(* (crates/app/stf/src/lib.rs, register_account_at_id in invoker.rs) and   *)
(* the nonce check of EthEoaAccount (bin/testapp/src/eth_eoa.rs).          *)
(*                                                                         *)
(* Transactions of any sender, recipient and nonce are executed in any     *)
(* order and any number of times, one after the other.  Every storage      *)
(* write may run out of gas, which ends the transaction there; bootstrap   *)
(* has no checkpoint around it, the calls through do_exec do.  The account *)
(* id derived from an address is written as the address itself.            *)
(*                                                                         *)
(* A nonceless account orders its transactions by timestamps instead of    *)
(* nonces (crates/app/sdk/extensions/nonceless_account/src/lib.rs).  Its   *)
(* owner signs transactions at any moments; the network delivers each to a *)
(* block late, out of order and more than once.                            *)
(***************************************************************************)
EXTENDS Integers, Sequences, FiniteSets

CONSTANTS
    Addr,      \* addresses of externally owned accounts
    Contract,  \* addresses in the runtime contract registry
    Runtime,   \* RUNTIME_ACCOUNT_ID
    MaxNonce,  \* bound on transaction nonces
    Senders,       \* who sends to the nonceless account
    Owner,         \* the owner it is initialised with
    Transactions,  \* its transactions
    Time,          \* timestamps that occur, of u64
    MaxDeliveries  \* bound on deliveries

VARIABLES
    pc,          \* the step of the transaction being applied
    tx,          \* that transaction
    registered,  \* accounts with a code identifier
    nonce,       \* EthEoaAccount.nonce of each account
    has_address, \* accounts whose eth_address is stored
    a2i,         \* <<whose storage, address>>: forward entries written
    i2a,         \* the same for reverse entries
    log,         \* authenticated transactions, in order (ghost)
    called       \* nonces that calls of authenticate used up (ghost)

vars == <<pc, tx, registered, nonce, has_address, a2i, i2a, log, called>>

Tx == [from : Addr, to : Addr \cup Contract, nonce : 0..MaxNonce]

Init ==
    /\ pc = "idle"
    /\ tx \in Tx
    /\ registered = {}
    /\ nonce = [a \in Addr |-> 0]
    /\ has_address = {}
    /\ a2i = {}
    /\ i2a = {}
    /\ log = << >>
    /\ called = {}

ApplyTx ==
    /\ pc = "idle"
    /\ tx' \in Tx
    /\ pc' = "bootstrap"
    /\ UNCHANGED <<registered, nonce, has_address, a2i, i2a, log, called>>

(* Out of gas, at whatever write is next. *)
OutOfGas ==
    /\ pc # "idle"
    /\ pc' = "idle"
    /\ UNCHANGED <<tx, registered, nonce, has_address, a2i, i2a, log, called>>

-----------------------------------------------------------------------------
(* bootstrap_sender_phase: register_account_at_id, then the sender's entry *)
(* in the registry.                                                        *)

MutantRegisterSender ==
    /\ pc = "bootstrap"
    /\ registered' = registered \cup {tx.from}
    /\ pc' = "init_nonce"
    /\ UNCHANGED <<tx, nonce, has_address, a2i, i2a, log, called>>

RegisterSender ==
    /\ pc = "bootstrap"
    /\ registered' = registered \cup {tx.from}
    /\ pc' = IF tx.from \in registered THEN "mapping" ELSE "init_nonce"
    /\ UNCHANGED <<tx, nonce, has_address, a2i, i2a, log, called>>

InitNonce ==
    /\ pc = "init_nonce"
    /\ nonce' = [nonce EXCEPT ![tx.from] = 0]
    /\ pc' = "init_address"
    /\ UNCHANGED <<tx, registered, has_address, a2i, i2a, log, called>>

InitAddress ==
    /\ pc = "init_address"
    /\ has_address' = has_address \cup {tx.from}
    /\ pc' = "mapping"
    /\ UNCHANGED <<tx, registered, nonce, a2i, i2a, log, called>>

(* ensure_eoa_mapping looks in the runtime's storage. *)
Mapped(address) == <<Runtime, address>> \in a2i /\ <<Runtime, address>> \in i2a

MappingThere ==
    /\ pc = "mapping" /\ Mapped(tx.from)
    /\ pc' = "validate"
    /\ UNCHANGED <<tx, registered, nonce, has_address, a2i, i2a, log, called>>

(* The bootstrap environment is the runtime's, so that is where it writes. *)
MapForward ==
    /\ pc = "mapping" /\ ~Mapped(tx.from)
    /\ a2i' = a2i \cup {<<Runtime, tx.from>>}
    /\ pc' = "reverse"
    /\ UNCHANGED <<tx, registered, nonce, has_address, i2a, log, called>>

MapReverse ==
    /\ pc = "reverse"
    /\ i2a' = i2a \cup {<<Runtime, tx.from>>}
    /\ pc' = "validate"
    /\ UNCHANGED <<tx, registered, nonce, has_address, a2i, log, called>>

-----------------------------------------------------------------------------
(* authenticate has the nonce checked only of a transaction.  Any other    *)
(* payload is checked for the address or the account it names, if it names *)
(* one, and uses up a nonce all the same.                                  *)

Payload == [kind : {"context", "address", "account", "other"}, from : Addr, nonce : 0..MaxNonce]

Authenticates(account, payload) ==
    /\ account \in registered
    /\ payload.kind \in {"context", "address"} => account \in has_address
    /\ payload.kind # "other" => payload.from = account
    /\ payload.kind = "context" => payload.nonce = nonce[account]

(* AuthenticationTxValidator calls authenticate of the sender, with the    *)
(* transaction, through do_exec: all of it or no effect.                   *)
Authentic == Authenticates(tx.from, [kind |-> "context", from |-> tx.from, nonce |-> tx.nonce])

Authenticate ==
    /\ pc = "validate" /\ Authentic
    /\ nonce' = [nonce EXCEPT ![tx.from] = @ + 1]
    /\ log' = Append(log, <<tx.from, tx.nonce>>)
    /\ pc' = "recipient"
    /\ UNCHANGED <<tx, registered, has_address, a2i, i2a, called>>

RefuseTx ==
    /\ pc = "validate" /\ ~Authentic
    /\ pc' = "idle"
    /\ UNCHANGED <<tx, registered, nonce, has_address, a2i, i2a, log, called>>

-----------------------------------------------------------------------------
(* resolve_recipient_account runs in the sender's environment.             *)

RecipientKnown ==
    /\ pc = "recipient"
    /\ <<Runtime, tx.to>> \in a2i \/ tx.to \in Contract
    /\ pc' = "execute"
    /\ UNCHANGED <<tx, registered, nonce, has_address, a2i, i2a, log, called>>

(* resolve_or_create_eoa_account: registration through the runtime is      *)
(* atomic; the registry entries are storage writes of the environment's    *)
(* own account.                                                            *)
RegisterRecipient ==
    /\ pc = "recipient"
    /\ <<Runtime, tx.to>> \notin a2i /\ tx.to \in Addr
    /\ IF tx.to \in registered
       THEN UNCHANGED <<registered, has_address, nonce>>
       ELSE /\ registered' = registered \cup {tx.to}
            /\ has_address' = has_address \cup {tx.to}
            /\ nonce' = [nonce EXCEPT ![tx.to] = 0]
    /\ pc' = "recipient_mapping"
    /\ UNCHANGED <<tx, a2i, i2a, log, called>>

MapRecipientForward ==
    /\ pc = "recipient_mapping" /\ ~Mapped(tx.to)
    /\ a2i' = a2i \cup {<<tx.from, tx.to>>}
    /\ pc' = "recipient_reverse"
    /\ UNCHANGED <<tx, registered, nonce, has_address, i2a, log, called>>

MapRecipientReverse ==
    /\ pc = "recipient_reverse"
    /\ i2a' = i2a \cup {<<tx.from, tx.to>>}
    /\ pc' = "execute"
    /\ UNCHANGED <<tx, registered, nonce, has_address, a2i, log, called>>

(* The recipient's code runs; of what it does, calls of authenticate,      *)
(* which anyone may make, matter here.  Several calls of one transaction   *)
(* are like those of several transactions.                                 *)
CallAuthenticate(account, payload) ==
    /\ pc = "execute" /\ nonce[account] <= MaxNonce
    /\ Authenticates(account, payload)
    /\ nonce' = [nonce EXCEPT ![account] = @ + 1]
    /\ called' = called \cup {<<account, nonce[account]>>}
    /\ pc' = "idle"
    /\ UNCHANGED <<tx, registered, has_address, a2i, i2a, log>>

Execute ==
    /\ pc = "execute"
    /\ pc' = "idle"
    /\ UNCHANGED <<tx, registered, nonce, has_address, a2i, i2a, log, called>>

Next ==
    \/ ApplyTx \/ OutOfGas
    \/ RegisterSender \/ InitNonce \/ InitAddress
    \/ MappingThere \/ MapForward \/ MapReverse
    \/ Authenticate \/ RefuseTx
    \/ RecipientKnown \/ RegisterRecipient \/ MapRecipientForward \/ MapRecipientReverse
    \/ Execute \/ \E account \in Addr, payload \in Payload : CallAuthenticate(account, payload)

Spec == Init /\ [][Next]_vars

-----------------------------------------------------------------------------
(* The types of the variables. *)
TypeOK ==
    /\ pc \in {"idle", "bootstrap", "init_nonce", "init_address", "mapping", "reverse",
               "validate", "recipient", "recipient_mapping", "recipient_reverse",
               "execute"}
    /\ tx \in Tx
    /\ registered \subseteq Addr
    /\ nonce \in [Addr -> 0..MaxNonce + 1]
    /\ has_address \subseteq Addr
    /\ a2i \subseteq (Addr \cup {Runtime}) \X Addr
    /\ i2a \subseteq (Addr \cup {Runtime}) \X Addr

(* Replay protection: an account authenticates transactions of ascending   *)
(* nonces, none of them twice, however often they are submitted and        *)
(* wherever earlier attempts ran out of gas.  Every nonce below that of    *)
(* the account was used up once, by a transaction of its own or by a call  *)
(* of authenticate; in particular no later bootstrap or registration as a  *)
(* recipient resets a nonce (EthEoaAccount::authenticate,                  *)
(* register_account_at_id).                                                *)
NoReplay ==
    \A a \in Addr :
        LET mine == SelectSeq(log, LAMBDA e : e[1] = a)
            used == {mine[i][2] : i \in DOMAIN mine}
            lost == {n \in 0..MaxNonce : <<a, n>> \in called}
        IN /\ \A i, j \in DOMAIN mine : i < j => mine[i][2] < mine[j][2]
           /\ used \cap lost = {} /\ used \cup lost = 0..nonce[a] - 1

(* The nonces of the transactions that an account authenticates are 0, 1,  *)
(* 2, ... ("The nonce, incremented after each successful transaction").    *)
(* Violated: calls of authenticate use up nonces as well.                  *)
NoncesCountTxs == \A a \in Addr : nonce[a] = Len(SelectSeq(log, LAMBDA e : e[1] = a))

(* A sender that reaches validation is in the registry both ways, also     *)
(* when an earlier attempt wrote only one of the two entries               *)
(* (ensure_eoa_mapping in after_sender_bootstrap).                         *)
SenderMapped ==
    pc = "validate" => <<Runtime, tx.from>> \in a2i /\ <<Runtime, tx.from>> \in i2a

(* The doc of SenderBootstrap: "Transaction types can return this when STF *)
(* should ensure the sender account is initialized before                  *)
(* validation/execution."  Violated: an attempt that runs out of gas       *)
(* between the code identifier and the end of init leaves a registered     *)
(* account that no later attempt initializes.                              *)
SenderInitialised == pc = "validate" => tx.from \in has_address

(* The test resolve_recipient_account_creates_mapping_for_unseen_eoa:      *)
(* "recipient mapping exists" once the recipient is resolved.  Violated:   *)
(* the entries land in the storage of the sender, where no lookup reads.   *)
RecipientMapped ==
    pc = "execute" /\ tx.to \in Addr => <<Runtime, tx.to>> \in a2i

-----------------------------------------------------------------------------
(* The nonceless account.                                                  *)

VARIABLES
    last_seen,   \* last_seen_timestamp
    network,     \* transactions that were signed, with sender and timestamp
    accepted,    \* deliveries that were verified, in order
    deliveries   \* how many deliveries there were

nonceless_vars == <<last_seen, network, accepted, deliveries>>

Message == [tx : Transactions, sender : Senders, time : Time]

(* initialize. *)
NoncelessInit == last_seen = 0 /\ network = {} /\ accepted = <<>> /\ deliveries = 0

Sign(m) ==
    /\ \A n \in network : n.tx # m.tx
    /\ network' = network \cup {m}
    /\ UNCHANGED <<last_seen, accepted, deliveries>>

Verifies(m) == m.sender = Owner /\ m.time > last_seen

(* verify_and_update, then the transaction.                                *)
VerifyAndUpdate(m) ==
    /\ m \in network /\ deliveries < MaxDeliveries
    /\ deliveries' = deliveries + 1
    /\ IF Verifies(m)
       THEN last_seen' = m.time /\ accepted' = Append(accepted, m)
       ELSE UNCHANGED <<last_seen, accepted>>
    /\ UNCHANGED network

NoncelessNext == \E m \in Message : Sign(m) \/ VerifyAndUpdate(m)

NoncelessSpec == NoncelessInit /\ [][NoncelessNext]_nonceless_vars

(* No delivery is executed twice and every execution is later, by its      *)
(* timestamp, than those before it, whatever the network does.             *)
ExecutedOnceInOrder ==
    \A i, j \in DOMAIN accepted : i < j =>
        accepted[i].time < accepted[j].time /\ accepted[i].tx # accepted[j].tx
=============================================================================
