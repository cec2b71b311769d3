------------------------------ MODULE Genesis ------------------------------
(***************************************************************************)
(* The genesis file: load parses it, validate checks its ids and           *)
(* references, to_transactions replaces every $reference by the account it *)
(* predicts for the transaction of that id and encodes the messages by the *)
(* registry, and apply_genesis runs the result in one system_exec and      *)
(* stores the consensus parameters.                                        *)
(*                                                                         *)
(* A transaction of the file is a record: its id or None; sender and       *)
(* recipient, each a JSON value; its msg_type; the ids its message refers  *)
(* to; whether the message has the form of its type; and whether the       *)
(* account code fails.  A JSON value is a word, a string that starts with  *)
(* $, one of 64 hex digits, a number, absent, or something else.  A spec,  *)
(* which is what it is parsed to, is <<"default">> (system, runtime),      *)
(* <<"ref", id>>, <<"account", n>> or <<"word", w>>, a Reference without $.*)
(***************************************************************************)
EXTENDS Integers, SequencesExt

CONSTANTS None,
          Txs,             \* transactions that a file may hold
          MaxTxs,          \* bound on the length of a file
          Limits,          \* block gas limits that a file may state, as sequences
          Registrations,   \* the calls of register: [type, request]
          Existing         \* accounts that have code before genesis

Runtime == 0               \* RUNTIME_ACCOUNT_ID, also SYSTEM_ACCOUNT_ID
InitialAccountNumber == 65535
DefaultBlockGasLimit == 30000000

VARIABLES json,            \* the file: [transactions, consensus_params]
          file,            \* its transactions, parsed
          phase,           \* unread, parsed, converting, applying, done, or failed
          error,           \* the GenesisError: its kind and the transaction it names
          id_to_account,   \* id_to_account[i]: the account predicted for id i
          next_account_id,
          txs,             \* the transactions converted so far
          results,         \* the GenesisResult of each transaction run so far
          code,            \* accounts that have code
          last,            \* the runtime's next account number
          created,         \* created[n]: the account transaction n created, if it did, as a set
          calls,           \* messages handled: [tx, to, sender]
          params           \* the consensus parameters in the state, as a sequence
conversion == <<id_to_account, next_account_id, txs>>
execution == <<results, code, last, created, calls>>
vars == <<json, file, phase, error, conversion, execution, params>>

NoError == [kind |-> "none", at |-> 0]

Init ==
    /\ json \in [transactions : UNION {[1..n -> Txs] : n \in 0..MaxTxs}, consensus_params : Limits]
    /\ file = <<>> /\ phase = "unread" /\ error = NoError
    /\ id_to_account = <<>> /\ next_account_id = 1 /\ txs = <<>>
    /\ results = <<>> /\ code = Existing /\ last = InitialAccountNumber
    /\ created = <<>> /\ calls = {} /\ params = <<>>

Fail(kind, at) == phase' = "failed" /\ error' = [kind |-> kind, at |-> at]

(***************************************************************************)
(* GenesisFile::load and parse.  A set is a Result: empty, an error.       *)
(***************************************************************************)
Deserialize(value, default) ==
    CASE value.json = "word"   -> {IF value.word = default THEN <<"default">> ELSE <<"word", value.word>>}
      [] value.json = "ref"    -> {<<"ref", value.id>>}
      [] value.json = "hex"    -> {<<"account", value.account>>}
      [] value.json = "number" -> IF value.number >= 0 THEN {<<"account", value.number>>} ELSE {}
      [] OTHER                 -> {}

default_sender == <<"default">>
SenderSpec(value) == IF value.json = "absent" THEN {default_sender} ELSE Deserialize(value, "system")
RecipientSpec(value) == Deserialize(value, "runtime")

Serialize(spec, default) ==
    CASE spec[1] = "default" -> [json |-> "word", word |-> default]
      [] spec[1] = "word"    -> [json |-> "word", word |-> spec[2]]
      [] spec[1] = "ref"     -> [json |-> "ref", id |-> spec[2]]
      [] spec[1] = "account" -> [json |-> "hex", account |-> spec[2]]

SerializeSender(spec) == Serialize(spec, "system")
SerializeRecipient(spec) == Serialize(spec, "runtime")

GenesisTxJson(tx) ==
    {[tx EXCEPT !.sender = s, !.recipient = r] : s \in SenderSpec(tx.sender), r \in RecipientSpec(tx.recipient)}

ConsensusParams == IF json.consensus_params = <<>> THEN DefaultBlockGasLimit ELSE json.consensus_params[1]

Load ==
    /\ phase = "unread"
    /\ IF \A n \in DOMAIN json.transactions : GenesisTxJson(json.transactions[n]) # {}
       THEN /\ file' = [n \in DOMAIN json.transactions |-> CHOOSE tx \in GenesisTxJson(json.transactions[n]) : TRUE]
            /\ phase' = "parsed" /\ UNCHANGED error
       ELSE Fail("JsonError", 0) /\ UNCHANGED file
    /\ UNCHANGED <<json, conversion, execution, params>>

(***************************************************************************)
(* validate                                                                *)
(***************************************************************************)
SeenIds(n) == {file[k].id : k \in 1..n} \ {None}
RefOf(spec) == IF spec[1] = "ref" THEN {spec[2]} ELSE {}

Unique(n) == file[n].id \notin SeenIds(n - 1)
ValidTx(n) == Unique(n) /\ RefOf(file[n].sender) \cup RefOf(file[n].recipient) \subseteq SeenIds(n)
Invalid == {n \in DOMAIN file : ~ValidTx(n)}

Validate ==
    /\ phase = "parsed"
    /\ IF Invalid = {} THEN phase' = "converting" /\ UNCHANGED error
       ELSE \E n \in Invalid :
           /\ \A m \in Invalid : n <= m
           /\ Fail(IF Unique(n) THEN "InvalidReference" ELSE "DuplicateId", n)
    /\ UNCHANGED <<json, file, conversion, execution, params>>

(***************************************************************************)
(* SimpleRegistry: a later registration of a type replaces an earlier one. *)
(***************************************************************************)
register(known, entry) == (entry.type :> entry.request) @@ known
encoders == FoldLeft(register, <<>>, Registrations)

register_message(tx) == IF tx.well_formed THEN {encoders[tx.msg_type]} ELSE {}
encode_message(tx) == IF tx.msg_type \in DOMAIN encoders THEN register_message(tx) ELSE {}

(***************************************************************************)
(* to_transactions, a transaction at a time                                *)
(***************************************************************************)
Refs(tx) == RefOf(tx.sender) \cup RefOf(tx.recipient) \cup tx.refs

Resolve(spec, known) == CASE spec[1] = "ref"     -> known[spec[2]]
                          [] spec[1] = "account" -> spec[2]
                          [] OTHER               -> Runtime

\* The first of the checks that fails; resolve_references_in_value knows no
\* index and reports transaction 0.
Resolves(spec, known) == spec[1] # "word" /\ RefOf(spec) \subseteq DOMAIN known
SpecError(spec) == IF spec[1] = "word" THEN "ParseError" ELSE "InvalidReference"
ConversionError(tx, known, n) ==
    CASE ~Resolves(tx.sender, known)       -> <<SpecError(tx.sender), n>>
      [] ~Resolves(tx.recipient, known)    -> <<SpecError(tx.recipient), n>>
      [] ~(tx.refs \subseteq DOMAIN known) -> <<"InvalidReference", 0>>
      [] tx.msg_type \notin DOMAIN encoders -> <<"UnknownMessageType", n>>
      [] encode_message(tx) = {}           -> <<"EncodeError", n>>
      [] OTHER                             -> <<>>

Converted(tx, known) ==
    [id |-> tx.id, sender |-> Resolve(tx.sender, known), recipient |-> Resolve(tx.recipient, known),
     refs |-> [i \in Refs(tx) |-> known[i]], fails |-> tx.fails,
     request |-> CHOOSE request \in encode_message(tx) : TRUE]

\* A transaction with an id is given the next account, whatever it does.
Assigned(tx) == IF tx.id = None THEN id_to_account ELSE (tx.id :> next_account_id) @@ id_to_account

ConvertTx ==
    LET n == Len(txs) + 1
        tx == file[n]
        err == ConversionError(tx, id_to_account, n) IN
    /\ phase = "converting" /\ Len(txs) < Len(file)
    /\ IF err = <<>>
       THEN /\ txs' = Append(txs, Converted(tx, id_to_account))
            /\ id_to_account' = Assigned(tx)
            /\ next_account_id' = next_account_id + Cardinality({tx.id} \ {None})
            /\ UNCHANGED <<phase, error>>
       ELSE Fail(err[1], err[2]) /\ UNCHANGED conversion
    /\ UNCHANGED <<json, file, execution, params>>

EndConvert ==
    /\ phase = "converting" /\ Len(txs) = Len(file)
    /\ phase' = "applying"
    /\ UNCHANGED <<json, file, error, conversion, execution, params>>

(***************************************************************************)
(* apply_genesis: every message is sent by the runtime, which system_exec  *)
(* runs as.  The runtime numbers the accounts it creates by itself.        *)
(***************************************************************************)
Creates(tx) == tx.request = "create"
Succeeds(tx) == ~tx.fails /\ IF Creates(tx) THEN tx.recipient = Runtime ELSE tx.recipient \in code
Failed == {n \in DOMAIN results : ~results[n].success}
GenesisResult(n, tx) == [index |-> n, id |-> tx.id, success |-> Succeeds(tx)]

ExecTx ==
    LET n == Len(results) + 1
        tx == txs[n] IN
    /\ phase = "applying" /\ n <= Len(txs) /\ Failed = {}
    /\ results' = Append(results, GenesisResult(n, tx))
    /\ IF Succeeds(tx) /\ Creates(tx)
       THEN /\ code' = code \cup {last}
            /\ last' = last + 1
            /\ created' = Append(created, {last})
            /\ UNCHANGED calls
       ELSE /\ created' = Append(created, {})
            /\ calls' = IF Succeeds(tx) THEN calls \cup {[tx |-> n, to |-> tx.recipient, sender |-> Runtime]} ELSE calls
            /\ UNCHANGED <<code, last>>
    /\ UNCHANGED <<json, file, phase, error, conversion, params>>

\* The closure ends after the last transaction or the first that fails; a failure
\* is then reported and the state dropped.
Ended == Len(results) = Len(txs) \/ Failed # {}
MutantFinish ==
    /\ phase = "applying" /\ Ended
    /\ phase' = "done" /\ params' = <<ConsensusParams>>
    /\ UNCHANGED <<json, file, error, conversion, execution>>
Finish ==
    /\ phase = "applying" /\ Ended
    /\ IF Failed = {}
       THEN phase' = "done" /\ params' = <<ConsensusParams>> /\ UNCHANGED error
       ELSE (\E n \in Failed : Fail("TransactionFailed", results[n].index)) /\ UNCHANGED params
    /\ UNCHANGED <<json, file, conversion, execution>>

\* What a syncing node reads: "not found" before genesis.
read_consensus_params == {params[n] : n \in DOMAIN params}

Next == Load \/ Validate \/ ConvertTx \/ EndConvert \/ ExecTx \/ Finish
Spec == Init /\ [][Next]_vars
-----------------------------------------------------------------------------
\* A genesis that apply_genesis accepts had every transaction of the file take
\* effect ("genesis must be fully successful"): each created an account of its
\* own or had its message handled by an account with code.
AcceptedIsComplete ==
    phase = "done" =>
        \A n \in DOMAIN file :
             IF Creates(txs[n])
             THEN \E a \in created[n] : a \in code \ Existing /\ \A m \in 1..n - 1 : a \notin created[m]
             ELSE \E c \in calls : c.tx = n /\ c.to \in code

\* A syncing node finds the consensus parameters if and only if genesis was
\* accepted, and they are those of the file, or else the default.
ParamsAreTheFiles ==
    read_consensus_params = IF phase = "done" THEN {ConsensusParams} ELSE {}

\* A file that is written out and read again has the same senders and recipients,
\* although an account is written as hex digits however it was given.
ReadsBackTheSame ==
    \A n \in DOMAIN file :
        /\ SenderSpec(SerializeSender(file[n].sender)) = {file[n].sender}
        /\ RecipientSpec(SerializeRecipient(file[n].recipient)) = {file[n].recipient}

\* The transaction that an error names is at fault and the first that is: those
\* before it were valid, were converted or took effect, as far as genesis got.
\* Naming none are the errors of the JSON and of references inside a message.
BlamesTheFirst ==
    error.at > 0 =>
        LET n == error.at IN
        /\ \A m \in 1..n - 1 : ValidTx(m)
        /\ CASE error.kind = "DuplicateId"       -> \E m \in 1..n - 1 : file[m].id = file[n].id
             [] error.kind = "InvalidReference"  ->
                  \E i \in RefOf(file[n].sender) \cup RefOf(file[n].recipient) : \A m \in 1..n - 1 : file[m].id # i
             [] error.kind = "TransactionFailed" -> n = Len(results) /\ created[n] = {} /\ \A c \in calls : c.tx < n
             [] OTHER                            -> n = Len(txs) + 1

\* "invalid reference at transaction": an error of a reference names the
\* transaction that holds it.
ReferenceErrorsNameTransaction == error.kind = "InvalidReference" => error.at > 0

\* A reference is replaced by a number predicted for an earlier transaction of
\* that id, although validate lets a transaction refer to itself: the number of
\* ids up to it, the same for every reference.  No account has that number, for
\* the runtime numbers from 65535; but where the transactions with an id are those
\* that create accounts, the predictions are off by 65534, all alike.
ReferencesArePredicted ==
    \A n \in DOMAIN txs : \A i \in DOMAIN txs[n].refs :
        \E m \in 1..n - 1 :
            /\ file[m].id = i
            /\ txs[n].refs[i] = Cardinality(SeenIds(m))
            /\ phase = "done" /\ (\A k \in DOMAIN txs : Creates(txs[k]) <=> txs[k].id # None) =>
                   txs[n].refs[i] + InitialAccountNumber - 1 \in created[m]

\* "The created account can be referenced in later transactions as $id": a
\* reference stands for the account that the transaction of that id creates.
ReferencesResolve ==
    phase = "done" =>
        \A m, n \in DOMAIN file :
            m < n /\ Creates(txs[m]) /\ file[m].id \in Refs(file[n]) =>
                txs[n].refs[file[m].id] \in created[m]

\* A message is sent by the sender its transaction names.
SentBySender == \A c \in calls : c.sender = txs[c.tx].sender

\* "Validate references point to earlier transactions": what validate accepts
\* has no sender or recipient that refers to its own or a later transaction.
ValidatedAreEarlier ==
    phase = "converting" =>
        \A n \in DOMAIN file : RefOf(file[n].sender) \cup RefOf(file[n].recipient) \subseteq SeenIds(n - 1)
=============================================================================
