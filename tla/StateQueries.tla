----------------------------- MODULE StateQueries -----------------------------
(***************************************************************************)
(* eth_getBalance, eth_getTransactionCount, eth_getCode, eth_getStorageAt, *)
(* eth_call and eth_estimateGas beside a node that produces blocks: the    *)
(* server resolves the block that the client names, ChainStateProvider     *)
(* checks it against the latest block of the index, and the querier then   *)
(* reads the live storage, key by key.  The storage has a block when it is *)
(* committed, the index when a task of its own has stored it.  A read goes *)
(* through the cache of the storage: a miss fetches the value and inserts  *)
(* it in another step, and a commit in between, which invalidates what it  *)
(* writes, leaves the older value in the cache.                            *)
(*                                                                         *)
(* Every block writes every key that the runtime writes for an account, so *)
(* that a value is the number of the block that wrote it, and 0 when there *)
(* is none.                                                                *)
(*                                                                         *)
(* evolve_listModules, evolve_getModuleSchema and evolve_getAllSchemas are *)
(* answered from the account codes, which do not change, through three     *)
(* caches, each behind a read-write lock that lets no new reader in while  *)
(* a writer waits.  A lock is held for one access to a cache, so that      *)
(* requests interleave between a miss and the write that follows it; but   *)
(* get_all_schemas writes in the else of the if let in whose condition it  *)
(* reads, and what a condition borrows lives to the end of the else        *)
(* (edition 2021).                                                         *)
(***************************************************************************)
EXTENDS Integers, SequencesExt

CONSTANTS
    Requests,
    Kinds,       \* balance, nonce, code, slot, call; modules, schema, schemas
    MaxBlocks,   \* bound on the number of blocks
    HasQuerier,  \* whether the provider was given a state querier
    Identifiers, \* what list_identifiers returns
    Asked,       \* identifiers that clients ask for, known or not
    MayFail      \* whether with_code may fail

VARIABLES
    height,   \* the block that is being, or was last, executed
    storage,  \* the last block whose writes the storage has
    tasks,    \* blocks that wait to be indexed
    index,    \* blocks of the index
    cached,   \* the storage's cache: of each key that is read, a value as an option
    raced,    \* keys whose cached value was fetched before a commit and inserted after it
    request,  \* what each request is doing
    module_ids_cache,    \* as an option
    module_schema_cache, \* the schema of an identifier, as an option
    all_schemas_cache    \* as an option
chain == <<height, storage, tasks, index, cached, raced>>
caches == <<module_ids_cache, module_schema_cache, all_schemas_cache>>
node == <<chain, caches>>
vars == <<node, request>>

-----------------------------------------------------------------------------
(* Keys: where the runtime keeps what the requests are about, and where the *)
(* querier looks for it.                                                   *)

Mapping == <<"storage", "runtime", "address">>
NonceKey == <<"storage", "account", "nonce">>
BalanceKey == <<"storage", "token", "account">>
CodeKey == <<"identifier", "account">>
SlotKey == <<"account", "slot">>

\* The storage handlers of the runtime put the prefix before the account's key.
RuntimeKey(account, key) == <<"storage", account, key>>
Written == {Mapping, NonceKey, BalanceKey, CodeKey, RuntimeKey("account", "slot")}

\* A call resolves its accounts, takes the nonce, and runs over the storage.
CallReads == <<Mapping, NonceKey, CodeKey, RuntimeKey("account", "slot")>>
Reads(kind) ==
    CASE kind = "balance" -> <<Mapping, BalanceKey>>
      [] kind = "nonce" -> <<Mapping, NonceKey>>
      [] kind = "code" -> <<Mapping, CodeKey>>
      [] kind = "slot" -> <<Mapping, SlotKey>>
      [] kind = "call" -> CallReads

Looked == UNION {ToSet(Reads(kind)) : kind \in {"balance", "nonce", "code", "slot", "call"}}

-----------------------------------------------------------------------------
Idle == [pc |-> "idle"]
Init ==
    /\ height = 0 /\ storage = 0 /\ tasks = {} /\ index = {}
    /\ cached = [k \in Looked |-> {}] /\ raced = {}
    /\ request = [r \in Requests |-> Idle]
    /\ module_ids_cache = {} /\ module_schema_cache = <<>> /\ all_schemas_cache = {}

-----------------------------------------------------------------------------
(* The node: execute, commit, index.                                       *)

MutantExecute ==
    /\ height = storage /\ height < MaxBlocks
    /\ height' = height + 1
    /\ tasks' = tasks \cup {height'}
    /\ UNCHANGED <<storage, index, cached, raced, request, caches>>
Execute ==
    /\ height = storage /\ height < MaxBlocks
    /\ height' = height + 1
    /\ UNCHANGED <<storage, tasks, index, cached, raced, request, caches>>

\* The batch and the invalidation of what it writes are behind one lock, which a
\* fetch takes as well, and an insertion does not.
Commit ==
    /\ height > storage
    /\ storage' = height
    /\ tasks' = tasks \cup {height}
    /\ cached' = [k \in Looked |-> IF k \in Written THEN {} ELSE cached[k]]
    /\ raced' = {}
    /\ request' = [r \in Requests |->
          IF request[r].pc = "insert" THEN [request[r] EXCEPT !.raced = TRUE] ELSE request[r]]
    /\ UNCHANGED <<height, index, caches>>

StoreBlock(n) ==
    /\ index' = index \cup {n} /\ tasks' = tasks \ {n}
    /\ UNCHANGED <<height, storage, cached, raced, request, caches>>

StoreFails(n) ==
    /\ tasks' = tasks \ {n}
    /\ UNCHANGED <<height, storage, index, cached, raced, request, caches>>

\* As options: latest_block_number of the index,
Latest == {n \in index : \A m \in index : m <= n}

-----------------------------------------------------------------------------
(* Requests.  The block that a client names is "none", "latest" for every  *)
(* tag but one, or a number, 0 for the tag "earliest".                     *)

Refuse(r, why) == request' = [request EXCEPT ![r] = [pc |-> "refused", why |-> why] @@ @]

ResolveBlockNumber(block) ==
    CASE block = <<"latest">> -> Latest
      [] block = <<"none">> -> {}
      [] OTHER -> {block[2]}

\* The handlers of the JSON-RPC server, up to the call of the provider,
Resolve(r, kind, block) ==
    /\ request[r].pc = "idle"
    /\ request' = [request EXCEPT ![r] =
          IF block = <<"latest">> /\ Latest = {}
          THEN [pc |-> "refused", why |-> "no block", named |-> block]
          ELSE [pc |-> "check", kind |-> kind, named |-> block,
                block |-> ResolveBlockNumber(block), start |-> Latest]]
    /\ UNCHANGED node

GetBalanceOrCount(r, kind, block) == kind \in {"balance", "nonce"} /\ Resolve(r, kind, block)
GetCodeOrStorage(r, kind, block) == kind \in {"code", "slot"} /\ Resolve(r, kind, block)
CallOrEstimate(r, kind, block) == kind = "call" /\ Resolve(r, kind, block)

\* and of the gRPC service, which decode the address or the call first.
ResolveGrpc(r, kind, valid, block) ==
    \/ valid /\ Resolve(r, kind, block)
    \/ /\ ~valid /\ request[r].pc = "idle"
       /\ request' = [request EXCEPT ![r] = [pc |-> "refused", why |-> "invalid", named |-> block]]
       /\ UNCHANGED node

\* resolve_state_query_block and require_querier of the provider,
Check(r, next) ==
    /\ request[r].pc = "check"
    /\ CASE Latest = {} -> Refuse(r, "no block")
         [] Latest # {} /\ request[r].block \notin {{}, Latest} -> Refuse(r, "historical")
         [] OTHER -> request' = [request EXCEPT ![r] =
                        [pc |-> next, kind |-> @.kind, named |-> @.named, start |-> @.start,
                         height |-> Max(Latest), seen |-> <<>>]]
    /\ UNCHANGED node

\* which its methods begin with.
QueryBalanceOrCount(r) == request[r].pc = "check" /\ request[r].kind \in {"balance", "nonce"} /\ Check(r, "querier")
QueryCodeOrStorage(r) == request[r].pc = "check" /\ request[r].kind \in {"code", "slot"} /\ Check(r, "querier")
QueryCall(r) == request[r].pc = "check" /\ request[r].kind = "call" /\ Check(r, "context")

RequireQuerier(r) ==
    /\ request[r].pc = "querier"
    /\ IF HasQuerier THEN request' = [request EXCEPT ![r].pc = "read"] ELSE Refuse(r, "no querier")
    /\ UNCHANGED node

\* resolve_block_context: a call needs the timestamp of the block as well.
Context(r) ==
    /\ request[r].pc = "context"
    /\ IF request[r].height \in index THEN request' = [request EXCEPT ![r].pc = "querier"]
       ELSE Refuse(r, "no block")
    /\ UNCHANGED node

\* One read of the querier: a value of the cache, or else that of the storage,
\* which goes into the cache.
NextKey(r) == Reads(request[r].kind)[Len(request[r].seen) + 1]

Read(r) ==
    /\ request[r].pc = "read" /\ Len(request[r].seen) < Len(Reads(request[r].kind))
    /\ \E val \in cached[NextKey(r)] :
          request' = [request EXCEPT ![r].seen = Append(@, [block |-> val, raced |-> NextKey(r) \in raced])]
    /\ UNCHANGED node

Fetch(r) ==
    /\ request[r].pc = "read" /\ Len(request[r].seen) < Len(Reads(request[r].kind))
    /\ cached[NextKey(r)] = {}
    /\ request' = [request EXCEPT ![r] =
          [pc |-> "insert", val |-> IF NextKey(r) \in Written THEN storage ELSE 0, raced |-> FALSE] @@ @]
    /\ UNCHANGED node

Insert(r) ==
    /\ request[r].pc = "insert"
    /\ cached' = [cached EXCEPT ![NextKey(r)] = {request[r].val}]
    /\ raced' = IF request[r].raced THEN raced \cup {NextKey(r)} ELSE raced \ {NextKey(r)}
    /\ request' = [request EXCEPT ![r] =
          [pc |-> "read", kind |-> @.kind, named |-> @.named, start |-> @.start, height |-> @.height,
           seen |-> Append(@.seen, [block |-> @.val, raced |-> FALSE])]]
    /\ UNCHANGED <<height, storage, tasks, index, caches>>

\* An entry gives way to others.
Evict ==
    /\ \E k \in Looked : cached[k] # {} /\ cached' = [cached EXCEPT ![k] = {}] /\ raced' = raced \ {k}
    /\ UNCHANGED <<height, storage, tasks, index, request, caches>>

Answer(r) ==
    /\ request[r].pc = "read" /\ Len(request[r].seen) = Len(Reads(request[r].kind))
    /\ request' = [request EXCEPT ![r].pc = "answered"]
    /\ UNCHANGED node

Again(r) ==
    /\ request[r].pc \in {"answered", "refused", "told"}
    /\ request' = [request EXCEPT ![r] = Idle]
    /\ UNCHANGED node

-----------------------------------------------------------------------------
(* Module introspection.  The schema of an identifier is told by its name; *)
(* as an option, an unknown one has none.                                  *)

Schema(id) == {id} \cap ToSet(Identifiers)

\* The answer; that of the gRPC service has every schema under the same name.
Tell(r, got) == request' = [request EXCEPT ![r] = [pc |-> "told", kind |-> @.kind, id |-> @.id, got |-> got]]
Begin(kind, id) ==
    [pc |-> "begin", kind |-> kind, id |-> id, todo |-> <<>>, got |-> <<>>]

AskModules(r, kind, id) ==
    /\ request[r].pc = "idle" /\ kind \in {"modules", "schema", "schemas"}
    /\ kind # "schema" => id = Head(Identifiers)
    /\ request' = [request EXCEPT ![r] = Begin(kind, id)]
    /\ UNCHANGED node

\* Who is at one of these steps, and of them who still holds the guard of the read.
At(pcs) == {r \in Requests : request[r].pc \in pcs}
Holding(pcs) == {r \in At(pcs) : request[r].kind = "schemas"}
IdsReadable == At({"write ids"}) = {}
SchemasReadable == At({"write schema"}) = {}

\* The first access of each to its cache.
ListModuleIdentifiers(r) ==
    /\ request[r].pc = "begin" /\ request[r].kind = "modules" /\ IdsReadable
    /\ \/ \E ids \in module_ids_cache : Tell(r, ids)
       \/ module_ids_cache = {} /\ request' = [request EXCEPT ![r].pc = "list"]
    /\ UNCHANGED node

GetModuleSchema(r) ==
    /\ request[r].pc = "begin" /\ request[r].kind = "schema" /\ SchemasReadable
    /\ IF request[r].id \in DOMAIN module_schema_cache THEN Tell(r, module_schema_cache[request[r].id])
       ELSE request' = [request EXCEPT ![r].pc = "code"]
    /\ UNCHANGED node

GetAllSchemas(r) ==
    /\ request[r].pc = "begin" /\ request[r].kind = "schemas"
    /\ \/ \E schemas \in all_schemas_cache : Tell(r, schemas)
       \/ all_schemas_cache = {} /\ request' = [request EXCEPT ![r].pc = "ids"]
    /\ UNCHANGED node

ReadIds(r) ==
    /\ request[r].pc = "ids" /\ IdsReadable
    /\ \/ \E ids \in module_ids_cache : request' = [request EXCEPT ![r].pc = "each", ![r].todo = ids]
       \/ module_ids_cache = {} /\ request' = [request EXCEPT ![r].pc = "list"]
    /\ UNCHANGED node

\* list_identifiers, and the write.
ListIdentifiers(r) ==
    /\ request[r].pc = "list"
    /\ request' = [request EXCEPT ![r].pc = "write ids"]
    /\ UNCHANGED node

WriteIds(r) ==
    /\ request[r].pc = "write ids" /\ Holding({"list", "write ids"}) = {}
    /\ module_ids_cache' = {Identifiers}
    /\ IF request[r].kind = "modules" THEN Tell(r, Identifiers)
       ELSE request' = [request EXCEPT ![r].pc = "each", ![r].todo = Identifiers]
    /\ UNCHANGED <<chain, module_schema_cache, all_schemas_cache>>

Collect(r, schema) ==
    request' = [request EXCEPT ![r].pc = "each", ![r].todo = Tail(@), ![r].got = @ \o SetToSeq(schema)]

ReadSchema(r) ==
    /\ request[r].pc = "each" /\ request[r].todo # <<>> /\ SchemasReadable
    /\ LET id == Head(request[r].todo) IN
       IF id \in DOMAIN module_schema_cache THEN Collect(r, module_schema_cache[id])
       ELSE request' = [request EXCEPT ![r].pc = "code", ![r].id = id]
    /\ UNCHANGED node

\* with_code, and the write, of an unknown identifier too.
WithCode(r) ==
    /\ request[r].pc = "code"
    /\ request' = [request EXCEPT ![r].pc = "write schema"]
    /\ UNCHANGED node

WriteSchema(r) ==
    /\ request[r].pc = "write schema" /\ Holding({"code", "write schema"}) = {}
    /\ LET id == request[r].id IN
       /\ module_schema_cache' = (id :> Schema(id)) @@ module_schema_cache
       /\ IF request[r].kind = "schema" THEN Tell(r, Schema(id)) ELSE Collect(r, Schema(id))
    /\ UNCHANGED <<chain, module_ids_cache, all_schemas_cache>>

CodeFails(r) ==
    /\ MayFail /\ request[r].pc = "code"
    /\ request' = [request EXCEPT ![r] = [pc |-> "refused", why |-> "internal", named |-> <<"none">>]]
    /\ UNCHANGED node

WriteAll(r) ==
    /\ request[r].pc = "each" /\ request[r].todo = <<>>
    /\ all_schemas_cache' = {request[r].got}
    /\ Tell(r, request[r].got)
    /\ UNCHANGED <<chain, module_ids_cache, module_schema_cache>>

Introspect(r) ==
    \/ ListModuleIdentifiers(r) \/ GetModuleSchema(r) \/ GetAllSchemas(r)
    \/ ReadIds(r) \/ ListIdentifiers(r) \/ WriteIds(r)
    \/ ReadSchema(r) \/ WithCode(r) \/ CodeFails(r) \/ WriteSchema(r) \/ WriteAll(r)

Blocks == {<<"none">>, <<"latest">>} \cup {<<"number", n>> : n \in 0..MaxBlocks}
Next ==
    \/ Execute \/ Commit \/ Evict
    \/ \E n \in tasks : StoreBlock(n) \/ StoreFails(n)
    \/ \E r \in Requests :
        \/ \E k \in Kinds, b \in Blocks :
              GetBalanceOrCount(r, k, b) \/ GetCodeOrStorage(r, k, b) \/ CallOrEstimate(r, k, b)
        \/ \E k \in Kinds \cap {"balance", "nonce", "code", "slot", "call"}, v \in BOOLEAN, b \in Blocks : ResolveGrpc(r, k, v, b)
        \/ QueryBalanceOrCount(r) \/ QueryCodeOrStorage(r) \/ QueryCall(r)
        \/ Context(r) \/ RequireQuerier(r) \/ Read(r) \/ Fetch(r) \/ Insert(r) \/ Answer(r) \/ Again(r)
        \/ \E k \in Kinds, id \in Asked : AskModules(r, k, id)
        \/ Introspect(r)

Spec == Init /\ [][Next]_vars

-----------------------------------------------------------------------------
\* A request is answered from values at least as new as the block for which it is
\* answered, but for those that were in the cache because of a read that a commit
\* overtook.  That block is at least as new as the latest one when the request was
\* made, and the one it names if it names a number.
NotOlder ==
    \A r \in Requests : request[r].pc = "answered" =>
        LET q == request[r] IN
        /\ \A i \in DOMAIN q.seen : q.seen[i].block >= q.height \/ q.seen[i].raced
        /\ \A n \in q.start : q.height >= n
        /\ q.named[1] = "number" => q.height = q.named[2]

\* Whoever filled the caches, and wherever with_code failed on the way, a client
\* is told all the identifiers, the schema of the one it asks for, or the schemas
\* of all that have one in the order of the identifiers.
SchemasAgree ==
    /\ \A r \in Requests : request[r].pc = "told" =>
        request[r].got = IF request[r].kind = "schema" THEN Schema(request[r].id) ELSE Identifiers
    /\ \A schemas \in all_schemas_cache : schemas = Identifiers

\* Whoever asks about the modules is answered ("Returns schemas for all registered
\* modules.").
ModulesAnswered ==
    \A r \in Requests : request[r].pc = "begin" ~> request[r].pc \in {"told", "refused"}

\* A request for the latest block is answered once there is a block ("latest state
\* query should succeed").
LatestAnswered ==
    \A r \in Requests : request[r].pc = "refused" /\ request[r].named = <<"latest">> =>
        request[r].why # "historical"

\* eth_getStorageAt finds what the account has stored
\* (eth_get_storage_at_reads_runtime_storage_slots).
SlotsAreRead ==
    \A r \in Requests : request[r].pc = "answered" /\ request[r].kind = "slot" =>
        \A i \in DOMAIN request[r].seen : request[r].seen[i].block >= request[r].height

\* A request is answered from values at least as new as the block for which it is
\* answered, whatever reads and commits ran before ("no concurrent reader can
\* observe a stale cached value").
NeverOlder ==
    \A r \in Requests : request[r].pc = "answered" =>
        \A i \in DOMAIN request[r].seen : request[r].seen[i].block >= request[r].height
=============================================================================
