------------------------------ MODULE AccountCode ------------------------------
(***************************************************************************)
(* What #[account_impl] makes of a Rust module, and how calls reach its    *)
(* functions: the macro collects the annotated functions of the account's  *)
(* impl blocks and traits, gives each an identifier and a message, and     *)
(* generates AccountCode (init, execute, query), the schema and the        *)
(* wrapper through which other accounts call it.  eth_call and             *)
(* eth_estimateGas come in from outside, with the identifier as the first  *)
(* four bytes of their input.                                              *)
(*                                                                         *)
(* A parse that may end in a syn::Error is the set of its results: {} when *)
(* it is refused.  Options are sequences of at most one element.  A byte   *)
(* is a number; a type is [head, args], its name or "tuple" and its        *)
(* arguments, and the width of its encoding is all that Borsh needs to     *)
(* take a message of fixed-width values apart.                             *)
(***************************************************************************)
EXTENDS Integers, Sequences, FiniteSets, SequencesExt, TLC

CONSTANTS
    Account,     \* the identifier given to the macro
    Modules,     \* modules to expand: sequences of items
    Selector,    \* name of a function -> first four bytes of its Keccak hash, as a number
    Camel,       \* name of a function -> name of its message
    Inputs,      \* inputs of calls from outside: <<>>, or a selector and bytes
    Values,      \* amounts of native tokens that calls carry
    Balance,     \* what the callers have
    MaxAmount,   \* the largest amount that the token can count
    Gas,         \* gas limits of calls
    DefaultGas,  \* DEFAULT_RPC_GAS_LIMIT
    Structs,     \* structs to derive AccountState for: sequences of fields
    Keys         \* keys of the maps of such a struct

VARIABLES
    module,  \* the module
    code,    \* <<>>, or the functions of the account
    call,    \* the last call and what came of it
    fields,  \* the struct, and once it is derived the prefix of each field
    store,   \* storage of an account: key -> value
    shadow   \* what was last written to each field
vars == <<module, code, call, fields, store, shadow>>
account == <<module, code, call>>
state == <<fields, store, shadow>>

-----------------------------------------------------------------------------
(* Errors.  An identifier is the namespace of a crate and a local number;  *)
(* crate_namespace is a function of evolve_core, whose name is the one it  *)
(* hashes, whichever crate defines the error.                              *)

Namespace == [evolve_core |-> 176, evolve_stf |-> 73, evolve_token |-> 21, evolve_collections |-> 90]
crate_namespace(crate) == Namespace["evolve_core"]
Error(crate, local) == [crate |-> crate, local |-> local, id |-> crate_namespace(crate) * 256 + (local % 256)]

ERR_ENCODING == Error("evolve_core", 1)
ERR_UNKNOWN_FUNCTION == Error("evolve_core", 2)
ERR_NOT_PAYABLE == Error("evolve_core", 5)
ERR_OUT_OF_GAS == Error("evolve_stf", 1)
ERR_NOT_ENOUGH_BALANCE == Error("evolve_token", 1)

\* ErrorCode has the identifier only, and that is what == compares.
SameCode(e, f) == e.id = f.id

-----------------------------------------------------------------------------
(* Attributes: [path, form, args], where form is "path", "list" or "value". *)

parse_is_payable(attr) ==
    IF attr.form # "list" THEN {FALSE}
    ELSE IF \E i \in DOMAIN attr.args : attr.args[i] # "payable" THEN {}
    ELSE {attr.args # <<>>}

\* The first attribute that is one of the three decides.
parse_function_kind(attrs) ==
    LET known == SelectSeq(attrs, LAMBDA a : a.path \in {"init", "exec", "query"})
        attr == Head(known)
    IN IF known = <<>> THEN {<<>>}
       ELSE IF attr.path = "query"
       THEN IF attr.form = "list" THEN {} ELSE {<<[kind |-> "query", payable |-> FALSE]>>}
       ELSE {<<[kind |-> attr.path, payable |-> p]>> : p \in parse_is_payable(attr)}

\* SdkResult<T>, or nothing for the unit type.
parse_return_type(output) ==
    CASE output = "none" -> {"()"} [] output = "SdkResult" -> {"T"} [] OTHER -> {}

\* An input is "self", a type (of a plain identifier) or "pattern"; the last is env.
extract_function_info(f) ==
    UNION {IF k = <<>> THEN {<<>>}
           ELSE IF Len(f.inputs) < 2 \/ Head(f.inputs).head # "self"
                   \/ \E i \in 2..Len(f.inputs) - 1 : f.inputs[i].head \in {"self", "pattern"}
           THEN {}
           ELSE {<<[name |-> f.name, msg |-> Camel[f.name], kind |-> k[1].kind, payable |-> k[1].payable,
                    params |-> SubSeq(f.inputs, 2, Len(f.inputs) - 1), ret |-> t, body |-> f.body]>> :
                 t \in parse_return_type(f.output)}
           : k \in parse_function_kind(f.attrs)}

\* CollectedInfo: one init function at most, and the others in order.
NoFunctions == [init |-> <<>>, exec |-> <<>>, query |-> <<>>]
insert_function_info(c, fi) ==
    CASE fi.kind = "init" -> IF c.init # <<>> THEN {} ELSE {[c EXCEPT !.init = <<fi>>]}
      [] fi.kind = "exec" -> {[c EXCEPT !.exec = Append(@, fi)]}
      [] fi.kind = "query" -> {[c EXCEPT !.query = Append(@, fi)]}

\* collect_from_impl and collect_from_trait: the first error ends them.
Collect(fns) ==
    FoldLeft(LAMBDA cs, f : UNION {UNION {IF fi = <<>> THEN {c} ELSE insert_function_info(c, fi[1])
                                          : fi \in extract_function_info(f)} : c \in cs},
             {NoFunctions}, fns)

merge_collected_info(target, source) ==
    IF target.init # <<>> /\ source.init # <<>> THEN {}
    ELSE {[init |-> target.init \o source.init, exec |-> target.exec \o source.exec,
           query |-> target.query \o source.query]}

is_impl_for_account(item) == item.of = Account

\* impl is an option, trait starts out empty.
collect_annotated_items(items) ==
    FoldLeft(LAMBDA acc, item :
                IF ~is_impl_for_account(item) \/ item.block \notin {"impl", "trait"} THEN acc
                ELSE UNION {UNION {IF item.block = "trait"
                                   THEN {[a EXCEPT !.trait = m] : m \in merge_collected_info(a.trait, c)}
                                   ELSE IF a.impl = <<>> THEN {[a EXCEPT !.impl = <<c>>]}
                                   ELSE {[a EXCEPT !.impl = <<m>>] : m \in merge_collected_info(a.impl[1], c)}
                                   : c \in Collect(item.fns)} : a \in acc},
             {[impl |-> <<>>, trait |-> NoFunctions]}, items)

\* process_account_impl: merge_init and merge_functions put the two together.
process_account_impl(items) ==
    UNION {LET impl == IF a.impl = <<>> THEN NoFunctions ELSE a.impl[1]
           IN {m @@ [has_impl |-> a.impl # <<>>] : m \in merge_collected_info(impl, a.trait)}
           : a \in collect_annotated_items(items)}

Functions(c) == c.init \o c.exec \o c.query

\* The compiler takes the generated items only if their names are different: a struct
\* per message, and a method per function beside the wrapper's new.
Compiles(c) ==
    LET fns == Functions(c) IN
    /\ \A i, j \in DOMAIN fns : fns[i].msg = fns[j].msg => i = j
    /\ \A i \in DOMAIN fns : fns[i].name # "new"
-----------------------------------------------------------------------------
(* The generated code.  A request is [function, message, funds, gas]; an    *)
(* outcome says which function ran, on which arguments and funds, and what  *)
(* it gave back: [ran, args, funds, error], with error <<>> for Ok.          *)

compute_function_id(name) == Selector[name]

Primitive == [bool |-> 1, u8 |-> 1, u16 |-> 2]
RECURSIVE BorshWidth(_)
BorshWidth(ty) ==
    CASE ty.head \in DOMAIN Primitive -> Primitive[ty.head]
      [] ty.head = "tuple" -> FoldLeft(LAMBDA n, t : n + BorshWidth(t), 0, ty.args)
      [] OTHER -> 3
Width(params) == BorshWidth([head |-> "tuple", args |-> params])
Decodes(fi, message) == Len(message) = Width(fi.params)

Fails(e) == [ran |-> <<>>, args |-> <<>>, funds |-> 0, error |-> <<e>>]

\* What the body of a function gives back: its error is <<>>, or a crate and a number.
ErrorOf(fi) == IF fi.body.error = <<>> THEN <<>> ELSE <<Error(fi.body.error[1], fi.body.error[2])>>

\* A mutant of Arm: no function refuses funds.
MutantArm(fi, request) ==
    IF ~Decodes(fi, request.message) THEN Fails(ERR_ENCODING)
    ELSE IF fi.body.cost > request.gas THEN Fails(ERR_OUT_OF_GAS)
    ELSE [ran |-> <<fi.name>>, args |-> request.message, funds |-> request.funds, error |-> ErrorOf(fi)]

\* The arm of a function: decode, check the funds unless payable, run.
Arm(fi, request) ==
    IF ~Decodes(fi, request.message) THEN Fails(ERR_ENCODING)
    ELSE IF fi.kind # "query" /\ ~fi.payable /\ request.funds > 0 THEN Fails(ERR_NOT_PAYABLE)
    ELSE IF fi.body.cost > request.gas THEN Fails(ERR_OUT_OF_GAS)
    ELSE [ran |-> <<fi.name>>, args |-> request.message, funds |-> request.funds, error |-> ErrorOf(fi)]

\* match request.function() takes the first arm with the identifier.
Dispatch(fns, request) ==
    LET arms == SelectSeq(fns, LAMBDA fi : compute_function_id(fi.name) = request.function)
    IN IF arms = <<>> THEN Fails(ERR_UNKNOWN_FUNCTION) ELSE Arm(Head(arms), request)

init(request) == IF code.init = <<>> THEN Fails(ERR_UNKNOWN_FUNCTION) ELSE Arm(Head(code.init), request)
execute(request) == Dispatch(code.exec, request)
query(request) == Dispatch(code.query, request)

\* The types that clients are told of, by the last segment of a path.
RECURSIVE type_to_schema_tokens(_)
type_to_schema_tokens(ty) ==
    CASE ty.head \in DOMAIN Primitive -> [kind |-> "Primitive", name |-> ty.head]
      [] ty.head = "AccountId" -> [kind |-> "AccountId"]
      [] ty.head \in {"Vec", "Option"} /\ ty.args # <<>> ->
            [kind |-> IF ty.head = "Vec" THEN "Array" ELSE "Optional", inner |-> type_to_schema_tokens(ty.args[1])]
      [] ty.head = "tuple" /\ ty.args = <<>> -> [kind |-> "Unit"]
      [] ty.head = "tuple" /\ ty.args # <<>> ->
            [kind |-> "Tuple", elements |-> [i \in DOMAIN ty.args |-> type_to_schema_tokens(ty.args[i])]]
      [] OTHER -> [kind |-> "Opaque", rust_type |-> ty]

\* generate_function_schema_tokens and generate_schema_method.
FunctionSchema(fi) ==
    [name |-> fi.name, function_id |-> compute_function_id(fi.name), kind |-> fi.kind, payable |-> fi.payable,
     params |-> [i \in DOMAIN fi.params |-> type_to_schema_tokens(fi.params[i])]]
schema(c) ==
    LET Each(fns) == [i \in DOMAIN fns |-> FunctionSchema(fns[i])]
    IN [init |-> Each(c.init), exec_functions |-> Each(c.exec), query_functions |-> Each(c.query)]

(* The schema as gRPC clients get it.                                      *)

RECURSIVE type_schema_to_proto(_)
type_schema_to_proto(ty) ==
    CASE ty.kind \in {"Array", "Optional"} -> [ty EXCEPT !.inner = type_schema_to_proto(@)]
      [] ty.kind = "Tuple" -> [ty EXCEPT !.elements = [i \in DOMAIN @ |-> type_schema_to_proto(@[i])]]
      [] OTHER -> ty

function_kind_to_proto(kind) == CASE kind = "init" -> 1 [] kind = "exec" -> 2 [] kind = "query" -> 3

function_schema_to_proto(f) ==
    [f EXCEPT !.kind = function_kind_to_proto(@), !.params = [i \in DOMAIN @ |-> type_schema_to_proto(@[i])]]

account_schema_to_proto(s) == [part \in DOMAIN s |-> [i \in DOMAIN s[part] |-> function_schema_to_proto(s[part][i])]]

-----------------------------------------------------------------------------
(* The environment: the Invoker moves the funds before it calls the account, *)
(* and a query branches to an environment without funds.                     *)

do_exec(request) ==
    IF request.funds > Balance THEN Fails(ERR_NOT_ENOUGH_BALANCE) ELSE execute(request)
do_query(request) == query([request EXCEPT !.funds = 0])

\* InvokeRequest::new for the generated message of a function.
Request(fi, args, funds) ==
    [function |-> compute_function_id(fi.name), message |-> args, funds |-> funds, gas |-> fi.body.cost]

exec_account(fi, args, funds) == do_exec(Request(fi, args, funds))
query_account(fi, args) == do_query(Request(fi, args, 0))
create_account(fi, args, funds) ==
    IF funds > Balance THEN Fails(ERR_NOT_ENOUGH_BALANCE)
    ELSE init([Request(fi, args, funds) EXCEPT !.function = 0])

-----------------------------------------------------------------------------
Idle == [via |-> "none"]
Init ==
    /\ module \in Modules /\ code = <<>> /\ call = Idle
    /\ fields \in Structs /\ store = <<>> /\ shadow = <<>>

\* The macro, and the compiler on what it generates.
Expand ==
    /\ code = <<>>
    /\ \E c \in process_account_impl(module) : c.has_impl /\ Compiles(c) /\ code' = c
    /\ UNCHANGED <<module, call, state>>

\* A method of the generated wrapper: funds are an argument of payable functions only.
Wrapper(fi, args, funds, outcome) ==
    /\ code # <<>>
    /\ funds > 0 => fi.payable
    /\ call' = [via |-> "wrapper", fi |-> fi, args |-> args, funds |-> funds, outcome |-> outcome]
    /\ UNCHANGED <<module, code, state>>

WrapperInit(fi, args, funds) ==
    Wrapper(fi, args, funds, create_account(fi, args, funds))
WrapperExec(fi, args, funds) == Wrapper(fi, args, funds, exec_account(fi, args, funds))
WrapperQuery(fi, args) == Wrapper(fi, args, 0, query_account(fi, args))
-----------------------------------------------------------------------------
(* eth_call and eth_estimateGas: the querier executes the call as a        *)
(* transaction and, if the account has no such function, as a query.       *)

call_request_to_invoke_request(input) ==
    IF input = <<>> THEN [function |-> 0, message |-> <<>>] ELSE [function |-> Head(input), message |-> Tail(input)]

\* {} for a value that the native token cannot count.
call_request_funds(value) == IF value > MaxAmount THEN {} ELSE {value}

call_request_gas_limit(gas) == IF gas = <<>> THEN DefaultGas ELSE gas[1]

\* The sender and the recipient are looked up; an unknown recipient is no error here.
resolve_call_context(known, input, value, gas) ==
    {[known |-> known, request |-> call_request_to_invoke_request(input) @@ [funds |-> funds, gas |-> call_request_gas_limit(gas)]] :
        funds \in call_request_funds(value)}

\* The query is given the funds, and the environment it runs in drops them.
run_exec(ctx) == do_exec(ctx.request)
run_query(ctx) == do_query(ctx.request)

map_stf_error(e) == IF SameCode(e, ERR_OUT_OF_GAS) THEN <<"out of gas">> ELSE <<"code", e.id>>

\* Whether the query is tried, what came of the last try, and the answer.
exec_with_query_fallback(estimate, ctx) ==
    LET exec == run_exec(ctx)
        falls == exec.error # <<>> /\ SameCode(exec.error[1], ERR_UNKNOWN_FUNCTION)
        last == IF falls THEN run_query(ctx) ELSE exec
    IN IF ~ctx.known
       THEN [falls |-> FALSE, exec |-> <<>>, outcome |-> [ran |-> <<>>],
             answer |-> IF estimate THEN <<"target account not found">> ELSE <<"empty">>]
       ELSE [falls |-> falls, exec |-> exec, outcome |-> last,
             answer |-> IF last.error = <<>> THEN <<"ok">> ELSE map_stf_error(last.error[1])]

CallOrEstimate(estimate, known, input, value, gas) ==
    /\ code # <<>>
    /\ LET ctxs == resolve_call_context(known, input, value, gas)
       IN \/ ctxs = {} /\ call' = [via |-> "refused", answer |-> <<"invalid params">>]
          \/ \E ctx \in ctxs :
                call' = exec_with_query_fallback(estimate, ctx) @@ [via |-> "rpc", input |-> input]
    /\ UNCHANGED <<module, code, state>>

-----------------------------------------------------------------------------
(* #[derive(AccountState)]: a field is [name, skip, storage, type], where  *)
(* storage is an option of the literal in #[storage(n)].                   *)

Collections == {"Item", "Map", "Vector", "Queue", "UnorderedMap"}

\* Field after field, with the prefixes seen so far; {} for a syn::Error.
derive_account_state_impl(fs) ==
    FoldLeft(LAMBDA acc, f :
                IF acc = {} \/ f.skip THEN acc
                ELSE UNION {IF f.storage = <<>> \/ f.storage[1] > 255 \/ f.type \notin Collections
                               \/ f.storage[1] \in {p[f2] : f2 \in DOMAIN p}
                            THEN {} ELSE {p @@ (f.name :> f.storage[1])} : p \in acc},
             {<<>>}, fs)

\* new(prefix) is that of an Item or a Map; the other collections take more prefixes.
Derive ==
    /\ shadow = <<>> /\ \A i \in DOMAIN fields : fields[i].skip \/ fields[i].type \in {"Item", "Map"}
    /\ \E p \in derive_account_state_impl(fields) :
        /\ p # <<>>
        /\ shadow' = [f \in DOMAIN p |-> [prefix |-> p[f], written |-> <<>>]]
    /\ UNCHANGED <<account, fields, store>>

KeysOf(name) ==
    IF \E i \in DOMAIN fields : fields[i].name = name /\ fields[i].type = "Item" THEN {<<>>} ELSE Keys

\* Map::set and Map::remove, on the key that make_key puts the prefix before.
make_key(prefix, key) == <<prefix>> \o key
may_get(name, key) ==
    LET k == make_key(shadow[name].prefix, key) IN IF k \in DOMAIN store THEN <<store[k]>> ELSE <<>>
MapSet(name, key) ==
    /\ store' = make_key(shadow[name].prefix, key) :> name @@ store
    /\ shadow' = [shadow EXCEPT ![name].written = key :> name @@ @]
    /\ UNCHANGED <<account, fields>>
Without(f, k) == [x \in DOMAIN f \ {k} |-> f[x]]
MapRemove(name, key) ==
    /\ store' = Without(store, make_key(shadow[name].prefix, key))
    /\ shadow' = [shadow EXCEPT ![name].written = Without(@, key)]
    /\ UNCHANGED <<account, fields>>

-----------------------------------------------------------------------------
Calls ==
    \/ \E i \in DOMAIN code.init, v \in Values :
          WrapperInit(code.init[i], [k \in 1..Width(code.init[i].params) |-> k], v)
    \/ \E i \in DOMAIN code.exec, v \in Values :
          WrapperExec(code.exec[i], [k \in 1..Width(code.exec[i].params) |-> k], v)
    \/ \E i \in DOMAIN code.query : WrapperQuery(code.query[i], [k \in 1..Width(code.query[i].params) |-> k])
    \/ \E estimate, known \in BOOLEAN, input \in Inputs, value \in Values,
          gas \in {<<>>} \cup {<<g>> : g \in Gas} :
          CallOrEstimate(estimate, known, input, value, gas)

Next ==
    \/ Expand
    \/ code # <<>> /\ call = Idle /\ Calls  \* a call leaves nothing behind here: one is enough
    \/ Derive
    \/ \E f \in DOMAIN shadow : \E k \in KeysOf(f) : MapSet(f, k) \/ MapRemove(f, k)

Spec == Init /\ [][Next]_vars

-----------------------------------------------------------------------------
\* A wrapper method runs the function it is named after, on its arguments and funds,
\* as long as no two functions of a kind have one selector: the payable flags of
\* wrapper and account agree, and no earlier arm takes the call.
RunsWhatIsNamed ==
    call.via = "wrapper" =>
        LET fi == call.fi
            fns == IF fi.kind = "exec" THEN code.exec ELSE code.query
            clear == \A i, j \in DOMAIN fns : Selector[fns[i].name] = Selector[fns[j].name] => i = j
        IN clear /\ call.funds <= Balance =>
            call.outcome = [ran |-> <<fi.name>>, args |-> call.args, funds |-> call.funds, error |-> ErrorOf(fi)]

\* The bytes of a value, for a client that knows its schema only; <<>> if it cannot tell.
RECURSIVE ToldWidth(_)
ToldWidth(t) ==
    CASE t.kind = "Primitive" -> <<Primitive[t.name]>>
      [] t.kind = "AccountId" -> <<3>>
      [] t.kind = "Unit" -> <<0>>
      [] t.kind = "Tuple" ->
            FoldLeft(LAMBDA n, e : IF n = <<>> \/ ToldWidth(e) = <<>> THEN <<>> ELSE <<n[1] + ToldWidth(e)[1]>>,
                     <<0>>, t.elements)
      [] OTHER -> <<>>

\* Whatever input a call from outside has, a function runs only under the identifier,
\* the parameters and the payable flag that get_module_schema tells clients.
OnlyAsDeclared ==
    call.via = "rpc" /\ call.outcome.ran # <<>> =>
        LET told == account_schema_to_proto(schema(code)) IN
        \E s \in ToSet(IF call.falls THEN told.query_functions ELSE told.exec_functions) :
            /\ s.name = call.outcome.ran[1] /\ s.function_id = Head(call.input)
            /\ s.kind = (IF call.falls THEN 3 ELSE 2)
            /\ ToldWidth([kind |-> "Tuple", elements |-> s.params]) \in {<<>>, <<Len(call.outcome.args)>>}
            /\ call.outcome.funds > 0 => s.payable

\* What is written to a field of a derived struct is read back from it, whatever was
\* written to the other fields.
FieldsApart ==
    \A f \in DOMAIN shadow : \A k \in KeysOf(f) :
        may_get(f, k) = IF k \in DOMAIN shadow[f].written THEN <<f>> ELSE <<>>

\* A caller is told of the error with which its call failed, and a call is tried as a
\* query only if the account knows no such function.
ErrorsToldApart ==
    call.via = "rpc" =>
        /\ call.answer = <<"out of gas">> => call.outcome.error = <<ERR_OUT_OF_GAS>>
        /\ call.falls => call.exec.error = <<ERR_UNKNOWN_FUNCTION>>
=============================================================================
