---------------------------- MODULE ExecutorProofs ----------------------------
(***************************************************************************)
(* Proofs about ExecutorService.  The client is told the truth whatever    *)
(* goes wrong (TruthInv), transactions are kept while the process lives    *)
(* (TxsInv), and execution is linear while one init_chain has stored, no   *)
(* handler is cancelled, no commit fails, the process lives and the client *)
(* names its root and repeats no block that changes nothing (LinInv).      *)
(* The proof that a kind of step keeps an invariant is a step of TruthNext,*)
(* TxsNext or LinNext, with the name of the action.                        *)
(***************************************************************************)
EXTENDS ExecutorService, WellFoundedInduction, TLAPS

(* What a handler may be, by its step: it has nothing to execute, it was   *)
(* asked to, or it did.                                                    *)
Resting == {Free} \cup [pc : {"genesis"}, lost : BOOLEAN]

Asked == [pc : {"lock", "resolve"}, lost : BOOLEAN, height : Nat, prev : Int, txs : Seq(Txs)]

Executed ==
    [pc : {"wait", "height", "root"}, lost : BOOLEAN, height : Nat, txs : Seq(Txs), id : Nat,
     reply : {"none", "failed", "committed"}, root : Int]

Executable == [id : Nat, height : Nat, base : Nat, ran : Seq(Txs), root : Int, call : Call]

ExecTyped ==
    /\ initialized \in BOOLEAN /\ root \in Int /\ current_height \in Nat /\ finalized \in Nat
    /\ holder \subseteq Call
    /\ call \in [Call -> Resting \cup Asked \cup Executed]
    /\ sink \in Seq(Executable) /\ db \in Seq(Executable) /\ committed \in 0..Len(db)
    /\ worker = Free \/ worker \in [pc : {"batch", "commit", "index"}, block : Executable]
    /\ mempool \in [waiting : SUBSET Txs, in_flight : SUBSET Txs]
    /\ client \in [height : Nat, root : Int]
    /\ executions \in Nat

(* The blocks on their way to storage have the last numbers, in order.     *)
Numbered ==
    /\ Len(sink) + (IF worker.pc = "free" THEN 0 ELSE 1) <= executions
    /\ worker.pc # "free" => worker.block.id = executions - Len(sink)
    /\ \A j \in 1..Len(sink) : sink[j].id = executions - Len(sink) + j
    /\ \A i \in 1..Len(db) :
        1 <= db[i].id /\ db[i].id + Len(sink) + (IF worker.pc = "batch" THEN 1 ELSE 0) <= executions
    /\ \A i, j \in 1..Len(db) : i < j => db[i].id < db[j].id
    /\ worker.pc \in {"commit", "index"} => Len(db) > 0 /\ db[Len(db)] = worker.block
    /\ worker.pc = "index" => committed = Len(db)

(* A block whose handler waits for it is the block the handler asked for.  *)
Match(b) ==
    call[b.call].pc = "wait" /\ call[b.call].id = b.id =>
        call[b.call].height = b.height /\ Ran(call[b.call].txs) = b.ran

Matched ==
    /\ \A j \in 1..Len(sink) : Match(sink[j])
    /\ worker.pc # "free" => Match(worker.block)

(* A handler that was told so has its block committed.                     *)
InStorage(x) ==
    \E i \in 1..committed :
        db[i].id = x.id /\ db[i].height = x.height /\ db[i].ran = Ran(x.txs) /\ db[i].root = x.root

Told(x) == (x.pc = "wait" /\ x.reply = "committed") \/ x.pc \in {"height", "root"}

ToldCommitted == \A c \in Call : Told(call[c]) => InStorage(call[c])

(* The client waits for one height, the one after those it has, and what   *)
(* it gave up on is not beyond.                                            *)
Pending == {"lock", "resolve", "wait", "height", "root"}

Awaited(c) == call[c].pc \in Pending /\ ~call[c].lost

OneAwaited ==
    /\ \A c, d \in Call : Awaited(c) /\ Awaited(d) => c = d
    /\ \A c \in Call : Awaited(c) => call[c].height = client.height + 1
    /\ \A c \in Call : call[c].pc \in Pending => call[c].height \in 1..client.height + 1

(* What the client has, the service has reached and what is final, from    *)
(* the first block after the initial height on, is committed.              *)
HasHeight(h) == \E i \in 1..committed : db[i].height = h

HasUpTo(n) == \A h \in InitialHeight + 1..n : HasHeight(h)

ClientKnows ==
    /\ \A h \in 1..client.height : HasHeight(h)
    /\ client.height > 0 =>
        \E i \in 1..committed : db[i].height = client.height /\ db[i].root = client.root
    /\ HasUpTo(current_height) /\ HasUpTo(finalized)

TruthInv == ExecTyped /\ Numbered /\ Matched /\ ToldCommitted /\ OneAwaited /\ ClientKnows

(* Without a crash, and with what filter_txs lets through.                 *)
Filters == mishaps \cap {"crash", "unfiltered"} = {}

RunsInOrder(txs) == Ran(txs) = SubSeq(txs, 1, Len(Ran(txs))) /\ Len(Ran(txs)) <= Len(txs)

TxsInv ==
    Filters =>
        /\ TxsNotLost
        /\ \A c \in Call : call[c].pc \in Pending => RunsInOrder(call[c].txs)

(* While nothing is cancelled or fails after the batch, and the client     *)
(* names the root and repeats no block that changes nothing.               *)
Alive == mishaps \cap {"cancel", "commit", "crash", "noroot"} = {} /\ ~RepeatsEmptyBlocks

InLock == {"resolve", "wait", "height", "root"}

(* The lock is held from resolve to the answer, by one handler, and the    *)
(* one block on its way is that of the handler that holds it.              *)
Waited(b) ==
    call[b.call].pc = "wait" /\ call[b.call].reply = "none" /\ call[b.call].id = b.id

Serial ==
    /\ \A c \in Call : c \in holder <=> call[c].pc \in InLock
    /\ \A c, d \in holder : c = d
    /\ Len(sink) + (IF worker.pc = "free" THEN 0 ELSE 1) <= 1
    /\ \A j \in 1..Len(sink) : Waited(sink[j])
    /\ worker.pc # "free" => Waited(worker.block)

(* Until an init_chain has stored, nothing was executed.                   *)
Fresh ==
    ~initialized =>
        /\ \A c \in Call : call[c].pc \in {"free", "genesis"}
        /\ db = << >> /\ sink = << >> /\ worker.pc = "free"
        /\ client.root = NoRoot /\ client.height = 0 /\ finalized = 0

(* The block that was applied and whose root is not stored yet.            *)
Applying == worker.pc \in {"commit", "index"} \/ \E c \in Call : Told(call[c])

RootAt(n) == IF n = 0 THEN GenesisRoot ELSE db[n].root

RootCurrent ==
    /\ initialized /\ ~Applying => root = RootAt(Len(db))
    /\ Applying => Len(db) > 0 /\ root = RootAt(Len(db) - 1)
    /\ \A c \in Call : Told(call[c]) => call[c].root = RootAt(Len(db)) /\ call[c].height = Len(db)

(* What the client and the handlers take for the root of a height is that. *)
Names(r, h) == h \in 0..Len(db) /\ r = RootAt(h)

RootsNamed ==
    /\ client.root # NoRoot => Names(client.root, client.height)
    /\ \A c \in Call : call[c].pc \in {"lock", "resolve"} =>
        call[c].prev # NoRoot /\ Names(call[c].prev, call[c].height - 1)

Placed ==
    /\ LinearHistory
    /\ \A j \in 1..Len(sink) : sink[j].height = Len(db) + 1 /\ sink[j].base = Len(db)
    /\ worker.pc = "batch" => worker.block.height = Len(db) + 1 /\ worker.block.base = Len(db)

(* A client that never gives up has what storage holds, but for the block  *)
(* that is being applied.                                                  *)
InStep ==
    "giveup" \notin mishaps =>
        /\ \A c \in Call : call[c].pc \in Pending => ~call[c].lost
        /\ client.height + (IF Applying THEN 1 ELSE 0) = Len(db)

(* Where every block changes the state, no two roots are the same.         *)
RootsUnique ==
    "empty" \notin mishaps =>
        /\ \A i \in 1..Len(db) : db[i].root = db[i].id
        /\ \A j \in 1..Len(sink) : sink[j].root = sink[j].id
        /\ worker.pc # "free" => worker.block.root = worker.block.id

(* The service is at the height of storage or behind, and nothing beyond   *)
(* it is final.                                                            *)
Reached ==
    finalized <= current_height /\ current_height <= (IF Len(db) = 0 THEN InitialHeight ELSE Len(db))

Lin == Serial /\ Fresh /\ RootCurrent /\ RootsNamed /\ Placed /\ InStep

LinInv ==
    Alive =>
        /\ inits \in Nat /\ (initialized <=> inits # 0)
        /\ RootsUnique
        /\ inits <= 1 => Lin /\ Reached

ExecutorInv == TruthInv /\ TxsInv /\ LinInv

-----------------------------------------------------------------------------
(* What runs of a block, and what filter_txs lets through.                 *)
RunState == [gas : Nat, ran : Seq(Txs)]

FilterState == [bytes : Nat, gas : Nat, txs : Seq(Txs)]

(* A block that fits runs from its first transaction on: those that do not *)
(* run come last.                                                          *)
Fits(run, ok) == run.gas = ok.gas /\ run.ran = ok.txs

UsedUp(run, ok) ==
    /\ run.ran # << >> /\ run.gas >= MaxGas
    /\ Len(run.ran) <= Len(ok.txs) /\ run.ran = SubSeq(ok.txs, 1, Len(run.ran))

(* Ran and FilterTxs, by induction over the block: what runs, and what is  *)
(* kept by the filter, are sequences of transactions, and what the filter  *)
(* keeps runs whole.                                                       *)
LEMMA RunsAndFilters ==
  \A txs \in Seq(Txs) :
    /\ Ran(txs) \in Seq(Txs) /\ FilterTxs(txs, 0, 0) \in Seq(Txs)
    /\ RunsInOrder(FilterTxs(txs, 0, 0))
(* Every set of naturals has a least element, and induction.               *)
<1>LeastNat. ASSUME NEW T, T \subseteq Nat, T # {}
      PROVE \E x \in T : \A y \in T : x <= y
  <2> USE <1>LeastNat
  <2>1. PICK x \in T : \A y \in T : ~ (<<y, x>> \in OpToRel(<, Nat))
    BY NatLessThanWellFounded, WFMin, Zenon
  <2>2. ASSUME NEW y \in T PROVE x <= y
    <3>1. x \in Nat /\ y \in Nat
      BY Zenon
    <3>2. y < x => <<y, x>> \in OpToRel(<, Nat)
      BY Zenon, <3>1 DEF OpToRel
    <3>3. ~(y < x)
      BY <2>1, <3>2, Zenon
    <3> QED BY SMTT(60), <3>1, <3>3
  <2> QED BY Zenon, <2>2

(* Induction over the natural numbers, for a set of them.                  *)
<1>Induction. ASSUME NEW T, 0 \in T, \A n \in Nat : n \in T => n + 1 \in T
      PROVE Nat \subseteq T
  <2> USE <1>Induction
  <2> SUFFICES ASSUME Nat \ T # {} PROVE FALSE
    BY Zenon
  <2>1. PICK x \in Nat \ T : \A y \in Nat \ T : x <= y
    BY Zenon, <1>LeastNat
  <2>2. x # 0 /\ x - 1 \in Nat
    BY SMTT(60)
  <2>3. x - 1 \in T
    BY SMTT(60), <2>1, <2>2
  <2> QED BY SMTT(60), <2>2, <2>3

(* A function that starts in a set of values and stays in it exists.       *)
<1>Recursion. ASSUME NEW V, NEW z \in V, NEW G \in [Nat -> [V -> V]], NEW N \in Nat
      PROVE \E f \in [0..N -> V] : f[0] = z /\ \A n \in 1..N : f[n] = G[n][f[n - 1]]
  <2> USE <1>Recursion
  <2> DEFINE Is(f, m) == f \in [0..m -> V] /\ f[0] = z /\ \A n \in 1..m : f[n] = G[n][f[n - 1]]
             T == {m \in Nat : \E f : Is(f, m)}
  <2>1. 0 \in T
    <3>1. Is([n \in 0..0 |-> z], 0)
      BY SMTT(60)
    <3> QED BY Zenon, <3>1
  <2>2. ASSUME NEW m \in Nat, m \in T PROVE m + 1 \in T
    <3>1. PICK f : Is(f, m)
      BY Zenon, <2>2
    <3> DEFINE g == [n \in 0..m + 1 |-> IF n <= m THEN f[n] ELSE G[m + 1][f[m]]]
    <3>2. G[m + 1][f[m]] \in V
      BY SMTT(60), <3>1
    <3>3. g \in [0..m + 1 -> V] /\ g[0] = z
      BY SMTT(60), <3>1, <3>2
    <3>4. ASSUME NEW n \in 1..m + 1 PROVE g[n] = G[n][g[n - 1]]
      <4>1. n - 1 \in 0..m /\ g[n - 1] = f[n - 1]
        BY SMTT(60)
      <4>2. CASE n = m + 1
        BY SMTT(60), <4>1, <4>2
      <4>3. CASE n # m + 1
        <5>1. n \in 1..m /\ g[n] = f[n]
          BY SMTT(60), <4>3
        <5> QED BY Zenon, <3>1, <4>1, <5>1
      <4> QED BY Zenon, <4>2, <4>3
    <3> HIDE DEF g
    <3>5. Is(g, m + 1)
      BY Zenon, <3>3, <3>4
    <3> QED BY SMTT(60), <3>5
  <2> HIDE DEF T
  <2>3. N \in T
    BY Zenon, <2>1, <2>2, <1>Induction
  <2> QED BY Zenon, <2>3 DEF T

(* One transaction of a block adds at most itself to what ran.             *)
<1>RunTxType. ASSUME NEW s \in RunState, NEW t \in Txs
      PROVE RunTx(s, t) \in RunState
  <2> USE <1>RunTxType
  <2>1. Gas[t] \in Nat /\ s.gas \in Nat /\ s.ran \in Seq(Txs)
    BY Zenon, ExecutorAssumption DEF RunState
  <2>2. s.gas + Gas[t] \in Nat /\ Append(s.ran, t) \in Seq(Txs)
    BY SMTT(60), <2>1
  <2> QED BY Zenon, <2>2 DEF RunTx, RunState

(* One transaction of a proposal is kept, dropped or ends the filter.      *)
<1>FilterTxType. ASSUME NEW s \in FilterState, NEW t \in Txs, NEW b \in Nat, NEW g \in Nat
      PROVE FilterTx(s, t, b, g) \in FilterState
  <2> USE <1>FilterTxType
  <2>1. Gas[t] \in Nat /\ Bytes[t] \in Nat /\ s.gas \in Nat /\ s.bytes \in Nat /\ s.txs \in Seq(Txs)
    BY Zenon, ExecutorAssumption DEF FilterState
  <2>2. s.gas + Gas[t] \in Nat /\ s.bytes + Bytes[t] \in Nat /\ Append(s.txs, t) \in Seq(Txs)
    BY SMTT(60), <2>1
  <2> QED BY Zenon, <2>2 DEF FilterTx, FilterState

(* The recursion of Running defines a function.                            *)
<1>RunsExist. ASSUME NEW z \in RunState, NEW G \in [Nat -> [RunState -> RunState]], NEW N \in Nat
      PROVE \E f \in [0..N -> RunState] : f[0] = z /\ \A n \in 1..N : f[n] = G[n][f[n - 1]]
  BY SMTT(60), <1>Recursion, <1>RunsExist

(* The recursion of Filtered defines a function.                           *)
<1>FiltersExist. ASSUME NEW z \in FilterState, NEW G \in [Nat -> [FilterState -> FilterState]], NEW N \in Nat
      PROVE \E f \in [0..N -> FilterState] : f[0] = z /\ \A n \in 1..N : f[n] = G[n][f[n - 1]]
  BY SMTT(60), <1>Recursion, <1>FiltersExist

(* Running does what its definition says.                                  *)
<1>RunningIs. ASSUME NEW txs \in Seq(Txs)
      PROVE /\ Running(txs)[0] = [gas |-> 0, ran |-> << >>]
            /\ \A n \in 1..Len(txs) : Running(txs)[n] = RunTx(Running(txs)[n - 1], txs[n])
            /\ \A n \in 0..Len(txs) : Running(txs)[n] \in RunState
  <2> USE <1>RunningIs
  <2> DEFINE z == [gas |-> 0, ran |-> << >>]
             N == Len(txs)
             G == [n \in Nat |-> [s \in RunState |-> IF n \in 1..N THEN RunTx(s, txs[n]) ELSE s]]
             E(f) == [n \in 0..N |-> IF n = 0 THEN z ELSE RunTx(f[n - 1], txs[n])]
  <2>1. z \in RunState /\ N \in Nat
    BY SMTT(60) DEF RunState
  <2>2. G \in [Nat -> [RunState -> RunState]]
    <3>1. \A n \in 1..N : txs[n] \in Txs
      BY SMTT(60)
    <3> QED BY Zenon, <3>1, <1>RunTxType
  <2>3. \E f : f = E(f)
    <3>1. PICK f \in [0..N -> RunState] : f[0] = z /\ \A n \in 1..N : f[n] = G[n][f[n - 1]]
      <4> HIDE DEF z, N, G
      <4> QED BY ZenonT(60), <2>1, <2>2, <1>RunsExist
    <3>2. ASSUME NEW n \in 0..N PROVE f[n] = IF n = 0 THEN z ELSE RunTx(f[n - 1], txs[n])
      <4>1. CASE n = 0
        BY Zenon, <3>1, <4>1
      <4>2. CASE n # 0
        <5>1. n \in 1..N /\ n \in Nat /\ f[n - 1] \in RunState
          BY SMTT(60), <4>2, <2>1
        <5>2. G[n][f[n - 1]] = RunTx(f[n - 1], txs[n])
          BY Zenon, <5>1
        <5> QED BY Zenon, <3>1, <4>2, <5>1, <5>2
      <4> QED BY Zenon, <4>1, <4>2
    <3> HIDE DEF z, N
    <3>3. f = E(f)
      BY Zenon, <3>2
    <3> QED BY Zenon, <3>3
  <2>4. Running(txs) = E(Running(txs))
    <3>1. Running(txs) = CHOOSE f : f = E(f)
      BY Zenon DEF Running
    <3> HIDE DEF E
    <3> QED BY Zenon, <2>3, <3>1
  <2> DEFINE run == Running(txs)
  <2>5. run[0] = z /\ \A n \in 1..N : run[n] = RunTx(run[n - 1], txs[n])
    <3>1. run = E(run)
      BY Zenon, <2>4
    <3> HIDE DEF run, z
    <3> QED BY SMTT(60), <2>1, <3>1
  <2>6. \A n \in 0..N : run[n] \in RunState
    <3> DEFINE T == {n \in Nat : n <= N => run[n] \in RunState}
    <3> HIDE DEF run
    <3>1. 0 \in T
      BY Zenon, <2>1, <2>5
    <3>2. ASSUME NEW n \in Nat, n \in T PROVE n + 1 \in T
      <4> SUFFICES ASSUME n + 1 <= N PROVE run[n + 1] \in RunState
        BY SMTT(60)
      <4>1. run[n] \in RunState /\ n + 1 \in 1..N /\ (n + 1) - 1 = n
        BY SMTT(60), <2>1, <3>2
      <4>2. run[n + 1] = RunTx(run[n], txs[n + 1]) /\ txs[n + 1] \in Txs
        BY SMTT(60), <2>5, <4>1
      <4> QED BY Zenon, <4>1, <4>2, <1>RunTxType
    <3> HIDE DEF T
    <3>3. Nat \subseteq T
      BY ZenonT(60), <3>1, <3>2, <1>Induction
    <3> QED BY SMTT(60), <2>1, <3>3 DEF T
  <2> QED BY ZenonT(60), <2>5, <2>6

(* So does Filtered.                                                       *)
<1>FilteredIs. ASSUME NEW txs \in Seq(Txs), NEW b \in Nat, NEW g \in Nat
      PROVE /\ Filtered(txs, b, g)[0] = [bytes |-> 0, gas |-> 0, txs |-> << >>]
            /\ \A n \in 1..Len(txs) : Filtered(txs, b, g)[n] = FilterTx(Filtered(txs, b, g)[n - 1], txs[n], b, g)
            /\ \A n \in 0..Len(txs) : Filtered(txs, b, g)[n] \in FilterState
  <2> USE <1>FilteredIs
  <2> DEFINE z == [bytes |-> 0, gas |-> 0, txs |-> << >>]
             N == Len(txs)
             G == [n \in Nat |-> [s \in FilterState |-> IF n \in 1..N THEN FilterTx(s, txs[n], b, g) ELSE s]]
             E(f) == [n \in 0..N |-> IF n = 0 THEN z ELSE FilterTx(f[n - 1], txs[n], b, g)]
  <2>1. z \in FilterState /\ N \in Nat
    BY SMTT(60) DEF FilterState
  <2>2. G \in [Nat -> [FilterState -> FilterState]]
    <3>1. \A n \in 1..N : txs[n] \in Txs
      BY SMTT(60)
    <3> QED BY Zenon, <3>1, <1>FilterTxType
  <2>3. \E f : f = E(f)
    <3>1. PICK f \in [0..N -> FilterState] : f[0] = z /\ \A n \in 1..N : f[n] = G[n][f[n - 1]]
      <4> HIDE DEF z, N, G
      <4> QED BY ZenonT(60), <2>1, <2>2, <1>FiltersExist
    <3>2. ASSUME NEW n \in 0..N PROVE f[n] = IF n = 0 THEN z ELSE FilterTx(f[n - 1], txs[n], b, g)
      <4>1. CASE n = 0
        BY Zenon, <3>1, <4>1
      <4>2. CASE n # 0
        <5>1. n \in 1..N /\ n \in Nat /\ f[n - 1] \in FilterState
          BY SMTT(60), <4>2, <2>1
        <5>2. G[n][f[n - 1]] = FilterTx(f[n - 1], txs[n], b, g)
          BY Zenon, <5>1
        <5> QED BY Zenon, <3>1, <4>2, <5>1, <5>2
      <4> QED BY Zenon, <4>1, <4>2
    <3> HIDE DEF z, N
    <3>3. f = E(f)
      BY Zenon, <3>2
    <3> QED BY Zenon, <3>3
  <2>4. Filtered(txs, b, g) = E(Filtered(txs, b, g))
    <3>1. Filtered(txs, b, g) = CHOOSE f : f = E(f)
      BY Zenon DEF Filtered
    <3> HIDE DEF E
    <3> QED BY Zenon, <2>3, <3>1
  <2> DEFINE ok == Filtered(txs, b, g)
  <2>5. ok[0] = z /\ \A n \in 1..N : ok[n] = FilterTx(ok[n - 1], txs[n], b, g)
    <3>1. ok = E(ok)
      BY Zenon, <2>4
    <3> HIDE DEF ok, z
    <3> QED BY SMTT(60), <2>1, <3>1
  <2>6. \A n \in 0..N : ok[n] \in FilterState
    <3> DEFINE T == {n \in Nat : n <= N => ok[n] \in FilterState}
    <3> HIDE DEF ok
    <3>1. 0 \in T
      BY Zenon, <2>1, <2>5
    <3>2. ASSUME NEW n \in Nat, n \in T PROVE n + 1 \in T
      <4> SUFFICES ASSUME n + 1 <= N PROVE ok[n + 1] \in FilterState
        BY SMTT(60)
      <4>1. ok[n] \in FilterState /\ n + 1 \in 1..N /\ (n + 1) - 1 = n
        BY SMTT(60), <2>1, <3>2
      <4>2. ok[n + 1] = FilterTx(ok[n], txs[n + 1], b, g) /\ txs[n + 1] \in Txs
        BY SMTT(60), <2>5, <4>1
      <4> QED BY Zenon, <4>1, <4>2, <1>FilterTxType
    <3> HIDE DEF T
    <3>3. Nat \subseteq T
      BY Zenon, <3>1, <3>2, <1>Induction
    <3> QED BY SMTT(60), <2>1, <3>3 DEF T
  <2> QED BY ZenonT(60), <2>5, <2>6

(* What runs of a block is a sequence of transactions.                     *)
<1>RanType. ASSUME NEW txs \in Seq(Txs)
      PROVE Ran(txs) \in Seq(Txs)
  <2> USE <1>RanType
  <2>1. Len(txs) \in 0..Len(txs)
    BY SMTT(60)
  <2>2. Running(txs)[Len(txs)] \in RunState
    BY Zenon, <2>1, <1>RunningIs
  <2> QED BY Zenon, <2>2 DEF Ran, RunState

(* What the filter keeps is a sequence of transactions.                    *)
<1>FilterType. ASSUME NEW txs \in Seq(Txs)
      PROVE /\ FilterTxs(txs, 0, 0) = Filtered(txs, MaxBytes, MaxGas)[Len(txs)].txs
            /\ FilterTxs(txs, 0, 0) \in Seq(Txs)
  <2> USE <1>FilterType
  <2>1. MaxBytes \in Nat /\ MaxGas \in Nat
    BY ZenonT(60), ExecutorAssumption
  <2>2. Len(txs) \in 0..Len(txs)
    BY SMTT(60)
  <2>3. Filtered(txs, MaxBytes, MaxGas)[Len(txs)] \in FilterState
    BY ZenonT(60), <2>1, <2>2, <1>FilteredIs
  <2>4. FilterTxs(txs, 0, 0) = Filtered(txs, MaxBytes, MaxGas)[Len(txs)].txs
    BY SMTT(60) DEF FilterTxs
  <2> QED BY ZenonT(60), <2>3, <2>4 DEF FilterState

(* One more transaction changes nothing about those before it.             *)
<1>RunningPrefix. ASSUME NEW o \in Seq(Txs), NEW t \in Txs
      PROVE Running(Append(o, t))[Len(o) + 1] = RunTx(Running(o)[Len(o)], t)
  <2> USE <1>RunningPrefix
  <2> DEFINE a == Append(o, t)
             r == Running(a)
             q == Running(o)
             T == {n \in Nat : n <= Len(o) => r[n] = q[n]}
  <2>0. a \in Seq(Txs) /\ Len(a) = Len(o) + 1 /\ a[Len(o) + 1] = t /\ \A n \in 1..Len(o) : a[n] = o[n]
    BY SMTT(60)
  <2>1. r[0] = q[0]
    BY Zenon, <2>0, <1>RunningIs
  <2>2. \A n \in 1..Len(o) + 1 : r[n] = RunTx(r[n - 1], a[n])
    BY Zenon, <2>0, <1>RunningIs
  <2>3. \A n \in 1..Len(o) : q[n] = RunTx(q[n - 1], o[n])
    BY ZenonT(60), <1>RunningIs
  <2> HIDE DEF a, r, q
  <2>4. ASSUME NEW n \in Nat, n \in T PROVE n + 1 \in T
    <3> SUFFICES ASSUME n + 1 <= Len(o) PROVE r[n + 1] = q[n + 1]
      BY SMTT(60)
    <3>1. n + 1 \in 1..Len(o) /\ n + 1 \in 1..Len(o) + 1 /\ (n + 1) - 1 = n /\ r[n] = q[n]
      BY SMTT(60), <2>4
    <3> QED BY ZenonT(60), <2>0, <2>2, <2>3, <3>1
  <2>5. 0 \in T
    BY ZenonT(60), <2>1
  <2> HIDE DEF T
  <2>6. Nat \subseteq T
    BY ZenonT(60), <2>4, <2>5, <1>Induction
  <2>7. r[Len(o)] = q[Len(o)]
    BY SMTT(60), <2>6 DEF T
  <2>8. r[Len(o) + 1] = RunTx(r[Len(o)], t)
    <3>1. Len(o) + 1 \in 1..Len(o) + 1 /\ (Len(o) + 1) - 1 = Len(o)
      BY SMTT(60)
    <3> QED BY ZenonT(60), <2>0, <2>2, <3>1
  <2> QED BY Zenon, <2>7, <2>8 DEF r, q, a

(* A block that runs whole still does with a transaction that fits.        *)
<1>RunsOneMore. ASSUME NEW ok \in FilterState, NEW t \in Txs, NEW run \in RunState,
             run = Running(ok.txs)[Len(ok.txs)],
             Fits(run, ok) \/ UsedUp(run, ok)
      PROVE LET new == FilterTx(ok, t, MaxBytes, MaxGas)
                next == Running(new.txs)[Len(new.txs)]
            IN Fits(next, new) \/ UsedUp(next, new)
  <2> USE <1>RunsOneMore
  <2> DEFINE new == FilterTx(ok, t, MaxBytes, MaxGas)
             next == Running(new.txs)[Len(new.txs)]
             o == ok.txs
  <2> SUFFICES Fits(next, new) \/ UsedUp(next, new)
    BY Zenon
  <2>0. /\ o \in Seq(Txs) /\ ok.gas \in Nat /\ ok.bytes \in Nat
        /\ run.ran \in Seq(Txs) /\ run.gas \in Nat
        /\ Gas[t] \in Nat /\ Bytes[t] \in Nat /\ MaxGas \in Nat /\ MaxBytes \in Nat
    BY ZenonT(60), ExecutorAssumption DEF FilterState, RunState
  <2>1. CASE new = ok
    BY Zenon, <2>1
  <2>2. CASE new # ok
    <3>1. new.gas = ok.gas + Gas[t] /\ new.txs = Append(o, t) /\ ok.gas + Gas[t] <= MaxGas
      <4>1. ~(ok.bytes + Bytes[t] > MaxBytes) /\ ~(ok.gas + Gas[t] > MaxGas)
        BY ZenonT(60), <2>2 DEF FilterTx
      <4>2. new = [bytes |-> ok.bytes + Bytes[t], gas |-> ok.gas + Gas[t], txs |-> Append(o, t)]
        BY ZenonT(60), <4>1 DEF FilterTx
      <4>3. ok.gas + Gas[t] <= MaxGas
        BY SMTT(60), <2>0, <4>1
      <4> QED BY SMTT(60), <4>2, <4>3
    <3>2. next = RunTx(run, t)
      <4>1. Len(Append(o, t)) = Len(o) + 1
        BY SMTT(60), <2>0
      <4>2. Running(Append(o, t))[Len(o) + 1] = RunTx(run, t)
        BY ZenonT(60), <2>0, <1>RunningPrefix
      <4> QED BY ZenonT(60), <3>1, <4>1, <4>2
    <3>3. CASE Fits(run, ok)
      <4>1. ~(run.gas + Gas[t] > MaxGas)
        BY SMTT(60), <2>0, <3>1, <3>3 DEF Fits
      <4>2. CASE run.ran # << >> /\ run.gas >= MaxGas
        <5>1. next = run
          BY ZenonT(60), <3>2, <4>2 DEF RunTx
        <5>2. run.ran = o
          BY Zenon, <3>3 DEF Fits
        <5>3. Len(o) <= Len(new.txs) /\ o = SubSeq(new.txs, 1, Len(o))
          <6>1. Len(Append(o, t)) = Len(o) + 1
            BY SMTT(60), <2>0
          <6>2. SubSeq(Append(o, t), 1, Len(o)) = o
            BY SMTT(60), <2>0
          <6> QED BY SMTT(60), <2>0, <3>1, <6>1, <6>2
        <5> HIDE DEF next, new
        <5> QED BY ZenonT(60), <4>2, <5>1, <5>2, <5>3 DEF UsedUp
      <4>3. CASE ~(run.ran # << >> /\ run.gas >= MaxGas)
        <5>1. next = [gas |-> run.gas + Gas[t], ran |-> Append(run.ran, t)]
          BY Zenon, <3>2, <4>1, <4>3 DEF RunTx
        <5> HIDE DEF next, new
        <5> QED BY Zenon, <3>1, <3>3, <5>1 DEF Fits
      <4> QED BY ZenonT(60), <4>2, <4>3
    <3>4. CASE UsedUp(run, ok)
      <4>1. next = run
        BY ZenonT(60), <3>2, <3>4 DEF RunTx, UsedUp
      <4> DEFINE k == Len(run.ran)
      <4>2. k \in Nat /\ k <= Len(o) /\ run.ran = SubSeq(o, 1, k)
        BY SMTT(60), <2>0, <3>4 DEF UsedUp
      <4> HIDE DEF k
      <4>3. SubSeq(Append(o, t), 1, k) = SubSeq(o, 1, k) /\ k <= Len(Append(o, t))
        BY SMTT(60), <2>0, <4>2
      <4> HIDE DEF next, new
      <4>4. Len(run.ran) <= Len(new.txs) /\ run.ran = SubSeq(new.txs, 1, Len(run.ran))
        BY ZenonT(60), <3>1, <4>2, <4>3 DEF k
      <4> QED BY Zenon, <3>4, <4>1, <4>4 DEF UsedUp
    <3> QED BY ZenonT(60), <3>3, <3>4
  <2> QED BY ZenonT(60), <2>1, <2>2

(* What filter_txs keeps, execute_txs runs whole.                          *)
<1>FilteredRuns. ASSUME NEW txs \in Seq(Txs)
      PROVE RunsInOrder(FilterTxs(txs, 0, 0))
  <2> USE <1>FilteredRuns
  <2> DEFINE ok == Filtered(txs, MaxBytes, MaxGas)
             N == Len(txs)
             R(n) == Running(ok[n].txs)[Len(ok[n].txs)]
             T == {n \in Nat : n <= N => Fits(R(n), ok[n]) \/ UsedUp(R(n), ok[n])}
  <2>0. MaxBytes \in Nat /\ MaxGas \in Nat /\ N \in Nat
    BY SMTT(60), ExecutorAssumption
  <2>1. /\ ok[0] = [bytes |-> 0, gas |-> 0, txs |-> << >>]
        /\ \A n \in 1..N : ok[n] = FilterTx(ok[n - 1], txs[n], MaxBytes, MaxGas)
        /\ \A n \in 0..N : ok[n] \in FilterState
    BY Zenon, <2>0, <1>FilteredIs
  <2>2. FilterTxs(txs, 0, 0) = ok[N].txs
    BY Zenon, <1>FilterType
  <2> HIDE DEF ok
  <2>3. 0 \in T
    <3>1. << >> \in Seq(Txs) /\ Len(<< >>) = 0
      BY SMTT(60)
    <3>2. Running(<< >>)[0] = [gas |-> 0, ran |-> << >>]
      BY Zenon, <3>1, <1>RunningIs
    <3>3. Fits(R(0), ok[0])
      BY SMTT(60), <2>1, <3>1, <3>2 DEF Fits
    <3> QED BY Zenon, <3>3
  <2>4. ASSUME NEW n \in Nat, n \in T PROVE n + 1 \in T
    <3> SUFFICES ASSUME n + 1 <= N PROVE Fits(R(n + 1), ok[n + 1]) \/ UsedUp(R(n + 1), ok[n + 1])
      BY SMTT(60)
    <3>1. n \in 0..N /\ n + 1 \in 1..N /\ (n + 1) - 1 = n
      BY SMTT(60), <2>0
    <3>2. ok[n] \in FilterState /\ txs[n + 1] \in Txs
      BY SMTT(60), <2>1, <3>1
    <3>3. ok[n].txs \in Seq(Txs)
      BY ZenonT(60), <3>2 DEF FilterState
    <3>4. R(n) \in RunState
      BY SMTT(60), <3>3, <1>RunningIs
    <3>5. Fits(R(n), ok[n]) \/ UsedUp(R(n), ok[n])
      BY SMTT(60), <2>0, <2>4, <3>1
    <3>6. ok[n + 1] = FilterTx(ok[n], txs[n + 1], MaxBytes, MaxGas)
      BY ZenonT(60), <2>1, <3>1
    <3> HIDE DEF T
    <3> QED BY ZenonT(60), <3>2, <3>4, <3>5, <3>6, <1>RunsOneMore
  <2> HIDE DEF T
  <2>5. N \in T
    BY Zenon, <2>0, <2>3, <2>4, <1>Induction
  <2>6. ok[N].txs \in Seq(Txs)
    BY SMTT(60), <2>0, <2>1 DEF FilterState
  <2>7. Fits(R(N), ok[N]) \/ UsedUp(R(N), ok[N])
    BY SMTT(60), <2>0, <2>5 DEF T
  <2>8. Ran(ok[N].txs) = R(N).ran
    BY ZenonT(60) DEF Ran
  <2> DEFINE o == ok[N].txs
  <2>9. RunsInOrder(o)
    <3>1. CASE Fits(R(N), ok[N])
      <4>1. Ran(o) = o
        BY ZenonT(60), <2>8, <3>1 DEF Fits
      <4>2. o = SubSeq(o, 1, Len(o)) /\ Len(o) <= Len(o)
        BY SMTT(60), <2>6
      <4> HIDE DEF o
      <4> QED BY Zenon, <4>1, <4>2 DEF RunsInOrder
    <3>2. CASE UsedUp(R(N), ok[N])
      BY Zenon, <2>8, <3>2 DEF UsedUp, RunsInOrder
    <3> QED BY ZenonT(60), <2>7, <3>1, <3>2
  <2> QED BY ZenonT(60), <2>2, <2>9
<1> QED BY Zenon, <1>RanType, <1>FilterType, <1>FilteredRuns

-----------------------------------------------------------------------------
(* What a handler's record is, by its step.                                *)
LEMMA CallKinds ==
  ASSUME ExecTyped, NEW c \in Call
  PROVE /\ call[c].pc = "free" => call[c] = Free
        /\ call[c].pc = "genesis" => call[c] \in Resting
        /\ call[c].pc \in {"lock", "resolve"} => call[c] \in Asked
        /\ call[c].pc \in {"wait", "height", "root"} => call[c] \in Executed
        /\ call[c].pc \in Pending \cup {"free", "genesis"}
        /\ call[c].lost \in BOOLEAN
<1>1. call[c] \in Resting \cup Asked \cup Executed
  BY Zenon DEF ExecTyped
<1>2. CASE call[c] \in Resting
  <2>1. CASE call[c] = Free
    BY SMTT(60), <2>1 DEF Free
  <2>2. CASE call[c] \in [pc : {"genesis"}, lost : BOOLEAN]
    BY ZenonT(60), <1>2, <2>2
  <2> QED BY Zenon, <1>2, <2>1, <2>2 DEF Resting
<1>3. CASE call[c] \in Asked
  BY ZenonT(60), <1>3 DEF Asked, Pending
<1>4. CASE call[c] \in Executed
  BY ZenonT(60), <1>4 DEF Executed, Pending
<1> QED BY ZenonT(60), <1>1, <1>2, <1>3, <1>4

(* The fields of a handler that has not executed.                          *)
LEMMA AskedFields ==
  ASSUME NEW x \in Asked
  PROVE x.lost \in BOOLEAN /\ x.height \in Nat /\ x.prev \in Int /\ x.txs \in Seq(Txs)
BY Zenon DEF Asked

(* The fields of a handler that has executed.                              *)
LEMMA ExecutedFields ==
  ASSUME NEW x \in Executed
  PROVE x.lost \in BOOLEAN /\ x.height \in Nat /\ x.txs \in Seq(Txs) /\ x.id \in Nat /\ x.root \in Int
BY Zenon DEF Executed

(* What the record of the sink worker is, by its step.                     *)
LEMMA WorkerKinds ==
  ASSUME ExecTyped
  PROVE /\ worker.pc \in {"free", "batch", "commit", "index"}
        /\ worker.pc = "free" <=> worker = Free
        /\ worker.pc # "free" => worker.block \in Executable /\ worker = [pc |-> worker.pc, block |-> worker.block]
<1>1. CASE worker = Free
  BY ZenonT(60), <1>1 DEF Free
<1>2. CASE worker \in [pc : {"batch", "commit", "index"}, block : Executable]
  BY SMTT(60), <1>2 DEF Free
<1> QED BY Zenon, <1>1, <1>2 DEF ExecTyped

(* Every permutation of a set of transactions is a sequence of them.       *)
LEMMA PermutedType ==
  ASSUME NEW S \in SUBSET Txs, NEW s \in Permuted(S)
  PROVE s \in Seq(Txs)
<1>2. Cardinality(S) \in Nat
  BY Zenon, ExecutorAssumption
<1> DEFINE n == Cardinality(S)
<1>3. s \in [1..n -> Txs]
  BY ZenonT(60) DEF Permuted
<1> HIDE DEF n
<1> QED BY SMTT(60), <1>2, <1>3 DEF n

-----------------------------------------------------------------------------
(* A handler in two of its states, at the same block, before and after it  *)
(* knows the root.                                                         *)
SameBlock(x, y) == x.id = y.id /\ x.height = y.height /\ x.txs = y.txs

Same(x, y) == SameBlock(x, y) /\ x.root = y.root

(* What storage keeps, it keeps.                                           *)
Grows == \A i \in 1..committed : i \in 1..committed' /\ db'[i] = db[i]

TypedService ==
    initialized \in BOOLEAN /\ root \in Int /\ current_height \in Nat /\ finalized \in Nat /\ holder \subseteq Call

TypedPool == mempool \in [waiting : SUBSET Txs, in_flight : SUBSET Txs]

(* A free handler is at rest.                                              *)
LEMMA FreeIsResting ==
  Free \in Resting /\ Free.pc = "free" /\ Free.lost
BY Zenon DEF Resting, Free

-----------------------------------------------------------------------------
(* What a reply does to the handlers.                                      *)
Heard(d, block, reply) ==
    /\ d = block.call /\ call[d].pc = "wait" /\ call[d].id = block.id
    /\ call[d] \in Executed /\ call'[d] \in Executed /\ call'[d].pc = "wait" /\ call'[d].lost = call[d].lost
    /\ SameBlock(call'[d], call[d]) /\ call'[d].reply = reply /\ call'[d].root = block.root

(* What the reply of the sink worker changes.                              *)
LEMMA RepliedIs ==
  ASSUME ExecTyped, NEW block \in Executable, NEW reply \in {"failed", "committed"}, Replied(block, reply)
  PROVE /\ call' \in [Call -> Resting \cup Asked \cup Executed]
        /\ \A d \in Call : call'[d] = call[d] \/ Heard(d, block, reply)
<1> DEFINE c == block.call
<1>0. c \in Call /\ call \in [Call -> Resting \cup Asked \cup Executed]
  BY Zenon DEF Executable, ExecTyped
<1>1. CASE call[c].pc = "wait" /\ call[c].id = block.id
  <2>1. call' = [call EXCEPT ![c] = [@ EXCEPT !.reply = reply, !.root = block.root]]
    BY Zenon, <1>1 DEF Replied
  <2>2. call[c] \in Executed
    BY ZenonT(60), <1>0, <1>1, CallKinds
  <2> DEFINE x == [call[c] EXCEPT !.reply = reply, !.root = block.root]
  <2>6. block.root \in Int
    BY Zenon DEF Executable
  <2>3. /\ x \in Executed /\ x.pc = "wait" /\ x.lost = call[c].lost /\ x.reply = reply /\ x.root = block.root
        /\ SameBlock(x, call[c])
    BY ZenonT(60), <1>1, <2>2, <2>6 DEF Executed, SameBlock
  <2>4. call' = [call EXCEPT ![c] = x]
    BY Zenon, <2>1
  <2> HIDE DEF x
  <2>5. call' \in [Call -> Resting \cup Asked \cup Executed] /\ call'[c] = x /\ \A d \in Call : d # c => call'[d] = call[d]
    BY ZenonT(60), <1>0, <2>3, <2>4
  <2> QED BY Zenon, <1>1, <2>2, <2>3, <2>5 DEF Heard
<1>2. CASE ~(call[c].pc = "wait" /\ call[c].id = block.id)
  BY Zenon, <1>0, <1>2 DEF Replied
<1> QED BY Zenon, <1>1, <1>2

(* The block that storage applies is the one it was given but for the root.*)
LEMMA WithRootIs ==
  ASSUME ExecTyped, NEW block \in Executable
  PROVE LET b == WithRoot(block)
        IN /\ b \in Executable /\ b.id = block.id /\ b.height = block.height /\ b.base = block.base
           /\ b.ran = block.ran /\ b.call = block.call
           /\ block.root # NoRoot => b.root = block.root
<1>1. CASE block.root # NoRoot
  BY Zenon, <1>1 DEF WithRoot
<1>2. CASE block.root = NoRoot
  <2>1. StorageRoot \in Int
    <3>1. CASE db = << >>
      BY SMTT(60), <3>1 DEF StorageRoot
    <3>2. CASE db # << >>
      <4>1. db[Len(db)] \in Executable
        BY SMTT(60), <3>2 DEF ExecTyped
      <4> QED BY Zenon, <3>2, <4>1 DEF StorageRoot, Executable
    <3> QED BY Zenon, <3>1, <3>2
  <2>2. WithRoot(block) = [block EXCEPT !.root = StorageRoot]
    BY Zenon, <1>2 DEF WithRoot
  <2> QED BY ZenonT(60), <1>2, <2>1, <2>2 DEF Executable
<1> QED BY Zenon, <1>1, <1>2

(* Every step keeps TruthInv.                                              *)
LEMMA TruthNext == TruthInv /\ [ExecutorNext]_<<executor, mishaps>> => TruthInv'
(* A handler that moves keeps the types of all handlers.                   *)
<1>CallMoves. ASSUME ExecTyped, Matched, ToldCommitted,
             NEW c \in Call, NEW x, call' = [call EXCEPT ![c] = x],
             UNCHANGED <<sink, worker, db, committed>>,
             x.pc = "wait" => call[c].pc = "wait" /\ Same(x, call[c]),
             Told(x) => Told(call[c]) /\ Same(x, call[c])
      PROVE Matched' /\ ToldCommitted'
  <2> USE <1>CallMoves
  <2>0. call \in [Call -> Resting \cup Asked \cup Executed]
    BY Zenon DEF ExecTyped
  <2>1. call'[c] = x /\ \A d \in Call : d # c => call'[d] = call[d]
    BY Zenon, <2>0
  <2>2. ASSUME NEW b, b.call \in Call, Match(b)
        PROVE call'[b.call].pc = "wait" /\ call'[b.call].id = b.id =>
                call'[b.call].height = b.height /\ Ran(call'[b.call].txs) = b.ran
    <3>1. CASE b.call = c
      BY Zenon, <2>1, <2>2, <3>1 DEF Match, Same, SameBlock
    <3>2. CASE b.call # c
      BY Zenon, <2>1, <2>2, <3>2 DEF Match
    <3> QED BY Zenon, <3>1, <3>2
  <2>3. Matched'
    <3>1. ASSUME NEW j \in 1..Len(sink) PROVE sink[j].call \in Call /\ Match(sink[j])
      <4>1. sink[j] \in Executable
        BY SMTT(60) DEF ExecTyped
      <4> QED BY Zenon, <4>1 DEF Executable, Matched
    <3>2. worker.pc # "free" => worker.block.call \in Call /\ Match(worker.block)
      BY Zenon, WorkerKinds DEF Executable, Matched
    <3>3. sink' = sink /\ worker' = worker
      BY Zenon
    <3>4. ASSUME NEW b, b.call \in Call, Match(b) PROVE Match(b)'
      BY Zenon, <2>2, <3>4 DEF Match
    <3>5. \A j \in 1..Len(sink) : Match(sink[j])'
      BY ZenonT(60), <3>1, <3>3, <3>4 DEF Match
    <3>6. worker.pc # "free" => Match(worker.block)'
      BY Zenon, <3>2, <3>3, <3>4 DEF Match
    <3> QED BY Zenon, <3>3, <3>5, <3>6 DEF Matched
  <2>4. ToldCommitted'
    <3> SUFFICES ASSUME NEW d \in Call, Told(call[d])' PROVE InStorage(call[d])'
      BY Zenon DEF ToldCommitted
    <3>1. Told(call[d]) /\ Same(call'[d], call[d])
      BY ZenonT(60), <2>1 DEF Told, Same, SameBlock
    <3>2. InStorage(call[d])
      BY Zenon, <3>1 DEF ToldCommitted
    <3>3. db' = db /\ committed' = committed
      BY Zenon
    <3> QED BY Zenon, <3>1, <3>2, <3>3 DEF InStorage, Same, SameBlock
  <2> QED BY Zenon, <2>3, <2>4

(* The client still waits for one height.                                  *)
<1>AwaitMoves. ASSUME ExecTyped, OneAwaited, client'.height = client.height,
             NEW c \in Call, NEW x, call' = [call EXCEPT ![c] = x],
             x.pc \in Pending /\ ~x.lost =>
                \/ Awaited(c) /\ x.height = call[c].height
                \/ ClientFree /\ x.height = client.height + 1,
             x.pc \in Pending => (call[c].pc \in Pending /\ x.height = call[c].height) \/ x.height = client.height + 1
      PROVE OneAwaited'
  <2> USE <1>AwaitMoves
  <2>0. call \in [Call -> Resting \cup Asked \cup Executed]
    BY Zenon DEF ExecTyped
  <2>1. call'[c] = x /\ \A d \in Call : d # c => call'[d] = call[d]
    BY Zenon, <2>0
  <2>2. \A d \in Call : Awaited(d)' /\ d # c => Awaited(d)
    BY Zenon, <2>1 DEF Awaited
  <2>3. Awaited(c)' => Awaited(c) \/ ClientFree
    BY Zenon, <2>1 DEF Awaited
  <2>4. \A d \in Call : Awaited(d) => ~ClientFree
    BY Zenon DEF Awaited, ClientFree, Pending
  <2>5. \A d, e \in Call : Awaited(d)' /\ Awaited(e)' => d = e
    BY Zenon, <2>2, <2>3, <2>4 DEF OneAwaited
  <2>6. \A d \in Call : Awaited(d)' => call'[d].height = client'.height + 1
    BY ZenonT(60), <2>1, <2>2 DEF OneAwaited, Awaited
  <2>7. client.height + 1 \in 1..client.height + 1
    BY SMTT(60) DEF ExecTyped
  <2>8. \A d \in Call : call'[d].pc \in Pending => call'[d].height \in 1..client'.height + 1
    BY ZenonT(60), <2>1, <2>7 DEF OneAwaited
  <2> QED BY Zenon, <2>5, <2>6, <2>8 DEF OneAwaited

(* What the client knows stays so as storage grows.                        *)
<1>KnowsGrows. ASSUME ExecTyped, ClientKnows, Grows, client' = client, HasUpTo(current_height'), HasUpTo(finalized')
      PROVE ClientKnows'
  <2> USE <1>KnowsGrows
  <2>1. \A h : HasHeight(h) => HasHeight(h)'
    BY ZenonT(60) DEF HasHeight, Grows
  <2>2. client.height > 0 => \E i \in 1..committed' : db'[i].height = client.height /\ db'[i].root = client.root
    BY Zenon DEF ClientKnows, Grows
  <2>3. \A h \in 1..client.height : \E i \in 1..committed' : db'[i].height = h
    BY ZenonT(60), <2>1 DEF ClientKnows, HasHeight
  <2>4. \A h \in InitialHeight + 1..current_height' : \E i \in 1..committed' : db'[i].height = h
    BY ZenonT(60), <2>1 DEF HasUpTo, HasHeight
  <2>5. \A h \in InitialHeight + 1..finalized' : \E i \in 1..committed' : db'[i].height = h
    BY ZenonT(60), <2>1 DEF HasUpTo, HasHeight
  <2> QED BY ZenonT(60), <2>2, <2>3, <2>4, <2>5 DEF ClientKnows, HasUpTo, HasHeight

(* Storage has what the service has reached and what is final.             *)
<1>HasReached. ASSUME TruthInv
      PROVE HasUpTo(current_height) /\ HasUpTo(finalized)
  BY Zenon, <1>HasReached DEF TruthInv, ClientKnows

(* A handler's step that leaves storage and the client alone.              *)
<1>HandlerMoves. ASSUME TruthInv, NEW c \in Call, NEW x \in Resting \cup Asked \cup Executed, call' = [call EXCEPT ![c] = x],
             UNCHANGED <<sink, worker, db, committed, executions, client, finalized>>,
             TypedService', TypedPool', HasUpTo(current_height'),
             x.pc = "wait" => call[c].pc = "wait" /\ Same(x, call[c]),
             Told(x) => Told(call[c]) /\ Same(x, call[c]),
             x.pc \in Pending /\ ~x.lost =>
                \/ Awaited(c) /\ x.height = call[c].height
                \/ ClientFree /\ x.height = client.height + 1,
             x.pc \in Pending => (call[c].pc \in Pending /\ x.height = call[c].height) \/ x.height = client.height + 1
      PROVE TruthInv'
  <2> USE <1>HandlerMoves
  <2>0. ExecTyped /\ Numbered /\ Matched /\ ToldCommitted /\ OneAwaited /\ ClientKnows
    BY Zenon DEF TruthInv
  <2>1. Matched' /\ ToldCommitted'
    BY Zenon, <2>0, <1>CallMoves
  <2>2. OneAwaited'
    BY Zenon, <2>0, <1>AwaitMoves
  <2>3. ClientKnows'
    <3>1. Grows
      BY Zenon DEF Grows
    <3>2. HasUpTo(finalized')
      BY Zenon, <1>HasReached
    <3> QED BY ZenonT(60), <2>0, <3>1, <3>2, <1>KnowsGrows
  <2>4. Numbered'
    BY Zenon, <2>0 DEF Numbered
  <2>5. ExecTyped'
    <3>1. call' \in [Call -> Resting \cup Asked \cup Executed]
      BY Zenon, <2>0 DEF ExecTyped
    <3> QED BY Zenon, <2>0, <3>1 DEF ExecTyped, TypedService, TypedPool
  <2> QED BY ZenonT(60), <2>1, <2>2, <2>3, <2>4, <2>5 DEF TruthInv

(* The types, in the parts that steps leave alone.                         *)
<1>TypedParts. ASSUME TruthInv
      PROVE TypedService /\ TypedPool
  BY Zenon, <1>TypedParts DEF TruthInv, ExecTyped, TypedService, TypedPool

(* init_chain begins.                                                      *)
<1>InitChainStep. ASSUME TruthInv, NEW c \in Call, InitChain(c)
      PROVE TruthInv'
  <2> USE <1>InitChainStep
  <2> DEFINE x == [pc |-> "genesis", lost |-> FALSE]
  <2>1. x \in Resting /\ x.pc = "genesis"
    BY Zenon DEF Resting
  <2>2. call' = [call EXCEPT ![c] = x]
    BY Zenon DEF InitChain
  <2>6. HasUpTo(current_height')
    BY Zenon, <1>HasReached DEF InitChain, service
  <2>3. /\ UNCHANGED <<sink, worker, db, committed, executions, client, finalized>>
        /\ UNCHANGED <<initialized, root, current_height, holder, mempool>>
    BY Zenon DEF InitChain, service, commit
  <2>4. TypedService' /\ TypedPool'
    BY Zenon, <2>3, <1>TypedParts DEF TypedService, TypedPool
  <2> HIDE DEF x
  <2>5. ~Told(x) /\ x.pc # "wait" /\ ~(x.pc \in Pending)
    BY Zenon, <2>1 DEF Told, Pending
  <2> QED BY Zenon, <2>1, <2>2, <2>3, <2>4, <2>5, <2>6, <1>HandlerMoves

(* A request of the client arrives.                                        *)
<1>RequestStep. ASSUME TruthInv, NEW c \in Call, Request(c)
      PROVE TruthInv'
  <2> USE <1>RequestStep
  <2>1. PICK S \in SUBSET mempool.in_flight :
         \E txs \in {FilterTxs(s, 0, 0) : s \in Permuted(S)}
                    \cup (IF "unfiltered" \in mishaps THEN Permuted(S) ELSE {}) :
         \E prev \in ({client.root} \ {NoRoot}) \cup (IF "noroot" \in mishaps THEN {NoRoot} ELSE {}) :
          call' = [call EXCEPT ![c] =
              [pc |-> "lock", lost |-> FALSE, height |-> client.height + 1,
               prev |-> prev, txs |-> txs]]
    BY Zenon DEF Request
  <2>2. PICK txs \in {FilterTxs(s, 0, 0) : s \in Permuted(S)}
                    \cup (IF "unfiltered" \in mishaps THEN Permuted(S) ELSE {}),
             prev \in ({client.root} \ {NoRoot}) \cup (IF "noroot" \in mishaps THEN {NoRoot} ELSE {}) :
          call' = [call EXCEPT ![c] =
              [pc |-> "lock", lost |-> FALSE, height |-> client.height + 1,
               prev |-> prev, txs |-> txs]]
    BY Zenon, <2>1
  <2>3. txs \in Seq(Txs)
    <3>1. S \in SUBSET Txs
      BY Zenon DEF TruthInv, ExecTyped
    <3>2. CASE txs \in Permuted(S)
      BY Zenon, <3>1, <3>2, PermutedType
    <3>3. CASE txs \in {FilterTxs(s, 0, 0) : s \in Permuted(S)}
      <4>1. PICK s \in Permuted(S) : txs = FilterTxs(s, 0, 0)
        BY Zenon, <3>3
      <4> QED BY Zenon, <3>1, <4>1, PermutedType, RunsAndFilters
    <3> QED BY ZenonT(60), <3>2, <3>3
  <2>4. prev \in Int /\ client.height \in Nat
    BY SMTT(60) DEF TruthInv, ExecTyped, NoRoot
  <2> DEFINE x == [pc |-> "lock", lost |-> FALSE, height |-> client.height + 1, prev |-> prev, txs |-> txs]
  <2>5. x \in Asked /\ x.pc = "lock" /\ x.height = client.height + 1
    BY SMTT(60), <2>3, <2>4 DEF Asked
  <2>6. call' = [call EXCEPT ![c] = x]
    BY ZenonT(60), <2>2
  <2>7. /\ UNCHANGED <<sink, worker, db, committed, executions, client, finalized>>
        /\ UNCHANGED <<initialized, root, current_height, holder, mempool>>
        /\ ClientFree
    BY Zenon DEF Request, service, commit
  <2>8. TypedService' /\ TypedPool'
    BY ZenonT(60), <2>7, <1>TypedParts DEF TypedService, TypedPool
  <2> HIDE DEF x
  <2>9. ~Told(x) /\ x.pc # "wait"
    BY Zenon, <2>5 DEF Told
  <2>10. HasUpTo(current_height')
    BY Zenon, <2>7, <1>HasReached
  <2> QED BY ZenonT(60), <2>5, <2>6, <2>7, <2>8, <2>9, <2>10, <1>HandlerMoves

(* A handler that ends without an answer.                                  *)
<1>AnswerStep. ASSUME TruthInv, NEW c \in Call, Answer(c),
             UNCHANGED <<service, commit, mempool, client, executions, inits>>
      PROVE TruthInv'
  <2> USE <1>AnswerStep
  <2>1. call' = [call EXCEPT ![c] = Free] /\ holder' \subseteq holder
    BY ZenonT(60) DEF Answer
  <2>2. /\ UNCHANGED <<sink, worker, db, committed, executions, client, finalized>>
        /\ UNCHANGED <<initialized, root, current_height, mempool>>
    BY ZenonT(60) DEF service, commit
  <2>3. TypedService' /\ TypedPool'
    BY ZenonT(60), <2>1, <2>2, <1>TypedParts DEF TypedService, TypedPool
  <2>4. ~Told(Free) /\ Free.pc # "wait" /\ ~(Free.pc \in Pending)
    BY ZenonT(60), FreeIsResting DEF Told, Pending
  <2>5. HasUpTo(current_height')
    BY Zenon, <2>2, <1>HasReached
  <2> QED BY Zenon, <2>1, <2>2, <2>3, <2>4, <2>5, FreeIsResting, <1>HandlerMoves

(* A handler that goes on to its next step, or whose client gave up.       *)
<1>LockStep. ASSUME TruthInv, NEW c \in Call, Lock(c)
      PROVE TruthInv'
  <2> USE <1>LockStep
  <2> DEFINE x == [call[c] EXCEPT !.pc = "resolve"]
  <2>0. call[c].pc = "lock" /\ call[c] \in Asked
    BY ZenonT(60), CallKinds DEF Lock, TruthInv
  <2>1. x \in Asked /\ x.pc = "resolve" /\ x.lost = call[c].lost /\ x.height = call[c].height
    BY ZenonT(60), <2>0 DEF Asked
  <2>2. call' = [call EXCEPT ![c] = x] /\ holder' \subseteq Call
    BY Zenon DEF Lock
  <2>3. /\ UNCHANGED <<sink, worker, db, committed, executions, client, finalized>>
        /\ UNCHANGED <<initialized, root, current_height, mempool>>
    BY Zenon DEF Lock, service, commit
  <2>4. TypedService' /\ TypedPool'
    BY ZenonT(60), <2>2, <2>3, <1>TypedParts DEF TypedService, TypedPool
  <2> HIDE DEF x
  <2>5. ~Told(x) /\ x.pc # "wait"
    BY ZenonT(60), <2>1 DEF Told
  <2>6. (~x.lost => Awaited(c)) /\ call[c].pc \in Pending /\ x.height = call[c].height
    BY ZenonT(60), <2>0, <2>1 DEF Awaited, Pending
  <2>7. HasUpTo(current_height')
    BY Zenon, <2>3, <1>HasReached
  <2> QED BY ZenonT(60), <2>1, <2>2, <2>3, <2>4, <2>5, <2>6, <2>7, <1>HandlerMoves

(* A handler that moves without a verdict keeps what was told.             *)
<1>ToldMoves. ASSUME TruthInv, NEW c \in Call, Told(call[c]), NEW p \in {"height", "root"},
             call' = [call EXCEPT ![c].pc = p],
             UNCHANGED <<sink, worker, db, committed, executions, client, finalized>>,
             TypedService', TypedPool', HasUpTo(current_height')
      PROVE TruthInv'
  <2> USE <1>ToldMoves
  <2> DEFINE x == [call[c] EXCEPT !.pc = p]
  <2>0. call[c].pc \in {"wait", "height", "root"} /\ call[c] \in Executed
    BY ZenonT(60), CallKinds DEF Told, TruthInv
  <2>1. x \in Executed /\ x.pc = p /\ x.lost = call[c].lost /\ Same(x, call[c])
    BY ZenonT(60), <2>0 DEF Executed, Same, SameBlock
  <2>2. call' = [call EXCEPT ![c] = x]
    BY ZenonT(60)
  <2> HIDE DEF x
  <2>6. (~x.lost => Awaited(c)) /\ call[c].pc \in Pending /\ x.height = call[c].height
    BY ZenonT(60), <2>0, <2>1 DEF Awaited, Pending, Same, SameBlock
  <2> QED BY Zenon, <2>1, <2>2, <2>6, <1>HandlerMoves

(* A handler whose caller left is dropped.                                 *)
<1>GiveUpStep. ASSUME TruthInv, NEW c \in Call, GiveUp(c)
      PROVE TruthInv'
  <2> USE <1>GiveUpStep
  <2> DEFINE x == [call[c] EXCEPT !.lost = TRUE]
  <2>0. call[c].pc # "free" /\ call[c] \in Resting \cup Asked \cup Executed
    BY ZenonT(60) DEF GiveUp, TruthInv, ExecTyped
  <2>1. x \in Resting \cup Asked \cup Executed /\ x.lost /\ x.pc = call[c].pc /\ (x.pc \in Pending => x.height = call[c].height)
    <3>1. CASE call[c] \in Asked
      BY Zenon, <3>1 DEF Asked
    <3>2. CASE call[c] \in Executed
      BY Zenon, <3>2 DEF Executed
    <3>3. CASE call[c] \in [pc : {"genesis"}, lost : BOOLEAN]
      BY ZenonT(60), <3>3 DEF Resting, Pending
    <3>4. call[c] # Free
      BY Zenon, <2>0, FreeIsResting
    <3> QED BY ZenonT(60), <2>0, <3>1, <3>2, <3>3, <3>4 DEF Resting
  <2>2. call[c] \in Executed => Same(x, call[c]) /\ x.reply = call[c].reply
    BY ZenonT(60) DEF Executed, Same, SameBlock
  <2>3. call' = [call EXCEPT ![c] = x]
    BY ZenonT(60) DEF GiveUp
  <2>4. /\ UNCHANGED <<sink, worker, db, committed, executions, client, finalized>>
        /\ UNCHANGED <<initialized, root, current_height, holder, mempool>>
    BY Zenon DEF GiveUp, service, commit
  <2>5. TypedService' /\ TypedPool' /\ HasUpTo(current_height')
    BY Zenon, <2>4, <1>TypedParts, <1>HasReached DEF TypedService, TypedPool
  <2> HIDE DEF x
  <2>6. call[c].pc \in {"wait", "height", "root"} => call[c] \in Executed
    BY ZenonT(60), CallKinds DEF TruthInv
  <2>7. x.pc = "wait" => call[c].pc = "wait" /\ Same(x, call[c])
    BY Zenon, <2>1, <2>2, <2>6
  <2>8. Told(x) => Told(call[c]) /\ Same(x, call[c])
    BY Zenon, <2>1, <2>2, <2>6 DEF Told
  <2> QED BY ZenonT(60), <2>1, <2>3, <2>4, <2>5, <2>7, <2>8, <1>HandlerMoves

(* init_chain stores the genesis state.                                    *)
<1>InitChainStoresStep. ASSUME TruthInv, NEW c \in Call, InitChainStores(c)
      PROVE TruthInv'
  <2> USE <1>InitChainStoresStep
  <2>0. ExecTyped /\ Numbered /\ Matched /\ ToldCommitted /\ OneAwaited /\ ClientKnows
    BY ZenonT(60) DEF TruthInv
  <2>1. /\ call' = [call EXCEPT ![c] = Free]
        /\ initialized' = TRUE /\ root' = GenesisRoot /\ current_height' = InitialHeight
        /\ client' = IF call[c].lost \/ client.height > 0 THEN client ELSE [height |-> 0, root |-> GenesisRoot]
    BY ZenonT(60) DEF InitChainStores
  <2>2. UNCHANGED <<sink, worker, db, committed, executions, finalized, holder, mempool>>
    BY ZenonT(60) DEF InitChainStores, commit
  <2>3. ~Told(Free) /\ Free.pc # "wait" /\ ~(Free.pc \in Pending)
    BY ZenonT(60), FreeIsResting DEF Told, Pending
  <2>4. Matched' /\ ToldCommitted'
    BY ZenonT(60), <2>0, <2>1, <2>2, <2>3, <1>CallMoves
  <2>5. /\ client'.height = client.height /\ client' \in [height : Nat, root : Int]
        /\ client.height > 0 => client'.root = client.root
    BY SMTT(60), <2>0, <2>1 DEF ExecTyped, GenesisRoot
  <2>6. OneAwaited'
    BY ZenonT(60), <2>0, <2>1, <2>3, <2>5, <1>AwaitMoves
  <2>7. Numbered'
    BY ZenonT(60), <2>0, <2>2 DEF Numbered
  <2>8. ExecTyped'
    <3>1. call' \in [Call -> Resting \cup Asked \cup Executed]
      BY Zenon, <2>0, <2>1, FreeIsResting DEF ExecTyped
    <3>2. root' \in Int /\ current_height' \in Nat /\ initialized' \in BOOLEAN
      BY SMTT(60), <2>1 DEF GenesisRoot, InitialHeight
    <3> QED BY ZenonT(60), <2>0, <2>2, <2>5, <3>1, <3>2 DEF ExecTyped
  <2>9. ClientKnows'
    <3>1. \A h \in InitialHeight + 1..current_height' : FALSE
      BY SMTT(60), <2>1 DEF InitialHeight
    <3> QED BY ZenonT(60), <2>0, <2>2, <2>5, <3>1 DEF ClientKnows, HasUpTo, HasHeight
  <2> QED BY ZenonT(60), <2>4, <2>6, <2>7, <2>8, <2>9 DEF TruthInv

(* The pool finalizes the proposal of a handler.                           *)
<1>FinalizeProposalStep. ASSUME TruthInv, NEW c \in Call, FinalizeProposal(c)
      PROVE TruthInv'
  <2> USE <1>FinalizeProposalStep
  <2>1. Told(call[c]) /\ call' = [call EXCEPT ![c].pc = "height"]
    BY ZenonT(60) DEF FinalizeProposal, Told
  <2>2. /\ UNCHANGED <<sink, worker, db, committed, executions, client, finalized>>
        /\ UNCHANGED <<initialized, root, current_height, holder>>
    BY ZenonT(60) DEF FinalizeProposal, service, commit
  <2>3. TypedService'
    BY ZenonT(60), <2>2, <1>TypedParts DEF TypedService
  <2>4. TypedPool'
    <3>1. mempool' = [waiting |-> (mempool.waiting \cup mempool.in_flight) \ ExecutedHashes(c), in_flight |-> {}]
      BY ZenonT(60) DEF FinalizeProposal
    <3>2. mempool.waiting \subseteq Txs /\ mempool.in_flight \subseteq Txs
      BY ZenonT(60), <1>TypedParts DEF TypedPool
    <3> QED BY ZenonT(60), <3>1, <3>2 DEF TypedPool
  <2>5. HasUpTo(current_height')
    BY Zenon, <2>2, <1>HasReached
  <2> QED BY Zenon, <2>1, <2>2, <2>3, <2>4, <2>5, <1>ToldMoves

(* The handler stores the height.                                          *)
<1>StoreHeightStep. ASSUME TruthInv, NEW c \in Call, StoreHeight(c)
      PROVE TruthInv'
  <2> USE <1>StoreHeightStep
  <2>1. Told(call[c]) /\ call' = [call EXCEPT ![c].pc = "root"] /\ call[c].pc = "height"
    BY ZenonT(60) DEF StoreHeight, Told
  <2>2. /\ UNCHANGED <<sink, worker, db, committed, executions, client, finalized>>
        /\ UNCHANGED <<initialized, root, holder, mempool>> /\ current_height' = call[c].height
    BY Zenon DEF StoreHeight, commit
  <2>3. call[c].height \in Nat
    BY ZenonT(60), <2>1, CallKinds, ExecutedFields DEF TruthInv
  <2>4. TypedService' /\ TypedPool'
    BY ZenonT(60), <2>2, <2>3, <1>TypedParts DEF TypedService, TypedPool
  <2>5. HasUpTo(call[c].height)
    <3>1. ClientKnows /\ client.height \in Nat /\ call[c].height \in 1..client.height + 1
      BY ZenonT(60), <2>1 DEF TruthInv, ExecTyped, OneAwaited, Pending
    <3>2. HasHeight(call[c].height)
      BY ZenonT(60), <2>1 DEF TruthInv, ToldCommitted, InStorage, HasHeight
    <3>3. ASSUME NEW h \in InitialHeight + 1..call[c].height PROVE h = call[c].height \/ h \in 1..client.height
      BY SMTT(60), <3>1 DEF InitialHeight
    <3> QED BY ZenonT(60), <3>1, <3>2, <3>3 DEF HasUpTo, ClientKnows
  <2> QED BY ZenonT(60), <2>1, <2>2, <2>4, <2>5, <1>ToldMoves

(* The handler stores the state root and answers.                          *)
<1>StoreRootStep. ASSUME TruthInv, NEW c \in Call, StoreRoot(c)
      PROVE TruthInv'
  <2> USE <1>StoreRootStep
  <2>0. ExecTyped /\ Numbered /\ Matched /\ ToldCommitted /\ OneAwaited /\ ClientKnows
    BY ZenonT(60) DEF TruthInv
  <2>1. /\ call[c].pc = "root"
        /\ call' = [call EXCEPT ![c] = Free] /\ holder' \subseteq holder
        /\ root' = call[c].root
        /\ client' = IF call[c].lost THEN client ELSE [height |-> call[c].height, root |-> call[c].root]
    BY Zenon DEF StoreRoot, Answer
  <2>2. UNCHANGED <<sink, worker, db, committed, executions, finalized, initialized, current_height, mempool>>
    BY ZenonT(60) DEF StoreRoot, commit
  <2>3. ~Told(Free) /\ Free.pc # "wait" /\ ~(Free.pc \in Pending)
    BY ZenonT(60), FreeIsResting DEF Told, Pending
  <2>4. Matched' /\ ToldCommitted'
    BY ZenonT(60), <2>0, <2>1, <2>2, <2>3, <1>CallMoves
  <2>5. call[c] \in Executed /\ call[c].root \in Int /\ call[c].height \in Nat
    BY ZenonT(60), <2>0, <2>1, CallKinds, ExecutedFields
  <2>6. Numbered'
    BY ZenonT(60), <2>0, <2>2 DEF Numbered
  <2>7. client' \in [height : Nat, root : Int]
    BY SMTT(60), <2>0, <2>1, <2>5 DEF ExecTyped
  <2>8. ExecTyped'
    <3>1. call' \in [Call -> Resting \cup Asked \cup Executed]
      BY ZenonT(60), <2>0, <2>1, FreeIsResting DEF ExecTyped
    <3> QED BY SMTT(60), <2>0, <2>1, <2>2, <2>5, <2>7, <3>1 DEF ExecTyped
  <2>9. CASE call[c].lost
    <3>1. client' = client
      BY ZenonT(60), <2>1, <2>9
    <3>2. OneAwaited'
      BY ZenonT(60), <2>0, <2>1, <2>3, <3>1, <1>AwaitMoves
    <3>3. ClientKnows'
      BY ZenonT(60), <2>0, <2>2, <3>1 DEF ClientKnows, HasUpTo, HasHeight
    <3> QED BY ZenonT(60), <2>4, <2>6, <2>8, <3>2, <3>3 DEF TruthInv
  <2>10. CASE ~call[c].lost
    <3>1. client' = [height |-> call[c].height, root |-> call[c].root]
      BY ZenonT(60), <2>1, <2>10
    <3>2. Awaited(c) /\ call[c].height = client.height + 1 /\ client.height \in Nat
      BY ZenonT(60), <2>0, <2>1, <2>10 DEF Awaited, Pending, OneAwaited, ExecTyped
    <3>3. OneAwaited'
      <4>1. call'[c] = Free /\ \A d \in Call : d # c => call'[d] = call[d]
        BY Zenon, <2>0, <2>1 DEF ExecTyped
      <4>2. ASSUME NEW d \in Call, Awaited(d)' PROVE FALSE
        <5>1. d # c
          BY Zenon, <2>3, <4>1, <4>2 DEF Awaited
        <5>2. Awaited(d)
          BY Zenon, <4>1, <4>2, <5>1 DEF Awaited
        <5> QED BY Zenon, <2>0, <3>2, <5>1, <5>2 DEF OneAwaited
      <4>3. \A n \in 1..client.height + 1 : n \in 1..client'.height + 1
        BY SMTT(60), <3>1, <3>2
      <4>4. \A d \in Call : call'[d].pc \in Pending => call'[d].height \in 1..client'.height + 1
        BY ZenonT(60), <2>0, <2>3, <4>1, <4>3 DEF OneAwaited
      <4> QED BY ZenonT(60), <4>2, <4>4 DEF OneAwaited
    <3>4. PICK i \in 1..committed : db[i].root = call[c].root /\ db[i].height = call[c].height
      BY Zenon, <2>0, <2>1 DEF ToldCommitted, Told, InStorage
    <3>5. ClientKnows'
      <4>1. client'.height = client.height + 1 /\ client'.root = db[i].root
        BY SMTT(60), <3>1, <3>2, <3>4
      <4>2. db' = db /\ committed' = committed /\ finalized' = finalized /\ current_height' = current_height
        BY ZenonT(60), <2>2
      <4>3. \A h \in 1..client.height + 1 : \E k \in 1..committed : db[k].height = h
        <5> SUFFICES ASSUME NEW h \in 1..client.height + 1 PROVE \E k \in 1..committed : db[k].height = h
          BY ZenonT(60)
        <5>1. CASE h = client.height + 1
          BY ZenonT(60), <3>2, <3>4, <5>1
        <5>2. CASE h # client.height + 1
          <6>1. h \in 1..client.height
            BY SMTT(60), <3>2, <5>2
          <6> QED BY ZenonT(60), <2>0, <6>1 DEF ClientKnows, HasHeight
        <5> QED BY Zenon, <5>1, <5>2
      <4> QED BY ZenonT(60), <2>0, <3>2, <3>4, <4>1, <4>2, <4>3 DEF ClientKnows, HasUpTo, HasHeight
    <3> QED BY ZenonT(60), <2>4, <2>6, <2>8, <3>3, <3>5 DEF TruthInv
  <2> QED BY ZenonT(60), <2>9, <2>10

(* The steps that touch no handler and no block.                           *)
<1>ElsewhereStep. ASSUME TruthInv, UNCHANGED <<call, sink, worker, db, committed, executions, client>>,
             TypedService', TypedPool', HasUpTo(current_height'), HasUpTo(finalized')
      PROVE TruthInv'
  <2> USE <1>ElsewhereStep
  <2>0. ExecTyped /\ Numbered /\ Matched /\ ToldCommitted /\ OneAwaited /\ ClientKnows
    BY ZenonT(60) DEF TruthInv
  <2>1. ExecTyped'
    BY Zenon, <2>0 DEF ExecTyped, TypedService, TypedPool
  <2>2. Numbered'
    BY Zenon, <2>0 DEF Numbered
  <2>3. Matched'
    BY Zenon, <2>0 DEF Matched, Match
  <2>4. ToldCommitted'
    BY Zenon, <2>0 DEF ToldCommitted, Told, InStorage
  <2>5. OneAwaited'
    BY Zenon, <2>0 DEF OneAwaited, Awaited
  <2>6. ClientKnows'
    BY ZenonT(60), <2>0 DEF ClientKnows, HasUpTo, HasHeight
  <2> QED BY ZenonT(60), <2>1, <2>2, <2>3, <2>4, <2>5, <2>6 DEF TruthInv

(* get_txs proposes from the pool.                                         *)
<1>GetTxsStep. ASSUME TruthInv, GetTxs
      PROVE TruthInv'
  <2> USE <1>GetTxsStep
  <2>1. /\ UNCHANGED <<call, sink, worker, db, committed, executions, client>>
        /\ UNCHANGED <<initialized, root, current_height, finalized, holder>>
    BY Zenon DEF GetTxs, service, commit
  <2>2. PICK txs \in SUBSET mempool.waiting :
          mempool' = [waiting |-> mempool.waiting \ txs, in_flight |-> mempool.in_flight \cup txs]
    BY Zenon DEF GetTxs
  <2>3. mempool.waiting \subseteq Txs /\ mempool.in_flight \subseteq Txs
    BY ZenonT(60), <1>TypedParts DEF TypedPool
  <2>4. TypedPool'
    BY ZenonT(60), <2>2, <2>3 DEF TypedPool
  <2>5. TypedService' /\ HasUpTo(current_height') /\ HasUpTo(finalized')
    BY ZenonT(60), <2>1, <1>TypedParts, <1>HasReached DEF TypedService
  <2> QED BY ZenonT(60), <2>1, <2>4, <2>5, <1>ElsewhereStep

(* set_final.                                                              *)
<1>SetFinalStep. ASSUME TruthInv, SetFinal
      PROVE TruthInv'
  <2> USE <1>SetFinalStep
  <2>1. /\ UNCHANGED <<call, sink, worker, db, committed, executions, client>>
        /\ UNCHANGED <<initialized, root, current_height, holder, mempool>>
    BY ZenonT(60) DEF SetFinal, commit
  <2>2. finalized' \in 0..current_height /\ current_height \in Nat
    BY ZenonT(60) DEF SetFinal, TruthInv, ExecTyped
  <2>3. finalized' \in Nat /\ \A h \in InitialHeight + 1..finalized' : h \in InitialHeight + 1..current_height
    BY SMTT(60), <2>2 DEF InitialHeight
  <2>4. TypedService' /\ TypedPool'
    BY ZenonT(60), <2>1, <2>3, <1>TypedParts DEF TypedService, TypedPool
  <2>5. HasUpTo(current_height') /\ HasUpTo(finalized')
    BY ZenonT(60), <2>1, <2>3, <1>HasReached DEF HasUpTo
  <2> QED BY ZenonT(60), <2>1, <2>4, <2>5, <1>ElsewhereStep

(* The process is shut down.                                               *)
<1>ShutdownStep. ASSUME TruthInv, Shutdown
      PROVE TruthInv'
  <2> USE <1>ShutdownStep
  <2>1. /\ UNCHANGED <<call, sink, worker, db, committed, executions, client>>
        /\ UNCHANGED <<initialized, root, current_height, finalized, holder, mempool>>
    BY ZenonT(60) DEF Shutdown, service
  <2>2. TypedService' /\ TypedPool' /\ HasUpTo(current_height') /\ HasUpTo(finalized')
    BY ZenonT(60), <2>1, <1>TypedParts, <1>HasReached DEF TypedService, TypedPool
  <2> QED BY Zenon, <2>1, <2>2, <1>ElsewhereStep

(* A handler executes its block and sends it to the sink.                  *)
<1>ExecuteStep. ASSUME TruthInv, NEW c \in Call, Execute(c)
      PROVE TruthInv'
  <2> USE <1>ExecuteStep
  <2>0. ExecTyped /\ Numbered /\ Matched /\ ToldCommitted /\ OneAwaited /\ ClientKnows
    BY Zenon DEF TruthInv
  <2>16. PICK new \in {executions + 1, NoRoot} :
           sink' = Append(sink, [id |-> executions + 1, height |-> call[c].height, base |-> Len(db),
                                 ran |-> Ran(call[c].txs), root |-> new, call |-> c])
    BY ZenonT(60) DEF Execute
  <2> DEFINE b == [id |-> executions + 1, height |-> call[c].height, base |-> Len(db),
                   ran |-> Ran(call[c].txs), root |-> new, call |-> c]
             x == [pc |-> "wait", lost |-> call[c].lost, height |-> call[c].height, txs |-> call[c].txs,
                   id |-> executions + 1, reply |-> "none", root |-> NoRoot]
  <2>1. /\ call[c].pc = "resolve"
        /\ sink' = Append(sink, b)
        /\ call' = [call EXCEPT ![c] = x]
        /\ executions' = executions + 1
    BY Zenon, <2>16 DEF Execute
  <2>2. UNCHANGED <<worker, db, committed, client, finalized, initialized, root, current_height, holder, mempool>>
    BY Zenon DEF Execute, service
  <2>3. call[c] \in Asked /\ call[c].lost \in BOOLEAN /\ call[c].height \in Nat /\ call[c].txs \in Seq(Txs)
    BY Zenon, <2>0, <2>1, CallKinds, AskedFields
  <2>4. executions \in Nat /\ Len(db) \in Nat /\ Ran(call[c].txs) \in Seq(Txs)
    <3>1. executions \in Nat /\ db \in Seq(Executable)
      BY Zenon, <2>0 DEF ExecTyped
    <3>2. Ran(call[c].txs) \in Seq(Txs)
      BY ZenonT(60), <2>3, RunsAndFilters
    <3> QED BY SMTT(60), <3>1, <3>2
  <2>17. new \in Int /\ NoRoot \in Int /\ executions + 1 \in Nat
    BY SMTT(60), <2>4 DEF NoRoot
  <2>5. b \in Executable /\ b.id = executions + 1 /\ b.call = c /\ b.height = call[c].height /\ b.ran = Ran(call[c].txs)
    BY ZenonT(60), <2>3, <2>4, <2>17 DEF Executable
  <2>6. /\ x \in Executed /\ x.pc = "wait" /\ x.lost = call[c].lost /\ x.height = call[c].height
        /\ x.txs = call[c].txs /\ x.id = executions + 1 /\ ~Told(x)
    BY ZenonT(60), <2>3, <2>4, <2>17 DEF Executed, Told
  <2> HIDE DEF b, x
  <2>7. call'[c] = x /\ \A d \in Call : d # c => call'[d] = call[d]
    BY ZenonT(60), <2>0, <2>1 DEF ExecTyped
  <2>8. /\ sink \in Seq(Executable) /\ sink' \in Seq(Executable)
        /\ Len(sink) \in Nat /\ Len(sink') = Len(sink) + 1 /\ sink'[Len(sink) + 1] = b
        /\ \A j \in 1..Len(sink) : sink'[j] = sink[j]
    BY SMTT(60), <2>0, <2>1, <2>5 DEF ExecTyped
  <2>9. ExecTyped'
    <3>1. call' \in [Call -> Resting \cup Asked \cup Executed]
      BY Zenon, <2>0, <2>1, <2>6 DEF ExecTyped
    <3> QED BY SMTT(60), <2>0, <2>1, <2>2, <2>4, <2>8, <3>1 DEF ExecTyped
  <2>10. Numbered'
    <3> DEFINE L == Len(sink)
               busy == IF worker.pc = "free" THEN 0 ELSE 1
               batch == IF worker.pc = "batch" THEN 1 ELSE 0
    <3>1. busy \in {0, 1} /\ batch \in {0, 1} /\ L \in Nat /\ L + busy <= executions
      BY ZenonT(60), <2>0, <2>8 DEF Numbered
    <3> HIDE DEF L, busy, batch
    <3>2. Len(sink') + busy <= executions'
      BY SMTT(60), <2>1, <2>4, <2>8, <3>1 DEF L
    <3>3. worker.pc # "free" => worker.block.id = executions' - Len(sink')
      <4>1. worker.pc # "free" => worker.block.id = executions - Len(sink)
        BY ZenonT(60), <2>0 DEF Numbered
      <4>2. executions' - Len(sink') = executions - Len(sink)
        BY SMTT(60), <2>1, <2>4, <2>8
      <4> QED BY Zenon, <4>1, <4>2
    <3>4. \A j \in 1..Len(sink') : sink'[j].id = executions' - Len(sink') + j
      <4> SUFFICES ASSUME NEW j \in 1..Len(sink') PROVE sink'[j].id = executions' - Len(sink') + j
        BY ZenonT(60)
      <4>1. CASE j = Len(sink) + 1
        BY SMTT(60), <2>1, <2>4, <2>5, <2>8, <4>1
      <4>2. CASE j # Len(sink) + 1
        <5>1. j \in 1..Len(sink)
          BY SMTT(60), <2>8, <4>2
        <5>2. sink[j].id = executions - Len(sink) + j
          BY ZenonT(60), <2>0, <5>1 DEF Numbered
        <5> QED BY SMTT(60), <2>1, <2>4, <2>8, <5>1, <5>2
      <4> QED BY Zenon, <4>1, <4>2
    <3>5. \A i \in 1..Len(db) : 1 <= db[i].id /\ db[i].id + Len(sink') + batch <= executions'
      <4> SUFFICES ASSUME NEW i \in 1..Len(db) PROVE 1 <= db[i].id /\ db[i].id + Len(sink') + batch <= executions'
        BY Zenon
      <4>1. db[i].id \in Nat
        <5>1. db[i] \in Executable
          BY SMTT(60), <2>0 DEF ExecTyped
        <5> QED BY Zenon, <5>1 DEF Executable
      <4>2. 1 <= db[i].id /\ db[i].id + Len(sink) + batch <= executions
        BY Zenon, <2>0 DEF Numbered, batch
      <4> QED BY SMTT(60), <2>1, <2>4, <2>8, <3>1, <4>1, <4>2
    <3>6. worker' = worker /\ db' = db /\ committed' = committed
      BY ZenonT(60), <2>2
    <3> QED BY ZenonT(60), <2>0, <3>2, <3>3, <3>4, <3>5, <3>6 DEF Numbered, busy, batch
  <2>11. ASSUME NEW d, d.call \in Call, Match(d), d.id # executions + 1 PROVE Match(d)'
    <3>1. CASE d.call = c
      BY Zenon, <2>6, <2>7, <2>11, <3>1 DEF Match
    <3>2. CASE d.call # c
      BY Zenon, <2>7, <2>11, <3>2 DEF Match
    <3> QED BY Zenon, <3>1, <3>2
  <2>12. Matched'
    <3>1. ASSUME NEW j \in 1..Len(sink') PROVE Match(sink[j])'
      <4>1. CASE j = Len(sink) + 1
        <5>1. call'[c].height = b.height /\ Ran(call'[c].txs) = b.ran
          BY Zenon, <2>5, <2>6, <2>7
        <5> QED BY Zenon, <2>5, <2>8, <4>1, <5>1 DEF Match
      <4>2. CASE j # Len(sink) + 1
        <5>1. j \in 1..Len(sink) /\ sink'[j] = sink[j]
          BY SMTT(60), <2>8, <4>2
        <5>2. sink[j].id = executions - Len(sink) + j /\ sink[j] \in Executable
          BY SMTT(60), <2>0, <5>1 DEF Numbered, ExecTyped
        <5>6. executions - Len(sink) + j # executions + 1
          BY SMTT(60), <2>4, <2>8, <5>1
        <5>3. sink[j].id # executions + 1 /\ sink[j].call \in Call
          BY Zenon, <5>2, <5>6 DEF Executable
        <5>4. Match(sink[j])
          BY Zenon, <2>0, <5>1 DEF Matched
        <5>5. \A d : d.call \in Call /\ Match(d) /\ d.id # executions + 1 =>
                (call'[d.call].pc = "wait" /\ call'[d.call].id = d.id =>
                   call'[d.call].height = d.height /\ Ran(call'[d.call].txs) = d.ran)
          BY Zenon, <2>11 DEF Match
        <5> QED BY ZenonT(60), <5>1, <5>3, <5>4, <5>5 DEF Match
      <4> QED BY Zenon, <4>1, <4>2
    <3>2. worker.pc # "free" => Match(worker.block)'
      <4> SUFFICES ASSUME worker.pc # "free" PROVE Match(worker.block)'
        BY Zenon
      <4>1. worker.block \in Executable /\ worker.block.id = executions - Len(sink) /\ Match(worker.block)
        BY Zenon, <2>0, WorkerKinds DEF Numbered, Matched
      <4>2. worker.block.id # executions + 1 /\ worker.block.call \in Call
        <5>1. executions - Len(sink) # executions + 1
          BY SMTT(60), <2>4, <2>8
        <5> QED BY ZenonT(60), <4>1, <5>1 DEF Executable
      <4>3. worker' = worker
        BY ZenonT(60), <2>2
      <4>4. \A d : d.call \in Call /\ Match(d) /\ d.id # executions + 1 =>
                (call'[d.call].pc = "wait" /\ call'[d.call].id = d.id =>
                   call'[d.call].height = d.height /\ Ran(call'[d.call].txs) = d.ran)
          BY ZenonT(60), <2>11 DEF Match
      <4> QED BY ZenonT(60), <4>1, <4>2, <4>3, <4>4 DEF Match
    <3>3. worker' = worker
      BY ZenonT(60), <2>2
    <3> QED BY Zenon, <3>1, <3>2, <3>3 DEF Matched
  <2>13. ToldCommitted'
    <3> SUFFICES ASSUME NEW d \in Call, Told(call[d])' PROVE InStorage(call[d])'
      BY ZenonT(60) DEF ToldCommitted
    <3>1. d # c
      BY Zenon, <2>6, <2>7 DEF Told
    <3>2. call'[d] = call[d] /\ db' = db /\ committed' = committed
      BY Zenon, <2>2, <2>7, <3>1
    <3>3. InStorage(call[d])
      BY ZenonT(60), <2>0, <3>2 DEF ToldCommitted, Told
    <3> QED BY ZenonT(60), <3>2, <3>3 DEF InStorage
  <2>14. OneAwaited'
    <3>1. (~x.lost => Awaited(c)) /\ call[c].pc \in Pending /\ x.height = call[c].height
      BY ZenonT(60), <2>1, <2>6 DEF Awaited, Pending
    <3> QED BY ZenonT(60), <2>0, <2>1, <2>2, <3>1, <1>AwaitMoves
  <2>15. ClientKnows'
    BY ZenonT(60), <2>0, <2>2 DEF ClientKnows, HasUpTo, HasHeight
  <2> QED BY ZenonT(60), <2>9, <2>10, <2>12, <2>13, <2>14, <2>15 DEF TruthInv

(* The sink worker takes a block from its channel.                         *)
<1>SinkTakeStep. ASSUME TruthInv, SinkTake
      PROVE TruthInv'
  <2> USE <1>SinkTakeStep
  <2>0. ExecTyped /\ Numbered /\ Matched /\ ToldCommitted /\ OneAwaited /\ ClientKnows
    BY Zenon DEF TruthInv
  <2>1. /\ worker = Free /\ sink # << >> /\ worker' = [pc |-> "batch", block |-> Head(sink)] /\ sink' = Tail(sink)
        /\ UNCHANGED <<initialized, root, current_height, finalized, holder, call, db, committed, mempool, client, executions>>
    BY ZenonT(60) DEF SinkTake, service
  <2>2. /\ sink \in Seq(Executable) /\ sink' \in Seq(Executable) /\ Head(sink) \in Executable
        /\ Len(sink) \in Nat \ {0} /\ Len(sink') = Len(sink) - 1 /\ Head(sink) = sink[1]
        /\ \A j \in 1..Len(sink') : sink'[j] = sink[j + 1] /\ j + 1 \in 1..Len(sink)
    BY SMTT(60), <2>0, <2>1 DEF ExecTyped
  <2>3. worker.pc = "free" /\ worker'.pc = "batch" /\ worker'.block = sink[1] /\ executions \in Nat
    BY Zenon, <2>0, <2>1, <2>2 DEF Free, ExecTyped
  <2>4. ExecTyped'
    <3>1. worker' \in [pc : {"batch", "commit", "index"}, block : Executable]
      BY Zenon, <2>1, <2>2
    <3> QED BY Zenon, <2>0, <2>1, <2>2, <3>1 DEF ExecTyped
  <2>5. Numbered'
    <3>1. Len(sink) + 0 <= executions
      BY ZenonT(60), <2>0, <2>3 DEF Numbered
    <3>2. worker'.block.id = executions - Len(sink')
      BY SMTT(60), <2>0, <2>2, <2>3 DEF Numbered
    <3>3. ASSUME NEW j \in 1..Len(sink') PROVE sink'[j].id = executions - Len(sink') + j
      <4>1. sink'[j] = sink[j + 1] /\ sink[j + 1].id = executions - Len(sink) + (j + 1)
        BY ZenonT(60), <2>0, <2>2 DEF Numbered
      <4> QED BY SMTT(60), <2>2, <2>3, <4>1
    <3>4. \A i \in 1..Len(db) : 1 <= db[i].id /\ db[i].id + Len(sink') + 1 <= executions
      <4> SUFFICES ASSUME NEW i \in 1..Len(db) PROVE 1 <= db[i].id /\ db[i].id + Len(sink') + 1 <= executions
        BY ZenonT(60)
      <4>1. db[i] \in Executable
        BY SMTT(60), <2>0 DEF ExecTyped
      <4>2. 1 <= db[i].id /\ db[i].id + Len(sink) + 0 <= executions /\ db[i].id \in Nat
        BY ZenonT(60), <2>0, <2>3, <4>1 DEF Numbered, Executable
      <4> QED BY SMTT(60), <2>2, <2>3, <4>2
    <3>5. Len(sink') + 1 <= executions
      BY SMTT(60), <2>2, <2>3, <3>1
    <3> QED BY ZenonT(60), <2>0, <2>1, <2>3, <3>2, <3>3, <3>4, <3>5 DEF Numbered
  <2>6. Matched'
    <3>1. Match(sink[1])
      BY SMTT(60), <2>0, <2>2 DEF Matched
    <3>2. \A j \in 1..Len(sink') : Match(sink[j + 1])
      BY Zenon, <2>0, <2>2 DEF Matched
    <3>3. Match(worker.block)'
      BY Zenon, <2>1, <2>3, <3>1 DEF Match
    <3>4. \A j \in 1..Len(sink') : Match(sink[j])'
      BY ZenonT(60), <2>1, <2>2, <3>2 DEF Match
    <3> QED BY ZenonT(60), <3>3, <3>4 DEF Matched
  <2>7. ToldCommitted'
    BY Zenon, <2>0, <2>1 DEF ToldCommitted, Told, InStorage
  <2>8. OneAwaited'
    BY Zenon, <2>0, <2>1 DEF OneAwaited, Awaited
  <2>9. ClientKnows'
    BY ZenonT(60), <2>0, <2>1 DEF ClientKnows, HasUpTo, HasHeight
  <2> QED BY ZenonT(60), <2>4, <2>5, <2>6, <2>7, <2>8, <2>9 DEF TruthInv

(* Nobody hears anything new about the height it waits for, and a block    *)
(* still is the one its handler waits for.                                 *)
<1>RepliedKeeps. ASSUME ExecTyped, OneAwaited, client' = client, NEW block, NEW reply,
             \A d \in Call : call'[d] = call[d] \/ Heard(d, block, reply)
      PROVE /\ OneAwaited'
            /\ \A b : b.call \in Call /\ Match(b) =>
                  (call'[b.call].pc = "wait" /\ call'[b.call].id = b.id =>
                     call'[b.call].height = b.height /\ Ran(call'[b.call].txs) = b.ran)
  <2> USE <1>RepliedKeeps
  <2>1. \A d \in Call : call'[d].pc \in Pending =>
            call[d].pc \in Pending /\ call'[d].height = call[d].height /\ call'[d].lost = call[d].lost
    BY Zenon DEF Heard, SameBlock
  <2>2. OneAwaited'
    BY ZenonT(60), <2>1 DEF OneAwaited, Awaited
  <2>3. ASSUME NEW b, b.call \in Call, Match(b), call'[b.call].pc = "wait", call'[b.call].id = b.id
        PROVE call'[b.call].height = b.height /\ Ran(call'[b.call].txs) = b.ran
    <3>1. CASE call'[b.call] = call[b.call]
      BY Zenon, <2>3, <3>1 DEF Match
    <3>2. CASE Heard(b.call, block, reply)
      BY ZenonT(60), <2>3, <3>2 DEF Match, Heard, SameBlock
    <3> QED BY ZenonT(60), <2>3, <3>1, <3>2
  <2> QED BY Zenon, <2>2, <2>3

(* The batch of the sink worker fails.                                     *)
<1>SinkFailsStep. ASSUME TruthInv, NEW step \in {"batch", "commit"}, SinkFails(step)
      PROVE TruthInv'
  <2> USE <1>SinkFailsStep
  <2>0. ExecTyped /\ Numbered /\ Matched /\ ToldCommitted /\ OneAwaited /\ ClientKnows
    BY ZenonT(60) DEF TruthInv
  <2>1. /\ worker.pc = step /\ Replied(worker.block, "failed") /\ worker' = Free
        /\ executions' = IF step = "batch" /\ sink = << >> THEN executions - 1 ELSE executions
        /\ UNCHANGED <<initialized, root, current_height, finalized, holder, sink, db, committed, mempool, client>>
    BY Zenon DEF SinkFails, service
  <2>2. worker.block \in Executable /\ worker.pc # "free" /\ worker'.pc = "free"
    BY Zenon, <2>0, <2>1, WorkerKinds DEF Free
  <2> DEFINE block == worker.block
  <2>3. /\ call' \in [Call -> Resting \cup Asked \cup Executed]
        /\ \A d \in Call : call'[d] = call[d] \/ Heard(d, block, "failed")
    BY ZenonT(60), <2>0, <2>1, <2>2, RepliedIs
  <2> HIDE DEF block
  <2>4. /\ OneAwaited'
        /\ \A b : b.call \in Call /\ Match(b) =>
                (call'[b.call].pc = "wait" /\ call'[b.call].id = b.id =>
                   call'[b.call].height = b.height /\ Ran(call'[b.call].txs) = b.ran)
    BY ZenonT(60), <2>0, <2>1, <2>3, <1>RepliedKeeps
  <2>5. /\ sink \in Seq(Executable) /\ Len(sink) \in Nat /\ executions \in Nat /\ Len(sink) + 1 <= executions
        /\ (sink = << >> => Len(sink) = 0) /\ (Len(sink) = 0 => sink = << >>)
    BY SMTT(60), <2>0, <2>2 DEF ExecTyped, Numbered
  <2>6. executions' \in Nat
    BY SMTT(60), <2>1, <2>5
  <2>7. ExecTyped'
    BY ZenonT(60), <2>0, <2>1, <2>3, <2>6 DEF ExecTyped
  <2>8. Numbered'
    <3>1. Len(sink) + 0 <= executions'
      BY SMTT(60), <2>1, <2>5
    <3>2. \A j \in 1..Len(sink) : sink[j].id = executions' - Len(sink) + j
      <4>1. CASE sink = << >>
        BY SMTT(60), <4>1
      <4>2. CASE sink # << >>
        BY ZenonT(60), <2>0, <2>1, <4>2 DEF Numbered
      <4> QED BY Zenon, <4>1, <4>2
    <3>3. \A i \in 1..Len(db) : 1 <= db[i].id /\ db[i].id + Len(sink) + 0 <= executions'
      <4> SUFFICES ASSUME NEW i \in 1..Len(db) PROVE 1 <= db[i].id /\ db[i].id + Len(sink) + 0 <= executions'
        BY ZenonT(60)
      <4>1. db[i] \in Executable
        BY SMTT(60), <2>0 DEF ExecTyped
      <4>2. 1 <= db[i].id /\ db[i].id \in Nat /\ db[i].id + Len(sink) + (IF worker.pc = "batch" THEN 1 ELSE 0) <= executions
        BY Zenon, <2>0, <4>1 DEF Numbered, Executable
      <4> QED BY SMTT(60), <2>1, <2>5, <4>2
    <3>4. sink' = sink /\ db' = db /\ committed' = committed
      BY Zenon, <2>1
    <3> QED BY ZenonT(60), <2>0, <2>2, <3>1, <3>2, <3>3, <3>4 DEF Numbered
  <2>9. Matched'
    <3>1. ASSUME NEW j \in 1..Len(sink) PROVE sink[j].call \in Call /\ Match(sink[j])
      <4>1. sink[j] \in Executable
        BY SMTT(60), <2>0 DEF ExecTyped
      <4> QED BY Zenon, <2>0, <4>1 DEF Executable, Matched
    <3>2. sink' = sink
      BY ZenonT(60), <2>1
    <3> QED BY ZenonT(60), <2>2, <2>4, <3>1, <3>2 DEF Matched, Match
  <2>10. ToldCommitted'
    <3> SUFFICES ASSUME NEW d \in Call, Told(call[d])' PROVE InStorage(call[d])'
      BY Zenon DEF ToldCommitted
    <3>1. ~Heard(d, block, "failed")
      BY Zenon DEF Heard, Told
    <3>2. call'[d] = call[d] /\ db' = db /\ committed' = committed
      BY Zenon, <2>1, <2>3, <3>1
    <3>3. InStorage(call[d])
      BY Zenon, <2>0, <3>2 DEF ToldCommitted, Told
    <3> QED BY ZenonT(60), <3>2, <3>3 DEF InStorage
  <2>11. ClientKnows'
    BY ZenonT(60), <2>0, <2>1 DEF ClientKnows, HasUpTo, HasHeight
  <2> QED BY ZenonT(60), <2>4, <2>7, <2>8, <2>9, <2>10, <2>11 DEF TruthInv

(* The batch of the sink worker succeeds.                                  *)
<1>SinkBatchStep. ASSUME TruthInv, SinkBatch
      PROVE TruthInv'
  <2> USE <1>SinkBatchStep
  <2>0. ExecTyped /\ Numbered /\ Matched /\ ToldCommitted /\ OneAwaited /\ ClientKnows
    BY ZenonT(60) DEF TruthInv
  <2> DEFINE b == WithRoot(worker.block)
  <2>1. /\ worker.pc = "batch" /\ db' = Append(db, b) /\ worker' = [pc |-> "commit", block |-> b]
        /\ UNCHANGED <<initialized, root, current_height, finalized, holder, call, sink, committed, mempool, client, executions>>
    BY ZenonT(60) DEF SinkBatch, service
  <2>2. /\ worker.block \in Executable /\ b \in Executable /\ b.id = worker.block.id /\ b.height = worker.block.height
        /\ b.ran = worker.block.ran /\ b.call = worker.block.call
    BY ZenonT(60), <2>0, <2>1, WorkerKinds, WithRootIs
  <2> HIDE DEF b
  <2>3. worker' \in [pc : {"batch", "commit", "index"}, block : Executable] /\ worker'.pc = "commit" /\ worker'.block = b
    BY ZenonT(60), <2>1, <2>2
  <2>4. /\ db \in Seq(Executable) /\ db' \in Seq(Executable) /\ Len(db) \in Nat /\ Len(db') = Len(db) + 1
        /\ db'[Len(db) + 1] = b /\ \A i \in 1..Len(db) : db'[i] = db[i]
    BY SMTT(60), <2>0, <2>1, <2>2 DEF ExecTyped
  <2>5. committed \in 0..Len(db) /\ committed' = committed
    BY ZenonT(60), <2>0, <2>1 DEF ExecTyped
  <2>6. Grows
    BY SMTT(60), <2>4, <2>5 DEF Grows
  <2>7. ExecTyped'
    BY SMTT(60), <2>0, <2>1, <2>3, <2>4, <2>5 DEF ExecTyped
  <2>8. Numbered'
    <3>0. sink' = sink /\ executions' = executions /\ Len(sink) \in Nat /\ executions \in Nat
      BY SMTT(60), <2>0, <2>1 DEF ExecTyped
    <3>1. Len(sink) + 1 <= executions /\ worker.block.id = executions - Len(sink) /\ worker.block.id \in Nat
      BY ZenonT(60), <2>0, <2>1, <2>2 DEF Numbered, Executable
    <3>2. \A j \in 1..Len(sink) : sink[j].id = executions - Len(sink) + j
      BY ZenonT(60), <2>0 DEF Numbered
    <3>3. ASSUME NEW i \in 1..Len(db) PROVE 1 <= db[i].id /\ db[i].id \in Nat /\ db[i].id + Len(sink) + 1 <= executions
      <4>1. db[i] \in Executable
        BY SMTT(60), <2>0 DEF ExecTyped
      <4> QED BY ZenonT(60), <2>0, <2>1, <4>1 DEF Numbered, Executable
    <3>4. ASSUME NEW i \in 1..Len(db') PROVE 1 <= db'[i].id /\ db'[i].id + Len(sink) + 0 <= executions
      <4>1. CASE i = Len(db) + 1
        BY SMTT(60), <2>2, <2>4, <3>0, <3>1, <4>1
      <4>2. CASE i # Len(db) + 1
        <5>1. i \in 1..Len(db) /\ db'[i] = db[i]
          BY SMTT(60), <2>4, <4>2
        <5> QED BY SMTT(60), <3>0, <3>3, <5>1
      <4> QED BY ZenonT(60), <4>1, <4>2
    <3>5. ASSUME NEW i \in 1..Len(db'), NEW j \in 1..Len(db'), i < j PROVE db'[i].id < db'[j].id
      <4>1. i \in 1..Len(db) /\ db'[i] = db[i]
        BY SMTT(60), <2>4, <3>5
      <4>2. CASE j = Len(db) + 1
        BY SMTT(60), <2>2, <2>4, <3>0, <3>1, <3>3, <4>1, <4>2
      <4>3. CASE j # Len(db) + 1
        <5>1. j \in 1..Len(db) /\ db'[j] = db[j]
          BY SMTT(60), <2>4, <4>3
        <5> QED BY Zenon, <2>0, <3>5, <4>1, <5>1 DEF Numbered
      <4> QED BY ZenonT(60), <4>2, <4>3
    <3>6. Len(db') > 0 /\ db'[Len(db')] = worker'.block
      BY SMTT(60), <2>3, <2>4
    <3>7. worker'.block.id = executions - Len(sink)
      BY ZenonT(60), <2>2, <2>3, <3>1
    <3> QED BY ZenonT(60), <2>3, <3>0, <3>1, <3>2, <3>4, <3>5, <3>6, <3>7 DEF Numbered
  <2>9. Matched'
    <3>1. \A j \in 1..Len(sink) : Match(sink[j])
      BY ZenonT(60), <2>0 DEF Matched
    <3>2. Match(worker.block)
      BY Zenon, <2>0, <2>1 DEF Matched
    <3> QED BY ZenonT(60), <2>1, <2>2, <2>3, <3>1, <3>2 DEF Matched, Match
  <2>10. ToldCommitted'
    <3>1. \A d \in Call : Told(call[d]) => \E i \in 1..committed :
            /\ db'[i].id = call[d].id /\ db'[i].height = call[d].height /\ db'[i].ran = Ran(call[d].txs)
            /\ db'[i].root = call[d].root
      BY ZenonT(60), <2>0, <2>5, <2>6 DEF ToldCommitted, InStorage, Grows
    <3> QED BY ZenonT(60), <2>1, <3>1 DEF ToldCommitted, Told, InStorage
  <2>11. OneAwaited'
    BY Zenon, <2>0, <2>1 DEF OneAwaited, Awaited
  <2>12. ClientKnows'
    <3>1. client' = client /\ HasUpTo(current_height') /\ HasUpTo(finalized')
      BY ZenonT(60), <2>1, <1>HasReached
    <3> QED BY ZenonT(60), <2>0, <2>6, <3>1, <1>KnowsGrows
  <2> QED BY ZenonT(60), <2>7, <2>8, <2>9, <2>10, <2>11, <2>12 DEF TruthInv

(* The sink worker commits.                                                *)
<1>SinkCommitStep. ASSUME TruthInv, SinkCommit
      PROVE TruthInv'
  <2> USE <1>SinkCommitStep
  <2>0. ExecTyped /\ Numbered /\ Matched /\ ToldCommitted /\ OneAwaited /\ ClientKnows
    BY ZenonT(60) DEF TruthInv
  <2>1. /\ worker.pc = "commit" /\ committed' = Len(db) /\ worker' = [worker EXCEPT !.pc = "index"]
        /\ UNCHANGED <<initialized, root, current_height, finalized, holder, call, sink, db, mempool, client, executions>>
    BY ZenonT(60) DEF SinkCommit, service
  <2>2. worker.block \in Executable /\ worker = [pc |-> worker.pc, block |-> worker.block]
    BY Zenon, <2>0, <2>1, WorkerKinds
  <2>3. worker' \in [pc : {"batch", "commit", "index"}, block : Executable] /\ worker'.pc = "index" /\ worker'.block = worker.block
    BY ZenonT(60), <2>1, <2>2
  <2>4. committed \in 0..Len(db) /\ Len(db) \in Nat
    BY SMTT(60), <2>0 DEF ExecTyped
  <2>5. Grows
    BY SMTT(60), <2>1, <2>4 DEF Grows
  <2>6. ExecTyped'
    BY SMTT(60), <2>0, <2>1, <2>3, <2>4 DEF ExecTyped
  <2>7. Numbered'
    BY Zenon, <2>0, <2>1, <2>3 DEF Numbered
  <2>8. Matched'
    <3>1. \A j \in 1..Len(sink) : Match(sink[j])
      BY ZenonT(60), <2>0 DEF Matched
    <3>2. Match(worker.block)
      BY Zenon, <2>0, <2>1 DEF Matched
    <3> QED BY Zenon, <2>1, <2>3, <3>1, <3>2 DEF Matched, Match
  <2>9. ToldCommitted'
    <3>1. \A d \in Call : Told(call[d]) => \E i \in 1..committed' :
            /\ db'[i].id = call[d].id /\ db'[i].height = call[d].height /\ db'[i].ran = Ran(call[d].txs)
            /\ db'[i].root = call[d].root
      BY ZenonT(60), <2>0, <2>5 DEF ToldCommitted, InStorage, Grows
    <3> QED BY ZenonT(60), <2>1, <3>1 DEF ToldCommitted, Told, InStorage
  <2>10. OneAwaited'
    BY Zenon, <2>0, <2>1 DEF OneAwaited, Awaited
  <2>11. ClientKnows'
    <3>1. client' = client /\ HasUpTo(current_height') /\ HasUpTo(finalized')
      BY ZenonT(60), <2>1, <1>HasReached
    <3> QED BY ZenonT(60), <2>0, <2>5, <3>1, <1>KnowsGrows
  <2> QED BY ZenonT(60), <2>6, <2>7, <2>8, <2>9, <2>10, <2>11 DEF TruthInv

(* The sink worker indexes the block and replies.                          *)
<1>SinkIndexStep. ASSUME TruthInv, SinkIndex
      PROVE TruthInv'
  <2> USE <1>SinkIndexStep
  <2>0. ExecTyped /\ Numbered /\ Matched /\ ToldCommitted /\ OneAwaited /\ ClientKnows
    BY ZenonT(60) DEF TruthInv
  <2>1. /\ worker.pc = "index" /\ Replied(worker.block, "committed") /\ worker' = Free
        /\ UNCHANGED <<initialized, root, current_height, finalized, holder, sink, db, committed, mempool, client, executions>>
    BY ZenonT(60) DEF SinkIndex, service
  <2>2. worker.block \in Executable /\ worker.pc # "free" /\ worker'.pc = "free"
    BY Zenon, <2>0, <2>1, WorkerKinds DEF Free
  <2> DEFINE block == worker.block
  <2>3. /\ call' \in [Call -> Resting \cup Asked \cup Executed]
        /\ \A d \in Call : call'[d] = call[d] \/ Heard(d, block, "committed")
    BY ZenonT(60), <2>0, <2>1, <2>2, RepliedIs
  <2>13. /\ Match(block) /\ Len(db) > 0 /\ db[Len(db)] = block /\ committed = Len(db)
         /\ Len(db) \in Nat
    BY SMTT(60), <2>0, <2>1 DEF Numbered, Matched, ExecTyped
  <2> HIDE DEF block
  <2>4. /\ OneAwaited'
        /\ \A b : b.call \in Call /\ Match(b) =>
                (call'[b.call].pc = "wait" /\ call'[b.call].id = b.id =>
                   call'[b.call].height = b.height /\ Ran(call'[b.call].txs) = b.ran)
    BY Zenon, <2>0, <2>1, <2>3, <1>RepliedKeeps
  <2>5. ExecTyped'
    BY Zenon, <2>0, <2>1, <2>3 DEF ExecTyped
  <2>6. Numbered'
    <3>1. Len(sink) \in Nat /\ executions \in Nat /\ Len(sink) + 1 <= executions
      BY SMTT(60), <2>0, <2>2 DEF ExecTyped, Numbered
    <3>2. Len(sink) + 0 <= executions
      BY SMTT(60), <3>1
    <3>3. \A i \in 1..Len(db) : 1 <= db[i].id /\ db[i].id + Len(sink) + 0 <= executions
      BY ZenonT(60), <2>0, <2>1 DEF Numbered
    <3> QED BY ZenonT(60), <2>0, <2>1, <2>2, <3>2, <3>3 DEF Numbered
  <2>7. Matched'
    <3>1. ASSUME NEW j \in 1..Len(sink) PROVE sink[j].call \in Call /\ Match(sink[j])
      <4>1. sink[j] \in Executable
        BY SMTT(60), <2>0 DEF ExecTyped
      <4> QED BY Zenon, <2>0, <4>1 DEF Executable, Matched
    <3>2. sink' = sink
      BY Zenon, <2>1
    <3> QED BY ZenonT(60), <2>2, <2>4, <3>1, <3>2 DEF Matched, Match
  <2>8. ToldCommitted'
    <3> SUFFICES ASSUME NEW d \in Call, Told(call[d])' PROVE InStorage(call[d])'
      BY ZenonT(60) DEF ToldCommitted
    <3>0. db' = db /\ committed' = committed
      BY Zenon, <2>1
    <3>1. CASE call'[d] = call[d]
      <4>1. InStorage(call[d])
        BY ZenonT(60), <2>0, <3>1 DEF ToldCommitted, Told
      <4> QED BY ZenonT(60), <3>0, <3>1, <4>1 DEF InStorage
    <3>2. CASE Heard(d, block, "committed")
      <4>1. call[d].height = block.height /\ Ran(call[d].txs) = block.ran /\ call[d].id = block.id
        BY ZenonT(60), <2>13, <3>2 DEF Match, Heard
      <4>2. call'[d].height = block.height /\ Ran(call'[d].txs) = block.ran /\ call'[d].id = block.id /\ call'[d].root = block.root
        BY ZenonT(60), <3>2, <4>1 DEF Heard, SameBlock
      <4>3. Len(db) \in 1..committed
        BY SMTT(60), <2>13
      <4> QED BY ZenonT(60), <2>13, <3>0, <4>2, <4>3 DEF InStorage
    <3> QED BY Zenon, <2>3, <3>1, <3>2
  <2>9. ClientKnows'
    BY ZenonT(60), <2>0, <2>1 DEF ClientKnows, HasUpTo, HasHeight
  <2> QED BY ZenonT(60), <2>4, <2>5, <2>6, <2>7, <2>8, <2>9 DEF TruthInv

(* The process crashes and starts again from its disk.                     *)
<1>CrashStep. ASSUME TruthInv, ExecutorCrash
      PROVE TruthInv'
  <2> USE <1>CrashStep
  <2>0. ExecTyped /\ Numbered /\ Matched /\ ToldCommitted /\ OneAwaited /\ ClientKnows
    BY ZenonT(60) DEF TruthInv
  <2>1. /\ db' \in {db, SubSeq(db, 1, committed)} /\ committed' = Len(db')
        /\ initialized' = FALSE /\ root' = 0 /\ current_height' = 0 /\ finalized' = 0
        /\ holder' = {} /\ call' = [c \in Call |-> Free]
        /\ sink' = << >> /\ worker' = Free
        /\ mempool' = [waiting |-> {}, in_flight |-> {}]
        /\ client' = client /\ executions' = executions
    BY ZenonT(60) DEF ExecutorCrash
  <2>2. /\ db \in Seq(Executable) /\ committed \in 0..Len(db) /\ Len(db) \in Nat /\ executions \in Nat
        /\ client.height \in Nat
    BY SMTT(60), <2>0 DEF ExecTyped
  <2>3. /\ db' \in Seq(Executable) /\ committed <= Len(db') /\ Len(db') <= Len(db) /\ Len(db') \in Nat
        /\ \A i \in 1..Len(db') : db'[i] = db[i] /\ i \in 1..Len(db)
    <3>1. CASE db' = db
      BY SMTT(60), <2>2, <3>1
    <3>2. CASE db' = SubSeq(db, 1, committed)
      BY SMTT(60), <2>2, <3>2
    <3> QED BY ZenonT(60), <2>1, <3>1, <3>2
  <2>4. \A d \in Call : call'[d] = Free
    BY ZenonT(60), <2>1
  <2>5. Free.pc = "free" /\ Free.lost /\ ~Told(Free) /\ ~(Free.pc \in Pending) /\ Free \in Resting
    BY Zenon, FreeIsResting DEF Told, Pending
  <2>6. ExecTyped'
    <3>1. call' \in [Call -> Resting \cup Asked \cup Executed]
      BY ZenonT(60), <2>1, <2>5
    <3>2. committed' \in 0..Len(db') /\ sink' \in Seq(Executable)
      BY SMTT(60), <2>1, <2>3
    <3>3. mempool' \in [waiting : SUBSET Txs, in_flight : SUBSET Txs]
      BY ZenonT(60), <2>1
    <3>6. initialized' \in BOOLEAN
      BY <2>1, Zenon
    <3>4. root' \in Int /\ current_height' \in Nat /\ finalized' \in Nat /\ holder' \subseteq Call
      BY SMTT(60), <2>1
    <3>5. client' \in [height : Nat, root : Int] /\ executions' \in Nat /\ worker' = Free
      BY ZenonT(60), <2>0, <2>1 DEF ExecTyped
    <3> QED BY ZenonT(60), <2>3, <3>1, <3>2, <3>3, <3>4, <3>5, <3>6 DEF ExecTyped
  <2>7. Numbered'
    <3>1. Len(sink') = 0 /\ worker'.pc = "free"
      BY ZenonT(60), <2>1, <2>5
    <3>2. ASSUME NEW i \in 1..Len(db') PROVE 1 <= db'[i].id /\ db'[i].id + 0 + 0 <= executions
      <4>1. db'[i] = db[i] /\ i \in 1..Len(db) /\ db[i] \in Executable /\ Len(sink) \in Nat
        BY SMTT(60), <2>0, <2>2, <2>3 DEF ExecTyped
      <4>2. 1 <= db[i].id /\ db[i].id \in Nat /\ db[i].id + Len(sink) + (IF worker.pc = "batch" THEN 1 ELSE 0) <= executions
        BY Zenon, <2>0, <4>1 DEF Numbered, Executable
      <4> QED BY SMTT(60), <2>2, <4>1, <4>2
    <3>3. \A i, j \in 1..Len(db') : i < j => db'[i].id < db'[j].id
      BY Zenon, <2>0, <2>3 DEF Numbered
    <3>4. 0 + 0 <= executions
      BY SMTT(60), <2>2
    <3>5. \A j \in 1..Len(sink') : FALSE
      BY SMTT(60), <3>1
    <3> QED BY SMTT(60), <2>1, <3>1, <3>2, <3>3, <3>4, <3>5 DEF Numbered
  <2>8. Matched'
    <3>1. worker'.pc = "free" /\ \A j \in 1..Len(sink') : FALSE
      BY SMTT(60), <2>1, <2>5
    <3> QED BY ZenonT(60), <3>1 DEF Matched
  <2>9. ToldCommitted'
    BY Zenon, <2>4, <2>5 DEF ToldCommitted, Told
  <2>10. OneAwaited'
    BY Zenon, <2>4, <2>5 DEF OneAwaited, Awaited
  <2>11. ClientKnows'
    <3>1. Grows
      BY SMTT(60), <2>1, <2>2, <2>3 DEF Grows
    <3>2. \A h \in InitialHeight + 1..0 : FALSE
      BY SMTT(60) DEF InitialHeight
    <3>3. HasUpTo(current_height') /\ HasUpTo(finalized')
      BY ZenonT(60), <2>1, <3>2 DEF HasUpTo
    <3> QED BY ZenonT(60), <2>0, <2>1, <3>1, <3>3, <1>KnowsGrows
  <2> QED BY ZenonT(60), <2>6, <2>7, <2>8, <2>9, <2>10, <2>11 DEF TruthInv

(* The steps, one by one.                                                  *)
<1> SUFFICES ASSUME TruthInv, [ExecutorNext]_<<executor, mishaps>> PROVE TruthInv'
  BY ZenonT(60)
<1>1. CASE UNCHANGED <<executor, mishaps>>
  <2>1. /\ UNCHANGED <<call, sink, worker, db, committed, executions, client>>
        /\ UNCHANGED <<initialized, root, current_height, finalized, holder, mempool>>
    BY Zenon, <1>1 DEF executor, service, commit
  <2>2. TypedService' /\ TypedPool' /\ HasUpTo(current_height') /\ HasUpTo(finalized')
    BY ZenonT(60), <2>1, <1>TypedParts, <1>HasReached DEF TypedService, TypedPool
  <2> QED BY ZenonT(60), <2>1, <2>2, <1>ElsewhereStep
<1>2. ASSUME NEW c \in Call, InitChain(c) \/ Request(c) \/ Handler(c) PROVE TruthInv'
  <2>1. CASE RefuseRoot(c)
    BY ZenonT(60), <2>1, <1>AnswerStep DEF RefuseRoot
  <2>2. CASE CommitFailed(c)
    BY ZenonT(60), <2>2, <1>AnswerStep DEF CommitFailed
  <2> QED BY ZenonT(60), <1>2, <2>1, <2>2, <1>InitChainStep, <1>RequestStep, <1>InitChainStoresStep, <1>LockStep, <1>ExecuteStep,
             <1>FinalizeProposalStep, <1>StoreHeightStep, <1>StoreRootStep DEF Handler
<1>3. CASE Worker
  BY ZenonT(60), <1>3, <1>SinkTakeStep, <1>SinkBatchStep, <1>SinkCommitStep, <1>SinkIndexStep DEF Worker
<1>4. CASE Fault
  <2>1. ASSUME NEW c \in Call, Cancel(c) PROVE TruthInv'
    BY ZenonT(60), <2>1, <1>AnswerStep DEF Cancel
  <2> QED BY ZenonT(60), <1>4, <2>1, <1>GiveUpStep, <1>SinkFailsStep, <1>ShutdownStep, <1>CrashStep DEF Fault
<1> QED BY Zenon, <1>1, <1>2, <1>3, <1>4, <1>GetTxsStep, <1>SetFinalStep DEF ExecutorNext

(* TruthInv holds at first.                                                *)
LEMMA TruthInit ==
  ASSUME ExecutorInit
  PROVE TruthInv
<1>1. \A d \in Call : call[d] = Free
  BY Zenon DEF ExecutorInit
<1>2. Free.pc = "free" /\ Free.lost /\ ~Told(Free) /\ ~(Free.pc \in Pending) /\ Free \in Resting
  BY Zenon, FreeIsResting DEF Told, Pending
<1>3. ExecTyped
  <2>1. call \in [Call -> Resting \cup Asked \cup Executed]
    BY Zenon, <1>2 DEF ExecutorInit
  <2>2. mempool \in [waiting : SUBSET Txs, in_flight : SUBSET Txs] /\ client \in [height : Nat, root : Int]
    BY SMTT(60) DEF ExecutorInit, NoRoot
  <2>3. sink \in Seq(Executable) /\ db \in Seq(Executable) /\ committed \in 0..Len(db)
    BY SMTT(60) DEF ExecutorInit
  <2>6. initialized \in BOOLEAN
    BY ZenonT(60) DEF ExecutorInit
  <2>4. root \in Int /\ current_height \in Nat /\ finalized \in Nat /\ holder \subseteq Call
    BY SMTT(60) DEF ExecutorInit
  <2>5. executions \in Nat /\ worker = Free
    BY Zenon DEF ExecutorInit
  <2> QED BY Zenon, <2>1, <2>2, <2>3, <2>4, <2>5, <2>6 DEF ExecTyped
<1>4. Len(sink) = 0 /\ Len(db) = 0 /\ worker.pc = "free" /\ executions = 0 /\ client.height = 0 /\ finalized = 0 /\ current_height = 0
  BY Zenon, <1>2 DEF ExecutorInit
<1>5. Numbered
  BY SMTT(60), <1>4 DEF Numbered
<1>6. Matched
  BY SMTT(60), <1>4 DEF Matched
<1>7. ToldCommitted /\ OneAwaited
  BY Zenon, <1>1, <1>2 DEF ToldCommitted, OneAwaited, Awaited
<1>8. ClientKnows
  BY SMTT(60), <1>4 DEF ClientKnows, HasUpTo, InitialHeight
<1> QED BY Zenon, <1>3, <1>5, <1>6, <1>7, <1>8 DEF TruthInv

(* What the client was told is true of what storage keeps, whatever goes   *)
(* wrong: the root it holds is that of a committed block of that height,   *)
(* and set_final accepts no height beyond the initial one that is not      *)
(* committed.                                                              *)
THEOREM ClientIsToldTheTruth == ExecutorSpec => []ClientToldTruth
<1>1. TruthInv => ClientToldTruth
  BY ZenonT(60) DEF TruthInv, ClientKnows, HasUpTo, HasHeight, ClientToldTruth
<1> QED BY <1>1, TruthInit, TruthNext, PTL DEF ExecutorSpec

-----------------------------------------------------------------------------
(* Where transactions are, while the process lives.                        *)
Left == mempool.waiting \cup mempool.in_flight

(* Every step but a crash keeps what storage holds; a handler keeps the    *)
(* block it has, or begins with one that runs in order; and the pool loses *)
(* nothing but what a handler finalizes.                                   *)
KeepsTxs(c) ==
    call'[c].pc \in Pending =>
        (call[c].pc \in Pending /\ call'[c].txs = call[c].txs) \/ RunsInOrder(call'[c].txs)

LiveStep ==
    /\ Grows
    /\ \A c \in Call : KeepsTxs(c)
    /\ Left \subseteq Left' \/ \E c \in Call : FinalizeProposal(c)

(* Every step keeps TxsInv.                                                *)
LEMMA TxsNext == TruthInv /\ TxsInv /\ [ExecutorNext]_<<executor, mishaps>> => TxsInv'
(* A handler that moves by itself takes a live step.                       *)
<1>HandlerLives. ASSUME TruthInv, NEW c \in Call, NEW x, call' = [call EXCEPT ![c] = x],
             UNCHANGED <<db, committed>>,
             x.pc \in Pending => (call[c].pc \in Pending /\ x.txs = call[c].txs) \/ RunsInOrder(x.txs),
             Left \subseteq Left' \/ FinalizeProposal(c)
      PROVE LiveStep
  <2> USE <1>HandlerLives
  <2>1. call'[c] = x /\ \A d \in Call : d # c => call'[d] = call[d]
    BY Zenon DEF TruthInv, ExecTyped
  <2>2. Grows
    BY Zenon DEF Grows
  <2>3. \A d \in Call : KeepsTxs(d)
    BY Zenon, <2>1 DEF KeepsTxs
  <2> QED BY Zenon, <2>2, <2>3 DEF LiveStep

(* A step that leaves handlers, storage and pool alone is a live step.     *)
<1>OtherLives. ASSUME Grows, call' = call, Left \subseteq Left'
      PROVE LiveStep
  BY Zenon, <1>OtherLives DEF LiveStep, KeepsTxs

(* A reply of the sink worker is a live step.                              *)
<1>RepliedLives. ASSUME TruthInv, NEW reply \in {"failed", "committed"}, worker.pc # "free", Replied(worker.block, reply),
             UNCHANGED <<db, committed, mempool>>
      PROVE LiveStep
  <2> USE <1>RepliedLives
  <2> DEFINE block == worker.block
  <2>0. ExecTyped /\ block \in Executable
    BY Zenon, WorkerKinds DEF TruthInv
  <2>1. \A d \in Call : call'[d] = call[d] \/ Heard(d, block, reply)
    BY ZenonT(60), <2>0, RepliedIs
  <2> HIDE DEF block
  <2>2. \A d \in Call : KeepsTxs(d)
    BY Zenon, <2>1 DEF KeepsTxs, Heard, SameBlock, Pending
  <2> QED BY Zenon, <2>2 DEF LiveStep, Grows, Left

(* Every step but a crash is a live step.                                  *)
<1>LiveMoves. ASSUME TruthInv, Filters, ExecutorNext
      PROVE LiveStep
  <2> USE <1>LiveMoves
  <2>0. Free.pc = "free" /\ ~(Free.pc \in Pending) /\ ExecTyped
    BY Zenon, FreeIsResting DEF Pending, TruthInv
  <2>1. ASSUME NEW c \in Call, InitChain(c) PROVE LiveStep
    <3> DEFINE x == [pc |-> "genesis", lost |-> FALSE]
    <3>1. call' = [call EXCEPT ![c] = x] /\ UNCHANGED <<db, committed, mempool>> /\ ~(x.pc \in Pending)
      BY Zenon, <2>1 DEF InitChain, commit, Pending
    <3> HIDE DEF x
    <3> QED BY Zenon, <3>1, <1>HandlerLives DEF Left
  <2>2. ASSUME NEW c \in Call, Request(c) PROVE LiveStep
    <3>1. PICK S \in SUBSET mempool.in_flight :
         \E txs \in {FilterTxs(s, 0, 0) : s \in Permuted(S)} :
         \E prev :
          call' = [call EXCEPT ![c] =
              [pc |-> "lock", lost |-> FALSE, height |-> client.height + 1,
               prev |-> prev, txs |-> txs]]
      BY Zenon, <2>2 DEF Request, Filters
    <3>2. PICK s \in Permuted(S) : \E prev :
            call' = [call EXCEPT ![c] =
              [pc |-> "lock", lost |-> FALSE, height |-> client.height + 1,
               prev |-> prev, txs |-> FilterTxs(s, 0, 0)]]
      BY Zenon, <3>1
    <3>6. PICK prev :
            call' = [call EXCEPT ![c] =
              [pc |-> "lock", lost |-> FALSE, height |-> client.height + 1,
               prev |-> prev, txs |-> FilterTxs(s, 0, 0)]]
      BY ZenonT(60), <3>2
    <3>3. RunsInOrder(FilterTxs(s, 0, 0))
      <4>1. S \in SUBSET Txs
        BY Zenon DEF TruthInv, ExecTyped
      <4> QED BY ZenonT(60), <3>2, <4>1, PermutedType, RunsAndFilters
    <3> DEFINE x == [pc |-> "lock", lost |-> FALSE, height |-> client.height + 1,
                     prev |-> prev, txs |-> FilterTxs(s, 0, 0)]
    <3>4. x.txs = FilterTxs(s, 0, 0) /\ call' = [call EXCEPT ![c] = x]
      BY Zenon, <3>6
    <3>5. UNCHANGED <<db, committed, mempool>>
      BY Zenon, <2>2 DEF Request, commit
    <3> HIDE DEF x
    <3> QED BY ZenonT(60), <3>3, <3>4, <3>5, <1>HandlerLives DEF Left
  <2>3. ASSUME NEW c \in Call, call' = [call EXCEPT ![c] = Free], UNCHANGED <<db, committed, mempool>> PROVE LiveStep
    BY Zenon, <2>0, <2>3, <1>HandlerLives DEF Left
  <2>4. ASSUME NEW c \in Call, NEW p \in {"resolve", "height", "root"}, call[c].pc \in Pending,
               call' = [call EXCEPT ![c].pc = p], UNCHANGED <<db, committed>>,
               Left \subseteq Left' \/ FinalizeProposal(c)
        PROVE LiveStep
    <3> DEFINE x == [call[c] EXCEPT !.pc = p]
    <3>1. call[c] \in Asked \/ call[c] \in Executed
      BY ZenonT(60), <2>0, <2>4, CallKinds DEF Pending
    <3>2. x.txs = call[c].txs
      BY Zenon, <3>1 DEF Asked, Executed
    <3>3. call' = [call EXCEPT ![c] = x]
      BY Zenon, <2>4
    <3> HIDE DEF x
    <3> QED BY Zenon, <2>4, <3>2, <3>3, <1>HandlerLives
  <2>5. ASSUME NEW c \in Call, Handler(c) PROVE LiveStep
    <3>1. CASE InitChainStores(c)
      BY Zenon, <2>3, <3>1 DEF InitChainStores, commit
    <3>2. CASE Lock(c)
      BY ZenonT(60), <2>4, <3>2 DEF Lock, commit, Pending, Left
    <3>3. CASE RefuseRoot(c) \/ CommitFailed(c) \/ StoreRoot(c)
      BY ZenonT(60), <2>3, <3>3 DEF RefuseRoot, CommitFailed, StoreRoot, Answer, commit
    <3>4. CASE Execute(c)
      <4> DEFINE x == [pc |-> "wait", lost |-> call[c].lost, height |-> call[c].height, txs |-> call[c].txs,
                       id |-> executions + 1, reply |-> "none", root |-> NoRoot]
      <4>1. call' = [call EXCEPT ![c] = x] /\ x.txs = call[c].txs /\ call[c].pc \in Pending
        BY Zenon, <3>4 DEF Execute, Pending
      <4>2. UNCHANGED <<db, committed, mempool>>
        BY Zenon, <3>4 DEF Execute
      <4> HIDE DEF x
      <4> QED BY ZenonT(60), <4>1, <4>2, <1>HandlerLives DEF Left
    <3>5. CASE FinalizeProposal(c)
      BY Zenon, <2>4, <3>5 DEF FinalizeProposal, commit, Pending
    <3>6. CASE StoreHeight(c)
      BY Zenon, <2>4, <3>6 DEF StoreHeight, commit, Pending, Left
    <3> QED BY ZenonT(60), <2>5, <3>1, <3>2, <3>3, <3>4, <3>5, <3>6 DEF Handler
  <2>6. CASE GetTxs
    <3>1. PICK txs \in SUBSET mempool.waiting :
          mempool' = [waiting |-> mempool.waiting \ txs, in_flight |-> mempool.in_flight \cup txs]
      BY ZenonT(60), <2>6 DEF GetTxs
    <3>2. Left \subseteq Left'
      BY ZenonT(60), <3>1 DEF Left
    <3>3. UNCHANGED <<call, db, committed>>
      BY ZenonT(60), <2>6 DEF GetTxs, commit
    <3>4. Grows
      BY ZenonT(60), <3>3 DEF Grows
    <3> QED BY ZenonT(60), <3>2, <3>3, <3>4, <1>OtherLives
  <2>7. CASE SetFinal \/ SinkTake \/ Shutdown
    <3>1. UNCHANGED <<call, db, committed, mempool>>
      BY Zenon, <2>7 DEF SetFinal, SinkTake, Shutdown, commit
    <3>2. Grows /\ Left \subseteq Left'
      BY ZenonT(60), <3>1 DEF Grows, Left
    <3> QED BY ZenonT(60), <3>1, <3>2, <1>OtherLives
  <2>8. CASE SinkBatch
    <3>1. UNCHANGED <<call, committed, mempool>> /\ db' = Append(db, WithRoot(worker.block))
      BY Zenon, <2>8 DEF SinkBatch
    <3>2. db \in Seq(Executable) /\ committed \in 0..Len(db) /\ Len(db) \in Nat
      BY SMTT(60), <2>0 DEF ExecTyped
    <3>3. Grows /\ Left \subseteq Left'
      BY SMTT(60), <3>1, <3>2 DEF Grows, Left
    <3> QED BY ZenonT(60), <3>1, <3>3, <1>OtherLives
  <2>9. CASE SinkCommit
    <3>1. UNCHANGED <<call, db, mempool>> /\ committed' = Len(db)
      BY ZenonT(60), <2>9 DEF SinkCommit
    <3>2. committed \in 0..Len(db) /\ Len(db) \in Nat
      BY SMTT(60), <2>0 DEF ExecTyped
    <3>3. Grows /\ Left \subseteq Left'
      BY SMTT(60), <3>1, <3>2 DEF Grows, Left
    <3> QED BY Zenon, <3>1, <3>3, <1>OtherLives
  <2>10. CASE SinkIndex
    BY Zenon, <2>10, <1>RepliedLives DEF SinkIndex
  <2>11. ASSUME NEW step \in {"batch", "commit"}, SinkFails(step) PROVE LiveStep
    BY Zenon, <2>11, <1>RepliedLives DEF SinkFails
  <2>12. ASSUME NEW c \in Call, GiveUp(c) PROVE LiveStep
    <3> DEFINE x == [call[c] EXCEPT !.lost = TRUE]
    <3>0. call[c] \in Resting \cup Asked \cup Executed
      BY Zenon, <2>0 DEF ExecTyped
    <3>2. x.pc \in Pending => call[c].pc \in Pending /\ x.txs = call[c].txs
      <4>1. CASE call[c] \in Asked \/ call[c] \in Executed
        BY ZenonT(60), <4>1 DEF Asked, Executed, Pending
      <4>2. CASE call[c] \in [pc : {"genesis"}, lost : BOOLEAN]
        BY ZenonT(60), <4>2 DEF Pending
      <4>3. call[c] # Free
        BY Zenon, <2>12, FreeIsResting DEF GiveUp
      <4> QED BY ZenonT(60), <3>0, <4>1, <4>2, <4>3 DEF Resting
    <3>3. call' = [call EXCEPT ![c] = x] /\ UNCHANGED <<db, committed, mempool>>
      BY ZenonT(60), <2>12 DEF GiveUp, commit
    <3> HIDE DEF x
    <3> QED BY ZenonT(60), <3>2, <3>3, <1>HandlerLives DEF Left
  <2>13. ASSUME NEW c \in Call, Cancel(c) PROVE LiveStep
    BY Zenon, <2>3, <2>13 DEF Cancel, Answer, commit
  <2>14. ~ExecutorCrash
    BY ZenonT(60) DEF ExecutorCrash, Filters
  <2> QED BY ZenonT(60), <2>1, <2>2, <2>5, <2>6, <2>7, <2>8, <2>9, <2>10, <2>11, <2>12, <2>13, <2>14
          DEF ExecutorNext, Worker, Fault

(* What is committed of a process that lives stays a prefix.               *)
<1>DurableGrows. ASSUME Grows
      PROVE DurableTxs \subseteq DurableTxs'
  <2> USE <1>DurableGrows
  <2> SUFFICES ASSUME NEW t \in DurableTxs PROVE t \in DurableTxs'
    BY ZenonT(60)
  <2>1. PICK i \in 1..committed : t \in Range(db[i].ran)
    BY ZenonT(60) DEF DurableTxs
  <2>2. i \in 1..committed' /\ db'[i] = db[i]
    BY ZenonT(60) DEF Grows
  <2> QED BY ZenonT(60), <2>1, <2>2 DEF DurableTxs

(* The first so many of a block's transactions are those that ran.         *)
<1>FinalizedAreDurable. ASSUME TruthInv, NEW c \in Call, Told(call[c]), RunsInOrder(call[c].txs)
      PROVE ExecutedHashes(c) \subseteq DurableTxs
  <2> USE <1>FinalizedAreDurable
  <2>1. PICK i \in 1..committed : db[i].ran = Ran(call[c].txs)
    BY Zenon DEF TruthInv, ToldCommitted, InStorage
  <2>2. ExecutedHashes(c) = Range(Ran(call[c].txs))
    BY Zenon DEF ExecutedHashes, RunsInOrder
  <2> QED BY Zenon, <2>1, <2>2 DEF DurableTxs

(* The steps, one by one.                                                  *)
<1> SUFFICES ASSUME TruthInv, TxsInv, [ExecutorNext]_<<executor, mishaps>> PROVE TxsInv'
  BY Zenon
<1>1. CASE UNCHANGED <<executor, mishaps>>
  <2>1. UNCHANGED <<mishaps, call, mempool, db, committed>>
    BY Zenon, <1>1 DEF executor, commit
  <2> QED BY ZenonT(60), <2>1 DEF TxsInv, Filters, TxsNotLost, DurableTxs
<1>2. CASE ExecutorNext
  <2>0. mishaps' = mishaps
    BY Zenon, <1>2 DEF ExecutorNext
  <2> SUFFICES ASSUME Filters PROVE TxsNotLost' /\ \A c \in Call : call'[c].pc \in Pending => RunsInOrder(call'[c].txs)
    BY Zenon, <2>0 DEF TxsInv, Filters
  <2>1. LiveStep
    BY ZenonT(60), <1>2, <1>LiveMoves
  <2>2. TxsNotLost /\ \A c \in Call : call[c].pc \in Pending => RunsInOrder(call[c].txs)
    BY Zenon DEF TxsInv
  <2>3. \A c \in Call : call'[c].pc \in Pending => RunsInOrder(call'[c].txs)
    BY Zenon, <2>1, <2>2 DEF LiveStep, KeepsTxs
  <2>4. DurableTxs \subseteq DurableTxs' /\ Txs \ Left \subseteq DurableTxs
    BY Zenon, <2>1, <2>2, <1>DurableGrows DEF LiveStep, TxsNotLost, Left
  <2>5. Txs \ Left' \subseteq DurableTxs'
    <3>1. CASE Left \subseteq Left'
      BY Zenon, <2>4, <3>1
    <3>2. ASSUME NEW c \in Call, FinalizeProposal(c) PROVE Txs \ Left' \subseteq DurableTxs'
      <4>1. Told(call[c]) /\ call[c].pc \in Pending
        BY ZenonT(60), <3>2 DEF FinalizeProposal, Told, Pending
      <4>2. ExecutedHashes(c) \subseteq DurableTxs
        BY ZenonT(60), <2>2, <4>1, <1>FinalizedAreDurable
      <4>3. Left' = Left \ ExecutedHashes(c)
        BY ZenonT(60), <3>2 DEF FinalizeProposal, Left
      <4> QED BY Zenon, <2>4, <4>2, <4>3
    <3> QED BY Zenon, <2>1, <3>1, <3>2 DEF LiveStep
  <2> QED BY Zenon, <2>3, <2>5 DEF TxsNotLost, Left
<1> QED BY Zenon, <1>1, <1>2

(* While the process lives and the client executes what filter_txs lets    *)
(* through, a transaction leaves the mempool only when a committed block   *)
(* holds its result, whatever batches, commits and connections fail.       *)
THEOREM TxsAreKept == ExecutorSpec => []LiveTxsKept
<1>1. ExecutorInit => TruthInv /\ TxsInv
  <2> SUFFICES ASSUME ExecutorInit PROVE TruthInv /\ TxsInv
    BY Zenon
  <2>1. \A c \in Call : call[c].pc = "free"
    BY ZenonT(60), FreeIsResting DEF ExecutorInit
  <2>2. TxsNotLost
    BY ZenonT(60) DEF ExecutorInit, TxsNotLost
  <2> QED BY ZenonT(60), <2>1, <2>2, TruthInit DEF TxsInv, Pending
<1>2. TruthInv /\ TxsInv /\ [ExecutorNext]_<<executor, mishaps>> => (TruthInv /\ TxsInv)'
  BY ZenonT(60), TruthNext, TxsNext
<1>3. TxsInv => LiveTxsKept
  BY ZenonT(60) DEF TxsInv, LiveTxsKept, Filters
<1> QED BY <1>1, <1>2, <1>3, PTL DEF ExecutorSpec

-----------------------------------------------------------------------------
(* One block after the other, while nothing goes wrong with the lock.      *)

(* The one that holds the lock is the one whose block is on its way.       *)
LEMMA BlockHeld ==
  ASSUME TruthInv, Serial
  PROVE /\ \A j \in 1..Len(sink) : sink[j].call \in holder /\ Waited(sink[j])
        /\ worker.pc # "free" => worker.block.call \in holder /\ Waited(worker.block)
<1>1. ASSUME NEW j \in 1..Len(sink) PROVE sink[j].call \in holder /\ Waited(sink[j])
  <2>1. sink[j] \in Executable
    BY SMTT(60) DEF TruthInv, ExecTyped
  <2>2. sink[j].call \in Call
    BY Zenon, <2>1 DEF Executable
  <2> QED BY ZenonT(60), <2>2 DEF Serial, Waited, InLock
<1>2. ASSUME worker.pc # "free" PROVE worker.block.call \in holder /\ Waited(worker.block)
  <2>1. worker.block.call \in Call
    BY Zenon, <1>2, WorkerKinds DEF TruthInv, Executable
  <2> QED BY Zenon, <1>2, <2>1 DEF Serial, Waited, InLock
<1> QED BY ZenonT(60), <1>1, <1>2

(* Without a handler that waits the pipeline is empty.                     *)
LEMMA NothingOnItsWay ==
  ASSUME TruthInv, Serial, \A c \in holder : ~(call[c].pc = "wait" /\ call[c].reply = "none")
  PROVE sink = << >> /\ Len(sink) = 0 /\ worker.pc = "free"
<1>1. sink \in Seq(Executable) /\ Len(sink) \in Nat
  BY SMTT(60) DEF TruthInv, ExecTyped
<1>2. ~(1 \in 1..Len(sink))
  BY Zenon, BlockHeld DEF Waited
<1>3. worker.pc = "free"
  BY ZenonT(60), BlockHeld DEF Waited
<1> QED BY SMTT(60), <1>1, <1>2, <1>3

(* Without a handler that waits nobody has a verdict.                      *)
LEMMA NobodyTold ==
  ASSUME TruthInv, Serial, \A c \in holder : ~Told(call[c])
  PROVE \A c \in Call : ~Told(call[c])
BY Zenon DEF Serial, Told, InLock

(* init_chain, while nothing was executed.                                 *)
Rests(x) == x.pc \in {"free", "genesis"}

NothingYet ==
    /\ \A c \in Call : Rests(call[c])
    /\ db = << >> /\ sink = << >> /\ worker.pc = "free"

Opening ==
    /\ client.height = 0 /\ client.root \in {NoRoot, GenesisRoot}
    /\ initialized => root = GenesisRoot
    /\ ~initialized => client.root = NoRoot /\ finalized = 0

(* Every step keeps LinInv.                                                *)
LEMMA LinNext == TruthInv /\ LinInv /\ [ExecutorNext]_<<executor, mishaps>> => LinInv'
(* A handler at work is after an init_chain.                               *)
<1>PendingStarted. ASSUME Fresh, NEW c \in Call, call[c].pc \in Pending
      PROVE initialized
  <2> USE <1>PendingStarted
  <2>1. ~(call[c].pc \in {"free", "genesis"})
    BY Zenon DEF Pending
  <2> QED BY Zenon, <2>1 DEF Fresh

(* A block on its way is after an init_chain.                              *)
<1>PipelineStarted. ASSUME Fresh, sink # << >> \/ worker.pc # "free"
      PROVE initialized
  BY Zenon, <1>PipelineStarted DEF Fresh

(* Where every block changes the state, the roots of what storage holds    *)
(* are all different.                                                      *)
<1>RootsDiffer. ASSUME TruthInv, RootsUnique, "empty" \notin mishaps, NEW h \in 0..Len(db), RootAt(h) = RootAt(Len(db))
      PROVE h = Len(db)
  <2> USE <1>RootsDiffer
  <2>1. Len(db) \in Nat /\ \A i \in 1..Len(db) : db[i].root = db[i].id /\ db[i].id >= 1 /\ db[i].id \in Nat
    <3>1. db \in Seq(Executable)
      BY Zenon DEF TruthInv, ExecTyped
    <3>2. ASSUME NEW i \in 1..Len(db) PROVE db[i].root = db[i].id /\ db[i].id >= 1 /\ db[i].id \in Nat
      <4>1. db[i] \in Executable
        BY SMTT(60), <3>1
      <4> QED BY Zenon, <4>1 DEF TruthInv, Numbered, Executable, RootsUnique
    <3> QED BY SMTT(60), <3>1, <3>2
  <2>2. SUFFICES ASSUME h # Len(db) PROVE FALSE
    BY Zenon
  <2>3. Len(db) \in 1..Len(db) /\ h < Len(db)
    BY SMTT(60), <2>1, <2>2
  <2>4. CASE h = 0
    <3>1. db[Len(db)].root = GenesisRoot /\ db[Len(db)].root = db[Len(db)].id /\ db[Len(db)].id >= 1 /\ db[Len(db)].id \in Nat
      BY SMTT(60), <2>1, <2>3, <2>4 DEF RootAt
    <3> QED BY SMTT(60), <3>1 DEF GenesisRoot
  <2>5. CASE h # 0
    <3>1. h \in 1..Len(db) /\ db[h].root = db[Len(db)].root
      BY SMTT(60), <2>1, <2>3, <2>5 DEF RootAt
    <3>2. db[h].id < db[Len(db)].id /\ db[h].id = db[Len(db)].id
      BY Zenon, <2>1, <2>3, <3>1 DEF TruthInv, Numbered
    <3> QED BY SMTT(60), <2>1, <3>1, <3>2
  <2> QED BY ZenonT(60), <2>4, <2>5

(* The named roots stay named while storage is left alone and no handler   *)
(* enters the lock or names another root.                                  *)
<1>RootsNamedKept. ASSUME RootsNamed, db' = db,
             client'.root # NoRoot => Names(client'.root, client'.height),
             \A d \in Call : call'[d].pc \in {"lock", "resolve"} => call'[d] = call[d]
      PROVE  RootsNamed'
  <2> USE <1>RootsNamedKept
  <2>1. \A r, h : Names(r, h) => h \in 0..Len(db') /\ r = (IF h = 0 THEN GenesisRoot ELSE db'[h].root)
    BY Zenon DEF Names, RootAt
  <2>2. client'.root # NoRoot => Names(client.root, client.height)'
    BY Zenon, <2>1 DEF Names, RootAt
  <2>3. ASSUME NEW d \in Call, call'[d].pc \in {"lock", "resolve"}
        PROVE  call'[d].prev # NoRoot /\ Names(call[d].prev, call[d].height - 1)'
    <3>1. call'[d] = call[d]
      BY Zenon, <2>3
    <3>2. call[d].prev # NoRoot /\ Names(call[d].prev, call[d].height - 1)
      BY Zenon, <2>3, <3>1 DEF RootsNamed
    <3> QED BY Zenon, <2>1, <3>1, <3>2 DEF Names, RootAt
  <2> QED BY Zenon, <2>2, <2>3 DEF RootsNamed

(* A step of one handler that stores nothing.                              *)
<1>LinCall. ASSUME TruthInv, Lin, initialized,
             NEW c \in Call, NEW x, call' = [call EXCEPT ![c] = x],
             UNCHANGED <<initialized, root, sink, worker, db, client, mishaps>>,
             call[c].pc = "wait" /\ call[c].reply = "none" => x.pc = "wait" /\ x.reply = "none" /\ x.id = call[c].id,
             c \in holder' <=> x.pc \in InLock,
             \A d \in Call \ {c} : d \in holder' <=> d \in holder,
             \A d, e \in holder' : d = e,
             Told(x) <=> Told(call[c]),
             Told(x) => x.root = call[c].root /\ x.height = call[c].height,
             "giveup" \notin mishaps /\ x.pc \in Pending => ~x.lost,
             x.pc \in {"lock", "resolve"} => x.prev # NoRoot /\ Names(x.prev, x.height - 1)
      PROVE Lin'
  <2> USE <1>LinCall
  <2>0. Serial /\ Fresh /\ RootCurrent /\ RootsNamed /\ Placed /\ InStep
    BY Zenon DEF Lin
  <2>1. call'[c] = x /\ \A d \in Call : d # c => call'[d] = call[d]
    BY Zenon DEF TruthInv, ExecTyped
  <2>2. sink' = sink /\ worker' = worker /\ db' = db /\ root' = root /\ client' = client /\ initialized' = initialized
    BY Zenon
  <2>3. ASSUME NEW b, b.call \in Call, Waited(b)
        PROVE call'[b.call].pc = "wait" /\ call'[b.call].reply = "none" /\ call'[b.call].id = b.id
    BY ZenonT(60), <2>1, <2>3 DEF Waited
  <2>4. Serial'
    <3>1. \A d \in Call : d \in holder' <=> call'[d].pc \in InLock
      BY Zenon, <2>0, <2>1 DEF Serial
    <3>2. ASSUME NEW j \in 1..Len(sink) PROVE sink[j].call \in Call /\ Waited(sink[j])
      <4>1. sink[j] \in Executable
        BY SMTT(60) DEF TruthInv, ExecTyped
      <4> QED BY ZenonT(60), <2>0, <4>1 DEF Executable, Serial
    <3>3. worker.pc # "free" => worker.block.call \in Call /\ Waited(worker.block)
      BY Zenon, <2>0, WorkerKinds DEF Executable, Serial, TruthInv
    <3>4. \A b : b.call \in Call /\ Waited(b) =>
            call'[b.call].pc = "wait" /\ call'[b.call].reply = "none" /\ call'[b.call].id = b.id
      BY Zenon, <2>3
    <3>5. Len(sink) + (IF worker.pc = "free" THEN 0 ELSE 1) <= 1
      BY Zenon, <2>0 DEF Serial
    <3>6. ASSUME NEW j \in 1..Len(sink') PROVE Waited(sink[j])'
      <4>1. sink' = sink /\ j \in 1..Len(sink)
        BY Zenon, <2>2
      <4>2. sink[j].call \in Call /\ Waited(sink[j])
        BY Zenon, <3>2, <4>1
      <4>3. call'[sink[j].call].pc = "wait" /\ call'[sink[j].call].reply = "none" /\ call'[sink[j].call].id = sink[j].id
        BY Zenon, <3>4, <4>2
      <4> QED BY Zenon, <4>1, <4>3 DEF Waited
    <3>7. ASSUME worker'.pc # "free" PROVE Waited(worker.block)'
      <4>1. worker' = worker /\ worker.block.call \in Call /\ Waited(worker.block)
        BY Zenon, <2>2, <3>3, <3>7
      <4>2. LET b == worker.block IN call'[b.call].pc = "wait" /\ call'[b.call].reply = "none" /\ call'[b.call].id = b.id
        BY Zenon, <3>4, <4>1
      <4> QED BY Zenon, <4>1, <4>2 DEF Waited
    <3>8. Len(sink') + (IF worker'.pc = "free" THEN 0 ELSE 1) <= 1
      BY Zenon, <2>2, <3>5
    <3> QED BY ZenonT(60), <3>1, <3>6, <3>7, <3>8 DEF Serial
  <2>10. \A d \in Call :
           /\ Told(call'[d]) <=> Told(call[d])
           /\ Told(call'[d]) => call'[d].root = call[d].root /\ call'[d].height = call[d].height
    BY Zenon, <2>1
  <2>11. Applying' <=> Applying
    BY ONLY ZenonT(60), <2>2, <2>10 DEF Applying, Told
  <2>12. initialized'
    BY ONLY SMTT(60), <1>LinCall, <2>2
  <2>5. Fresh'
    BY ONLY Zenon, <2>12 DEF Fresh
  <2>6. RootCurrent'
    <3>3. \A n : RootAt(n)' = RootAt(n)
      BY Zenon, <2>2 DEF RootAt
    <3>4. \A d \in Call : Told(call'[d]) => call'[d].root = RootAt(Len(db)) /\ call'[d].height = Len(db)
      <4>1. \A d \in Call : Told(call[d]) => call[d].root = RootAt(Len(db)) /\ call[d].height = Len(db)
        BY ONLY Zenon, <2>0 DEF RootCurrent
      <4> QED BY ONLY ZenonT(60), <2>10, <4>1
    <3>5. /\ ~Applying' => root' = RootAt(Len(db))
          /\ Applying' => Len(db') > 0 /\ root' = RootAt(Len(db) - 1)
      BY ZenonT(60), <2>0, <2>2, <2>11 DEF RootCurrent
    <3> QED BY ZenonT(60), <2>2, <3>3, <3>4, <3>5 DEF RootCurrent, Told, RootAt
  <2>7. RootsNamed'
    <3>1. ASSUME NEW d \in Call, call'[d].pc \in {"lock", "resolve"}
          PROVE call'[d].prev # NoRoot /\ Names(call'[d].prev, call'[d].height - 1)
      BY Zenon, <2>0, <2>1, <3>1 DEF RootsNamed
    <3>2. client.root # NoRoot => Names(client.root, client.height)
      BY Zenon, <2>0 DEF RootsNamed
    <3> QED BY ONLY ZenonT(60), <2>2, <3>1, <3>2 DEF RootsNamed, Names, RootAt
  <2>8. Placed'
    BY ZenonT(60), <2>0, <2>2 DEF Placed, LinearHistory
  <2>9. InStep'
    <3>2. "giveup" \notin mishaps => \A d \in Call : call'[d].pc \in Pending => ~call'[d].lost
      BY ZenonT(60), <2>0, <2>1 DEF InStep
    <3> QED BY ZenonT(60), <2>0, <2>2, <2>11, <3>2 DEF InStep
  <2> QED BY ZenonT(60), <2>4, <2>5, <2>6, <2>7, <2>8, <2>9 DEF Lin

(* A request of the client arrives.                                        *)
<1>LinRequest. ASSUME TruthInv, Lin, Alive, NEW c \in Call, Request(c), mishaps' = mishaps
      PROVE Lin'
  <2> USE <1>LinRequest
  <2>0. Serial /\ Fresh /\ RootCurrent /\ RootsNamed /\ Placed /\ ExecTyped
    BY Zenon DEF Lin, TruthInv
  <2>1. client.root # NoRoot /\ \E txs : call' = [call EXCEPT ![c] =
              [pc |-> "lock", lost |-> FALSE, height |-> client.height + 1, prev |-> client.root, txs |-> txs]]
    BY Zenon DEF Request, Alive
  <2>2. PICK txs : call' = [call EXCEPT ![c] =
              [pc |-> "lock", lost |-> FALSE, height |-> client.height + 1, prev |-> client.root, txs |-> txs]]
    BY ZenonT(60), <2>1
  <2> DEFINE x == [pc |-> "lock", lost |-> FALSE, height |-> client.height + 1, prev |-> client.root, txs |-> txs]
  <2>3. x.pc = "lock" /\ ~x.lost /\ x.height = client.height + 1 /\ x.prev = client.root /\ call' = [call EXCEPT ![c] = x]
    BY ZenonT(60), <2>2
  <2>4. /\ UNCHANGED <<initialized, root, sink, worker, db, client, holder>>
        /\ initialized /\ call[c].pc = "free"
    BY Zenon DEF Request, service, commit
  <2> HIDE DEF x
  <2>6. ~Told(x) /\ ~Told(call[c]) /\ ~(x.pc \in InLock)
    BY Zenon, <2>3, <2>4 DEF Told, InLock
  <2>7. client.height \in Nat /\ (client.height + 1) - 1 = client.height
    BY SMTT(60), <2>0 DEF ExecTyped
  <2>8. x.prev # NoRoot /\ Names(x.prev, x.height - 1)
    BY ZenonT(60), <2>0, <2>1, <2>3, <2>7 DEF RootsNamed
  <2>9. ~(c \in holder) /\ \A d, e \in holder : d = e
    BY Zenon, <2>0, <2>4 DEF Serial, InLock
  <2> QED BY ZenonT(60), <2>3, <2>4, <2>6, <2>8, <2>9, <1>LinCall

(* A handler takes the execution lock.                                     *)
<1>LinLock. ASSUME TruthInv, Lin, NEW c \in Call, Lock(c), mishaps' = mishaps
      PROVE Lin'
  <2> USE <1>LinLock
  <2>0. Serial /\ Fresh /\ RootsNamed /\ InStep
    BY Zenon DEF Lin
  <2> DEFINE x == [call[c] EXCEPT !.pc = "resolve"]
  <2>1. call[c].pc = "lock" /\ call[c].pc \in Pending /\ call[c] \in Asked /\ holder = {} /\ holder' = {c}
    BY ZenonT(60), CallKinds DEF Lock, TruthInv, Pending
  <2>2. x.pc = "resolve" /\ x.lost = call[c].lost /\ x.prev = call[c].prev /\ x.height = call[c].height
    BY ZenonT(60), <2>1 DEF Asked
  <2>3. call' = [call EXCEPT ![c] = x] /\ UNCHANGED <<initialized, root, sink, worker, db, client>>
    BY Zenon DEF Lock, service, commit
  <2> HIDE DEF x
  <2>4. initialized
    BY ZenonT(60), <2>0, <2>1, <1>PendingStarted
  <2>5. ~Told(x) /\ ~Told(call[c]) /\ x.pc \in InLock
    BY ZenonT(60), <2>1, <2>2 DEF Told, InLock
  <2>6. x.prev # NoRoot /\ Names(x.prev, x.height - 1)
    BY ZenonT(60), <2>0, <2>1, <2>2 DEF RootsNamed
  <2>7. "giveup" \notin mishaps => ~x.lost
    BY ZenonT(60), <2>0, <2>1, <2>2 DEF InStep
  <2> QED BY ZenonT(60), <2>1, <2>2, <2>3, <2>4, <2>5, <2>6, <2>7, <1>LinCall

(* A handler answers and releases the lock.                                *)
<1>LinAnswer. ASSUME TruthInv, Lin, NEW c \in Call, Answer(c), call[c].pc \in Pending,
             ~(call[c].pc = "wait" /\ call[c].reply = "none"), ~Told(call[c]),
             UNCHANGED <<service, commit, client, mishaps>>
      PROVE Lin'
  <2> USE <1>LinAnswer
  <2>0. Serial /\ Fresh
    BY ZenonT(60) DEF Lin
  <2>1. /\ call' = [call EXCEPT ![c] = Free] /\ holder' = holder \ {c}
        /\ UNCHANGED <<initialized, root, sink, worker, db, client, mishaps>>
    BY ZenonT(60) DEF Answer, service, commit
  <2>2. initialized
    BY ZenonT(60), <2>0, <1>PendingStarted
  <2>3. ~Told(Free) /\ ~(Free.pc \in InLock) /\ ~(Free.pc \in Pending) /\ Free.pc = "free"
    BY ZenonT(60), FreeIsResting DEF Told, InLock, Pending
  <2>4. \A d, e \in holder : d = e
    BY ZenonT(60), <2>0 DEF Serial
  <2> QED BY ZenonT(60), <2>1, <2>2, <2>3, <2>4, <1>LinCall

(* A handler hears its verdict.                                            *)
<1>LinTold. ASSUME TruthInv, Lin, NEW c \in Call, Told(call[c]), NEW p \in {"height", "root"},
             call' = [call EXCEPT ![c].pc = p],
             UNCHANGED <<initialized, root, sink, worker, db, client, holder, mishaps>>
      PROVE Lin'
  <2> USE <1>LinTold
  <2>0. Serial /\ Fresh /\ InStep
    BY ZenonT(60) DEF Lin
  <2> DEFINE x == [call[c] EXCEPT !.pc = p]
  <2>1. call[c].pc \in {"wait", "height", "root"} /\ call[c] \in Executed
    BY ZenonT(60), CallKinds DEF Told, TruthInv
  <2>2. x.pc = p /\ x.lost = call[c].lost /\ x.root = call[c].root /\ x.height = call[c].height
    BY ZenonT(60), <2>1 DEF Executed
  <2>3. call' = [call EXCEPT ![c] = x]
    BY ZenonT(60)
  <2> HIDE DEF x
  <2>4. call[c].pc \in Pending /\ initialized
    BY ZenonT(60), <2>0, <2>1, <1>PendingStarted DEF Pending
  <2>5. Told(x) /\ x.pc \in InLock /\ ~(call[c].pc = "wait" /\ call[c].reply = "none")
    BY ZenonT(60), <2>2 DEF Told, InLock
  <2>6. c \in holder /\ \A d, e \in holder : d = e
    BY Zenon, <2>0, <2>1 DEF Serial, InLock
  <2>7. "giveup" \notin mishaps => ~x.lost
    BY ZenonT(60), <2>0, <2>2, <2>4 DEF InStep
  <2> QED BY ZenonT(60), <2>2, <2>3, <2>4, <2>5, <2>6, <2>7, <1>LinCall

(* A step that touches neither handlers nor pipeline.                      *)
<1>LinElsewhere. ASSUME Lin, UNCHANGED <<initialized, root, call, sink, worker, db, client, holder, mishaps>>,
             initialized \/ finalized' = finalized
      PROVE Lin'
  <2> USE <1>LinElsewhere
  <2>0. Serial /\ Fresh /\ RootCurrent /\ RootsNamed /\ Placed /\ InStep
    BY ZenonT(60) DEF Lin
  <2>1. Serial'
    BY ZenonT(60), <2>0 DEF Serial, Waited
  <2>2. Fresh'
    BY Zenon, <2>0 DEF Fresh
  <2>3. RootCurrent'
    BY ZenonT(60), <2>0 DEF RootCurrent, Applying, Told, RootAt
  <2>4. RootsNamed'
    BY ZenonT(60), <2>0 DEF RootsNamed, Names, RootAt
  <2>5. Placed'
    BY ZenonT(60), <2>0 DEF Placed, LinearHistory
  <2>6. InStep'
    BY ZenonT(60), <2>0 DEF InStep, Applying, Told
  <2> QED BY ZenonT(60), <2>1, <2>2, <2>3, <2>4, <2>5, <2>6 DEF Lin

(* A step of init_chain.                                                   *)
<1>LinGenesis. ASSUME TruthInv, Lin, NothingYet, NEW c \in Call, NEW x, Rests(x),
             call' = [call EXCEPT ![c] = x],
             UNCHANGED <<holder, sink, worker, db>>, Opening'
      PROVE Lin'
  <2> USE <1>LinGenesis
  <2>0. Serial
    BY ZenonT(60) DEF Lin
  <2>1. call'[c] = x /\ \A d \in Call : d # c => call'[d] = call[d]
    BY ZenonT(60) DEF TruthInv, ExecTyped
  <2>2. \A d \in Call : call'[d].pc \in {"free", "genesis"}
    BY ZenonT(60), <2>1 DEF NothingYet, Rests
  <2>3. \A d \in Call : ~Told(call'[d]) /\ ~(call'[d].pc \in InLock) /\ ~(call'[d].pc \in Pending)
    BY ZenonT(60), <2>2 DEF Told, InLock, Pending
  <2>4. \A d \in Call : ~(d \in holder)
    BY ZenonT(60), <2>0 DEF Serial, NothingYet, Rests, InLock
  <2>5. /\ Len(sink) = 0 /\ Len(db) = 0 /\ DOMAIN db = {} /\ worker.pc = "free" /\ db = << >> /\ sink = << >>
        /\ client'.height = 0 /\ 0 \in 0..0 /\ 0 + 0 = 0
    BY SMTT(60) DEF NothingYet, Opening
  <2>6. Serial'
    BY SMTT(60), <2>0, <2>3, <2>4, <2>5 DEF Serial
  <2>7. Fresh'
    BY Zenon, <2>2, <2>5 DEF Fresh, Opening
  <2>8. ~Applying'
    BY Zenon, <2>3, <2>5 DEF Applying, Told
  <2>9. RootCurrent'
    <3>1. initialized' => root' = RootAt(Len(db))'
      BY ZenonT(60), <2>5 DEF RootAt, Opening
    <3> QED BY Zenon, <2>3, <2>8, <3>1 DEF RootCurrent, Told
  <2>10. RootsNamed'
    <3>1. client'.root # NoRoot => Names(client.root, client.height)'
      BY ZenonT(60), <2>5 DEF Names, RootAt, Opening
    <3> QED BY ZenonT(60), <2>3, <3>1 DEF RootsNamed, Pending
  <2>11. Placed'
    BY SMTT(60), <2>5 DEF Placed, LinearHistory
  <2>12. InStep'
    BY ZenonT(60), <2>3, <2>5, <2>8 DEF InStep
  <2> QED BY ZenonT(60), <2>6, <2>7, <2>9, <2>10, <2>11, <2>12 DEF Lin

(* Until an init_chain has stored there is nothing but init_chain.         *)
<1>Unopened. ASSUME Lin, ~initialized
      PROVE NothingYet /\ Opening
  BY ZenonT(60), <1>Unopened DEF Lin, Fresh, NothingYet, Opening, Rests

(* init_chain begins.                                                      *)
<1>LinInitChain. ASSUME TruthInv, Lin, NEW c \in Call, InitChain(c)
      PROVE Lin'
  <2> USE <1>LinInitChain
  <2>1. NothingYet /\ Opening
    BY ZenonT(60), <1>Unopened DEF InitChain
  <2> DEFINE x == [pc |-> "genesis", lost |-> FALSE]
  <2>2. x.pc = "genesis" /\ call' = [call EXCEPT ![c] = x] /\ UNCHANGED <<holder, sink, worker, db, client, service>>
    BY ZenonT(60) DEF InitChain, commit
  <2> HIDE DEF x
  <2>3. Opening'
    BY ZenonT(60), <2>1, <2>2 DEF Opening, service
  <2>4. Rests(x) /\ UNCHANGED <<holder, sink, worker, db>>
    BY ZenonT(60), <2>2 DEF Rests
  <2> QED BY ZenonT(60), <2>1, <2>2, <2>3, <2>4, <1>LinGenesis

(* The first init_chain stores the genesis state.                          *)
<1>LinInitChainStores. ASSUME TruthInv, Lin, ~initialized, NEW c \in Call, InitChainStores(c)
      PROVE Lin'
  <2> USE <1>LinInitChainStores
  <2>1. NothingYet /\ Opening
    BY ZenonT(60), <1>Unopened
  <2>2. /\ call' = [call EXCEPT ![c] = Free] /\ UNCHANGED <<holder, sink, worker, db>> /\ root' = GenesisRoot
        /\ client' \in {client, [height |-> 0, root |-> GenesisRoot]} /\ initialized'
    BY ZenonT(60) DEF InitChainStores, commit
  <2>3. Opening'
    <3>1. client'.height = 0 /\ client'.root \in {NoRoot, GenesisRoot}
      <4>1. client' = client \/ client' = [height |-> 0, root |-> GenesisRoot]
        BY Zenon, <2>2
      <4>2. CASE client' = client
        BY Zenon, <2>1, <4>2 DEF Opening
      <4>3. CASE client' = [height |-> 0, root |-> GenesisRoot]
        BY Zenon, <4>3
      <4> QED BY Zenon, <4>1, <4>2, <4>3
    <3> QED BY ONLY ZenonT(60), <2>2, <3>1 DEF Opening
  <2>4. Rests(Free)
    BY ZenonT(60), FreeIsResting DEF Rests
  <2> QED BY ZenonT(60), <2>1, <2>2, <2>3, <2>4, <1>LinGenesis

(* A client gives up on its call, which goes on.                           *)
<1>LinGiveUp. ASSUME TruthInv, Lin, NEW c \in Call, GiveUp(c), mishaps' = mishaps
      PROVE Lin'
  <2> USE <1>LinGiveUp
  <2>0. Serial /\ Fresh /\ RootsNamed
    BY ZenonT(60) DEF Lin
  <2> DEFINE x == [call[c] EXCEPT !.lost = TRUE]
  <2>1. /\ "giveup" \in mishaps /\ call[c].pc # "free" /\ call' = [call EXCEPT ![c] = x]
        /\ UNCHANGED <<initialized, root, sink, worker, db, client, holder, finalized, mishaps>>
    BY ZenonT(60) DEF GiveUp, service, commit
  <2>2. call[c] \in Resting \cup Asked \cup Executed
    BY ZenonT(60) DEF TruthInv, ExecTyped
  <2>3. /\ x.pc = call[c].pc
        /\ call[c].pc \in {"lock", "resolve"} => x.prev = call[c].prev /\ x.height = call[c].height
        /\ call[c].pc \in {"wait", "height", "root"} =>
             x.reply = call[c].reply /\ x.id = call[c].id /\ x.root = call[c].root /\ x.height = call[c].height
    <3>1. CASE call[c] \in Asked
      BY ZenonT(60), <3>1 DEF Asked
    <3>2. CASE call[c] \in Executed
      BY ZenonT(60), <3>2 DEF Executed
    <3>3. CASE call[c] \in [pc : {"genesis"}, lost : BOOLEAN]
      BY ZenonT(60), <3>3
    <3>4. call[c] # Free
      BY Zenon, <2>1, FreeIsResting
    <3> QED BY ZenonT(60), <2>2, <3>1, <3>2, <3>3, <3>4 DEF Resting
  <2> HIDE DEF x
  <2>4. CASE initialized
    <3>1. (Told(x) <=> Told(call[c])) /\ (Told(x) => x.root = call[c].root /\ x.height = call[c].height)
      BY ZenonT(60), <2>3 DEF Told
    <3>2. (c \in holder <=> x.pc \in InLock) /\ \A d, e \in holder : d = e
      BY ZenonT(60), <2>0, <2>3 DEF Serial
    <3>3. x.pc \in {"lock", "resolve"} => x.prev # NoRoot /\ Names(x.prev, x.height - 1)
      BY ZenonT(60), <2>0, <2>3 DEF RootsNamed
    <3>4. call[c].pc = "wait" /\ call[c].reply = "none" => x.pc = "wait" /\ x.reply = "none" /\ x.id = call[c].id
      BY ZenonT(60), <2>3
    <3> QED BY ZenonT(60), <2>1, <2>4, <3>1, <3>2, <3>3, <3>4, <1>LinCall
  <2>5. CASE ~initialized
    <3>1. NothingYet /\ Opening
      BY ZenonT(60), <2>5, <1>Unopened
    <3>2. Rests(x)
      BY ZenonT(60), <2>3, <3>1 DEF NothingYet, Rests
    <3>3. Opening'
      BY ZenonT(60), <2>1, <3>1 DEF Opening
    <3> QED BY ZenonT(60), <2>1, <3>1, <3>2, <3>3, <1>LinGenesis
  <2> QED BY ZenonT(60), <2>4, <2>5

(* Execution: the lock and the root place the block after the last one.    *)
<1>LinExecute. ASSUME TruthInv, Lin, Alive, RootsUnique, NEW c \in Call, Execute(c), mishaps' = mishaps
      PROVE Lin'
  <2> USE <1>LinExecute
  <2>0. Serial /\ Fresh /\ RootCurrent /\ RootsNamed /\ Placed /\ InStep /\ ExecTyped
    BY ZenonT(60) DEF Lin, TruthInv
  <2>15. PICK new :
           sink' = Append(sink, [id |-> executions + 1, height |-> call[c].height, base |-> Len(db),
                                 ran |-> Ran(call[c].txs), root |-> new, call |-> c])
    BY ZenonT(60) DEF Execute
  <2> DEFINE b == [id |-> executions + 1, height |-> call[c].height, base |-> Len(db),
                   ran |-> Ran(call[c].txs), root |-> new, call |-> c]
             x == [pc |-> "wait", lost |-> call[c].lost, height |-> call[c].height, txs |-> call[c].txs,
                   id |-> executions + 1, reply |-> "none", root |-> NoRoot]
  <2>1. /\ call[c].pc = "resolve" /\ PrevOk(call[c].prev)
        /\ sink' = Append(sink, b) /\ call' = [call EXCEPT ![c] = x]
        /\ UNCHANGED <<initialized, root, holder, worker, db, client>>
    BY ZenonT(60), <2>15 DEF Execute, service
  <2>2. /\ b.id = executions + 1 /\ b.height = call[c].height /\ b.base = Len(db) /\ b.call = c
        /\ x.pc = "wait" /\ x.reply = "none" /\ x.id = executions + 1 /\ x.lost = call[c].lost
    BY ZenonT(60)
  <2> HIDE DEF b, x
  <2>3. c \in holder /\ \A d \in holder : d = c
    BY ZenonT(60), <2>0, <2>1 DEF Serial, InLock
  <2>4. sink = << >> /\ Len(sink) = 0 /\ worker.pc = "free"
    BY Zenon, <2>0, <2>1, <2>3, NothingOnItsWay
  <2>5. \A d \in Call : ~Told(call[d])
    <3>1. ~Told(call[c])
      BY ZenonT(60), <2>1 DEF Told
    <3> QED BY Zenon, <2>0, <2>3, <3>1, NobodyTold
  <2>16. initialized /\ call[c].pc \in Pending
    BY ZenonT(60), <2>0, <2>1, <1>PendingStarted DEF Pending
  <2>6. ~Applying /\ root = RootAt(Len(db))
    BY ZenonT(60), <2>0, <2>4, <2>5, <2>16 DEF Applying, RootCurrent
  <2>7. call[c].height \in Nat /\ Len(db) \in Nat /\ call[c].height = Len(db) + 1
    <3>1. call[c].height \in Nat /\ Len(db) \in Nat
      <4>1. call[c].height \in Nat
        BY ZenonT(60), <2>0, <2>1, CallKinds, AskedFields
      <4>2. Len(db) \in Nat
        BY SMTT(60), <2>0 DEF ExecTyped
      <4> QED BY Zenon, <4>1, <4>2
    <3>2. CASE "empty" \notin mishaps
      <4> DEFINE h == call[c].height - 1
      <4>1. h \in 0..Len(db) /\ call[c].prev = RootAt(h) /\ call[c].prev = root
        BY ZenonT(60), <2>0, <2>1 DEF RootsNamed, Names, PrevOk
      <4> HIDE DEF h
      <4>2. RootAt(h) = RootAt(Len(db))
        BY ZenonT(60), <2>6, <4>1
      <4>3. h = Len(db)
        BY ZenonT(60), <3>2, <4>1, <4>2, <1>RootsDiffer
      <4>4. call[c].height - 1 = Len(db)
        BY Zenon, <4>3 DEF h
      <4> QED BY ONLY SMTT(60), <3>1, <4>4
    <3>3. CASE "empty" \in mishaps
      <4>1. "giveup" \notin mishaps
        BY ZenonT(60), <3>3 DEF Alive, RepeatsEmptyBlocks
      <4>2. ~call[c].lost /\ client.height + 0 = Len(db)
        BY ZenonT(60), <2>0, <2>6, <2>16, <4>1 DEF InStep
      <4>3. call[c].height = client.height + 1 /\ client.height \in Nat
        BY ZenonT(60), <2>16, <4>2 DEF TruthInv, OneAwaited, Awaited, ExecTyped
      <4> QED BY ONLY SMTT(60), <3>1, <4>2, <4>3
    <3> QED BY Zenon, <3>1, <3>2, <3>3
  <2>8. Len(sink') = 1 /\ sink'[1] = b
    BY SMTT(60), <2>1, <2>4
  <2>9. call'[c] = x /\ \A d \in Call : d # c => call'[d] = call[d]
    BY ZenonT(60), <2>0, <2>1 DEF ExecTyped
  <2>10. Serial'
    <3>1. \A d \in Call : d \in holder' <=> call'[d].pc \in InLock
      BY SMTT(60), <2>0, <2>1, <2>2, <2>3, <2>9 DEF Serial, InLock
    <3>2. \A j \in 1..Len(sink') : j = 1
      BY SMTT(60), <2>8
    <3>4. \A j \in 1..Len(sink') : Waited(sink[j])'
      BY ZenonT(60), <2>2, <2>8, <2>9, <3>2 DEF Waited
    <3>5. worker'.pc = "free" /\ \A d, e \in holder' : d = e
      BY Zenon, <2>1, <2>3, <2>4
    <3> QED BY SMTT(60), <2>8, <3>1, <3>4, <3>5 DEF Serial
  <2>11. Fresh'
    BY Zenon, <2>1, <2>16 DEF Fresh
  <2>12. RootCurrent'
    <3>1. \A d \in Call : ~Told(call'[d])
      BY ZenonT(60), <2>2, <2>5, <2>9 DEF Told
    <3>2. ~Applying'
      BY ZenonT(60), <2>1, <2>4, <3>1 DEF Applying, Told
    <3>3. root' = RootAt(Len(db))'
      BY ZenonT(60), <2>1, <2>6 DEF RootAt
    <3> QED BY ZenonT(60), <3>1, <3>2, <3>3 DEF RootCurrent, Told
  <2>13. RootsNamed'
    <3>1. \A d \in Call : call'[d].pc \in {"lock", "resolve"} => call'[d] = call[d]
      BY ZenonT(60), <2>2, <2>9
    <3>2. db' = db /\ client' = client
      BY Zenon, <2>1
    <3>3. client'.root # NoRoot => Names(client'.root, client'.height)
      BY Zenon, <2>0, <3>2 DEF RootsNamed
    <3> QED BY ZenonT(60), <2>0, <3>1, <3>2, <3>3, <1>RootsNamedKept
  <2>14. Placed'
    <3>1. \A j \in 1..Len(sink') : sink'[j] = b
      BY SMTT(60), <2>8
    <3>2. db' = db /\ worker' = worker
      BY Zenon, <2>1
    <3> QED BY ZenonT(60), <2>0, <2>2, <2>4, <2>7, <3>1, <3>2 DEF Placed, LinearHistory
  <2>17. InStep'
    <3>1. ~Applying'
      BY ZenonT(60), <2>1, <2>2, <2>4, <2>5, <2>9 DEF Applying, Told
    <3>2. "giveup" \notin mishaps => \A d \in Call : call'[d].pc \in Pending => ~call'[d].lost
      BY ZenonT(60), <2>0, <2>2, <2>9, <2>16 DEF InStep
    <3> QED BY ZenonT(60), <2>0, <2>1, <2>6, <3>1, <3>2 DEF InStep
  <2> QED BY ZenonT(60), <2>10, <2>11, <2>12, <2>13, <2>14, <2>17 DEF Lin

(* The handler stores the state root and answers.                          *)
<1>LinStoreRoot. ASSUME TruthInv, Lin, NEW c \in Call, StoreRoot(c), mishaps' = mishaps
      PROVE Lin'
  <2> USE <1>LinStoreRoot
  <2>0. Serial /\ Fresh /\ RootCurrent /\ RootsNamed /\ Placed /\ InStep /\ ExecTyped
    BY ZenonT(60) DEF Lin, TruthInv
  <2>1. /\ call[c].pc = "root" /\ Told(call[c])
        /\ call' = [call EXCEPT ![c] = Free] /\ holder' = holder \ {c} /\ root' = call[c].root
        /\ client' = IF call[c].lost THEN client ELSE [height |-> call[c].height, root |-> call[c].root]
        /\ UNCHANGED <<initialized, sink, worker, db>>
    BY ZenonT(60) DEF StoreRoot, Answer, commit, Told
  <2>2. c \in holder /\ \A d \in holder : d = c
    BY ZenonT(60), <2>0, <2>1 DEF Serial, InLock
  <2>3. sink = << >> /\ Len(sink) = 0 /\ worker.pc = "free"
    BY Zenon, <2>0, <2>1, <2>2, NothingOnItsWay
  <2>4. call'[c] = Free /\ \A d \in Call : d # c => call'[d] = call[d]
    BY Zenon, <2>0, <2>1 DEF ExecTyped
  <2>5. Free.pc = "free" /\ ~Told(Free) /\ ~(Free.pc \in InLock) /\ ~(Free.pc \in Pending)
    BY ZenonT(60), FreeIsResting DEF Told, InLock, Pending
  <2>6. \A d \in Call : ~Told(call'[d])
    <3>1. ASSUME NEW d \in Call, d # c, Told(call[d]) PROVE FALSE
      <4>1. call[d].pc \in InLock
        BY ZenonT(60), <3>1 DEF Told, InLock
      <4> QED BY ZenonT(60), <2>0, <2>2, <3>1, <4>1 DEF Serial
    <3> QED BY Zenon, <2>4, <2>5, <3>1
  <2>7. Serial'
    <3>1. \A d \in Call : d \in holder' <=> call'[d].pc \in InLock
      BY Zenon, <2>0, <2>1, <2>4, <2>5 DEF Serial
    <3>2. \A d, e \in holder' : d = e
      BY Zenon, <2>1, <2>2
    <3>3. Len(sink') = 0 /\ worker'.pc = "free"
      BY Zenon, <2>1, <2>3
    <3> QED BY SMTT(60), <3>1, <3>2, <3>3 DEF Serial
  <2>8. Fresh'
    <3>1. initialized
      BY Zenon, <2>0, <2>1, <1>PendingStarted DEF Pending
    <3> QED BY Zenon, <2>1, <3>1 DEF Fresh
  <2>9. RootCurrent'
    <3>1. ~Applying'
      BY Zenon, <2>1, <2>3, <2>6 DEF Applying, Told
    <3>2. root' = RootAt(Len(db))'
      BY Zenon, <2>0, <2>1 DEF RootCurrent, RootAt
    <3>3. \A d \in Call : ~Told(call[d])'
      BY Zenon, <2>6 DEF Told
    <3> QED BY Zenon, <3>1, <3>2, <3>3 DEF RootCurrent
  <2>10. RootsNamed'
    <3>1. \A d \in Call : call'[d].pc \in {"lock", "resolve"} => call'[d] = call[d]
      BY ZenonT(60), <2>4, <2>5
    <3>2. client'.root # NoRoot => Names(client'.root, client'.height)
      <4>1. CASE call[c].lost
        <5>1. client' = client
          BY ZenonT(60), <2>1, <4>1
        <5>2. client.root # NoRoot => Names(client.root, client.height)
          BY Zenon, <2>0 DEF RootsNamed
        <5> QED BY ZenonT(60), <5>1, <5>2
      <4>2. CASE ~call[c].lost
        <5>1. client'.root = call[c].root /\ client'.height = call[c].height
          BY ZenonT(60), <2>1, <4>2
        <5>2. call[c].root = RootAt(Len(db)) /\ call[c].height = Len(db) /\ Len(db) \in 0..Len(db)
          <6>1. Len(db) \in 0..Len(db)
            BY SMTT(60), <2>0 DEF ExecTyped
          <6> QED BY Zenon, <2>0, <2>1, <6>1 DEF RootCurrent
        <5> QED BY ZenonT(60), <5>1, <5>2 DEF Names
      <4> QED BY Zenon, <4>1, <4>2
    <3>3. db' = db
      BY Zenon, <2>1
    <3> QED BY ZenonT(60), <2>0, <3>1, <3>2, <3>3, <1>RootsNamedKept
  <2>11. Placed'
    BY Zenon, <2>0, <2>1 DEF Placed, LinearHistory
  <2>12. InStep'
    <3> SUFFICES ASSUME "giveup" \notin mishaps
                 PROVE  /\ \A d \in Call : call'[d].pc \in Pending => ~call'[d].lost
                        /\ client'.height + 0 = Len(db)
      <4>1. ~Applying' /\ db' = db /\ mishaps' = mishaps
        BY Zenon, <2>1, <2>3, <2>6 DEF Applying, Told
      <4> QED BY ZenonT(60), <4>1 DEF InStep
    <3>1. \A d \in Call : call[d].pc \in Pending => ~call[d].lost
      BY Zenon, <2>0 DEF InStep
    <3>2. ~call[c].lost /\ call[c].height = Len(db)
      BY ZenonT(60), <2>0, <2>1, <3>1 DEF Pending, RootCurrent
    <3>3. client'.height = Len(db) /\ Len(db) \in Nat
      <4>1. Len(db) \in Nat
        BY SMTT(60), <2>0 DEF ExecTyped
      <4> QED BY ZenonT(60), <2>1, <3>2, <4>1
    <3>4. client'.height + 0 = Len(db)
      BY SMTT(60), <3>3
    <3> QED BY ZenonT(60), <2>4, <2>5, <3>1, <3>4
  <2> QED BY ZenonT(60), <2>7, <2>8, <2>9, <2>10, <2>11, <2>12 DEF Lin

(* The sink.                                                               *)
<1>LinSinkTake. ASSUME TruthInv, Lin, SinkTake, mishaps' = mishaps
      PROVE Lin'
  <2> USE <1>LinSinkTake
  <2>0. Serial /\ Fresh /\ RootCurrent /\ RootsNamed /\ Placed /\ InStep /\ ExecTyped
    BY Zenon DEF Lin, TruthInv
  <2>1. /\ worker = Free /\ sink # << >> /\ worker' = [pc |-> "batch", block |-> Head(sink)] /\ sink' = Tail(sink)
        /\ UNCHANGED <<initialized, root, holder, call, db, client>>
    BY ZenonT(60) DEF SinkTake, service
  <2>2. sink \in Seq(Executable) /\ Len(sink) \in Nat /\ worker.pc = "free" /\ Len(sink) <= 1
    BY SMTT(60), <2>0, <2>1, FreeIsResting DEF ExecTyped, Serial
  <2>3. Len(sink) = 1 /\ Head(sink) = sink[1] /\ Len(sink') = 0 /\ 1 \in 1..Len(sink)
    <3>1. Len(sink) = 1
      <4>1. sink \in Seq(Executable) /\ sink # << >>
        BY Zenon, <2>1, <2>2
      <4>2. Len(sink) # 0
        BY SMTT(60), <4>1
      <4>3. Len(sink) \in Nat /\ Len(sink) <= 1
        BY <2>2, Zenon
      <4>4. \A n \in Nat : n <= 1 /\ n # 0 => n = 1
        BY SMTT(60)
      <4> QED BY <4>2, <4>3, <4>4, ZenonT(60)
    <3>2. Len(Tail(sink)) = 0 /\ Head(sink) = sink[1]
      BY SMTT(60), <2>1, <2>2, <3>1
    <3> QED BY SMTT(60), <2>1, <3>1, <3>2
  <2>4. worker'.pc = "batch" /\ worker'.block = sink[1]
    BY Zenon, <2>1, <2>3
  <2>10. \A j \in 1..Len(sink') : FALSE
    BY SMTT(60), <2>3
  <2>5. Serial'
    <3>1. Waited(sink[1])
      BY ZenonT(60), <2>0, <2>3 DEF Serial
    <3>2. Waited(worker.block)'
      BY ZenonT(60), <2>1, <2>4, <3>1 DEF Waited
    <3>3. Len(sink') + (IF worker'.pc = "free" THEN 0 ELSE 1) <= 1
      BY SMTT(60), <2>3, <2>4
    <3> QED BY ZenonT(60), <2>0, <2>1, <2>10, <3>2, <3>3 DEF Serial
  <2>6. Fresh'
    <3>1. initialized
      BY Zenon, <2>0, <2>1, <1>PipelineStarted
    <3> QED BY Zenon, <2>1, <3>1 DEF Fresh
  <2>7. RootCurrent'
    <3>1. Applying' <=> Applying
      BY Zenon, <2>1, <2>2, <2>4 DEF Applying, Told
    <3> QED BY Zenon, <2>0, <2>1, <3>1 DEF RootCurrent, Told, RootAt
  <2>8. RootsNamed'
    BY Zenon, <2>0, <2>1 DEF RootsNamed, Names, RootAt
  <2>9. Placed'
    <3>1. sink[1].height = Len(db) + 1 /\ sink[1].base = Len(db) /\ LinearHistory
      BY Zenon, <2>0, <2>3 DEF Placed
    <3> QED BY ZenonT(60), <2>1, <2>4, <2>10, <3>1 DEF Placed, LinearHistory
  <2>11. InStep'
    <3>1. Applying' <=> Applying
      BY Zenon, <2>1, <2>2, <2>4 DEF Applying, Told
    <3> QED BY ZenonT(60), <2>0, <2>1, <3>1 DEF InStep
  <2> QED BY ZenonT(60), <2>5, <2>6, <2>7, <2>8, <2>9, <2>11 DEF Lin

(* The block the worker is at is that of the one that holds the lock.      *)
<1>WorkerAlone. ASSUME TruthInv, Serial, worker.pc # "free"
      PROVE /\ sink = << >> /\ Len(sink) = 0
            /\ worker.block.call \in holder /\ worker.block.call \in Call /\ Waited(worker.block)
            /\ \A d \in Call : ~Told(call[d])
  <2> USE <1>WorkerAlone
  <2>1. worker.block.call \in holder /\ Waited(worker.block)
    BY ZenonT(60), BlockHeld
  <2>2. sink = << >> /\ Len(sink) = 0
    BY SMTT(60) DEF Serial, TruthInv, ExecTyped
  <2>3. ~Told(call[worker.block.call])
    BY Zenon, <2>1 DEF Waited, Told
  <2>4. \A d \in holder : d = worker.block.call
    BY Zenon, <2>1 DEF Serial
  <2>5. worker.block.call \in Call
    BY Zenon, WorkerKinds DEF TruthInv, Executable
  <2> QED BY ZenonT(60), <2>1, <2>2, <2>3, <2>4, <2>5, NobodyTold

(* The batch of the sink worker succeeds.                                  *)
<1>LinSinkBatch. ASSUME TruthInv, Lin, SinkBatch, mishaps' = mishaps
      PROVE Lin'
  <2> USE <1>LinSinkBatch
  <2>0. Serial /\ Fresh /\ RootCurrent /\ RootsNamed /\ Placed /\ InStep /\ ExecTyped
    BY ZenonT(60) DEF Lin, TruthInv
  <2> DEFINE b == WithRoot(worker.block)
  <2>1. /\ worker.pc = "batch" /\ db' = Append(db, b) /\ worker' = [pc |-> "commit", block |-> b]
        /\ UNCHANGED <<initialized, root, holder, call, sink, client>>
    BY ZenonT(60) DEF SinkBatch, service
  <2>2. /\ b \in Executable /\ b.id = worker.block.id /\ b.height = worker.block.height /\ b.base = worker.block.base
        /\ b.call = worker.block.call
    BY ZenonT(60), <2>0, <2>1, WorkerKinds, WithRootIs
  <2> HIDE DEF b
  <2>3. worker'.pc = "commit" /\ worker'.block = b
    BY ZenonT(60), <2>1
  <2>4. /\ Len(db) \in Nat /\ Len(db') = Len(db) + 1 /\ DOMAIN db = 1..Len(db) /\ DOMAIN db' = 1..Len(db) + 1
        /\ db'[Len(db) + 1] = b /\ \A i \in 1..Len(db) : db'[i] = db[i]
    BY SMTT(60), <2>0, <2>1, <2>2 DEF ExecTyped
  <2>5. /\ sink = << >> /\ Len(sink) = 0 /\ Waited(worker.block)
        /\ \A d \in Call : ~Told(call[d])
    BY ZenonT(60), <2>0, <2>1, <1>WorkerAlone
  <2>6. \A h \in 0..Len(db) : RootAt(h)' = RootAt(h)
    BY SMTT(60), <2>4 DEF RootAt
  <2>7. root = RootAt(Len(db)) /\ ~Applying
    <3>1. initialized
      BY Zenon, <2>0, <2>1, <1>PipelineStarted
    <3> QED BY ZenonT(60), <2>0, <2>1, <2>5, <3>1 DEF RootCurrent, Applying
  <2>8. Serial'
    <3>1. Waited(worker.block)'
      BY ZenonT(60), <2>1, <2>2, <2>3, <2>5 DEF Waited
    <3>2. Len(sink') + 1 <= 1 /\ \A k \in 1..Len(sink') : FALSE
      BY SMTT(60), <2>1, <2>5
    <3> QED BY ZenonT(60), <2>0, <2>1, <2>3, <3>1, <3>2 DEF Serial
  <2>9. Fresh'
    <3>1. initialized
      BY Zenon, <2>0, <2>1, <1>PipelineStarted
    <3> QED BY Zenon, <2>1, <3>1 DEF Fresh
  <2>10. RootCurrent'
    <3>1. Applying'
      BY ZenonT(60), <2>3 DEF Applying
    <3>2. Len(db') > 0 /\ Len(db') - 1 = Len(db) /\ Len(db) \in 0..Len(db)
      BY SMTT(60), <2>4
    <3>3. root' = RootAt(Len(db) - 1)'
      <4>1. root' = IF Len(db) = 0 THEN GenesisRoot ELSE db[Len(db)].root
        BY ZenonT(60), <2>1, <2>7 DEF RootAt
      <4>2. Len(db) # 0 => db'[Len(db)] = db[Len(db)]
        BY SMTT(60), <2>4
      <4> QED BY ZenonT(60), <3>2, <4>1, <4>2 DEF RootAt
    <3>4. \A d \in Call : ~Told(call'[d])
      BY ZenonT(60), <2>1, <2>5
    <3> QED BY ZenonT(60), <3>1, <3>2, <3>3, <3>4 DEF RootCurrent, Told
  <2>11. RootsNamed'
    <3>1. ASSUME NEW r, NEW h, Names(r, h) PROVE h \in 0..Len(db') /\ r = (IF h = 0 THEN GenesisRoot ELSE db'[h].root)
      <4>1. h \in 0..Len(db) /\ r = IF h = 0 THEN GenesisRoot ELSE db[h].root
        BY ZenonT(60), <3>1 DEF Names, RootAt
      <4>2. h # 0 => db'[h] = db[h]
        BY SMTT(60), <2>4, <4>1
      <4> QED BY SMTT(60), <2>4, <4>1, <4>2
    <3>2. client' = client /\ call' = call
      BY ZenonT(60), <2>1
    <3>3. client.root # NoRoot => Names(client.root, client.height)
      BY ZenonT(60), <2>0 DEF RootsNamed
    <3>4. \A c \in Call : call[c].pc \in {"lock", "resolve"} =>
            call[c].prev # NoRoot /\ Names(call[c].prev, call[c].height - 1)
      BY Zenon, <2>0 DEF RootsNamed
    <3>5. client'.root # NoRoot => Names(client.root, client.height)'
      BY ZenonT(60), <3>1, <3>2, <3>3 DEF Names, RootAt
    <3>6. \A c \in Call : call'[c].pc \in {"lock", "resolve"} =>
            call'[c].prev # NoRoot /\ Names(call[c].prev, call[c].height - 1)'
      BY ZenonT(60), <3>1, <3>2, <3>4 DEF Names, RootAt
    <3> QED BY ZenonT(60), <3>5, <3>6 DEF RootsNamed
  <2>12. Placed'
    <3>1. worker.block.height = Len(db) + 1 /\ worker.block.base = Len(db)
      BY Zenon, <2>0, <2>1 DEF Placed
    <3>2. ASSUME NEW i \in 1..Len(db) + 1 PROVE db'[i].height = i /\ db'[i].base = i - 1
      <4>1. CASE i = Len(db) + 1
        BY SMTT(60), <2>2, <2>4, <3>1, <4>1
      <4>2. CASE i # Len(db) + 1
        <5>1. i \in 1..Len(db)
          BY SMTT(60), <2>4, <4>2
        <5> QED BY ZenonT(60), <2>0, <2>4, <5>1 DEF Placed, LinearHistory
      <4> QED BY ZenonT(60), <4>1, <4>2
    <3>3. Len(sink') = 0 /\ \A j \in 1..Len(sink') : FALSE
      BY SMTT(60), <2>1, <2>5
    <3> QED BY ZenonT(60), <2>3, <2>4, <3>2, <3>3 DEF Placed, LinearHistory
  <2>13. InStep'
    <3>1. Applying' /\ client' = client /\ call' = call /\ client.height \in Nat
      BY ZenonT(60), <2>0, <2>1, <2>3 DEF Applying, ExecTyped
    <3>2. "giveup" \notin mishaps => client.height + 0 = Len(db) /\ \A d \in Call : call[d].pc \in Pending => ~call[d].lost
      BY ZenonT(60), <2>0, <2>7 DEF InStep
    <3>3. "giveup" \notin mishaps => client.height + 1 = Len(db')
      BY SMTT(60), <2>4, <3>1, <3>2
    <3> QED BY ZenonT(60), <3>1, <3>2, <3>3 DEF InStep
  <2> QED BY ZenonT(60), <2>8, <2>9, <2>10, <2>11, <2>12, <2>13 DEF Lin

(* The sink worker commits.                                                *)
<1>LinSinkCommit. ASSUME TruthInv, Lin, SinkCommit, mishaps' = mishaps
      PROVE Lin'
  <2> USE <1>LinSinkCommit
  <2>0. Serial /\ Fresh /\ RootCurrent /\ RootsNamed /\ Placed /\ InStep /\ ExecTyped
    BY ZenonT(60) DEF Lin, TruthInv
  <2>1. /\ worker.pc = "commit" /\ worker' = [worker EXCEPT !.pc = "index"]
        /\ UNCHANGED <<initialized, root, holder, call, sink, db, client>>
    BY ZenonT(60) DEF SinkCommit, service
  <2>2. worker = [pc |-> worker.pc, block |-> worker.block]
    BY ZenonT(60), <2>0, <2>1, WorkerKinds
  <2>3. worker'.pc = "index" /\ worker'.block = worker.block
    BY Zenon, <2>1, <2>2
  <2>4. Serial'
    BY ZenonT(60), <2>0, <2>1, <2>3 DEF Serial, Waited
  <2>5. Fresh'
    <3>1. initialized
      BY Zenon, <2>0, <2>1, <1>PipelineStarted
    <3> QED BY Zenon, <2>1, <3>1 DEF Fresh
  <2>6. RootCurrent'
    <3>1. Applying /\ Applying'
      BY Zenon, <2>1, <2>3 DEF Applying
    <3> QED BY Zenon, <2>0, <2>1, <3>1 DEF RootCurrent, Told, RootAt
  <2>7. RootsNamed'
    BY Zenon, <2>0, <2>1 DEF RootsNamed, Names, RootAt
  <2>8. Placed'
    BY ZenonT(60), <2>0, <2>1, <2>3 DEF Placed, LinearHistory
  <2>9. InStep'
    <3>1. Applying /\ Applying'
      BY Zenon, <2>1, <2>3 DEF Applying
    <3> QED BY ZenonT(60), <2>0, <2>1, <3>1 DEF InStep
  <2> QED BY ZenonT(60), <2>4, <2>5, <2>6, <2>7, <2>8, <2>9 DEF Lin

(* The answer of the sink: the handler was waiting for it.                 *)
<1>LinReplied. ASSUME TruthInv, Lin, worker.pc # "free", NEW reply \in {"failed", "committed"}, Replied(worker.block, reply),
             worker' = Free, UNCHANGED <<initialized, root, holder, sink, db, client, mishaps>>,
             reply = "committed" <=> worker.pc \in {"commit", "index"}
      PROVE Lin'
  <2> USE <1>LinReplied
  <2>0. Serial /\ Fresh /\ RootCurrent /\ RootsNamed /\ Placed /\ InStep /\ ExecTyped
    BY Zenon DEF Lin, TruthInv
  <2> DEFINE c == worker.block.call
  <2>1. /\ sink = << >> /\ Len(sink) = 0 /\ Len(sink') = 0 /\ c \in Call
        /\ call[c].pc = "wait" /\ call[c].id = worker.block.id /\ call[c].reply = "none"
        /\ \A d \in Call : ~Told(call[d])
    BY Zenon, <2>0, <1>WorkerAlone DEF Waited
  <2>2. worker'.pc = "free" /\ worker.block \in Executable
    BY Zenon, <2>0, WorkerKinds, FreeIsResting
  <2>3. call' = [call EXCEPT ![c] = [@ EXCEPT !.reply = reply, !.root = worker.block.root]]
    BY Zenon, <2>1 DEF Replied
  <2>4. call[c] \in Executed /\ call[c].height = worker.block.height
    BY Zenon, <2>0, <2>1, CallKinds DEF TruthInv, Matched, Match
  <2> HIDE DEF c
  <2> DEFINE x == [call[c] EXCEPT !.reply = reply, !.root = worker.block.root]
  <2>5. /\ x.pc = "wait" /\ x.reply = reply /\ x.id = call[c].id /\ x.root = worker.block.root
        /\ x.height = call[c].height /\ x.lost = call[c].lost
    BY Zenon, <2>1, <2>4 DEF Executed
  <2>6. call'[c] = x /\ \A d \in Call : d # c => call'[d] = call[d]
    BY ZenonT(60), <2>0, <2>1, <2>3 DEF ExecTyped
  <2> HIDE DEF x
  <2>7. Serial'
    <3>1. \A d \in Call : call'[d].pc = call[d].pc
      BY Zenon, <2>1, <2>5, <2>6
    <3>2. \A d \in Call : d \in holder' <=> call'[d].pc \in InLock
      BY Zenon, <2>0, <3>1 DEF Serial
    <3>3. \A d, e \in holder' : d = e
      BY ZenonT(60), <2>0 DEF Serial
    <3> QED BY SMTT(60), <2>1, <2>2, <3>2, <3>3 DEF Serial
  <2>8. Fresh'
    <3>1. initialized
      BY Zenon, <2>0, <1>PipelineStarted
    <3> QED BY Zenon, <3>1 DEF Fresh
  <2>9. RootCurrent'
    <3>1. \A d \in Call : Told(call'[d]) => d = c /\ reply = "committed"
      BY ZenonT(60), <2>1, <2>5, <2>6 DEF Told
    <3>2. CASE reply = "committed"
      <4>1. Applying /\ worker.block.root = RootAt(Len(db)) /\ worker.block.height = Len(db)
        <5>1. Len(db) > 0 /\ db[Len(db)] = worker.block /\ Len(db) # 0 /\ Len(db) \in DOMAIN db
          BY SMTT(60), <2>0, <3>2 DEF TruthInv, Numbered, ExecTyped
        <5>2. db[Len(db)].height = Len(db)
          BY Zenon, <2>0, <5>1 DEF Placed, LinearHistory
        <5> QED BY ZenonT(60), <3>2, <5>1, <5>2 DEF Applying, RootAt
      <4>2. Told(call'[c])
        BY ZenonT(60), <2>5, <2>6, <3>2 DEF Told
      <4>3. Applying'
        BY Zenon, <2>1, <4>2 DEF Applying, Told
      <4>4. \A d \in Call : Told(call'[d]) => call'[d].root = RootAt(Len(db)) /\ call'[d].height = Len(db)
        BY ZenonT(60), <2>1, <2>4, <2>5, <2>6, <3>1, <4>1
      <4> QED BY ZenonT(60), <2>0, <4>1, <4>3, <4>4 DEF RootCurrent, Told, RootAt
    <3>3. CASE reply = "failed"
      <4>1. ~Applying
        BY Zenon, <2>1, <3>3 DEF Applying
      <4>2. ~Applying'
        BY ZenonT(60), <2>2, <3>1, <3>3 DEF Applying, Told
      <4> QED BY ZenonT(60), <2>0, <3>1, <3>3, <4>1, <4>2 DEF RootCurrent, Told, RootAt
    <3> QED BY ZenonT(60), <3>2, <3>3
  <2>10. RootsNamed'
    <3>1. \A d \in Call : call'[d].pc \in {"lock", "resolve"} => call'[d] = call[d]
      BY Zenon, <2>5, <2>6
    <3> QED BY Zenon, <2>0, <3>1 DEF RootsNamed, Names, RootAt
  <2>11. Placed'
    <3>1. \A j \in 1..Len(sink') : FALSE
      BY SMTT(60), <2>1
    <3> QED BY ZenonT(60), <2>0, <2>2, <3>1 DEF Placed, LinearHistory
  <2>12. InStep'
    <3>1. Applying' <=> Applying
      <4>1. CASE reply = "committed"
        BY ZenonT(60), <2>1, <2>5, <2>6, <4>1 DEF Applying, Told
      <4>2. CASE reply = "failed"
        <5>1. \A d \in Call : ~Told(call'[d])
          BY ZenonT(60), <2>1, <2>5, <2>6, <4>2 DEF Told
        <5> QED BY ZenonT(60), <2>1, <2>2, <4>2, <5>1 DEF Applying, Told
      <4> QED BY ZenonT(60), <4>1, <4>2
    <3>2. \A d \in Call : call'[d].pc = call[d].pc /\ call'[d].lost = call[d].lost
      BY ZenonT(60), <2>1, <2>5, <2>6
    <3> QED BY ZenonT(60), <2>0, <3>1, <3>2 DEF InStep
  <2> QED BY ZenonT(60), <2>7, <2>8, <2>9, <2>10, <2>11, <2>12 DEF Lin

(* What a step does to init_chain's marks, the heights and the blocks.     *)
<1>Moves. ASSUME ExecutorNext, Alive
      PROVE \/ \E c \in Call : InitChainStores(c) \/ Execute(c) \/ StoreHeight(c)
            \/ SetFinal \/ SinkTake \/ SinkBatch \/ SinkCommit
            \/ worker' = Free /\ UNCHANGED <<initialized, current_height, finalized, sink, db, inits>>
            \/ UNCHANGED <<initialized, current_height, finalized, sink, worker, db, inits>>
  <2> USE <1>Moves
  <2> DEFINE Rest == UNCHANGED <<initialized, current_height, finalized, sink, worker, db, inits>>
             Done == worker' = Free /\ UNCHANGED <<initialized, current_height, finalized, sink, db, inits>>
  <2>1. ASSUME NEW c \in Call, InitChain(c) \/ Request(c) PROVE Rest
    BY ZenonT(60), <2>1 DEF InitChain, Request, service, commit
  <2>2. ASSUME NEW c \in Call, Lock(c) \/ RefuseRoot(c) \/ CommitFailed(c) PROVE Rest
    BY ZenonT(60), <2>2 DEF Lock, RefuseRoot, CommitFailed, service, commit
  <2>3. ASSUME NEW c \in Call, FinalizeProposal(c) \/ StoreRoot(c) \/ GiveUp(c) PROVE Rest
    BY ZenonT(60), <2>3 DEF FinalizeProposal, StoreRoot, GiveUp, service, commit
  <2>4. CASE GetTxs
    BY ZenonT(60), <2>4 DEF GetTxs, service, commit
  <2>5. ASSUME SinkIndex PROVE Done
    BY ZenonT(60), <2>5 DEF SinkIndex, service
  <2>6. ASSUME SinkFails("batch") PROVE Done
    BY ZenonT(60), <2>6 DEF SinkFails, service
  <2>7. ~Shutdown /\ ~ExecutorCrash /\ ~("commit" \in mishaps) /\ \A c \in Call : ~Cancel(c)
    BY ZenonT(60) DEF Alive, Shutdown, ExecutorCrash, Cancel
  <2> HIDE DEF Rest, Done
  <2>8. ASSUME NEW c \in Call, Handler(c) PROVE InitChainStores(c) \/ Execute(c) \/ StoreHeight(c) \/ Rest
    BY ZenonT(60), <2>2, <2>3, <2>8 DEF Handler
  <2>9. CASE Worker
    BY ZenonT(60), <2>5, <2>9 DEF Worker, Done
  <2>10. CASE Fault
    BY ZenonT(60), <2>3, <2>6, <2>7, <2>10 DEF Fault, Rest, Done
  <2>11. ASSUME NEW c \in Call, InitChain(c) \/ Request(c) \/ Handler(c)
         PROVE (\E d \in Call : InitChainStores(d) \/ Execute(d) \/ StoreHeight(d)) \/ Rest
    BY ZenonT(60), <2>1, <2>8, <2>11
  <2> QED BY ZenonT(60), <2>4, <2>9, <2>10, <2>11 DEF ExecutorNext, Rest

(* An init_chain that stores counts; it is the first, or one too many.     *)
<1>InitsNext. ASSUME inits \in Nat, initialized <=> inits # 0, ExecutorNext, Alive
      PROVE /\ inits' \in Nat /\ (initialized' <=> inits' # 0) /\ (inits' <= 1 => inits <= 1)
            /\ \A c \in Call : inits' <= 1 /\ InitChainStores(c) => ~initialized
  <2> USE <1>InitsNext
  <2>1. ASSUME NEW c \in Call, InitChainStores(c) PROVE inits' = inits + 1 /\ initialized' = TRUE
    BY Zenon, <2>1 DEF InitChainStores
  <2>2. ASSUME NEW c \in Call, Execute(c) \/ StoreHeight(c) PROVE inits' = inits /\ initialized' = initialized
    BY ZenonT(60), <2>2 DEF Execute, StoreHeight, service
  <2>3. ASSUME SetFinal \/ SinkTake \/ SinkBatch \/ SinkCommit PROVE inits' = inits /\ initialized' = initialized
    BY ZenonT(60), <2>3 DEF SetFinal, SinkTake, SinkBatch, SinkCommit, service
  <2>4. \/ inits' = inits /\ initialized' = initialized
        \/ inits' = inits + 1 /\ initialized' = TRUE
    BY ZenonT(60), <2>1, <2>2, <2>3, <1>Moves
  <2>5. inits' \in Nat /\ (inits' <= 1 => inits <= 1) /\ (inits' = inits + 1 => inits' # 0)
    BY SMTT(60), <2>4
  <2>6. inits' = inits + 1 /\ inits' <= 1 => inits = 0
    BY SMTT(60)
  <2>7. initialized' <=> inits' # 0
    <3>1. CASE inits' = inits /\ initialized' = initialized
      BY ONLY ZenonT(60), <1>InitsNext, <3>1
    <3>2. CASE inits' = inits + 1 /\ initialized' = TRUE
      BY ONLY ZenonT(60), <2>5, <3>2
    <3> QED BY Zenon, <2>4, <3>1, <3>2
  <2> QED BY ZenonT(60), <2>1, <2>5, <2>6, <2>7

(* Where every block changes the state, a block's root is its number.      *)
<1>UniqueNext. ASSUME TruthInv, RootsUnique, ExecutorNext, Alive, mishaps' = mishaps
      PROVE RootsUnique'
  <2> USE <1>UniqueNext
  <2> SUFFICES ASSUME "empty" \notin mishaps
               PROVE  /\ \A i \in 1..Len(db') : db'[i].root = db'[i].id
                      /\ \A j \in 1..Len(sink') : sink'[j].root = sink'[j].id
                      /\ worker'.pc # "free" => worker'.block.root = worker'.block.id
    BY ZenonT(60) DEF RootsUnique
  <2>0. /\ \A i \in 1..Len(db) : db[i].root = db[i].id
        /\ \A j \in 1..Len(sink) : sink[j].root = sink[j].id
        /\ worker.pc # "free" => worker.block.root = worker.block.id
        /\ db \in Seq(Executable) /\ sink \in Seq(Executable)
        /\ worker.pc # "free" => worker.block \in Executable
    BY ZenonT(60), WorkerKinds DEF RootsUnique, TruthInv, ExecTyped
  <2>1. ASSUME NEW c \in Call, Execute(c)
        PROVE  worker' = worker /\ db' = db /\ \A j \in 1..Len(sink') : sink'[j].root = sink'[j].id
    <3> DEFINE b == [id |-> executions + 1, height |-> call[c].height, base |-> Len(db),
                     ran |-> Ran(call[c].txs), root |-> executions + 1, call |-> c]
    <3>1. sink' = Append(sink, b) /\ worker' = worker /\ db' = db
      BY ZenonT(60), <2>1 DEF Execute
    <3>2. b.root = b.id
      BY Zenon
    <3> HIDE DEF b
    <3>3. ASSUME NEW j \in 1..Len(sink') PROVE sink'[j] = b \/ (j \in 1..Len(sink) /\ sink'[j] = sink[j])
      BY SMTT(60), <2>0, <3>1
    <3> QED BY ZenonT(60), <2>0, <3>1, <3>2, <3>3
  <2>2. ASSUME SinkTake
        PROVE  /\ db' = db /\ \A j \in 1..Len(sink') : sink'[j].root = sink'[j].id
               /\ worker'.block.root = worker'.block.id
    <3>1. sink # << >> /\ worker' = [pc |-> "batch", block |-> Head(sink)] /\ sink' = Tail(sink) /\ db' = db
      BY Zenon, <2>2 DEF SinkTake
    <3>2. worker'.block = sink[1] /\ 1 \in 1..Len(sink)
      BY SMTT(60), <2>0, <3>1
    <3>3. \A j \in 1..Len(sink') : j + 1 \in 1..Len(sink) /\ sink'[j] = sink[j + 1]
      BY SMTT(60), <2>0, <3>1
    <3> QED BY ZenonT(60), <2>0, <3>1, <3>2, <3>3
  <2>3. ASSUME SinkBatch
        PROVE  /\ sink' = sink /\ \A i \in 1..Len(db') : db'[i].root = db'[i].id
               /\ worker'.block.root = worker'.block.id
    <3>1. /\ worker.pc = "batch" /\ db' = Append(db, WithRoot(worker.block)) /\ sink' = sink
          /\ worker' = [pc |-> "commit", block |-> WithRoot(worker.block)]
      BY Zenon, <2>3 DEF SinkBatch
    <3>2. worker.block.root = worker.block.id /\ worker.block.id \in Nat
      BY Zenon, <2>0, <3>1 DEF Executable
    <3>3. worker.block.root # NoRoot
      BY SMTT(60), <3>2 DEF NoRoot
    <3>4. WithRoot(worker.block) = worker.block
      BY Zenon, <3>3 DEF WithRoot
    <3>5. worker'.block = worker.block /\ db' = Append(db, worker.block)
      BY Zenon, <3>1, <3>4
    <3>6. ASSUME NEW i \in 1..Len(db') PROVE db'[i] = worker.block \/ (i \in 1..Len(db) /\ db'[i] = db[i])
      BY SMTT(60), <2>0, <3>5
    <3> QED BY ZenonT(60), <2>0, <3>1, <3>2, <3>5, <3>6
  <2>4. ASSUME SinkCommit PROVE sink' = sink /\ db' = db /\ worker'.block = worker.block /\ worker.pc # "free"
    <3>1. worker.pc = "commit" /\ worker' = [worker EXCEPT !.pc = "index"] /\ sink' = sink /\ db' = db
      BY Zenon, <2>4 DEF SinkCommit
    <3>2. worker \in [pc : {"batch", "commit", "index"}, block : Executable]
      BY Zenon, <3>1, FreeIsResting DEF TruthInv, ExecTyped
    <3> QED BY ZenonT(60), <3>1, <3>2
  <2>5. ASSUME NEW c \in Call, InitChainStores(c) \/ StoreHeight(c) PROVE UNCHANGED <<sink, worker, db>>
    BY ZenonT(60), <2>5 DEF InitChainStores, StoreHeight, commit
  <2>6. ASSUME SetFinal PROVE UNCHANGED <<sink, worker, db>>
    BY ZenonT(60), <2>6 DEF SetFinal, commit
  <2>7. Free.pc = "free"
    BY Zenon, FreeIsResting
  <2>8. CASE UNCHANGED <<sink, db>> /\ (worker' = worker \/ worker' = Free)
    BY ZenonT(60), <2>0, <2>7, <2>8
  <2>9. CASE SinkTake \/ SinkBatch \/ SinkCommit \/ \E c \in Call : Execute(c)
    BY ZenonT(60), <2>0, <2>1, <2>2, <2>3, <2>4, <2>9
  <2> QED BY ZenonT(60), <2>5, <2>6, <2>8, <2>9, <1>Moves

(* The service goes no further than storage.                               *)
<1>ReachedNext. ASSUME TruthInv, Lin, Reached, ExecutorNext, Alive,
             \A c \in Call : InitChainStores(c) => ~initialized
      PROVE Reached'
  <2> USE <1>ReachedNext
  <2>0. /\ RootCurrent /\ Fresh /\ ExecTyped /\ Len(db) \in Nat /\ current_height \in Nat /\ finalized \in Nat
    <3>1. RootCurrent /\ Fresh /\ ExecTyped
      BY Zenon DEF Lin, TruthInv
    <3> QED BY SMTT(60), <3>1 DEF ExecTyped
  <2>1. ASSUME NEW c \in Call, InitChainStores(c) PROVE Reached'
    <3>1. Len(db) = 0 /\ finalized = 0
      BY SMTT(60), <2>0, <2>1 DEF Fresh
    <3>2. db' = db /\ finalized' = finalized /\ current_height' = InitialHeight
      BY Zenon, <2>1 DEF InitChainStores, commit
    <3> QED BY SMTT(60), <3>1, <3>2 DEF Reached, InitialHeight
  <2>2. ASSUME NEW c \in Call, StoreHeight(c) PROVE Reached'
    <3>1. Told(call[c]) /\ Applying
      BY Zenon, <2>2 DEF StoreHeight, Told, Applying
    <3>2. call[c].height = Len(db) /\ Len(db) > 0
      BY Zenon, <2>0, <3>1 DEF RootCurrent
    <3>3. db' = db /\ finalized' = finalized /\ current_height' = call[c].height
      BY ZenonT(60), <2>2 DEF StoreHeight, commit
    <3> QED BY SMTT(60), <2>0, <3>2, <3>3 DEF Reached, InitialHeight
  <2>3. ASSUME SetFinal PROVE Reached'
    <3>1. db' = db /\ current_height' = current_height /\ finalized' \in 0..current_height
      BY ZenonT(60), <2>3 DEF SetFinal, commit
    <3> QED BY SMTT(60), <2>0, <3>1 DEF Reached, InitialHeight
  <2>4. ASSUME SinkBatch PROVE Reached'
    <3>1. db' = Append(db, WithRoot(worker.block)) /\ current_height' = current_height /\ finalized' = finalized
      BY ZenonT(60), <2>4 DEF SinkBatch, service
    <3>2. Len(db') = Len(db) + 1
      BY SMTT(60), <2>0, <3>1 DEF ExecTyped
    <3> QED BY SMTT(60), <2>0, <3>1, <3>2 DEF Reached, InitialHeight
  <2>5. ASSUME NEW c \in Call, Execute(c) PROVE UNCHANGED <<current_height, finalized, db>>
    BY ZenonT(60), <2>5 DEF Execute, service
  <2>6. ASSUME SinkTake \/ SinkCommit PROVE UNCHANGED <<current_height, finalized, db>>
    BY ZenonT(60), <2>6 DEF SinkTake, SinkCommit, service
  <2>7. CASE UNCHANGED <<current_height, finalized, db>>
    BY ZenonT(60), <2>7 DEF Reached
  <2> QED BY ZenonT(60), <2>1, <2>2, <2>3, <2>4, <2>5, <2>6, <2>7, <1>Moves

(* The steps, one by one.                                                  *)
<1>LinStep. ASSUME TruthInv, Lin, RootsUnique, ExecutorNext, Alive, mishaps' = mishaps,
             \A c \in Call : InitChainStores(c) => ~initialized
      PROVE Lin'
  <2> USE <1>LinStep
  <2>1. CASE GetTxs \/ SetFinal
    <3>1. UNCHANGED <<initialized, root, call, sink, worker, db, client, holder>> /\ (initialized \/ finalized' = finalized)
      BY ZenonT(60), <2>1 DEF GetTxs, SetFinal, service, commit
    <3> QED BY ZenonT(60), <3>1, <1>LinElsewhere
  <2>2. ASSUME NEW c \in Call, Handler(c) PROVE Lin'
    <3>1. CASE RefuseRoot(c)
      <4>1. call[c].pc \in Pending /\ ~(call[c].pc = "wait" /\ call[c].reply = "none") /\ ~Told(call[c])
        BY Zenon, <3>1 DEF RefuseRoot, Pending, Told
      <4>2. Answer(c) /\ UNCHANGED <<service, commit, client>>
        BY Zenon, <3>1 DEF RefuseRoot
      <4> QED BY ZenonT(60), <4>1, <4>2, <1>LinAnswer
    <3>2. CASE CommitFailed(c)
      <4>1. call[c].pc \in Pending /\ ~(call[c].pc = "wait" /\ call[c].reply = "none") /\ ~Told(call[c])
        BY Zenon, <3>2 DEF CommitFailed, Pending, Told
      <4>2. Answer(c) /\ UNCHANGED <<service, commit, client>>
        BY Zenon, <3>2 DEF CommitFailed
      <4> QED BY ZenonT(60), <4>1, <4>2, <1>LinAnswer
    <3>3. CASE FinalizeProposal(c)
      BY ZenonT(60), <3>3, <1>LinTold DEF FinalizeProposal, Told, service, commit
    <3>4. CASE StoreHeight(c)
      BY ZenonT(60), <3>4, <1>LinTold DEF StoreHeight, Told, commit
    <3>5. CASE InitChainStores(c)
      BY ZenonT(60), <3>5, <1>LinInitChainStores
    <3> QED BY ZenonT(60), <2>2, <3>1, <3>2, <3>3, <3>4, <3>5, <1>LinLock, <1>LinExecute, <1>LinStoreRoot DEF Handler
  <2>3. CASE SinkIndex
    <3>1. /\ worker.pc = "index" /\ Replied(worker.block, "committed") /\ worker' = Free
          /\ UNCHANGED <<initialized, root, holder, sink, db, client>>
      BY Zenon, <2>3 DEF SinkIndex, service
    <3> QED BY ZenonT(60), <3>1, <1>LinReplied
  <2>4. CASE SinkFails("batch")
    <3>1. /\ worker.pc = "batch" /\ Replied(worker.block, "failed") /\ worker' = Free
          /\ UNCHANGED <<initialized, root, holder, sink, db, client>>
      BY Zenon, <2>4 DEF SinkFails, service
    <3> QED BY ZenonT(60), <3>1, <1>LinReplied
  <2>5. CASE Worker
    BY ZenonT(60), <2>3, <2>5, <1>LinSinkTake, <1>LinSinkBatch, <1>LinSinkCommit DEF Worker
  <2>6. CASE Fault
    <3>1. ~Shutdown /\ ~ExecutorCrash /\ ~("commit" \in mishaps) /\ \A c \in Call : ~Cancel(c)
      BY ZenonT(60) DEF Alive, Shutdown, ExecutorCrash, Cancel
    <3> QED BY ZenonT(60), <2>4, <2>6, <3>1, <1>LinGiveUp DEF Fault
  <2> QED BY ZenonT(60), <2>1, <2>2, <2>5, <2>6, <1>LinInitChain, <1>LinRequest DEF ExecutorNext

<1> SUFFICES ASSUME TruthInv, LinInv, [ExecutorNext]_<<executor, mishaps>> PROVE LinInv'
  BY ZenonT(60)
<1>1. mishaps' = mishaps
  BY ZenonT(60) DEF ExecutorNext
<1>2. Alive' <=> Alive
  BY ZenonT(60), <1>1 DEF Alive, RepeatsEmptyBlocks
<1>3. CASE UNCHANGED <<executor, mishaps>>
  <2>1. UNCHANGED <<initialized, root, call, sink, worker, db, client, holder, mishaps, finalized, current_height, inits>>
    BY ZenonT(60), <1>3 DEF executor, service, commit
  <2>2. Lin => Lin'
    BY ZenonT(60), <2>1, <1>LinElsewhere
  <2>3. RootsUnique => RootsUnique'
    BY ZenonT(60), <2>1 DEF RootsUnique
  <2>4. Reached => Reached'
    BY ZenonT(60), <2>1 DEF Reached
  <2> QED BY ZenonT(60), <1>2, <2>1, <2>2, <2>3, <2>4 DEF LinInv
<1>4. ASSUME ExecutorNext, Alive PROVE LinInv'
  <2>1. inits \in Nat /\ (initialized <=> inits # 0) /\ RootsUnique /\ (inits <= 1 => Lin /\ Reached)
    BY Zenon, <1>4 DEF LinInv
  <2>2. /\ inits' \in Nat /\ (initialized' <=> inits' # 0) /\ (inits' <= 1 => inits <= 1)
        /\ \A c \in Call : inits' <= 1 /\ InitChainStores(c) => ~initialized
    BY ZenonT(60), <1>4, <2>1, <1>InitsNext
  <2>3. RootsUnique'
    BY ZenonT(60), <1>1, <1>4, <2>1, <1>UniqueNext
  <2>4. inits' <= 1 => Lin'
    BY ZenonT(60), <1>1, <1>4, <2>1, <2>2, <1>LinStep
  <2>5. inits' <= 1 => Reached'
    BY ZenonT(60), <1>4, <2>1, <2>2, <1>ReachedNext
  <2> QED BY ZenonT(60), <2>2, <2>3, <2>4, <2>5 DEF LinInv
<1>5. ASSUME ~Alive PROVE LinInv'
  BY ZenonT(60), <1>2, <1>5 DEF LinInv
<1> QED BY ZenonT(60), <1>3, <1>4, <1>5

(* LinInv holds at first.                                                  *)
LEMMA LinInit ==
  ASSUME ExecutorInit
  PROVE LinInv
<1>1. /\ \A d \in Call : call[d].pc = "free"
      /\ Len(sink) = 0 /\ sink = << >> /\ Len(db) = 0 /\ DOMAIN db = {} /\ db = << >> /\ worker.pc = "free"
      /\ ~initialized /\ holder = {} /\ client.root = NoRoot /\ client.height = 0
      /\ finalized = 0 /\ current_height = 0 /\ inits = 0
  BY SMTT(60), FreeIsResting DEF ExecutorInit
<1>2. \A d \in Call : ~Told(call[d])
  BY ZenonT(60), <1>1 DEF Told
<1>3. Serial
  BY SMTT(60), <1>1 DEF Serial, InLock
<1>4. Fresh
  BY Zenon, <1>1 DEF Fresh
<1>5. RootCurrent /\ ~Applying
  BY Zenon, <1>1, <1>2 DEF RootCurrent, Applying
<1>6. RootsNamed
  BY ZenonT(60), <1>1 DEF RootsNamed
<1>7. Placed
  BY SMTT(60), <1>1 DEF Placed, LinearHistory
<1>8. InStep
  <2>1. client.height + 0 = Len(db)
    BY SMTT(60), <1>1
  <2> QED BY Zenon, <1>1, <1>5, <2>1 DEF InStep, Pending
<1>9. RootsUnique
  BY SMTT(60), <1>1 DEF RootsUnique
<1>10. Reached /\ inits \in Nat
  BY SMTT(60), <1>1 DEF Reached, InitialHeight
<1> QED BY ZenonT(60), <1>1, <1>3, <1>4, <1>5, <1>6, <1>7, <1>8, <1>9, <1>10 DEF LinInv, Lin

(* As long as one init_chain has stored, no handler is cancelled, no       *)
(* commit fails, the process lives, the client names the root it builds on *)
(* and repeats no block that changes nothing, storage holds each height    *)
(* once and in order, each executed on the state the one before left,      *)
(* between executions the service's root is that of what storage holds     *)
(* (of genesis before the first block), and no height is final that the    *)
(* service has not reached.  Other init_chain calls may be running genesis *)
(* meanwhile.                                                              *)
THEOREM ExecutionIsLinear == ExecutorSpec => []LinearWhileAlive
<1>1. ExecutorInit => TruthInv /\ LinInv
  BY ZenonT(60), TruthInit, LinInit
<1>2. TruthInv /\ LinInv /\ [ExecutorNext]_<<executor, mishaps>> => (TruthInv /\ LinInv)'
  BY ZenonT(60), TruthNext, LinNext
<1>3. TruthInv /\ LinInv => LinearWhileAlive
  <2> SUFFICES ASSUME TruthInv, LinInv, Alive, ~(inits > 1)
               PROVE LinearHistory /\ RootMatchesStorage /\ finalized <= current_height
    BY ZenonT(60) DEF LinearWhileAlive, Alive
  <2>0. inits <= 1
    <3>1. inits \in Nat
      BY Zenon DEF LinInv
    <3> QED BY SMTT(60), <3>1
  <2>1. Serial /\ RootCurrent /\ Placed /\ Reached
    BY ZenonT(60), <2>0 DEF LinInv, Lin
  <2>2. ASSUME initialized, holder = {} PROVE root = IF db = << >> THEN GenesisRoot ELSE StorageRoot
    <3>1. worker.pc = "free"
      BY ZenonT(60), <2>1, <2>2, NothingOnItsWay
    <3>2. \A d \in Call : ~Told(call[d])
      BY Zenon, <2>1, <2>2, NobodyTold
    <3>3. root = RootAt(Len(db))
      BY ZenonT(60), <2>1, <2>2, <3>1, <3>2 DEF RootCurrent, Applying
    <3>4. db = << >> <=> Len(db) = 0
      BY SMTT(60) DEF TruthInv, ExecTyped
    <3> QED BY ZenonT(60), <3>3, <3>4 DEF RootAt, StorageRoot
  <2> QED BY ZenonT(60), <2>1, <2>2 DEF Placed, RootMatchesStorage, Reached
<1> QED BY <1>1, <1>2, <1>3, PTL DEF ExecutorSpec

=============================================================================
