------------------------------ MODULE QmdbStorage ------------------------------
(***************************************************************************)
(* QmdbStorage (crates/storage/src/qmdb_impl.rs) and one shard of its read *)
(* cache (cache.rs): reads of one or of several keys that go to the        *)
(* database on a miss and fill the cache afterwards, cache warming,        *)
(* batches, commits, the background prune worker, and a crash at any       *)
(* moment.                                                                 *)
(*                                                                         *)
(* The database is QMDB, an external library, used through the calls the   *)
(* code makes: a batch becomes visible in one step under the write lock,   *)
(* sync makes what is visible durable, and what was not synced may or may  *)
(* not survive a crash.  A value is the number of the batch that wrote it, *)
(* 0 standing for an absent key.  The lock is tokio's RwLock, which serves *)
(* its waiters in order.                                                   *)
(***************************************************************************)
EXTENDS Integers, Sequences, FiniteSets, TLC, FiniteSetTheorems, TLAPS

CONSTANTS
    Key,         \* keys, all of one cache shard
    Reader,      \* tasks that read
    Writer,      \* the task that applies batches and commits
    Pruner,      \* the prune worker
    MaxBatches,  \* bound on the number of batches
    MaxEntries,  \* entries per shard (max_entries)
    MaxRetries,  \* PRUNE_MAX_LOCK_RETRIES
    Usages       \* the ways the storage may be used

NotCached == -1

ASSUME QmdbAssumption ==
    /\ MaxBatches \in Nat /\ MaxRetries \in Nat
    /\ MaxEntries \in Nat /\ MaxEntries >= 2
    /\ Writer # Pruner /\ {Writer, Pruner} \cap Reader = {}

VARIABLES
    db,        \* the database: value of each key
    durable,   \* what a crash cannot take away
    cache,     \* cached value of each key, or NotCached
    holders,   \* tasks holding the lock
    queue,     \* tasks waiting for it, in order
    reader,    \* what each reader is doing
    writer,    \* what the writer is doing
    batch,     \* number of batches begun so far
    pruner,    \* what the prune worker is doing
    signal,    \* whether its channel holds a signal
    committed, \* the database at the last successful commit (ghost)
    usage      \* how this process uses the storage, from its start: the kinds of reads it makes
               \* ("get", "async", "many", "warm"), "overlap" if they run while a batch is applied,
               \* and "crash" if the process may crash

vars == <<db, durable, cache, holders, queue, reader, writer, batch, pruner, signal, committed>>
lock == <<holders, queue>>

Overlap == "overlap" \in usage

Idle == [pc |-> "idle"]

Init ==
    /\ db = [k \in Key |-> 0]
    /\ durable = db
    /\ committed = db
    /\ cache = [k \in Key |-> NotCached]
    /\ holders = {}
    /\ queue = << >>
    /\ reader = [r \in Reader |-> Idle]
    /\ writer = Idle
    /\ batch = 0
    /\ pruner = Idle
    /\ signal = FALSE
    /\ usage \in Usages

-----------------------------------------------------------------------------
(* The lock.  A commit takes it for reading, like a reader. *)

Enqueue(t) == queue' = Append(queue, t)

Enter(t) ==
    /\ queue # << >> /\ Head(queue) = t
    /\ holders' = holders \cup {t}
    /\ queue' = Tail(queue)

Leave(t) == holders' = holders \ {t} /\ UNCHANGED queue

(* The writer holds the lock exclusively from acquiring it to releasing it. *)
WriteHeld == Writer \in holders /\ writer.pc \in {"merkleize", "invalidate"}
MayRead == queue # << >> /\ ~WriteHeld /\ Pruner \notin holders
MayWrite == queue # << >> /\ holders = {}

-----------------------------------------------------------------------------
(* A read: get, which fills the cache; get_async, which does not; get_many *)
(* over several keys; and prefetch_keys, which looks a key up itself, gets *)
(* it and puts it into the cache once more (a prefetch of several keys is  *)
(* one such read after the other).  A read notes, as a ghost, the values   *)
(* left by the last batch that has returned.                               *)

Settled == IF writer.pc = "invalidate" THEN writer.old ELSE db

Begin(r, kind, keys) ==
    /\ reader[r].pc = "idle" /\ kind \in usage
    /\ Overlap \/ writer.pc = "idle"
    /\ reader' = [reader EXCEPT ![r] =
          [pc |-> "look", kind |-> kind, todo |-> keys, misses |-> {},
           got |-> [k \in Key |-> NotCached],
           since |-> [k \in Key |-> IF k \in keys THEN Settled[k] ELSE NotCached]]]
    /\ UNCHANGED <<db, durable, cache, lock, writer, batch, pruner, signal, committed>>

Get(r, k) == Begin(r, "get", {k})
GetAsync(r, k) == Begin(r, "async", {k})
GetMany(r, keys) == Begin(r, "many", keys)

Prefetch(r, k) == cache[k] = NotCached /\ Begin(r, "warm", {k})

(* The cache is looked at without the lock, key by key. *)
LookUp(r) ==
    /\ reader[r].pc = "look"
    /\ \E k \in reader[r].todo :
        LET todo == reader[r].todo \ {k}
            misses == reader[r].misses \cup (IF cache[k] = NotCached THEN {k} ELSE {})
        IN reader' = [reader EXCEPT
              ![r].got[k] = cache[k], ![r].todo = todo, ![r].misses = misses,
              ![r].pc = CASE todo # {} -> "look"
                          [] todo = {} /\ misses # {} -> "miss"
                          [] todo = {} /\ misses = {} -> IF reader[r].kind = "warm" THEN "again" ELSE "done"]
    /\ UNCHANGED <<db, durable, cache, lock, writer, batch, pruner, signal, committed>>

WaitToRead(r) ==
    /\ reader[r].pc = "miss"
    /\ Enqueue(r)
    /\ reader' = [reader EXCEPT ![r].pc = "queued"]
    /\ UNCHANGED <<db, durable, cache, holders, writer, batch, pruner, signal, committed>>

LockRead(r) ==
    /\ reader[r].pc = "queued" /\ MayRead /\ Enter(r)
    /\ reader' = [reader EXCEPT ![r].pc = "locked"]
    /\ UNCHANGED <<db, durable, cache, writer, batch, pruner, signal, committed>>

MutantReadDb(r) ==
    /\ reader[r].pc = "locked"
    /\ Leave(r)
    /\ reader' = [reader EXCEPT
          ![r].pc = IF reader[r].kind = "async" THEN "done" ELSE "insert",
          ![r].got = [k \in Key |-> IF k \in reader[r].misses THEN durable[k] ELSE @[k]]]
    /\ UNCHANGED <<db, durable, cache, writer, batch, pruner, signal, committed>>

(* All the misses are read under one guard, which is dropped with the      *)
(* values in hand.                                                         *)
ReadDb(r) ==
    /\ reader[r].pc = "locked"
    /\ Leave(r)
    /\ reader' = [reader EXCEPT
          ![r].pc = IF reader[r].kind = "async" THEN "done" ELSE "insert",
          ![r].got = [k \in Key |-> IF k \in reader[r].misses THEN db[k] ELSE @[k]]]
    /\ UNCHANGED <<db, durable, cache, writer, batch, pruner, signal, committed>>

(* An error of QMDB is returned and caches nothing. *)
ReadFails(r) ==
    /\ reader[r].pc = "locked"
    /\ Leave(r)
    /\ reader' = [reader EXCEPT ![r] = Idle]
    /\ UNCHANGED <<db, durable, cache, writer, batch, pruner, signal, committed>>

Entries == {k \in Key : cache[k] # NotCached}

MutantEvicted(evicted) ==
    IF Cardinality(Entries) > MaxEntries
    THEN evicted \subseteq Entries /\ Cardinality(evicted) = MaxEntries \div 2
    ELSE evicted = {}

(* CacheShard::insert removes half of a full shard, whichever keys come    *)
(* first, and then inserts.                                                *)
Evicted(evicted) ==
    IF Cardinality(Entries) >= MaxEntries
    THEN evicted \subseteq Entries /\ Cardinality(evicted) = MaxEntries \div 2
    ELSE evicted = {}

Insert(key, val) ==
    \E evicted \in SUBSET Key :
        /\ Evicted(evicted)
        /\ cache' = [k \in Key |->
              IF k = key THEN val ELSE IF k \in evicted THEN NotCached ELSE cache[k]]

InsertCache(r) ==
    /\ reader[r].pc = "insert"
    /\ \E k \in reader[r].misses :
        /\ Insert(k, reader[r].got[k])
        /\ reader' = [reader EXCEPT ![r].misses = @ \ {k},
              ![r].pc = IF reader[r].misses # {k} THEN "insert"
                        ELSE IF reader[r].kind = "warm" THEN "again" ELSE "done"]
    /\ UNCHANGED <<db, durable, lock, writer, batch, pruner, signal, committed>>

(* prefetch_keys inserts what get returned. *)
InsertAgain(r) ==
    /\ reader[r].pc = "again"
    /\ \E k \in Key : reader[r].since[k] # NotCached /\ Insert(k, reader[r].got[k])
    /\ reader' = [reader EXCEPT ![r].pc = "done"]
    /\ UNCHANGED <<db, durable, lock, writer, batch, pruner, signal, committed>>

EndRead(r) ==
    /\ reader[r].pc = "done"
    /\ reader' = [reader EXCEPT ![r] = Idle]
    /\ UNCHANGED <<db, durable, cache, lock, writer, batch, pruner, signal, committed>>

-----------------------------------------------------------------------------
(* apply_batch. *)

BeginBatch ==
    /\ writer.pc = "idle" /\ batch < MaxBatches
    /\ Overlap \/ \A r \in Reader : reader[r].pc = "idle"
    /\ \E keys \in SUBSET Key \ {{}} : writer' = [pc |-> "queued", keys |-> keys]
    /\ batch' = batch + 1
    /\ Enqueue(Writer)
    /\ UNCHANGED <<db, durable, cache, holders, reader, pruner, signal, committed>>

LockWrite ==
    /\ writer.pc = "queued" /\ MayWrite /\ Enter(Writer)
    /\ writer' = [writer EXCEPT !.pc = "merkleize"]
    /\ UNCHANGED <<db, durable, cache, reader, batch, pruner, signal, committed>>

(* An error of QMDB returns before anything changed. *)
BatchFails ==
    /\ writer.pc = "merkleize"
    /\ Leave(Writer)
    /\ writer' = Idle
    /\ UNCHANGED <<db, durable, cache, reader, batch, pruner, signal, committed>>

ApplyBatch ==
    /\ writer.pc = "merkleize"
    /\ db' = [k \in Key |-> IF k \in writer.keys THEN batch ELSE db[k]]
    /\ writer' = [pc |-> "invalidate", keys |-> writer.keys, old |-> db]
    /\ UNCHANGED <<durable, cache, lock, reader, batch, pruner, signal, committed>>

Invalidate ==
    /\ writer.pc = "invalidate" /\ writer.keys # {}
    /\ \E k \in writer.keys :
        /\ cache' = [cache EXCEPT ![k] = NotCached]
        /\ writer' = [writer EXCEPT !.keys = @ \ {k}]
    /\ UNCHANGED <<db, durable, lock, reader, batch, pruner, signal, committed>>

EndBatch ==
    /\ writer.pc = "invalidate" /\ writer.keys = {}
    /\ Leave(Writer)
    /\ writer' = Idle
    /\ UNCHANGED <<db, durable, cache, reader, batch, pruner, signal, committed>>

-----------------------------------------------------------------------------
(* commit_state. *)

BeginCommit ==
    /\ writer.pc = "idle"
    /\ Enqueue(Writer)
    /\ writer' = [pc |-> "commit"]
    /\ UNCHANGED <<db, durable, cache, holders, reader, batch, pruner, signal, committed>>

MutantLockCommit ==
    /\ writer.pc = "commit" /\ MayRead /\ Enter(Writer)
    /\ writer' = [pc |-> "root"]
    /\ UNCHANGED <<db, durable, cache, reader, batch, pruner, signal, committed>>

LockCommit ==
    /\ writer.pc = "commit" /\ MayRead /\ Enter(Writer)
    /\ writer' = [pc |-> "sync"]
    /\ UNCHANGED <<db, durable, cache, reader, batch, pruner, signal, committed>>

CommitFails ==
    /\ writer.pc = "sync"
    /\ Leave(Writer)
    /\ writer' = Idle
    /\ UNCHANGED <<db, durable, cache, reader, batch, pruner, signal, committed>>

Sync ==
    /\ writer.pc = "sync"
    /\ durable' = db
    /\ writer' = [pc |-> "root"]
    /\ UNCHANGED <<db, cache, lock, reader, batch, pruner, signal, committed>>

(* The root is read, the lock released and the prune worker told.          *)
EndCommit ==
    /\ writer.pc = "root"
    /\ committed' = db
    /\ Leave(Writer)
    /\ writer' = Idle
    /\ signal' = TRUE
    /\ UNCHANGED <<db, durable, cache, reader, batch, pruner>>

-----------------------------------------------------------------------------
(* The prune worker never waits for the lock: it tries, a bounded number   *)
(* of times, and skips the cycle.  Signals sent during the delay after it  *)
(* woke up are drained, later ones wake it up again.                       *)

PruneWake ==
    /\ pruner.pc = "idle" /\ signal
    /\ signal' = FALSE
    /\ pruner' = [pc |-> "sleep"]
    /\ UNCHANGED <<db, durable, cache, lock, reader, writer, batch, committed>>

PruneDrain ==
    /\ pruner.pc = "sleep"
    /\ signal' = FALSE
    /\ pruner' = [pc |-> "delay", tries |-> 0]
    /\ UNCHANGED <<db, durable, cache, lock, reader, writer, batch, committed>>

MutantRetryForever ==
    /\ pruner.pc = "delay"
    /\ IF holders = {} /\ queue = << >>
       THEN holders' = {Pruner} /\ pruner' = [pc |-> "prune"]
       ELSE pruner' = pruner /\ UNCHANGED holders
    /\ UNCHANGED <<db, durable, cache, queue, reader, writer, batch, signal, committed>>

PruneTry ==
    /\ pruner.pc = "delay" /\ pruner.tries < MaxRetries
    /\ IF holders = {} /\ queue = << >>
       THEN holders' = {Pruner} /\ pruner' = [pc |-> "prune"]
       ELSE pruner' = [pruner EXCEPT !.tries = @ + 1] /\ UNCHANGED holders
    /\ UNCHANGED <<db, durable, cache, queue, reader, writer, batch, signal, committed>>

PruneSkip ==
    /\ pruner.pc = "delay" /\ pruner.tries = MaxRetries
    /\ pruner' = Idle
    /\ UNCHANGED <<db, durable, cache, lock, reader, writer, batch, signal, committed>>

(* Pruning drops history below the inactivity floor, no live value; the    *)
(* following sync makes the database durable.  Either may fail.            *)
PruneEnd ==
    /\ pruner.pc = "prune"
    /\ durable' \in {durable, db}
    /\ Leave(Pruner)
    /\ pruner' = Idle
    /\ UNCHANGED <<db, cache, reader, writer, batch, signal, committed>>

-----------------------------------------------------------------------------
(* The process dies and the storage is opened again. *)
Crash ==
    /\ "crash" \in usage
    /\ db' \in {durable, db}
    /\ durable' = db'
    /\ cache' = [k \in Key |-> NotCached]
    /\ holders' = {}
    /\ queue' = << >>
    /\ reader' = [r \in Reader |-> Idle]
    /\ writer' = Idle
    /\ pruner' = Idle
    /\ signal' = FALSE
    /\ UNCHANGED <<batch, committed>>

ReaderStep(r) ==
    \/ LookUp(r) \/ WaitToRead(r) \/ LockRead(r) \/ ReadDb(r) \/ ReadFails(r)
    \/ InsertCache(r) \/ InsertAgain(r) \/ EndRead(r)

StartRead(r) ==
    \/ \E k \in Key : Get(r, k) \/ GetAsync(r, k) \/ Prefetch(r, k)
    \/ \E keys \in SUBSET Key : Cardinality(keys) = 2 /\ GetMany(r, keys)

WriterStep ==
    \/ LockWrite \/ BatchFails \/ ApplyBatch \/ Invalidate \/ EndBatch
    \/ LockCommit \/ CommitFails \/ Sync \/ EndCommit

PrunerStep == PruneWake \/ PruneDrain \/ PruneTry \/ PruneSkip \/ PruneEnd

Next ==
    /\ \/ \E r \in Reader : StartRead(r) \/ ReaderStep(r)
       \/ BeginBatch \/ BeginCommit \/ WriterStep
       \/ PrunerStep
       \/ Crash
    /\ UNCHANGED usage

Spec == Init /\ [][Next]_<<vars, usage>>

(* Every task that was started keeps running, as tokio's scheduler makes   *)
(* it; nobody has to start a new read, batch or commit.                    *)
Fairness ==
    /\ \A r \in Reader : WF_vars(ReaderStep(r))
    /\ WF_vars(WriterStep)
    /\ WF_vars(PrunerStep)

(* Neither the keys nor the readers are told apart. *)
Interchangeable == Permutations(Key) \cup Permutations(Reader)

-----------------------------------------------------------------------------
Versions == 0..MaxBatches

(* Types, and the lock's own promise: a batch in progress or a prune holds *)
(* the lock alone.                                                         *)
TypeOK ==
    /\ db \in [Key -> Versions] /\ durable \in [Key -> Versions]
    /\ cache \in [Key -> Versions \cup {NotCached}]
    /\ holders \subseteq Reader \cup {Writer, Pruner}
    /\ WriteHeld => holders = {Writer}
    /\ Pruner \in holders => holders = {Pruner}

(* A shard never holds more than max_entries entries, with any mix of      *)
(* eviction, insertion and invalidation (CacheShard::insert).              *)
CacheBounded == Cardinality(Entries) <= MaxEntries

(* What a commit reported survives every crash: no key ever goes back      *)
(* behind the last successful commit_state.                                *)
CommittedSurvives == \A k \in Key : db[k] >= committed[k] /\ durable[k] >= committed[k]

(* No read returns a value older than the one left by the last batch that  *)
(* had returned when the read began.  "Invalidate cache entries while      *)
(* still holding the write lock so that no concurrent reader can observe a *)
(* stale cached value".  Violated when a read overlaps a batch: a reader   *)
(* that read before the batch inserts its old value after the              *)
(* invalidation.                                                           *)
ReadsAreCurrent ==
    \A r \in Reader : reader[r].pc = "done" =>
        \A k \in Key : reader[r].got[k] >= reader[r].since[k]

(* When nobody is in the middle of a batch or of filling the cache, every  *)
(* cached value is the database's.                                         *)
CacheCoherent ==
    writer.pc # "invalidate" /\ (\A r \in Reader : reader[r].pc \notin {"insert", "again"}) =>
        \A k \in Entries : cache[k] = db[k]

(* With no read overlapping a batch, no read returns a value older than    *)
(* the one left by the last batch that had returned, and every cached      *)
(* value is the database's whenever nobody is in the middle of a batch or  *)
(* of filling the cache, over crashes too.                                 *)
SerialReadsAreCurrent == Overlap \/ (ReadsAreCurrent /\ CacheCoherent)

(* Every batch and commit that was begun ends, and so does every read,     *)
(* against any number of readers and a prune worker competing for the      *)
(* lock.  Every commit is followed by a try at pruning, and every try ends.*)
EveryoneGetsThrough ==
    /\ writer.pc # "idle" ~> writer.pc = "idle"
    /\ \A r \in Reader : reader[r].pc # "idle" ~> reader[r].pc = "idle"
    /\ signal ~> pruner.pc = "delay"
    /\ pruner.pc = "delay" ~> pruner.pc = "idle"

-----------------------------------------------------------------------------
(* The proofs that CommittedSurvives and CacheBounded hold for any keys,   *)
(* any number of readers and batches, any shard size and crashes at any    *)
(* moment.                                                                 *)

Writers ==
    [pc : {"idle", "commit", "sync", "root"}]
    \cup [pc : {"queued", "merkleize"}, keys : SUBSET Key]
    \cup [pc : {"invalidate"}, keys : SUBSET Key, old : [Key -> Nat]]

(* What is committed is durable, and what is durable is not newer than the *)
(* database; values grow with the batches.  CommittedSurvives alone is not *)
(* inductive: a commit has to find durable what it will report.            *)
Durable ==
    /\ db \in [Key -> Nat] /\ durable \in [Key -> Nat] /\ committed \in [Key -> Nat]
    /\ batch \in Nat /\ writer \in Writers
    /\ \A k \in Key : committed[k] <= durable[k] /\ durable[k] <= db[k] /\ db[k] <= batch
    /\ writer.pc = "root" => durable = db

(* An empty database satisfies Durable.                                    *)
LEMMA DurableInit == Init => Durable
    BY SMTT(60) DEF Init, Durable, Writers, Idle

(* Steps of the readers, and all but one of the prune worker, leave the    *)
(* database and the writer alone.                                          *)
LEMMA DurableReader ==
    ASSUME NEW r \in Reader, StartRead(r) \/ ReaderStep(r)
    PROVE  UNCHANGED <<db, durable, committed, batch, writer>>
    BY Zenon DEF StartRead, ReaderStep, Get, GetAsync, GetMany, Prefetch, Begin, LookUp, WaitToRead, LockRead,
       ReadDb, ReadFails, InsertCache, InsertAgain, EndRead

(* Every step keeps Durable: crashes, failures and prunes included.        *)
LEMMA DurableStep == Durable /\ [Next]_<<vars, usage>> => Durable'
<1> SUFFICES ASSUME Durable, [Next]_<<vars, usage>> PROVE Durable'
    OBVIOUS
<1>1. CASE UNCHANGED <<db, durable, committed, batch, writer>>
    BY Zenon, <1>1 DEF Durable
<1>2. CASE BeginBatch
    <2>1. writer' \in Writers /\ writer'.pc = "queued"
        BY <1>2 DEF BeginBatch, Writers
    <2> QED
        BY <1>2, <2>1 DEF BeginBatch, Durable
<1>3. CASE LockWrite
    <2>1. writer' \in Writers /\ writer'.pc = "merkleize"
        BY <1>3 DEF LockWrite, Writers, Durable
    <2> QED
        BY Zenon, <1>3, <2>1 DEF LockWrite, Durable
<1>4. CASE BatchFails \/ EndBatch \/ CommitFails \/ BeginCommit \/ LockCommit
    <2>1. writer' \in Writers /\ writer'.pc # "root" /\ UNCHANGED <<db, durable, committed, batch>>
        BY <1>4 DEF BatchFails, EndBatch, CommitFails, BeginCommit, LockCommit, Idle, Writers
    <2> QED
        BY Zenon, <2>1 DEF Durable
<1>5. CASE ApplyBatch
    <2>1. writer.keys \subseteq Key
        BY Zenon, <1>5 DEF ApplyBatch, Durable, Writers
    <2>2. writer' \in Writers /\ writer'.pc = "invalidate"
        BY Zenon, <1>5, <2>1 DEF ApplyBatch, Durable, Writers
    <2>3. db' \in [Key -> Nat] /\ \A k \in Key : db[k] <= db'[k] /\ db'[k] <= batch
        BY <1>5 DEF ApplyBatch, Durable
    <2>4. \A k \in Key : durable[k] <= db'[k]
        BY <2>3 DEF Durable
    <2> QED
        BY Zenon, <1>5, <2>2, <2>3, <2>4 DEF ApplyBatch, Durable
<1>6. CASE Invalidate
    <2>1. writer' \in Writers /\ writer'.pc = "invalidate"
        BY <1>6 DEF Invalidate, Durable, Writers
    <2> QED
        BY Zenon, <1>6, <2>1 DEF Invalidate, Durable
<1>7. CASE Sync
    <2>1. writer' \in Writers
        BY <1>7 DEF Sync, Writers
    <2>2. \A k \in Key : committed[k] <= db[k]
        BY DEF Durable
    <2> QED
        BY <1>7, <2>1, <2>2 DEF Sync, Durable
<1>8. CASE EndCommit
    <2>1. writer' \in Writers /\ writer'.pc = "idle"
        BY Zenon, <1>8 DEF EndCommit, Idle, Writers
    <2> QED
        BY Zenon, <1>8, <2>1 DEF EndCommit, Durable
<1>9. CASE PruneEnd
    <2>1. \A k \in Key : committed[k] <= db[k]
        BY DEF Durable
    <2> QED
        BY <1>9, <2>1 DEF PruneEnd, Durable
<1>10. CASE Crash
    <2>1. writer' \in Writers /\ writer'.pc = "idle"
        BY <1>10 DEF Crash, Idle, Writers
    <2>2. \A k \in Key : committed[k] <= db[k] /\ durable[k] <= batch
        BY DEF Durable
    <2> QED
        BY SMTT(60), <1>10, <2>1, <2>2 DEF Crash, Durable
<1>11. CASE PruneWake \/ PruneDrain \/ PruneTry \/ PruneSkip \/ UNCHANGED vars
    BY <1>1, <1>11 DEF PruneWake, PruneDrain, PruneTry, PruneSkip, vars
<1> QED
    BY Zenon, <1>1, <1>2, <1>3, <1>4, <1>5, <1>6, <1>7, <1>8, <1>9, <1>10, <1>11, DurableReader
       DEF Next, WriterStep, PrunerStep

(* Whatever crashes and whatever fails: no key goes back behind the last   *)
(* commit_state that returned.                                             *)
THEOREM CommitsSurvive == Spec => []CommittedSurvives
<1>1. Durable => CommittedSurvives
    BY DEF Durable, CommittedSurvives
<1> QED
    BY <1>1, DurableInit, DurableStep, PTL DEF Spec

-----------------------------------------------------------------------------
Bounded ==
    /\ cache = [k \in Key |-> cache[k]]
    /\ IsFiniteSet(Entries) /\ CacheBounded

(* An empty cache is within its bound.                                     *)
LEMMA BoundedInit == Init => Bounded
<1> SUFFICES ASSUME Init PROVE Bounded
    OBVIOUS
<1>1. Entries = {} /\ cache = [k \in Key |-> cache[k]]
    BY DEF Init, Entries
<1> QED
    BY <1>1, FS_EmptySet, QmdbAssumption DEF Bounded, CacheBounded

(* Fewer entries are still within the limit. *)
LEMMA FewerEntries ==
    ASSUME Bounded, Entries' \subseteq Entries, cache' = [k \in Key |-> cache'[k]]
    PROVE  Bounded'
<1>1. IsFiniteSet(Entries') /\ Cardinality(Entries') <= Cardinality(Entries)
    BY FS_Subset DEF Bounded
<1>2. Cardinality(Entries') \in Nat /\ Cardinality(Entries) \in Nat
    BY Zenon, <1>1, FS_CardinalityType DEF Bounded
<1> QED
    BY SMTT(60), <1>1, <1>2, QmdbAssumption DEF Bounded, CacheBounded

(* A full shard loses at least one entry before it gains one. *)
LEMMA InsertBounded ==
    ASSUME Bounded, NEW key, NEW val, Insert(key, val)
    PROVE  Bounded'
<1> PICK evicted \in SUBSET Key :
        /\ Evicted(evicted)
        /\ cache' = [k \in Key |->
              IF k = key THEN val ELSE IF k \in evicted THEN NotCached ELSE cache[k]]
    BY DEF Insert
<1> DEFINE rest == Entries \ evicted
<1>1. Entries' \subseteq rest \cup {key}
    BY DEF Entries
<1>2. IsFiniteSet(rest) /\ IsFiniteSet(rest \cup {key})
    BY Zenon, FS_Subset, FS_AddElement DEF Bounded
<1>3. Cardinality(rest) + 1 <= MaxEntries
    <2>1. CASE Cardinality(Entries) >= MaxEntries
        <3>1. evicted \subseteq Entries /\ Cardinality(evicted) = MaxEntries \div 2
            BY Zenon, <2>1 DEF Evicted
        <3>2. Cardinality(rest) = Cardinality(Entries) - Cardinality(Entries \cap evicted)
            BY Zenon, FS_Difference DEF Bounded
        <3>3. Entries \cap evicted = evicted
            BY <3>1
        <3>4. MaxEntries \div 2 >= 1 /\ MaxEntries \div 2 \in Nat
            BY QmdbAssumption
        <3>5. Cardinality(Entries) \in Nat /\ Cardinality(Entries) <= MaxEntries
            BY FS_CardinalityType DEF Bounded, CacheBounded
        <3>6. Cardinality(rest) = Cardinality(Entries) - MaxEntries \div 2
            BY ZenonT(60), <3>1, <3>2, <3>3
        <3> HIDE DEF rest
        <3> QED
            BY <3>4, <3>5, <3>6, QmdbAssumption
    <2>2. CASE ~(Cardinality(Entries) >= MaxEntries)
        <3>1. Cardinality(rest) <= Cardinality(Entries)
            BY Zenon, FS_Subset DEF Bounded
        <3>2. Cardinality(rest) \in Nat /\ Cardinality(Entries) \in Nat
            BY Zenon, <1>2, FS_CardinalityType DEF Bounded
        <3> QED
            BY <2>2, <3>1, <3>2, QmdbAssumption
    <2> QED
        BY <2>1, <2>2
<1>4. Cardinality(rest \cup {key}) <= Cardinality(rest) + 1
    <2>1. Cardinality(rest \cup {key}) = IF key \in rest THEN Cardinality(rest) ELSE Cardinality(rest) + 1
        BY Zenon, <1>2, FS_AddElement
    <2>2. Cardinality(rest) \in Nat
        BY Zenon, <1>2, FS_CardinalityType
    <2> QED
        BY SMTT(60), <2>1, <2>2
<1>5. IsFiniteSet(Entries') /\ Cardinality(Entries') <= Cardinality(rest \cup {key})
    BY Zenon, <1>1, <1>2, FS_Subset
<1>6. Cardinality(Entries') \in Nat /\ Cardinality(rest \cup {key}) \in Nat /\ Cardinality(rest) \in Nat
    BY Zenon, <1>2, <1>5, FS_CardinalityType
<1>7. cache' = [k \in Key |-> cache'[k]]
    BY Zenon
<1> HIDE DEF rest
<1> QED
    BY SMTT(60), <1>3, <1>4, <1>5, <1>6, <1>7, QmdbAssumption DEF Bounded, CacheBounded

(* Every step keeps the cache within its bound.                            *)
LEMMA BoundedStep == Bounded /\ [Next]_<<vars, usage>> => Bounded'
<1> SUFFICES ASSUME Bounded, [Next]_<<vars, usage>> PROVE Bounded'
    BY Zenon
<1>1. CASE UNCHANGED cache
    BY Zenon, <1>1 DEF Bounded, CacheBounded, Entries
<1>2. ASSUME NEW r \in Reader, StartRead(r) \/ ReaderStep(r)
      PROVE  Bounded'
    <2>1. CASE InsertCache(r)
        BY Zenon, <2>1, InsertBounded DEF InsertCache
    <2>2. CASE InsertAgain(r)
        BY Zenon, <2>2, InsertBounded DEF InsertAgain
    <2> QED
        BY ZenonT(60), <1>1, <1>2, <2>1, <2>2 DEF StartRead, ReaderStep, Get, GetAsync, GetMany, Prefetch, Begin,
           LookUp, WaitToRead, LockRead, ReadDb, ReadFails, EndRead
<1>3. CASE Invalidate
    <2> PICK k \in writer.keys : cache' = [cache EXCEPT ![k] = NotCached]
        BY Zenon, <1>3 DEF Invalidate
    <2>1. cache' = [j \in Key |-> IF j = k THEN NotCached ELSE cache[j]]
        BY DEF Bounded
    <2>2. Entries' \subseteq Entries /\ cache' = [j \in Key |-> cache'[j]]
        BY Zenon, <2>1 DEF Entries
    <2> QED
        BY Zenon, <2>2, FewerEntries
<1>4. CASE Crash
    <2>1. Entries' \subseteq Entries /\ cache' = [j \in Key |-> cache'[j]]
        BY Zenon, <1>4 DEF Crash, Entries
    <2> QED
        BY <2>1, FewerEntries
<1>5. CASE BeginBatch \/ BeginCommit \/ LockWrite \/ BatchFails \/ ApplyBatch \/ EndBatch
           \/ LockCommit \/ CommitFails \/ Sync \/ EndCommit \/ PrunerStep \/ UNCHANGED vars
    BY ZenonT(60), <1>1, <1>5 DEF BeginBatch, BeginCommit, LockWrite, BatchFails, ApplyBatch, EndBatch, LockCommit,
       CommitFails, Sync, EndCommit, PrunerStep, PruneWake, PruneDrain, PruneTry, PruneSkip, PruneEnd, vars
<1> QED
    BY Zenon, <1>2, <1>3, <1>4, <1>5 DEF Next, WriterStep

(* For any size of a shard: reads, evictions and invalidations in any      *)
(* order leave at most max_entries entries (CacheShard::insert).           *)
THEOREM CacheStaysBounded == Spec => []CacheBounded
<1>1. Bounded => CacheBounded
    BY Zenon DEF Bounded
<1> QED
    BY <1>1, BoundedInit, BoundedStep, PTL DEF Spec
-----------------------------------------------------------------------------
ReadKinds == {"get", "async", "many", "warm"}

Readers ==
    [pc : {"idle"}]
    \cup [pc : {"look", "miss", "queued", "locked", "insert", "again", "done"}, kind : ReadKinds,
          todo : SUBSET Key, misses : SUBSET Key, got : [Key -> Int], since : [Key -> Int]]

Batching == writer.pc \in {"queued", "merkleize", "invalidate"}

(* What a read that no batch overlaps knows of key k: whatever it noted or *)
(* got is still in the database, and a key it was asked for is yet to be   *)
(* looked up, yet to be read, or in hand.                                  *)
Knows(read, k) ==
    /\ read.got[k] \in {NotCached, db[k]}
    /\ read.since[k] \in {NotCached, db[k]}
    /\ k \in read.todo \cup read.misses => read.since[k] = db[k]
    /\ read.since[k] = db[k] =>
         \/ read.pc = "look" /\ k \in read.todo
         \/ read.pc \in {"look", "miss", "queued", "locked"} /\ k \in read.misses
         \/ read.got[k] = db[k]

(* The invariant behind SerialReadsAreCurrent.  Without overlap a batch    *)
(* finds every reader idle, a cached value is the database's but for the   *)
(* keys a batch has yet to invalidate, and every read knows its keys.      *)
Serial ==
    /\ reader \in [Reader -> Readers] /\ cache \in [Key -> Int]
    /\ ~Overlap =>
        /\ Batching => \A r \in Reader : reader[r].pc = "idle"
        /\ \A k \in Key : cache[k] \in {NotCached, db[k]} \/ (writer.pc = "invalidate" /\ k \in writer.keys)
        /\ \A r \in Reader : reader[r].pc # "idle" => \A k \in Key : Knows(reader[r], k)

(* Serial holds when nobody has read yet.                                  *)
LEMMA SerialInit == Init => Serial
<1> SUFFICES ASSUME Init PROVE Serial
    BY Zenon
<1>1. Idle \in Readers /\ Idle.pc = "idle"
    BY Zenon DEF Idle, Readers
<1>2. reader \in [Reader -> Readers] /\ \A r \in Reader : reader[r].pc = "idle"
    BY Zenon, <1>1 DEF Init
<1>3. cache \in [Key -> Int] /\ \A k \in Key : cache[k] = NotCached
    BY SMTT(60) DEF Init, NotCached
<1> QED
    BY Zenon, <1>2, <1>3 DEF Serial

(* A step of one reader, to what it knows next. *)
LEMMA ReaderMoves ==
    ASSUME Serial, NEW r \in Reader, NEW x \in Readers, reader' = [reader EXCEPT ![r] = x],
           UNCHANGED <<db, writer, usage>>, cache' \in [Key -> Int],
           ~Overlap => \A k \in Key : cache'[k] \in {cache[k], NotCached, db[k]},
           ~Overlap /\ x.pc # "idle" => ~Batching /\ \A k \in Key : Knows(x, k)
    PROVE  Serial'
<1>1. reader' \in [Reader -> Readers] /\ \A q \in Reader : reader'[q] = IF q = r THEN x ELSE reader[q]
    BY Zenon DEF Serial
<1>2. Overlap' = Overlap /\ Batching' = Batching /\ \A read, k : Knows(read, k)' <=> Knows(read, k)
    BY SMTT(60) DEF Overlap, Batching, Knows
<1> SUFFICES ASSUME ~Overlap
             PROVE  /\ Batching => \A q \in Reader : reader'[q].pc = "idle"
                    /\ \A k \in Key : cache'[k] \in {NotCached, db[k]}
                                     \/ (writer.pc = "invalidate" /\ k \in writer.keys)
                    /\ \A q \in Reader : reader'[q].pc # "idle" => \A k \in Key : Knows(reader'[q], k)
    BY SMTT(60), <1>1, <1>2 DEF Serial, Overlap, Batching, Knows
<1>3. Batching => \A q \in Reader : reader'[q].pc = "idle"
    BY <1>1 DEF Serial
<1>4. \A k \in Key : cache'[k] \in {NotCached, db[k]} \/ (writer.pc = "invalidate" /\ k \in writer.keys)
    BY DEF Serial
<1>5. \A q \in Reader : reader'[q].pc # "idle" => \A k \in Key : Knows(reader'[q], k)
    BY <1>1 DEF Serial
<1> QED
    BY Zenon, <1>3, <1>4, <1>5

(* A read that a batch does not overlap begins knowing nothing but the     *)
(* values it must not fall behind.                                         *)
LEMMA SerialBegin ==
    ASSUME Serial, Durable, NEW r \in Reader, NEW kind \in ReadKinds, NEW keys \in SUBSET Key,
           Begin(r, kind, keys), UNCHANGED usage
    PROVE  Serial'
<1> DEFINE x == [pc |-> "look", kind |-> kind, todo |-> keys, misses |-> {},
                 got |-> [k \in Key |-> NotCached],
                 since |-> [k \in Key |-> IF k \in keys THEN Settled[k] ELSE NotCached]]
<1>1. Settled \in [Key -> Nat] /\ (~Batching => Settled = db)
    BY DEF Settled, Durable, Writers, Batching
<1>2. x \in Readers
    BY SMTT(60), <1>1 DEF Readers, NotCached
<1>3. reader' = [reader EXCEPT ![r] = x] /\ UNCHANGED <<db, writer, usage>> /\ UNCHANGED cache
    BY Zenon DEF Begin
<1>4. ~Overlap => ~Batching
    BY Zenon DEF Begin, Batching
<1>5. ~Overlap => \A k \in Key : Knows(x, k)
    BY Zenon, <1>1, <1>4 DEF Knows
<1> HIDE DEF x
<1>6. cache \in [Key -> Int]
    BY DEF Serial
<1> QED
    BY ZenonT(60), <1>2, <1>3, <1>4, <1>5, <1>6, ReaderMoves

(* A read that begins notes what the database holds.                       *)
LEMMA SerialStartRead ==
    ASSUME Serial, Durable, NEW r \in Reader, StartRead(r), UNCHANGED usage
    PROVE  Serial'
<1>1. ASSUME NEW k \in Key, Get(r, k) \/ GetAsync(r, k) \/ Prefetch(r, k) PROVE Serial'
    <2>1. \A kind \in ReadKinds : Begin(r, kind, {k}) => Serial'
        BY Zenon, SerialBegin
    <2> QED
        BY <1>1, <2>1 DEF Get, GetAsync, Prefetch, ReadKinds
<1>2. ASSUME NEW keys \in SUBSET Key, GetMany(r, keys) PROVE Serial'
    <2>1. \A kind \in ReadKinds : Begin(r, kind, keys) => Serial'
        BY SerialBegin
    <2> QED
        BY <1>2, <2>1 DEF GetMany, ReadKinds
<1> QED
    BY <1>1, <1>2 DEF StartRead

(* What a reader in the middle of a read knows. *)
LEMMA ReaderKnows ==
    ASSUME Serial, NEW r \in Reader, reader[r].pc # "idle"
    PROVE  /\ reader[r] \in [pc : {"look", "miss", "queued", "locked", "insert", "again", "done"},
                             kind : ReadKinds, todo : SUBSET Key, misses : SUBSET Key,
                             got : [Key -> Int], since : [Key -> Int]]
           /\ ~Overlap => ~Batching /\ \A k \in Key : Knows(reader[r], k)
    BY Zenon DEF Serial, Readers

(* A lookup in the cache finds what the database holds, or nothing.        *)
LEMMA SerialLookUp ==
    ASSUME Serial, Durable, NEW r \in Reader, LookUp(r), UNCHANGED usage
    PROVE  Serial'
<1>1. PICK k \in reader[r].todo :
        LET todo == reader[r].todo \ {k}
            misses == reader[r].misses \cup (IF cache[k] = NotCached THEN {k} ELSE {})
        IN reader' = [reader EXCEPT
              ![r].got[k] = cache[k], ![r].todo = todo, ![r].misses = misses,
              ![r].pc = CASE todo # {} -> "look"
                          [] todo = {} /\ misses # {} -> "miss"
                          [] todo = {} /\ misses = {} -> IF reader[r].kind = "warm" THEN "again" ELSE "done"]
    BY Zenon DEF LookUp
<1> DEFINE old == reader[r]
           todo == old.todo \ {k}
           misses == old.misses \cup (IF cache[k] = NotCached THEN {k} ELSE {})
           pc == CASE todo # {} -> "look"
                   [] todo = {} /\ misses # {} -> "miss"
                   [] todo = {} /\ misses = {} -> IF old.kind = "warm" THEN "again" ELSE "done"
           x == [pc |-> pc, kind |-> old.kind, todo |-> todo, misses |-> misses,
                 got |-> [old.got EXCEPT ![k] = cache[k]], since |-> old.since]
<1>2. /\ old \in [pc : {"look", "miss", "queued", "locked", "insert", "again", "done"},
                  kind : ReadKinds, todo : SUBSET Key, misses : SUBSET Key, got : [Key -> Int], since : [Key -> Int]]
      /\ ~Overlap => ~Batching /\ \A j \in Key : Knows(old, j)
    BY Zenon, ReaderKnows DEF LookUp
<1>3. old.pc = "look" /\ UNCHANGED <<db, writer, usage>> /\ UNCHANGED cache
    BY Zenon DEF LookUp
<1>4. reader' = [reader EXCEPT ![r] = x]
    BY SMTT(60), <1>1, <1>2 DEF Serial
<1>5. /\ todo # {} => pc = "look"
      /\ todo = {} /\ misses # {} => pc = "miss"
      /\ todo = {} /\ misses = {} => pc \in {"again", "done"}
    BY Zenon
<1>6. k \in Key /\ cache \in [Key -> Int] /\ pc \in {"look", "miss", "again", "done"}
    BY Zenon, <1>2, <1>5 DEF Serial
<1>7. x \in Readers
    BY SMTT(60), <1>2, <1>6 DEF Readers
<1>8. ASSUME ~Overlap, NEW j \in Key PROVE Knows(x, j)
    <2>1. Knows(old, j) /\ ~Batching
        BY Zenon, <1>2, <1>8
    <2>2. cache[j] \in {NotCached, db[j]}
        BY Zenon, <1>8, <2>1 DEF Serial, Batching
    <2>3. x.todo = todo /\ x.misses = misses /\ x.pc = pc /\ x.since = old.since
          /\ x.got[j] = IF j = k THEN cache[k] ELSE old.got[j]
        BY Zenon, <1>2, <1>6
    <2>4. db[j] # NotCached
        BY SMTT(60) DEF Durable, NotCached
    <2> HIDE DEF x, pc
    <2>5. CASE j = k
        BY Zenon, <1>3, <1>5, <2>1, <2>2, <2>3, <2>4, <2>5 DEF Knows
    <2>6. CASE j # k
        BY SMTT(60), <1>3, <1>5, <2>1, <2>2, <2>3, <2>4, <2>6 DEF Knows
    <2> QED
        BY Zenon, <2>5, <2>6
<1> HIDE DEF x
<1> QED
    BY ZenonT(60), <1>2, <1>3, <1>4, <1>6, <1>7, <1>8, ReaderMoves

(* Waiting for the lock, taking it, and an answer change nothing but the   *)
(* reader's step.                                                          *)
LEMMA SerialWaiting ==
    ASSUME Serial, Durable, NEW r \in Reader, UNCHANGED usage,
           WaitToRead(r) \/ LockRead(r) \/ ReadFails(r) \/ EndRead(r)
    PROVE  Serial'
<1>1. UNCHANGED <<db, writer, usage>> /\ UNCHANGED cache /\ cache \in [Key -> Int]
    BY DEF WaitToRead, LockRead, ReadFails, EndRead, Serial
<1>2. CASE ReadFails(r) \/ EndRead(r)
    <2>1. Idle \in Readers /\ Idle.pc = "idle" /\ reader' = [reader EXCEPT ![r] = Idle]
        BY <1>2 DEF Idle, Readers, ReadFails, EndRead
    <2> QED
        BY ZenonT(60), <1>1, <2>1, ReaderMoves
<1>3. ASSUME NEW pc \in {"queued", "locked"}, reader[r].pc \in {"miss", "queued"},
             reader' = [reader EXCEPT ![r].pc = pc]
      PROVE  Serial'
    <2> DEFINE old == reader[r]
               x == [old EXCEPT !.pc = pc]
    <2>1. /\ old \in [pc : {"look", "miss", "queued", "locked", "insert", "again", "done"}, kind : ReadKinds,
                      todo : SUBSET Key, misses : SUBSET Key, got : [Key -> Int], since : [Key -> Int]]
          /\ ~Overlap => ~Batching /\ \A j \in Key : Knows(old, j)
        BY Zenon, <1>3, ReaderKnows
    <2>2. x \in Readers /\ reader' = [reader EXCEPT ![r] = x]
        BY Zenon, <1>3, <2>1 DEF Readers, Serial
    <2>3. x.todo = old.todo /\ x.misses = old.misses /\ x.got = old.got /\ x.since = old.since /\ x.pc = pc
        BY <2>1
    <2> HIDE DEF x
    <2>4. ~Overlap => \A j \in Key : Knows(x, j)
        BY SMTT(60), <1>3, <2>1, <2>3 DEF Knows
    <2> QED
        BY ZenonT(60), <1>1, <2>1, <2>2, <2>3, <2>4, ReaderMoves
<1> QED
    BY SMTT(60), <1>2, <1>3 DEF WaitToRead, LockRead

(* A read under the lock gets what the database holds.                     *)
LEMMA SerialReadDb ==
    ASSUME Serial, Durable, NEW r \in Reader, ReadDb(r), UNCHANGED usage
    PROVE  Serial'
<1> DEFINE old == reader[r]
           pc == IF old.kind = "async" THEN "done" ELSE "insert"
           got == [k \in Key |-> IF k \in old.misses THEN db[k] ELSE old.got[k]]
           x == [old EXCEPT !.pc = pc, !.got = got]
<1>1. /\ old \in [pc : {"look", "miss", "queued", "locked", "insert", "again", "done"}, kind : ReadKinds,
                  todo : SUBSET Key, misses : SUBSET Key, got : [Key -> Int], since : [Key -> Int]]
      /\ ~Overlap => ~Batching /\ \A j \in Key : Knows(old, j)
    BY ReaderKnows DEF ReadDb
<1>2. old.pc = "locked" /\ UNCHANGED <<db, writer, usage>> /\ UNCHANGED cache /\ cache \in [Key -> Int]
    BY DEF ReadDb, Serial
<1>3. reader' = [reader EXCEPT ![r] = x]
    BY Zenon, <1>1 DEF ReadDb, Serial
<1>4. got \in [Key -> Int] /\ pc \in {"done", "insert"}
    BY <1>1 DEF Durable
<1>5. x \in Readers
    BY ZenonT(60), <1>1, <1>4 DEF Readers
<1>6. ASSUME ~Overlap, NEW j \in Key PROVE Knows(x, j)
    <2>1. x.todo = old.todo /\ x.misses = old.misses /\ x.since = old.since /\ x.pc = pc
          /\ x.got[j] = IF j \in old.misses THEN db[j] ELSE old.got[j]
        BY Zenon, <1>1
    <2> HIDE DEF x, pc
    <2> QED
        BY ZenonT(60), <1>1, <1>2, <1>6, <2>1 DEF Knows
<1> HIDE DEF x
<1> QED
    BY Zenon, <1>1, <1>2, <1>3, <1>5, <1>6, ReaderMoves

(* What a reader inserts into the cache is what the database holds.        *)
LEMMA SerialInserts ==
    ASSUME Serial, Durable, NEW r \in Reader, InsertCache(r) \/ InsertAgain(r), UNCHANGED usage
    PROVE  Serial'
<1> DEFINE old == reader[r]
<1>1. /\ old \in [pc : {"look", "miss", "queued", "locked", "insert", "again", "done"}, kind : ReadKinds,
                  todo : SUBSET Key, misses : SUBSET Key, got : [Key -> Int], since : [Key -> Int]]
      /\ ~Overlap => ~Batching /\ \A j \in Key : Knows(old, j)
      /\ old.pc \in {"insert", "again"}
    BY ReaderKnows DEF InsertCache, InsertAgain
<1>2. PICK k \in Key, drop \in SUBSET Key, pc \in {"insert", "again", "done"} :
        /\ Insert(k, old.got[k])
        /\ k \in old.misses \/ old.since[k] # NotCached
        /\ reader' = [reader EXCEPT ![r].misses = @ \ drop, ![r].pc = pc]
    <2>1. CASE InsertCache(r)
        <3>1. PICK k \in old.misses :
                /\ Insert(k, old.got[k])
                /\ reader' = [reader EXCEPT ![r].misses = @ \ {k},
                      ![r].pc = IF old.misses # {k} THEN "insert"
                                ELSE IF old.kind = "warm" THEN "again" ELSE "done"]
            BY ZenonT(60), <2>1 DEF InsertCache
        <3>2. k \in Key /\ {k} \in SUBSET Key
            BY Zenon, <1>1
        <3> QED
            BY ZenonT(60), <3>1, <3>2
    <2>2. CASE InsertAgain(r)
        <3>1. PICK k \in Key : old.since[k] # NotCached /\ Insert(k, old.got[k])
            BY Zenon, <2>2 DEF InsertAgain
        <3>2. reader' = [reader EXCEPT ![r].misses = @ \ {}, ![r].pc = "done"]
            BY ZenonT(60), <1>1, <2>2 DEF InsertAgain, Serial
        <3> QED
            BY ZenonT(60), <3>1, <3>2
    <2> QED
        BY ZenonT(60), <2>1, <2>2
<1> DEFINE x == [old EXCEPT !.misses = @ \ drop, !.pc = pc]
<1>3. UNCHANGED <<db, writer, usage>> /\ cache \in [Key -> Int]
    BY DEF InsertCache, InsertAgain, Serial
<1>4. reader' = [reader EXCEPT ![r] = x] /\ x \in Readers
    BY ZenonT(60), <1>1, <1>2 DEF Serial, Readers
<1>5. PICK evicted \in SUBSET Key : cache' = [j \in Key |->
        IF j = k THEN old.got[k] ELSE IF j \in evicted THEN NotCached ELSE cache[j]]
    BY Zenon, <1>2 DEF Insert
<1>6. cache' \in [Key -> Int]
    BY SMTT(60), <1>1, <1>3, <1>5 DEF NotCached
<1>7. ~Overlap => \A j \in Key : cache'[j] \in {cache[j], NotCached, db[j]}
    BY Zenon, <1>1, <1>5 DEF Knows
<1>8. ASSUME ~Overlap, NEW j \in Key PROVE Knows(x, j)
    <2>1. x.todo = old.todo /\ x.misses \subseteq old.misses /\ x.since = old.since /\ x.pc = pc /\ x.got = old.got
        BY Zenon, <1>1
    <2> HIDE DEF x
    <2> QED
        BY Zenon, <1>1, <1>2, <1>8, <2>1 DEF Knows
<1> HIDE DEF x
<1> QED
    BY ZenonT(60), <1>1, <1>3, <1>4, <1>6, <1>7, <1>8, ReaderMoves

(* Steps of the others: of the cache and the database only a batch and a   *)
(* crash change anything, and both find no reader at work.                 *)
LEMMA SerialWriter ==
    ASSUME Serial, Durable, BeginBatch \/ BeginCommit \/ WriterStep, UNCHANGED usage
    PROVE  Serial'
<1>1. UNCHANGED reader /\ Overlap' = Overlap
    BY Zenon DEF BeginBatch, BeginCommit, WriterStep, LockWrite, BatchFails, ApplyBatch, Invalidate, EndBatch,
       LockCommit, CommitFails, Sync, EndCommit, Overlap
<1>2. reader \in [Reader -> Readers] /\ cache \in [Key -> Int]
    BY Zenon DEF Serial
<1>3. CASE BeginBatch
    <2>1. UNCHANGED <<db, cache, reader>> /\ writer.pc = "idle" /\ writer'.pc = "queued"
        BY SMTT(60), <1>3 DEF BeginBatch
    <2>2. ~Overlap => \A r \in Reader : reader[r].pc = "idle"
        BY Zenon, <1>3 DEF BeginBatch
    <2> QED
        BY Zenon, <1>1, <1>2, <2>1, <2>2 DEF Serial, Batching, Knows
<1>4. CASE LockWrite
    <2>1. UNCHANGED <<db, cache, reader>> /\ writer.pc = "queued" /\ writer'.pc = "merkleize"
        BY Zenon, <1>4 DEF LockWrite, Durable, Writers
    <2> QED
        BY Zenon, <1>1, <1>2, <2>1 DEF Serial, Batching, Knows
<1>5. CASE BatchFails \/ BeginCommit \/ LockCommit \/ CommitFails \/ Sync \/ EndCommit
    <2>1. /\ UNCHANGED <<db, cache, reader>>
          /\ writer.pc # "invalidate" /\ writer'.pc \notin {"queued", "merkleize", "invalidate"}
        BY SMTT(60), <1>5 DEF BatchFails, BeginCommit, LockCommit, CommitFails, Sync, EndCommit, Idle
    <2> QED
        BY SMTT(60), <1>1, <1>2, <2>1 DEF Serial, Batching, Knows
<1>6. CASE EndBatch
    <2>1. /\ UNCHANGED <<db, cache, reader>>
          /\ writer.pc = "invalidate" /\ writer.keys = {} /\ writer'.pc = "idle"
        BY Zenon, <1>6 DEF EndBatch, Idle
    <2> QED
        BY Zenon, <1>1, <1>2, <2>1 DEF Serial, Batching, Knows
<1>7. CASE ApplyBatch
    <2>1. /\ UNCHANGED <<cache, reader>> /\ writer.pc = "merkleize"
          /\ writer'.pc = "invalidate" /\ writer'.keys = writer.keys
          /\ \A k \in Key : k \notin writer.keys => db'[k] = db[k]
        BY Zenon, <1>7 DEF ApplyBatch
    <2>2. ~Overlap => \A r \in Reader : reader[r].pc = "idle"
        BY Zenon, <2>1 DEF Serial, Batching
    <2> QED
        BY Zenon, <1>1, <1>2, <2>1, <2>2 DEF Serial, Batching
<1>8. CASE Invalidate
    <2>1. PICK k \in writer.keys : cache' = [cache EXCEPT ![k] = NotCached] /\ writer' = [writer EXCEPT !.keys = @ \ {k}]
        BY ZenonT(60), <1>8 DEF Invalidate
    <2>2. writer.pc = "invalidate" /\ writer'.pc = "invalidate" /\ writer'.keys = writer.keys \ {k} /\ UNCHANGED db
        BY <1>8, <2>1 DEF Invalidate, Durable, Writers
    <2>3. ~Overlap => \A r \in Reader : reader[r].pc = "idle"
        BY <2>2 DEF Serial, Batching
    <2>4. NotCached \in Int /\ writer.keys \subseteq Key
        BY <2>2 DEF NotCached, Durable, Writers
    <2>5. cache' \in [Key -> Int] /\ \A j \in Key : cache'[j] = IF j = k THEN NotCached ELSE cache[j]
        BY ZenonT(60), <1>2, <2>1, <2>4
    <2> QED
        BY Zenon, <1>1, <1>2, <2>2, <2>3, <2>5 DEF Serial, Batching
<1> QED
    BY Zenon, <1>3, <1>4, <1>5, <1>6, <1>7, <1>8 DEF WriterStep

(* Every step keeps Serial.                                                *)
LEMMA SerialStep == Serial /\ Durable /\ [Next]_<<vars, usage>> => Serial'
<1> SUFFICES ASSUME Serial, Durable, [Next]_<<vars, usage>> PROVE Serial'
    BY Zenon
<1>1. UNCHANGED usage
    BY Zenon DEF Next
<1>2. ASSUME NEW r \in Reader, StartRead(r) \/ ReaderStep(r) PROVE Serial'
    BY ZenonT(60), <1>1, <1>2, SerialStartRead, SerialLookUp, SerialWaiting, SerialReadDb, SerialInserts DEF ReaderStep
<1>3. CASE PrunerStep \/ UNCHANGED vars
    <2>1. UNCHANGED <<db, cache, reader, writer, usage>>
        BY Zenon, <1>1, <1>3 DEF PrunerStep, PruneWake, PruneDrain, PruneTry, PruneSkip, PruneEnd, vars
    <2> QED
        BY SMTT(60), <2>1 DEF Serial, Overlap, Batching, Knows
<1>4. CASE Crash
    <2>1. Idle \in Readers /\ Idle.pc = "idle"
        BY Zenon DEF Idle, Readers
    <2>2. reader' \in [Reader -> Readers] /\ \A r \in Reader : reader'[r].pc = "idle"
        BY Zenon, <1>4, <2>1 DEF Crash
    <2>3. cache' \in [Key -> Int] /\ \A k \in Key : cache'[k] = NotCached
        BY SMTT(60), <1>4 DEF Crash, NotCached
    <2> QED
        BY Zenon, <2>2, <2>3 DEF Serial
<1> QED
    BY ZenonT(60), <1>1, <1>2, <1>3, <1>4, SerialWriter DEF Next

(* For any keys, readers, batches and shard size, and over any crashes:    *)
(* reads that overlap no batch are never stale and leave nothing stale in  *)
(* the cache (get, get_async, get_many, prefetch_keys against apply_batch).*)
THEOREM SerialReadsStayCurrent == Spec => []SerialReadsAreCurrent
<1>1. Serial /\ Durable => SerialReadsAreCurrent
    <2> SUFFICES ASSUME Serial, Durable, ~Overlap PROVE ReadsAreCurrent /\ CacheCoherent
        BY Zenon DEF SerialReadsAreCurrent
    <2>1. ASSUME NEW r \in Reader, reader[r].pc = "done", NEW k \in Key
          PROVE  reader[r].got[k] >= reader[r].since[k]
        <3>1. Knows(reader[r], k) /\ db[k] \in Nat
            BY Zenon, <2>1 DEF Serial, Durable
        <3> QED
            BY SMTT(60), <2>1, <3>1 DEF Knows, NotCached
    <2>2. CacheCoherent
        BY DEF CacheCoherent, Entries, Serial
    <2> QED
        BY Zenon, <2>1, <2>2 DEF ReadsAreCurrent
<1> QED
    BY <1>1, DurableInit, DurableStep, SerialInit, SerialStep, PTL DEF Spec
=============================================================================
