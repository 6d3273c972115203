----------------------------- MODULE MinioCache -----------------------------
(***************************************************************************)
(* The MinIO file cache (minio/csrc/minio/minio.c) as its processes use    *)
(* it: a hash table in memory shared since before the fork, data in POSIX  *)
(* shm objects named after the path, two atomic counters that hand out     *)
(* table slots and bytes, a spinlock on the table and spinlocks on the     *)
(* entries.  Nothing is ever evicted; cache_flush empties the cache.       *)
(*                                                                         *)
(* A process runs one call at a time.  A call is one action per atomic     *)
(* access to shared memory or critical section.  The hash table is what    *)
(* uthash makes of it (minio/csrc/include/uthash.h): the entries in the    *)
(* order they were added, linked by their hh.next fields, which a flush    *)
(* leaves as they are.                                                     *)
(***************************************************************************)
EXTENDS Naturals, FiniteSets, SequencesExt

CONSTANTS
    Proc,          \* processes that share the cache
    File,          \* paths
    Size,          \* Size[f]: bytes in file f
    ShmPath,       \* ShmPath[f]: f with '/' replaced by '_'
    Missing,       \* files that do not open
    CacheSize,     \* c->size
    MaxItemSize,   \* c->max_item_size
    MaxUsable,     \* max_size of cache_read: the caller's buffer
    MaxEntries,    \* c->max_ht_entries
    Locks, LockId, \* LockId[s]: entry_locks index of slot s
    ShmMayFail,    \* TRUE: shm_open, ftruncate or mmap may fail
    MayFlush,      \* TRUE: cache_flush may be called
    MaxCalls,      \* bound on the calls made, for model checking
    None

Slot == 0 .. (MaxEntries - 1)

\* What a shm object holds whose writer died: its size, but not the file's bytes.
Unwritten == "unwritten"

ASSUME MinioAssumption ==
    /\ IsFiniteSet(Proc)
    /\ Size \in [File -> Nat]
    /\ DOMAIN ShmPath = File
    /\ Missing \subseteq File
    /\ CacheSize \in Nat
    /\ MaxItemSize \in Nat
    /\ MaxUsable \in Nat
    /\ MaxEntries \in Nat \ {0}
    /\ LockId \in [Slot -> Locks]
    /\ ShmMayFail \in BOOLEAN
    /\ MayFlush \in BOOLEAN
    /\ MaxCalls \in Nat
    /\ None \notin File \union Slot \union Proc
    /\ Unwritten \notin File \union {None}

VARIABLES
    n_ht_entries,   \* next slot to hand out
    used,           \* bytes handed out
    path,           \* path[s]: entry s's path, None before it has one
    next,           \* next[s]: entry s's hh.next
    table,          \* the slots in the hash table, in the order they were added
    shm,            \* shm[n]: the file whose bytes the object named n holds, None if
                    \* there is no such object
    ht_lock,        \* the process that holds it, or None
    entry_locks,    \* the same for each entry lock
    pc, call, file, slot,  \* of each process: where it is, in which call, on what
    stat,           \* the statistics counters
    calls           \* calls made so far

cacheVars == <<n_ht_entries, used, path, next, table, shm>>
lockVars == <<ht_lock, entry_locks>>
vars == <<cacheVars, lockVars, pc, call, file, slot, stat, calls>>

Stats == {"n_accs", "n_hits", "n_miss_cold", "n_miss_capacity", "n_fail"}

Init ==
    /\ n_ht_entries = 0
    /\ used = 0
    /\ path = [s \in Slot |-> None]
    /\ next = [s \in Slot |-> None]
    /\ table = <<>>
    /\ shm = [n \in {ShmPath[f] : f \in File} |-> None]
    /\ ht_lock = None
    /\ entry_locks = [l \in Locks |-> None]
    /\ pc = [p \in Proc |-> "idle"]
    /\ call = [p \in Proc |-> "none"]
    /\ file = [p \in Proc |-> None]
    /\ slot = [p \in Proc |-> None]
    /\ stat = [k \in Stats |-> 0]
    /\ calls = 0

-----------------------------------------------------------------------------
(* Calls and their statistics.                                             *)

\* STAT_INC
Counted(k) == [stat EXCEPT ![k] = @ + 1]

Goto(p, l) == pc' = [pc EXCEPT ![p] = l]

Begin(p, what, f, l) ==
    /\ pc[p] = "idle"
    /\ calls < MaxCalls
    /\ calls' = calls + 1
    /\ call' = [call EXCEPT ![p] = what]
    /\ file' = [file EXCEPT ![p] = f]
    /\ Goto(p, l)

Return(p) ==
    /\ Goto(p, "idle")
    /\ slot' = [slot EXCEPT ![p] = None]
    /\ UNCHANGED <<call, file, calls>>

\* Mutation of ReturnCounting: PyCache.load and PyCache.store count, too.
CountsEveryCall(p, k) == Return(p) /\ stat' = Counted(k)

\* Only cache_read counts; k is what it counts on this way out.
ReturnCounting(p, k) ==
    /\ Return(p)
    /\ stat' = IF call[p] = "read" THEN Counted(k) ELSE stat

cache_read(p, f) ==
    /\ Begin(p, "read", f, "find")
    /\ stat' = Counted("n_accs")
    /\ UNCHANGED <<cacheVars, lockVars, slot>>

\* PyCache.load
cache_load(p, f) ==
    /\ Begin(p, "load", f, "find")
    /\ UNCHANGED <<cacheVars, lockVars, slot, stat>>

\* PyCache.store, with the file's own bytes
cache_store(p, f) ==
    /\ Begin(p, "store", f, "store")
    /\ UNCHANGED <<cacheVars, lockVars, slot, stat>>

-----------------------------------------------------------------------------
(* cache_load: find under ht_lock, take the entry's lock, release ht_lock, *)
(* copy, release.                                                          *)

Cached(f) == {i \in DOMAIN table : path[table[i]] = f}

\* HASH_FIND: entries are added at the front of their bucket.
Found(f) == table[CHOOSE i \in Cached(f) : \A j \in Cached(f) : j <= i]

\* Mutation of LockAfterMiss: no unlock on the way out.
KeepsLock(p) == p

LockAfterMiss(p) == None

find_miss(p) ==
    /\ pc[p] = "find"
    /\ ht_lock = None
    /\ Cached(file[p]) = {}
    /\ ht_lock' = LockAfterMiss(p)
    /\ IF call[p] = "read"
       THEN Goto(p, "open") /\ UNCHANGED <<slot, call, file, calls>>
       ELSE Return(p)
    /\ UNCHANGED <<cacheVars, entry_locks, stat>>

find_hit(p) ==
    /\ pc[p] = "find"
    /\ ht_lock = None
    /\ Cached(file[p]) # {}
    /\ ht_lock' = p
    /\ slot' = [slot EXCEPT ![p] = Found(file[p])]
    /\ Goto(p, "couple")
    /\ UNCHANGED <<cacheVars, entry_locks, call, file, stat, calls>>

couple(p) ==
    /\ pc[p] = "couple"
    /\ entry_locks[LockId[slot[p]]] = None
    /\ entry_locks' = [entry_locks EXCEPT ![LockId[slot[p]]] = p]
    /\ ht_lock' = None
    /\ Goto(p, "copy")
    /\ UNCHANGED <<cacheVars, slot, call, file, stat, calls>>

Name(s) == ShmPath[path[s]]

Buffer(p) == IF call[p] = "read" THEN MaxUsable ELSE MaxItemSize

\* An entry larger than the buffer is EINVAL, and no hit.
copy(p) ==
    /\ pc[p] = "copy"
    /\ shm[Name(slot[p])] # None
    /\ entry_locks' = [entry_locks EXCEPT ![LockId[slot[p]]] = None]
    /\ IF Size[path[slot[p]]] > Buffer(p)
       THEN Return(p) /\ UNCHANGED stat
       ELSE ReturnCounting(p, "n_hits")
    /\ UNCHANGED <<cacheVars, ht_lock>>

\* assert(fd >= 0) fails, or the memcpy from a mapping that failed faults (mmap
\* returns MAP_FAILED, which is not the NULL the code tests for): the process is
\* gone, the lock it held is not.
copy_aborts(p) ==
    /\ pc[p] = "copy"
    /\ shm[Name(slot[p])] = None \/ ShmMayFail
    /\ Goto(p, "dead")
    /\ UNCHANGED <<cacheVars, lockVars, slot, call, file, stat, calls>>

-----------------------------------------------------------------------------
(* cache_read after a miss: open and read the file, then cache it.         *)

read_file(p) ==
    /\ pc[p] = "open"
    /\ IF file[p] \in Missing \/ Size[file[p]] > MaxUsable \/ Size[file[p]] = 0
       THEN ReturnCounting(p, "n_fail")
       ELSE Goto(p, "store") /\ UNCHANGED <<slot, call, file, stat, calls>>
    /\ UNCHANGED <<cacheVars, lockVars>>

-----------------------------------------------------------------------------
(* cache_store.                                                            *)

\* What every failing path does: the caller gets an error, or, in cache_read,
\* the file's data and a capacity miss.
Fail(p) == ReturnCounting(p, "n_miss_capacity")

NoSlotLeft == n_ht_entries >= MaxEntries

\* E2BIG, or the next slot of the entries array, or ENOMEM.
take_slot(p) ==
    /\ pc[p] = "store"
    /\ IF Size[file[p]] > MaxItemSize
       THEN Fail(p) /\ UNCHANGED n_ht_entries
       ELSE /\ n_ht_entries' = n_ht_entries + 1
            /\ IF NoSlotLeft
               THEN Fail(p)
               ELSE /\ slot' = [slot EXCEPT ![p] = n_ht_entries]
                    /\ Goto(p, "reserve")
                    /\ UNCHANGED <<call, file, stat, calls>>
    /\ UNCHANGED <<used, path, next, table, shm, lockVars>>

InRange(start, f) == start + Size[f] <= CacheSize

reserve(p) ==
    /\ pc[p] = "reserve"
    /\ used' = used + Size[file[p]]
    /\ Goto(p, IF InRange(used, file[p]) THEN "fill" ELSE "undo")
    /\ UNCHANGED <<n_ht_entries, path, next, table, shm, lockVars, slot, call, file, stat, calls>>

\* Mutations of Undone: the bytes are not given back; the slot is, too.
NothingUndone(f) == UNCHANGED <<used, n_ht_entries>>

SlotUndone(f) == used' = used - Size[f] /\ n_ht_entries' = n_ht_entries - 1

Undone(f) == used' = used - Size[f] /\ UNCHANGED n_ht_entries

undo(p) ==
    /\ pc[p] = "undo"
    /\ Undone(file[p])
    /\ Fail(p)
    /\ UNCHANGED <<path, next, table, shm, lockVars>>

\* The shm object, created or opened, takes the file's bytes.
fill(p) ==
    /\ pc[p] = "fill"
    /\ path' = [path EXCEPT ![slot[p]] = file[p]]
    /\ shm' = [shm EXCEPT ![ShmPath[file[p]]] = file[p]]
    /\ Goto(p, "add")
    /\ UNCHANGED <<n_ht_entries, used, next, table, lockVars, slot, call, file, stat, calls>>

\* shm_open fails, or ftruncate after it, which unlinks the name.
fill_fails(p) ==
    /\ pc[p] = "fill"
    /\ ShmMayFail
    /\ path' = [path EXCEPT ![slot[p]] = file[p]]
    /\ \/ shm' = shm
       \/ shm' = [shm EXCEPT ![ShmPath[file[p]]] = None]
    /\ Fail(p)
    /\ UNCHANGED <<n_ht_entries, used, next, table, lockVars>>

\* mmap fails unnoticed and the memcpy faults: the process is gone, its slot, its
\* bytes and the object stay.
fill_faults(p) ==
    /\ pc[p] = "fill"
    /\ ShmMayFail
    /\ path' = [path EXCEPT ![slot[p]] = file[p]]
    /\ shm' = [shm EXCEPT ![ShmPath[file[p]]] = IF @ = file[p] THEN @ ELSE Unwritten]
    /\ Goto(p, "dead")
    /\ UNCHANGED <<n_ht_entries, used, next, table, lockVars, slot, call, file, stat, calls>>

Added(s) == Append(table, s)

\* HASH_ADD_STR: linked behind the last entry in the table, if any.
Linked(s) ==
    [t \in Slot |->
        IF t = s THEN None
        ELSE IF table # <<>> /\ t = Last(table) THEN s ELSE next[t]]

add(p) ==
    /\ pc[p] = "add"
    /\ ht_lock = None
    /\ table' = Added(slot[p])
    /\ next' = Linked(slot[p])
    /\ ReturnCounting(p, "n_miss_cold")
    /\ UNCHANGED <<n_ht_entries, used, path, shm, lockVars>>

-----------------------------------------------------------------------------
(* cache_flush: HASH_ITER starts at entry 0, in the table or not, and      *)
(* follows hh.next.                                                        *)

cache_flush(p) ==
    /\ MayFlush
    /\ ht_lock = None
    /\ Begin(p, "flush", None, "flush")
    /\ ht_lock' = p
    /\ slot' = [slot EXCEPT ![p] = 0]
    /\ UNCHANGED <<cacheVars, entry_locks, stat>>

flush_visit(p) ==
    LET s == slot[p] IN
    /\ pc[p] = "flush"
    /\ s # None
    /\ entry_locks[LockId[s]] = None
    /\ shm' = IF path[s] = None THEN shm ELSE [shm EXCEPT ![Name(s)] = None]
    /\ slot' = [slot EXCEPT ![p] = next[s]]
    /\ UNCHANGED <<n_ht_entries, used, path, next, table, lockVars, pc, call, file, stat, calls>>

\* Mutation of FlushedTable: no HASH_CLEAR.
TableKept == table

FlushedTable == <<>>

flush_clear(p) ==
    /\ pc[p] = "flush"
    /\ slot[p] = None
    /\ table' = FlushedTable
    /\ used' = 0
    /\ n_ht_entries' = 0
    /\ ht_lock' = None
    /\ Return(p)
    /\ UNCHANGED <<path, next, shm, entry_locks, stat>>

-----------------------------------------------------------------------------

Step(p) ==
    \/ find_miss(p) \/ find_hit(p) \/ couple(p) \/ copy(p) \/ copy_aborts(p)
    \/ read_file(p)
    \/ take_slot(p) \/ reserve(p) \/ undo(p)
    \/ fill(p) \/ fill_fails(p) \/ fill_faults(p) \/ add(p)
    \/ flush_visit(p) \/ flush_clear(p)

Call(p) ==
    \/ \E f \in File : cache_read(p, f) \/ cache_load(p, f) \/ cache_store(p, f)
    \/ cache_flush(p)

\* All calls made: nothing is left to do.
Finished == calls = MaxCalls /\ (\A p \in Proc : pc[p] = "idle") /\ UNCHANGED vars

Next == (\E p \in Proc : Step(p) \/ Call(p)) \/ Finished

Spec == Init /\ [][Next]_vars

\* A process inside a call keeps running; nobody has to call.
FairSpec == Spec /\ \A p \in Proc : WF_vars(Step(p))

-----------------------------------------------------------------------------
(* Properties.                                                             *)

Places == {"idle", "find", "couple", "copy", "open", "store", "reserve", "undo", "fill",
           "add", "flush", "dead"}

TypeOK ==
    /\ n_ht_entries \in Nat
    /\ used \in Nat
    /\ path \in [Slot -> File \union {None}]
    /\ next \in [Slot -> Slot \union {None}]
    /\ table \in Seq(Slot)
    /\ shm \in [{ShmPath[f] : f \in File} -> File \union {None, Unwritten}]
    /\ ht_lock \in Proc \union {None}
    /\ entry_locks \in [Locks -> Proc \union {None}]
    /\ pc \in [Proc -> Places]
    /\ call \in [Proc -> {"none", "read", "load", "store", "flush"}]
    /\ file \in [Proc -> File \union {None}]
    /\ slot \in [Proc -> Slot \union {None}]
    /\ stat \in [Stats -> Nat]
    /\ calls \in 0 .. MaxCalls

\* Processes inside cache_store that own a slot which is not in the table yet.
Storing == {p \in Proc : pc[p] \in {"reserve", "undo", "fill", "add"}}

\* The bytes of the files that name gives the members of S.
Bytes(name, S) == SumFunctionOnSet([x \in S |-> Size[name[x]]], S)

CachedBytes == Bytes(path, ToSet(table))

\* minio.c:74-79: the counter hands every slot to one store: no store writes an
\* entry another store is filling, or one that readers find in the table, however
\* stores fail and interleave.
SlotsExclusive ==
    /\ IsInjective(table)
    /\ \A p \in Storing : slot[p] \notin ToSet(table)
    /\ \A p, q \in Storing : slot[p] = slot[q] => p = q

\* Whatever order the stores reserve, give back and publish their bytes in, what
\* is published is never more than the cache's size.
CachedFits == CachedBytes <= CacheSize

\* Bytes added to used by the stores on their way.
ReservedBytes == Bytes(file, {p \in Storing : pc[p] # "reserve"})

\* minio.h:71, used: "Number of bytes cached": those of the entries in the table
\* and of the stores on their way, when no shm call fails.
UsedIsAccounted == used = CachedBytes + ReservedBytes

\* The books of the cache are right: types, capacity and the bytes counted.
Accounting == TypeOK /\ CachedFits /\ UsedIsAccounted

\* When some fail or a storing process dies, and across flushes, used may count more than what is cached, but
\* never less: what the capacity test lets through is really free.
UsedCoversCached == used >= CachedBytes + ReservedBytes

\* What a load is about to copy are the bytes of the file it was asked for, also
\* while other processes store the same path for the first time (minio.c:240).
CopiesOwnFile ==
    \A p \in Proc : pc[p] = "copy" =>
        path[slot[p]] = file[p] /\ shm[Name(slot[p])] = file[p]

Sum(keys) == SumFunctionOnSet(stat, keys)

\* Each access is counted once more when it ends: a hit, one of the two misses, or
\* a failure (with buffers as large as the largest cached item).
StatsAddUp ==
    stat["n_accs"] = Sum(Stats \ {"n_accs"})
                     + Cardinality({p \in Proc : pc[p] # "idle" /\ call[p] = "read"})

\* minio.c:250: "If this call fails, the data didn't fit."
MissedForCapacity ==
    [][stat'["n_miss_capacity"] > stat["n_miss_capacity"] =>
         \E p \in Proc : /\ pc[p] # "idle" /\ pc'[p] = "idle"
                         /\ \/ Size[file[p]] > MaxItemSize
                            \/ CachedBytes + Size[file[p]] > CacheSize]_vars

\* minio.c:265, "Free each entry's shm object": none is left after a flush.
FlushFreesObjects ==
    \A p \in Proc : pc[p] = "flush" /\ slot[p] = None =>
        \A n \in DOMAIN shm : shm[n] = None

\* Every call returns: no lock is left behind and no two processes wait for each
\* other on the table's and the entries' locks.
EveryCallReturns == \A p \in Proc : pc[p] # "idle" ~> pc[p] = "idle"
=============================================================================
