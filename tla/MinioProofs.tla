---------------------------- MODULE MinioProofs ----------------------------
(***************************************************************************)
(* MinioCache, for every number of processes, files, sizes and calls: no   *)
(* two stores have the same slot, the bytes published fit, the counter of  *)
(* bytes covers them (and is exact where no shm call fails), a load copies *)
(* its own file's bytes, and every read is counted again when it ends.     *)
(* A process that flushes is alone (Solo): the proofs cover a cache that   *)
(* is never flushed, and one that a single process fills and flushes.      *)
(***************************************************************************)
EXTENDS MinioCache, DataLemmas

-----------------------------------------------------------------------------
(* The inductive invariant: types, who owns which slot, what an entry is.  *)

\* Nobody else is in the cache while one process flushes it: without a flush, or with
\* a single process.
Solo == MayFlush => \A p, q \in Proc : p = q

\* TypeOK but for used, which is a number because it covers what stores give back.
Types ==
    /\ n_ht_entries \in Nat
    /\ path \in [Slot -> File \union {None}]
    /\ next \in [Slot -> Slot \union {None}]
    /\ table \in Seq(Slot)
    /\ shm \in [{ShmPath[f] : f \in File} -> File \union {None, Unwritten}]
    /\ ht_lock \in Proc \union {None}
    /\ entry_locks \in [Locks -> Proc \union {None}]
    /\ pc \in [Proc -> Places]
    /\ call \in [Proc -> {"none", "read", "load", "store", "flush"}]
    /\ file \in [Proc -> File \union {None}]
    /\ slot \in [Proc -> Slot \union {None}]
    /\ stat \in [Stats -> Nat]
    /\ calls \in 0 .. MaxCalls

\* The slots handed out are those below the counter; a store on its way owns one that
\* nobody else owns and that is not in the table.
Slots ==
    /\ IsInjective(table)
    /\ \A s \in ToSet(table) : s < n_ht_entries
    /\ \A p \in Storing : slot[p] \in Slot /\ slot[p] < n_ht_entries /\ slot[p] \notin ToSet(table)
    /\ \A p, q \in Storing : slot[p] = slot[q] => p = q

\* What a process works on: an entry in the table has the path it was found under, and
\* none is larger than max_item_size.
Entries ==
    /\ \A p \in Proc : pc[p] \in Places \ {"idle", "flush", "dead"} => file[p] \in File
    /\ \A p \in Proc : pc[p] = "flush" => MayFlush
    /\ \A p \in Storing : Size[file[p]] <= MaxItemSize
    /\ \A p \in Proc : pc[p] = "add" => path[slot[p]] = file[p]
    /\ \A s \in ToSet(table) : path[s] \in File /\ Size[path[s]] <= MaxItemSize
    /\ \A p \in Proc : pc[p] \in {"couple", "copy"} =>
         slot[p] \in ToSet(table) /\ path[slot[p]] = file[p]

EInv == Types /\ Slots /\ Entries

\* The members of a sequence.
LEMMA ElemsOf ==
    ASSUME NEW S, NEW s \in Seq(S)
    PROVE  /\ ToSet(s) \subseteq S
           /\ \A i \in DOMAIN s : s[i] \in ToSet(s)
           /\ ToSet(s) = {s[i] : i \in DOMAIN s}
           /\ DOMAIN s = 1 .. Len(s) /\ Len(s) \in Nat
BY DEF ToSet

\* A set of indices that is not empty has a largest one.
LEMMA HasLargest ==
    ASSUME NEW n \in Nat, NEW I \in SUBSET (1 .. n), I # {}
    PROVE  \E i \in I : \A j \in I : j <= i
<1> DEFINE Good == {T \in SUBSET (1 .. n) : T # {} => \E i \in T : \A j \in T : j <= i}
<1>1. ASSUME NEW T \in SUBSET (1 .. n), \A U \in SUBSET T : U # T => U \in Good
      PROVE  T \in Good
  <2>1. SUFFICES ASSUME T # {} PROVE \E i \in T : \A j \in T : j <= i
    OBVIOUS
  <2>2. First(T) \in T /\ Rest(T) \in Good /\ \A j \in T : j = First(T) \/ j \in Rest(T)
    BY <1>1, <2>1, FirstAndRest DEF Rest
  <2>3. CASE Rest(T) = {}
    <3>1. PICK m \in T : \A j \in T : j = m
      BY <2>2, <2>3
    <3>2. m \in Nat
      OBVIOUS
    <3> QED BY <3>1, <3>2
  <2>4. CASE Rest(T) # {}
    <3>1. PICK i \in Rest(T) : \A j \in Rest(T) : j <= i
      BY <2>2, <2>4
    <3>2. i \in T /\ i \in 1 .. n /\ First(T) \in 1 .. n
      BY <2>2 DEF Rest
    <3>3. CASE First(T) <= i
      BY <2>2, <3>1, <3>2, <3>3
    <3>4. CASE i <= First(T)
      <4>1. \A j \in T : j \in 1 .. n
        OBVIOUS
      <4>2. \A j \in T : j <= First(T)
        BY <2>2, <3>1, <3>2, <3>4, <4>1
      <4> QED BY <2>2, <4>2
    <3> QED BY <3>2, <3>3, <3>4
  <2> QED BY <2>3, <2>4
<1>2. IsFiniteSet(1 .. n)
  BY FS_Interval
<1>3. \A T \in SUBSET (1 .. n) : T \in Good
  <2> HIDE DEF Good
  <2> DEFINE S == 1 .. n
  <2>1. \A T \in SUBSET S : (\A U \in SUBSET T : U # T => U \in Good) => T \in Good
    BY <1>1
  <2>2. IsFiniteSet(S)
    BY <1>2
  <2> HIDE DEF S
  <2>3. \A T \in SUBSET S : T \in Good
    BY <2>1, <2>2, SubsetInduction
  <2> QED BY <2>3 DEF S
<1> QED BY <1>3

\* HASH_FIND returns an entry of the table that has the path.
LEMMA FoundIsCached ==
    ASSUME table \in Seq(Slot), NEW f, Cached(f) # {}
    PROVE  Found(f) \in ToSet(table) /\ path[Found(f)] = f
<1>1. Cached(f) \in SUBSET (1 .. Len(table)) /\ Len(table) \in Nat
  BY ElemsOf DEF Cached
<1>2. \E i \in Cached(f) : \A j \in Cached(f) : j <= i
  BY <1>1, HasLargest
<1>3. PICK i \in Cached(f) : Found(f) = table[i]
  BY <1>2 DEF Found
<1> QED BY <1>3, ElemsOf DEF Cached

\* An empty cache.
LEMMA InitEInv == Init => EInv
<1> SUFFICES ASSUME Init PROVE EInv
  OBVIOUS
<1> USE DEF Init
<1>1. Types
  BY MinioAssumption DEF Types, Places, Slot
<1>2. Slots
  BY DEF Slots, IsInjective, ToSet, Storing
<1>3. Entries
  BY DEF Entries, ToSet, Storing, Places
<1> QED BY <1>1, <1>2, <1>3 DEF EInv

\* Steps that leave the table and its entries alone and take nobody into a store.
LEMMA QuietStep ==
    ASSUME EInv, NEW p \in Proc, UNCHANGED <<table, path, n_ht_entries>>,
           NEW l, NEW f \in File \union {None}, NEW s,
           pc' = [pc EXCEPT ![p] = l], file' = [file EXCEPT ![p] = f],
           slot' = [slot EXCEPT ![p] = s],
           l \in Places \ {"reserve", "undo", "fill", "add", "flush"},
           l \notin {"idle", "dead"} => f \in File,
           l \in {"couple", "copy"} => s \in ToSet(table) /\ path[s] = f
    PROVE  Slots' /\ Entries'
<1>1. /\ pc'[p] = l /\ file'[p] = f /\ slot'[p] = s
      /\ \A q \in Proc : q # p => pc'[q] = pc[q] /\ file'[q] = file[q] /\ slot'[q] = slot[q]
      /\ Storing' = Storing \ {p}
  BY DEF EInv, Types, Storing
<1>2. Slots'
  BY <1>1 DEF EInv, Slots, Storing
<1>3. Entries'
  BY <1>1 DEF EInv, Entries, Storing
<1> QED BY <1>2, <1>3

\* One more of a statistic.
LEMMA CountedStat ==
    ASSUME stat \in [Stats -> Nat], NEW k \in Stats
    PROVE  /\ Counted(k) \in [Stats -> Nat]
           /\ Counted(k)[k] = stat[k] + 1
           /\ \A j \in Stats : j # k => Counted(k)[j] = stat[j]
BY DEF Counted

\* A call begins; it has no slot yet.
LEMMA CallStep ==
    ASSUME EInv, NEW p \in Proc, NEW f \in File,
           cache_read(p, f) \/ cache_load(p, f) \/ cache_store(p, f)
    PROVE  EInv'
<1> USE DEF cache_read, cache_load, cache_store, Begin, Goto, cacheVars, lockVars
<1>1. PICK l \in {"find", "store"} : pc' = [pc EXCEPT ![p] = l]
  OBVIOUS
<1>2. stat' \in [Stats -> Nat]
  BY CountedStat DEF EInv, Types, Stats
<1>3. calls' \in 0 .. MaxCalls
  BY MinioAssumption DEF EInv, Types
<1>4. UNCHANGED <<n_ht_entries, path, next, table, shm, ht_lock, entry_locks, slot>>
  OBVIOUS
<1>5. PICK what \in {"read", "load", "store"} : call' = [call EXCEPT ![p] = what]
  OBVIOUS
<1>6. file' = [file EXCEPT ![p] = f]
  OBVIOUS
<1>7. /\ call' \in [Proc -> {"none", "read", "load", "store", "flush"}]
      /\ file' \in [Proc -> File \union {None}]
      /\ pc' \in [Proc -> Places]
  BY <1>1, <1>5, <1>6 DEF EInv, Types, Places
<1>8. Types'
  BY <1>2, <1>3, <1>4, <1>7 DEF EInv, Types
<1>9. slot' = [slot EXCEPT ![p] = slot[p]] /\ file' = [file EXCEPT ![p] = f]
  BY DEF EInv, Types
<1>10. Slots' /\ Entries'
  BY <1>1, <1>9, QuietStep DEF Places
<1> QED BY <1>8, <1>10 DEF EInv

\* The steps of a load, and of a read up to the store, keep to the entry they found.
LEMMA LoadStep ==
    ASSUME EInv, NEW p \in Proc,
           find_miss(p) \/ find_hit(p) \/ couple(p) \/ copy(p) \/ copy_aborts(p) \/ read_file(p)
    PROVE  EInv'
<1> USE DEF Return, ReturnCounting, Goto, cacheVars, lockVars
<1>1. CASE find_miss(p)
  <2>1. Types'
    BY <1>1 DEF find_miss, LockAfterMiss, EInv, Types, Places, Stats
  <2>2. PICK l \in {"open", "idle"}, s \in {slot[p], None} :
          pc' = [pc EXCEPT ![p] = l] /\ slot' = [slot EXCEPT ![p] = s]
    BY <1>1 DEF find_miss, EInv, Types
  <2>3. file[p] \in File /\ file' = [file EXCEPT ![p] = file[p]] /\ UNCHANGED <<table, path, n_ht_entries>>
    BY <1>1 DEF find_miss, EInv, Types, Entries, Places
  <2> QED BY <2>1, <2>2, <2>3, QuietStep DEF EInv, Places
<1>2. CASE find_hit(p)
  <2>1. Found(file[p]) \in ToSet(table) /\ path[Found(file[p])] = file[p] /\ Found(file[p]) \in Slot
    BY <1>2, FoundIsCached, ElemsOf DEF find_hit, EInv, Types
  <2>2. Types'
    BY <1>2, <2>1 DEF find_hit, EInv, Types, Places
  <2>3. file[p] \in File /\ file' = [file EXCEPT ![p] = file[p]] /\ UNCHANGED <<table, path, n_ht_entries>>
        /\ pc' = [pc EXCEPT ![p] = "couple"] /\ slot' = [slot EXCEPT ![p] = Found(file[p])]
    BY <1>2 DEF find_hit, EInv, Types, Entries, Places
  <2> QED BY <2>1, <2>2, <2>3, QuietStep DEF EInv, Places
<1>3. CASE couple(p)
  <2>1. Types'
    BY <1>3, MinioAssumption DEF couple, EInv, Types, Places
  <2>2. slot[p] \in ToSet(table) /\ path[slot[p]] = file[p]
    BY <1>3 DEF couple, EInv, Entries
  <2>3. file[p] \in File /\ file' = [file EXCEPT ![p] = file[p]] /\ UNCHANGED <<table, path, n_ht_entries>>
        /\ pc' = [pc EXCEPT ![p] = "copy"] /\ slot' = [slot EXCEPT ![p] = slot[p]]
    BY <1>3 DEF couple, EInv, Types, Entries, Places
  <2> QED BY <2>1, <2>2, <2>3, QuietStep DEF EInv, Places
<1>4. CASE copy(p)
  <2>0. stat' \in [Stats -> Nat]
    BY <1>4, CountedStat DEF copy, EInv, Types, Stats
  <2>1. Types'
    <3>1. /\ UNCHANGED <<cacheVars, ht_lock, call, file, calls>>
          /\ entry_locks' = [entry_locks EXCEPT ![LockId[slot[p]]] = None]
          /\ pc' = [pc EXCEPT ![p] = "idle"] /\ slot' = [slot EXCEPT ![p] = None]
      BY <1>4 DEF copy
    <3>2. entry_locks' \in [Locks -> Proc \union {None}]
      BY <3>1 DEF EInv, Types
    <3>3. pc' \in [Proc -> Places] /\ slot' \in [Proc -> Slot \union {None}]
      BY <3>1 DEF EInv, Types, Places
    <3> QED BY <2>0, <3>1, <3>2, <3>3 DEF EInv, Types
  <2>2. file[p] \in File /\ file' = [file EXCEPT ![p] = file[p]] /\ UNCHANGED <<table, path, n_ht_entries>>
        /\ pc' = [pc EXCEPT ![p] = "idle"] /\ slot' = [slot EXCEPT ![p] = None]
    BY <1>4 DEF copy, EInv, Types, Entries, Places
  <2> QED BY <2>1, <2>2, QuietStep DEF EInv, Places
<1>5. CASE copy_aborts(p)
  <2>1. Types'
    BY <1>5 DEF copy_aborts, EInv, Types, Places
  <2>2. file[p] \in File /\ file' = [file EXCEPT ![p] = file[p]] /\ UNCHANGED <<table, path, n_ht_entries>>
        /\ pc' = [pc EXCEPT ![p] = "dead"] /\ slot' = [slot EXCEPT ![p] = slot[p]]
    BY <1>5 DEF copy_aborts, EInv, Types, Entries, Places
  <2> QED BY <2>1, <2>2, QuietStep DEF EInv, Places
<1>6. CASE read_file(p)
  <2>0. stat' \in [Stats -> Nat]
    BY <1>6, CountedStat DEF read_file, EInv, Types, Stats
  <2>1. Types'
    BY <1>6, <2>0 DEF read_file, EInv, Types, Places
  <2>2. PICK l \in {"store", "idle"}, s \in {slot[p], None} :
          pc' = [pc EXCEPT ![p] = l] /\ slot' = [slot EXCEPT ![p] = s]
    BY <1>6 DEF read_file, EInv, Types
  <2>3. file[p] \in File /\ file' = [file EXCEPT ![p] = file[p]] /\ UNCHANGED <<table, path, n_ht_entries>>
    BY <1>6 DEF read_file, EInv, Types, Entries, Places
  <2> QED BY <2>1, <2>2, <2>3, QuietStep DEF EInv, Places
<1> QED BY <1>1, <1>2, <1>3, <1>4, <1>5, <1>6

\* A store takes the next slot, which nobody has, or fails.
LEMMA TakeStep ==
    ASSUME EInv, NEW p \in Proc, take_slot(p)
    PROVE  EInv'
<1> USE DEF Return, ReturnCounting, Goto, cacheVars, lockVars
<1>1. stat' \in [Stats -> Nat]
  BY CountedStat DEF take_slot, Fail, EInv, Types, Stats
<1>2. /\ pc[p] = "store" /\ file[p] \in File /\ p \notin Storing
      /\ UNCHANGED <<path, next, table, shm, lockVars, call, file, calls>>
      /\ n_ht_entries' \in {n_ht_entries, n_ht_entries + 1}
  BY DEF take_slot, EInv, Entries, Fail, Places, Storing
<1>3. CASE pc' = [pc EXCEPT ![p] = "idle"] /\ slot' = [slot EXCEPT ![p] = None]
  <2>1. Types'
    BY <1>1, <1>2, <1>3 DEF EInv, Types, Places
  <2>2. /\ pc'[p] = "idle" /\ file' = file
        /\ \A q \in Proc : q # p => pc'[q] = pc[q] /\ slot'[q] = slot[q]
        /\ Storing' = Storing
    BY <1>2, <1>3 DEF EInv, Types, Storing
  <2>3. Slots'
    <3>1. ToSet(table) \subseteq Nat /\ \A q \in Storing : slot[q] \in Nat
      BY ElemsOf, MinioAssumption DEF EInv, Types, Slots, Slot
    <3>2. n_ht_entries \in Nat /\ n_ht_entries' \in {n_ht_entries, n_ht_entries + 1}
      BY <1>2 DEF EInv, Types
    <3>3. \A q \in Storing : slot'[q] = slot[q]
      BY <1>2, <2>2 DEF Storing
    <3>4. \A s \in ToSet(table) : s < n_ht_entries'
      BY <3>1, <3>2 DEF EInv, Slots
    <3>5. \A q \in Storing : slot[q] < n_ht_entries'
      BY <3>1, <3>2 DEF EInv, Slots
    <3> QED BY <1>2, <2>2, <3>3, <3>4, <3>5 DEF EInv, Slots
  <2>4. Entries'
    BY <1>2, <2>2 DEF EInv, Entries, Storing
  <2> QED BY <2>1, <2>3, <2>4 DEF EInv
<1>4. CASE /\ ~NoSlotLeft /\ Size[file[p]] <= MaxItemSize
           /\ n_ht_entries' = n_ht_entries + 1
           /\ pc' = [pc EXCEPT ![p] = "reserve"]
           /\ slot' = [slot EXCEPT ![p] = n_ht_entries]
  <2>1. n_ht_entries \in Slot /\ n_ht_entries \in Nat
    BY <1>4, MinioAssumption DEF NoSlotLeft, Slot, EInv, Types
  <2>2. Types'
    BY <1>1, <1>2, <1>4, <2>1 DEF EInv, Types, Places
  <2>3. /\ pc'[p] = "reserve" /\ file' = file /\ slot'[p] = n_ht_entries
        /\ \A q \in Proc : q # p => pc'[q] = pc[q] /\ slot'[q] = slot[q]
        /\ Storing' = Storing \union {p}
    BY <1>2, <1>4 DEF EInv, Types, Storing
  <2>4. Slots'
    <3>1. ToSet(table) \subseteq Nat /\ \A q \in Storing : slot[q] \in Nat
      BY ElemsOf, MinioAssumption DEF EInv, Types, Slots, Slot
    <3>2. /\ \A s \in ToSet(table) : s < n_ht_entries' /\ s # n_ht_entries
          /\ \A q \in Storing : slot[q] < n_ht_entries' /\ slot[q] # n_ht_entries
      BY <1>4, <2>1, <3>1 DEF EInv, Slots
    <3>3. \A q \in Storing : q # p /\ slot'[q] = slot[q]
      BY <1>2, <2>3 DEF Storing
    <3>4. n_ht_entries < n_ht_entries' /\ n_ht_entries \notin ToSet(table)
      BY <1>4, <2>1, <3>2
    <3>5. \A q, r \in Storing' : slot'[q] = slot'[r] => q = r
      BY <2>3, <3>2, <3>3 DEF EInv, Slots
    <3>6. \A q \in Storing' : slot'[q] \in Slot /\ slot'[q] < n_ht_entries' /\ slot'[q] \notin ToSet(table)
      BY <2>1, <2>3, <3>2, <3>3, <3>4 DEF EInv, Slots
    <3> QED BY <1>2, <3>2, <3>5, <3>6 DEF EInv, Slots
  <2>5. Entries'
    BY <1>2, <1>4, <2>3 DEF EInv, Entries, Storing, Places
  <2> QED BY <2>2, <2>4, <2>5 DEF EInv
<1> QED BY <1>2, <1>3, <1>4, MinioAssumption DEF take_slot, Fail

\* Steps of a store that leave it in possession of its slot.
LEMMA HoldStep ==
    ASSUME EInv, NEW p \in Proc, reserve(p) \/ fill(p)
    PROVE  EInv'
<1> USE DEF Goto, lockVars
<1>1. PICK l \in {"fill", "undo", "add"} :
        /\ pc' = [pc EXCEPT ![p] = l]
        /\ l = "add" => path' = [path EXCEPT ![slot[p]] = file[p]]
        /\ l # "add" => path' = path
  BY DEF reserve, fill
<1>2. UNCHANGED <<n_ht_entries, next, table, ht_lock, entry_locks, slot, call, file, stat, calls>>
  BY DEF reserve, fill
<1>3. p \in Storing /\ slot[p] \in Slot /\ slot[p] \notin ToSet(table) /\ file[p] \in File
  BY DEF reserve, fill, EInv, Slots, Entries, Storing, Places
<1>4. shm' \in [{ShmPath[f] : f \in File} -> File \union {None, Unwritten}]
  BY <1>3 DEF reserve, fill, EInv, Types
<1>5. Types'
  BY <1>1, <1>2, <1>3, <1>4 DEF EInv, Types, Places
<1>6. /\ pc'[p] = l /\ \A q \in Proc : q # p => pc'[q] = pc[q]
      /\ Storing' = Storing
      /\ l = "add" => path'[slot[p]] = file[p]
      /\ \A s \in Slot : s # slot[p] => path'[s] = path[s]
  BY <1>1, <1>3 DEF EInv, Types, Storing
<1>7. Slots'
  BY <1>2, <1>6 DEF EInv, Slots
<1>8. Entries'
  <2>1. \A q \in Storing : slot[q] \in Slot /\ (q # p => slot[q] # slot[p])
    BY <1>3 DEF EInv, Slots
  <2>2. \A s \in ToSet(table) : s \in Slot /\ path'[s] = path[s]
    BY <1>3, <1>6, ElemsOf DEF EInv, Types
  <2>3. \A q \in Proc : pc'[q] = "add" => path'[slot[q]] = file[q]
    BY <1>6, <2>1 DEF EInv, Entries, Storing
  <2> QED BY <1>2, <1>3, <1>6, <2>2, <2>3 DEF EInv, Entries, Places
<1> QED BY <1>5, <1>7, <1>8 DEF EInv

\* Steps that end a store: they give up its slot, or publish it.
LEMMA DropStep ==
    ASSUME EInv, NEW p \in Proc, undo(p) \/ fill_fails(p) \/ fill_faults(p)
    PROVE  EInv'
<1> USE DEF Fail, Return, ReturnCounting, Goto, lockVars
<1>1. /\ \E l \in {"idle", "dead"}, s \in {None, slot[p]} :
           pc' = [pc EXCEPT ![p] = l] /\ slot' = [slot EXCEPT ![p] = s]
      /\ path' = path \/ path' = [path EXCEPT ![slot[p]] = file[p]]
      /\ UNCHANGED <<n_ht_entries, next, table, ht_lock, entry_locks, call, file, calls>>
  BY DEF undo, fill_fails, fill_faults, Undone, EInv, Types
<1>2. p \in Storing /\ slot[p] \in Slot /\ slot[p] \notin ToSet(table) /\ file[p] \in File
  BY DEF undo, fill_fails, fill_faults, EInv, Slots, Entries, Storing, Places
<1>3. shm' \in [{ShmPath[f] : f \in File} -> File \union {None, Unwritten}] /\ stat' \in [Stats -> Nat]
  BY <1>2, CountedStat DEF undo, fill_fails, fill_faults, EInv, Types, Stats
<1>4. Types'
  BY <1>1, <1>2, <1>3 DEF EInv, Types, Places
<1>5. /\ pc'[p] \in {"idle", "dead"} /\ \A q \in Proc : q # p => pc'[q] = pc[q] /\ slot'[q] = slot[q]
      /\ Storing' = Storing \ {p}
      /\ \A s \in Slot : s # slot[p] => path'[s] = path[s]
  BY <1>1, <1>2 DEF EInv, Types, Storing
<1>6. Slots'
  BY <1>1, <1>5 DEF EInv, Slots, Storing
<1>7. Entries'
  <2>1. \A q \in Storing : slot[q] \in Slot /\ (q # p => slot[q] # slot[p])
    BY <1>2 DEF EInv, Slots
  <2>2. \A s \in ToSet(table) : s \in Slot /\ path'[s] = path[s]
    BY <1>2, <1>5, ElemsOf DEF EInv, Types
  <2>3. \A q \in Proc : pc'[q] = "add" => path'[slot'[q]] = file[q]
    BY <1>5, <2>1 DEF EInv, Entries, Storing
  <2> QED BY <1>1, <1>5, <2>2, <2>3 DEF EInv, Entries, Storing, Places
<1> QED BY <1>4, <1>6, <1>7 DEF EInv

\* A store publishes its slot, which is in the table from then on and no longer its own.
LEMMA AddStep ==
    ASSUME EInv, NEW p \in Proc, add(p)
    PROVE  EInv' /\ ToSet(table)' = ToSet(table) \union {slot[p]}
<1> USE DEF Return, ReturnCounting, Goto, lockVars
<1>1. /\ pc' = [pc EXCEPT ![p] = "idle"] /\ slot' = [slot EXCEPT ![p] = None]
      /\ table' = Append(table, slot[p]) /\ next' = Linked(slot[p])
      /\ UNCHANGED <<n_ht_entries, path, shm, ht_lock, entry_locks, call, file, calls>>
  BY DEF add, Added
<1>2. /\ p \in Storing /\ slot[p] \in Slot /\ slot[p] < n_ht_entries /\ slot[p] \notin ToSet(table)
      /\ path[slot[p]] = file[p] /\ file[p] \in File /\ Size[file[p]] <= MaxItemSize
  BY DEF add, EInv, Slots, Entries, Storing, Places
<1>3. stat' \in [Stats -> Nat]
  BY CountedStat DEF add, EInv, Types, Stats
<1>4. /\ table' \in Seq(Slot) /\ IsInjective(table')
      /\ ToSet(table') = ToSet(table) \union {slot[p]}
  BY <1>1, <1>2, AppendElems DEF EInv, Types, Slots
<1>5. next' \in [Slot -> Slot \union {None}]
  BY <1>1, <1>2 DEF Linked, EInv, Types
<1>6. Types'
  BY <1>1, <1>3, <1>4, <1>5 DEF EInv, Types, Places
<1>7. /\ pc'[p] = "idle" /\ \A q \in Proc : q # p => pc'[q] = pc[q] /\ slot'[q] = slot[q]
      /\ Storing' = Storing \ {p}
  BY <1>1 DEF EInv, Types, Storing
<1>8. Slots'
  BY <1>1, <1>2, <1>4, <1>7 DEF EInv, Slots, Storing
<1>9. Entries'
  BY <1>1, <1>2, <1>4, <1>7 DEF EInv, Entries, Storing, Places
<1> QED BY <1>4, <1>6, <1>8, <1>9 DEF EInv

\* A process that flushes is alone.
LEMMA FlushStep ==
    ASSUME Solo, EInv, NEW p \in Proc, cache_flush(p) \/ flush_visit(p) \/ flush_clear(p)
    PROVE  EInv'
<1> USE DEF Begin, Return, Goto, cacheVars, lockVars
<1>1. MayFlush /\ \A q \in Proc : q = p
  BY DEF Solo, EInv, Entries, cache_flush, flush_visit, flush_clear
<1>2. CASE cache_flush(p)
  <2>1. pc' = [pc EXCEPT ![p] = "flush"] /\ UNCHANGED <<n_ht_entries, table, path>>
    BY <1>2 DEF cache_flush
  <2>2. 0 \in Slot /\ calls' \in 0 .. MaxCalls
    BY <1>2, MinioAssumption DEF cache_flush, Slot, EInv, Types
  <2>3. Types'
    BY <1>2, <2>2 DEF cache_flush, EInv, Types, Places
  <2>4. pc'[p] = "flush" /\ Storing' = {}
    BY <1>1, <2>1 DEF EInv, Types, Storing
  <2> QED BY <1>1, <2>1, <2>3, <2>4 DEF EInv, Slots, Entries
<1>3. CASE flush_visit(p)
  <2>1. pc[p] = "flush" /\ UNCHANGED <<pc, n_ht_entries, table, path>> /\ slot[p] \in Slot
    BY <1>3 DEF flush_visit, EInv, Types
  <2>2. shm' \in [{ShmPath[f] : f \in File} -> File \union {None, Unwritten}]
    BY <1>3, <2>1 DEF flush_visit, Name, EInv, Types
  <2>3. Types'
    BY <1>3, <2>1, <2>2 DEF flush_visit, EInv, Types
  <2>4. Storing' = {}
    BY <1>1, <2>1 DEF Storing
  <2> QED BY <1>1, <2>1, <2>3, <2>4 DEF EInv, Slots, Entries
<1>4. CASE flush_clear(p)
  <2>1. /\ pc' = [pc EXCEPT ![p] = "idle"] /\ table' = <<>> /\ n_ht_entries' = 0
        /\ UNCHANGED path
    BY <1>4 DEF flush_clear, FlushedTable
  <2>2. Types'
    BY <1>4, <2>1 DEF flush_clear, EInv, Types, Places
  <2>3. pc'[p] = "idle" /\ Storing' = {} /\ ToSet(table)' = {}
    BY <1>1, <2>1 DEF EInv, Types, Storing, ToSet
  <2>4. Slots'
    BY <2>1, <2>3 DEF Slots, IsInjective
  <2> QED BY <1>1, <2>1, <2>2, <2>3, <2>4 DEF EInv, Entries
<1> QED BY <1>2, <1>3, <1>4

\* Every step keeps types, slots and entries.
LEMMA NextEInv == ASSUME Solo, EInv, [Next]_vars PROVE EInv'
<1>1. ASSUME NEW p \in Proc, Step(p) \/ Call(p) PROVE EInv'
  BY <1>1, CallStep, LoadStep, TakeStep, HoldStep, DropStep, AddStep, FlushStep DEF Step, Call
<1>2. CASE UNCHANGED vars
  BY <1>2 DEF vars, cacheVars, lockVars, EInv, Types, Slots, Entries, Storing
<1> QED BY <1>1, <1>2 DEF Next, Finished

-----------------------------------------------------------------------------
(* The bytes.                                                              *)

\* The stores that have reserved their bytes, and those that keep them.
Reserved == {p \in Storing : pc[p] # "reserve"}
Filling == {p \in Proc : pc[p] \in {"fill", "add"}}

\* used covers what is cached and reserved, exactly where no shm call fails, and what is
\* cached and is going to be fits.
Books ==
    /\ used \in Nat
    /\ UsedCoversCached
    /\ ShmMayFail = FALSE => UsedIsAccounted
    /\ CachedBytes + Bytes(file, Filling) <= CacheSize

\* Bytes is a sum of sizes.
LEMMA BytesNat ==
    ASSUME NEW S, IsFiniteSet(S), NEW name, \A x \in S : name[x] \in File
    PROVE  Bytes(name, S) \in Nat
<1>1. Bytes(name, S) = SumOf([x \in S |-> Size[name[x]]], S)
  BY DEF Bytes, SumOf
<1>2. \A x \in S : [y \in S |-> Size[name[y]]][x] \in Nat
  BY MinioAssumption
<1> QED BY <1>1, <1>2, SumNat

\* Bytes depends on the names of the members only.
LEMMA BytesSame ==
    ASSUME NEW S, IsFiniteSet(S), NEW name, NEW new,
           \A x \in S : name[x] \in File /\ new[x] = name[x]
    PROVE  Bytes(new, S) = Bytes(name, S)
<1>1. [x \in S |-> Size[new[x]]] = [x \in S |-> Size[name[x]]]
  OBVIOUS
<1> QED BY <1>1 DEF Bytes

\* No members, no bytes.
LEMMA BytesNone == ASSUME NEW name PROVE Bytes(name, {}) = 0
<1>1. IsFiniteSet({})
  BY FS_EmptySet
<1> QED BY <1>1, SumFirst DEF Bytes, SumOf

\* One member more.
LEMMA BytesMore ==
    ASSUME NEW S, IsFiniteSet(S), NEW name, NEW x, x \notin S,
           \A y \in S \union {x} : name[y] \in File
    PROVE  Bytes(name, S \union {x}) = Size[name[x]] + Bytes(name, S)
<1> DEFINE f == [y \in S |-> Size[name[y]]]
           g == [y \in S \union {x} |-> Size[name[y]]]
<1>1. /\ \A y \in S : f[y] \in Int /\ g[y] = f[y]
      /\ \A y \in S \union {x} : g[y] \in Int
      /\ g[x] = Size[name[x]]
  BY MinioAssumption
<1>2. Bytes(name, S \union {x}) = SumOf(g, S \union {x}) /\ Bytes(name, S) = SumOf(f, S)
  BY DEF Bytes, SumOf
<1> HIDE DEF f, g
<1>3. SumOf(g, S \union {x}) = g[x] + SumOf(g, S)
  BY <1>1, SumAdd
<1>4. SumOf(g, S) = SumOf(f, S)
  BY <1>1, SumSame
<1> QED BY <1>1, <1>2, <1>3, <1>4

\* One member less.
LEMMA BytesLess ==
    ASSUME NEW S, IsFiniteSet(S), NEW name, NEW x \in S, \A y \in S : name[y] \in File
    PROVE  Bytes(name, S) = Size[name[x]] + Bytes(name, S \ {x})
<1>1. IsFiniteSet(S \ {x}) /\ S = (S \ {x}) \union {x}
  BY FS_RemoveElement
<1> QED BY <1>1, BytesMore

\* The sets that are summed over are finite, and name files.
LEMMA Summands ==
    ASSUME EInv
    PROVE  /\ IsFiniteSet(ToSet(table)) /\ \A s \in ToSet(table) : s \in Slot /\ path[s] \in File
           /\ IsFiniteSet(Reserved) /\ IsFiniteSet(Filling) /\ Filling \subseteq Reserved
           /\ \A p \in Reserved : p \in Proc /\ file[p] \in File /\ Size[file[p]] \in Nat
           /\ CachedBytes \in Nat /\ ReservedBytes \in Nat /\ Bytes(file, Filling) \in Nat
           /\ ReservedBytes = Bytes(file, Reserved)
<1>1. ToSet(table) \subseteq Slot
  BY ElemsOf DEF EInv, Types
<1>2. IsFiniteSet(Slot)
  BY FS_Interval, MinioAssumption DEF Slot
<1>3. IsFiniteSet(ToSet(table))
  BY <1>1, <1>2, FS_Subset
<1>4. /\ Reserved \subseteq Proc /\ Filling \subseteq Proc /\ Filling \subseteq Reserved
      /\ \A p \in Reserved : pc[p] \in {"undo", "fill", "add"}
  BY DEF Reserved, Filling, Storing
<1>5. IsFiniteSet(Reserved) /\ IsFiniteSet(Filling)
  BY <1>4, FS_Subset, MinioAssumption
<1>6. \A p \in Reserved : p \in Proc /\ file[p] \in File /\ Size[file[p]] \in Nat
  BY <1>4, MinioAssumption DEF EInv, Entries, Places
<1>7. \A s \in ToSet(table) : s \in Slot /\ path[s] \in File
  BY <1>1 DEF EInv, Entries
<1>8. ReservedBytes = Bytes(file, Reserved)
  BY DEF ReservedBytes, Reserved
<1>9. CachedBytes \in Nat /\ Bytes(file, Reserved) \in Nat /\ Bytes(file, Filling) \in Nat
  BY <1>3, <1>4, <1>5, <1>6, <1>7, BytesNat DEF CachedBytes
<1> QED BY <1>1, <1>3, <1>4, <1>5, <1>6, <1>7, <1>8, <1>9

\* What is cached depends on the table and the paths of its entries.
LEMMA QuietBytes ==
    ASSUME EInv, \A s \in ToSet(table) : path'[s] = path[s],
           UNCHANGED table
    PROVE  CachedBytes' = CachedBytes
<1>1. IsFiniteSet(ToSet(table)) /\ \A s \in ToSet(table) : path[s] \in File
  BY Summands
<1>2. Bytes(path', ToSet(table)) = Bytes(path, ToSet(table))
  BY <1>1, BytesSame
<1>3. ToSet(table)' = ToSet(table)
  OBVIOUS
<1>4. CachedBytes' = Bytes(path', ToSet(table))
  BY <1>3 DEF CachedBytes, Bytes
<1> QED BY <1>2, <1>4 DEF CachedBytes

\* What a step does to the reserved bytes, by what it does to the stores.
LEMMA ReservedStep ==
    ASSUME EInv, NEW p \in Proc, \A q \in Proc : q # p => pc'[q] = pc[q] /\ file'[q] = file[q],
           p \in Reserved \union Reserved' => file'[p] = file[p] /\ file[p] \in File
    PROVE  /\ ReservedBytes' =
                ReservedBytes + (IF p \in Reserved' \ Reserved THEN Size[file[p]] ELSE 0)
                              - (IF p \in Reserved \ Reserved' THEN Size[file[p]] ELSE 0)
           /\ Bytes(file, Filling)' =
                Bytes(file, Filling) + (IF p \in Filling' \ Filling THEN Size[file[p]] ELSE 0)
                                     - (IF p \in Filling \ Filling' THEN Size[file[p]] ELSE 0)
<1>1. /\ Reserved' \in {Reserved, Reserved \union {p}, Reserved \ {p}}
      /\ Filling' \in {Filling, Filling \union {p}, Filling \ {p}}
  BY DEF Reserved, Filling, Storing
<1>2. Filling \subseteq Reserved /\ Filling' \subseteq Reserved'
  BY DEF Reserved, Filling, Storing
<1>3. ASSUME NEW S, NEW T, S \subseteq Reserved, T \subseteq Reserved', IsFiniteSet(S),
             T \in {S, S \union {p}, S \ {p}}
      PROVE  Bytes(file', T) = Bytes(file, S) + (IF p \in T \ S THEN Size[file[p]] ELSE 0)
                                              - (IF p \in S \ T THEN Size[file[p]] ELSE 0)
  <2>1. /\ \A x \in S : file[x] \in File /\ file'[x] = file[x]
        /\ \A x \in T : file[x] \in File /\ file'[x] = file[x]
    <3>1. \A x \in Reserved \union Reserved' : x \in Proc
      BY DEF Reserved, Storing
    <3>2. \A x \in Reserved : file[x] \in File
      BY Summands
    <3>3. \A x \in T : x \in S \/ x = p
      BY <1>3
    <3> QED BY <1>3, <3>1, <3>2, <3>3
  <2>2. IsFiniteSet(T)
    BY <1>3, FS_AddElement, FS_RemoveElement
  <2>3. Bytes(file', T) = Bytes(file, T) /\ Bytes(file, S) \in Nat /\ Bytes(file, T) \in Nat
    BY <1>3, <2>1, <2>2, BytesSame, BytesNat
  <2>4. CASE T = S
    BY <2>3, <2>4
  <2>5. CASE T # S /\ p \notin S
    <3>1. T = S \union {p}
      BY <1>3, <2>5
    <3>2. Bytes(file, T) = Size[file[p]] + Bytes(file, S)
      BY <1>3, <2>1, <2>5, <3>1, BytesMore
    <3>3. p \in T \ S /\ p \notin S \ T /\ Size[file[p]] \in Nat
      BY <2>1, <2>5, <3>1, MinioAssumption
    <3> QED BY <2>3, <3>2, <3>3
  <2>6. CASE T # S /\ p \in S
    <3>1. T = S \ {p}
      BY <1>3, <2>6
    <3>2. Bytes(file, S) = Size[file[p]] + Bytes(file, T)
      BY <1>3, <2>1, <2>6, <3>1, BytesLess
    <3>3. p \notin T \ S /\ p \in S \ T /\ Size[file[p]] \in Nat
      BY <2>1, <2>6, <3>1, MinioAssumption
    <3> QED BY <2>3, <3>2, <3>3
  <2> QED BY <2>4, <2>5, <2>6
<1>4. /\ ReservedBytes = Bytes(file, Reserved) /\ ReservedBytes' = Bytes(file', Reserved')
      /\ Bytes(file, Filling)' = Bytes(file', Filling')
  BY DEF ReservedBytes, Reserved, Bytes
<1>5. IsFiniteSet(Reserved) /\ IsFiniteSet(Filling)
  BY Summands
<1>6. Bytes(file', Reserved') =
        Bytes(file, Reserved) + (IF p \in Reserved' \ Reserved THEN Size[file[p]] ELSE 0)
                              - (IF p \in Reserved \ Reserved' THEN Size[file[p]] ELSE 0)
  BY <1>1, <1>3, <1>5
<1>7. Bytes(file', Filling') =
        Bytes(file, Filling) + (IF p \in Filling' \ Filling THEN Size[file[p]] ELSE 0)
                             - (IF p \in Filling \ Filling' THEN Size[file[p]] ELSE 0)
  BY <1>1, <1>2, <1>3, <1>5
<1> QED BY <1>4, <1>6, <1>7

\* Fewer files, fewer bytes.
LEMMA BytesSubset ==
    ASSUME NEW S, IsFiniteSet(S), NEW name, \A x \in S : name[x] \in File, NEW U \in SUBSET S
    PROVE  Bytes(name, U) <= Bytes(name, S)
<1> DEFINE Good == {T \in SUBSET S : \A V \in SUBSET T : Bytes(name, V) <= Bytes(name, T)}
<1>1. ASSUME NEW T \in SUBSET S, \A V \in SUBSET T : V # T => V \in Good
      PROVE  T \in Good
  <2>1. SUFFICES ASSUME NEW V \in SUBSET T PROVE Bytes(name, V) <= Bytes(name, T)
    OBVIOUS
  <2>2. \A W \in SUBSET S : Bytes(name, W) \in Nat /\ IsFiniteSet(W)
    BY FS_Subset, BytesNat
  <2>3. CASE V = T
    BY <2>2, <2>3
  <2>4. CASE V # T
    <3>1. PICK x \in T : x \notin V
      BY <2>4
    <3>2. T \ {x} \in Good /\ V \in SUBSET (T \ {x})
      BY <1>1, <3>1
    <3>3. Bytes(name, V) <= Bytes(name, T \ {x})
      BY <3>2
    <3>4. Bytes(name, T) = Size[name[x]] + Bytes(name, T \ {x}) /\ Size[name[x]] \in Nat
      BY <2>2, <3>1, BytesLess, MinioAssumption
    <3>5. Bytes(name, V) \in Nat /\ Bytes(name, T \ {x}) \in Nat
      BY <2>2, <3>2
    <3> QED BY <3>3, <3>4, <3>5
  <2> QED BY <2>3, <2>4
<1>2. \A T \in SUBSET S : T \in Good
  <2> HIDE DEF Good
  <2> QED BY <1>1, SubsetInduction
<1> QED BY <1>2

\* Steps that leave the bytes counted alone: calls, loads, the test of a store, and the
\* flush up to its end.
LEMMA QuietBooks ==
    ASSUME Books, EInv, NEW p \in Proc, UNCHANGED <<used, table, path>>,
           \A q \in Proc : q # p => pc'[q] = pc[q] /\ file'[q] = file[q],
           pc[p] \notin {"undo", "fill", "add"}, pc'[p] \notin {"undo", "fill", "add"}
    PROVE  Books'
<1>1. p \notin Reserved \union Reserved' \union Filling \union Filling'
  BY DEF Reserved, Filling, Storing
<1>2. ReservedBytes' = ReservedBytes /\ Bytes(file, Filling)' = Bytes(file, Filling)
  <2>1. ReservedBytes \in Nat /\ Bytes(file, Filling) \in Nat
    BY Summands
  <2> QED BY <1>1, <2>1, ReservedStep
<1>3. CachedBytes' = CachedBytes
  BY QuietBytes
<1> QED BY <1>2, <1>3 DEF Books, UsedCoversCached, UsedIsAccounted

\* The books of an empty cache.
LEMMA InitBooks == Init => Books
<1> SUFFICES ASSUME Init PROVE Books
  OBVIOUS
<1>1. ToSet(table) = {} /\ Reserved = {} /\ Filling = {}
  BY DEF Init, ToSet, Reserved, Filling, Storing
<1>2. CachedBytes = 0 /\ ReservedBytes = 0 /\ Bytes(file, Filling) = 0
  BY <1>1, BytesNone DEF CachedBytes, ReservedBytes, Reserved
<1> QED BY <1>2, MinioAssumption DEF Init, Books, UsedCoversCached, UsedIsAccounted

\* A store reserves its bytes, and keeps them where they fit.
LEMMA ReserveBooks ==
    ASSUME Books, EInv, NEW p \in Proc, reserve(p)
    PROVE  Books'
<1>1. /\ pc[p] = "reserve" /\ p \in Storing /\ file[p] \in File /\ Size[file[p]] \in Nat
      /\ UNCHANGED <<table, path, file>> /\ used' = used + Size[file[p]]
      /\ \A q \in Proc : q # p => pc'[q] = pc[q]
      /\ pc'[p] = IF InRange(used, file[p]) THEN "fill" ELSE "undo"
  BY MinioAssumption DEF reserve, Goto, EInv, Types, Entries, Storing, Places
<1>2. /\ p \in Reserved' \ Reserved /\ p \notin Filling /\ p \notin Reserved \ Reserved'
      /\ p \in Filling' <=> InRange(used, file[p])
  BY <1>1 DEF Reserved, Filling, Storing
<1>3. /\ CachedBytes \in Nat /\ ReservedBytes \in Nat /\ Bytes(file, Filling) \in Nat
      /\ Bytes(file, Filling) <= ReservedBytes
  BY Summands, BytesSubset
<1>4. CachedBytes' = CachedBytes
  BY <1>1, QuietBytes
<1>5. /\ ReservedBytes' = ReservedBytes + Size[file[p]]
      /\ Bytes(file, Filling)' =
           Bytes(file, Filling) + (IF InRange(used, file[p]) THEN Size[file[p]] ELSE 0)
  BY <1>1, <1>2, <1>3, ReservedStep
<1>6. used' \in Nat /\ UsedCoversCached' /\ (ShmMayFail = FALSE => UsedIsAccounted')
  BY <1>1, <1>3, <1>4, <1>5 DEF Books, UsedCoversCached, UsedIsAccounted
<1>7. (CachedBytes + Bytes(file, Filling))' <= CacheSize
  BY <1>1, <1>3, <1>4, <1>5, MinioAssumption DEF Books, UsedCoversCached, InRange
<1> QED BY <1>6, <1>7 DEF Books

\* It gives them back, or it keeps them when a shm call fails or its process dies.
LEMMA DropBooks ==
    ASSUME Books, EInv, NEW p \in Proc, undo(p) \/ fill_fails(p) \/ fill_faults(p)
    PROVE  Books'
<1> USE DEF Fail, ReturnCounting, Return, Goto
<1>1. /\ pc[p] \in {"undo", "fill"} /\ p \in Storing /\ file[p] \in File /\ Size[file[p]] \in Nat
      /\ UNCHANGED <<table, file>> /\ pc'[p] \in {"idle", "dead"}
      /\ \A q \in Proc : q # p => pc'[q] = pc[q]
  BY MinioAssumption DEF undo, fill_fails, fill_faults, EInv, Types, Entries, Storing, Places
<1>2. slot[p] \in Slot /\ slot[p] \notin ToSet(table)
  BY <1>1 DEF EInv, Slots
<1>3. \A s \in ToSet(table) : path'[s] = path[s]
  BY <1>2, Summands DEF undo, fill_fails, fill_faults, EInv, Types
<1>4. CachedBytes' = CachedBytes
  BY <1>1, <1>3, QuietBytes
<1>5. /\ p \in Reserved \ Reserved' /\ p \notin Reserved' \ Reserved /\ p \notin Filling'
      /\ p \in Filling <=> pc[p] = "fill"
  BY <1>1 DEF Reserved, Filling, Storing
<1>6. CachedBytes \in Nat /\ ReservedBytes \in Nat /\ Bytes(file, Filling) \in Nat
  BY Summands
<1>7. /\ ReservedBytes' = ReservedBytes - Size[file[p]]
      /\ Bytes(file, Filling)' \in {Bytes(file, Filling), Bytes(file, Filling) - Size[file[p]]}
  BY <1>1, <1>5, <1>6, ReservedStep
<1>8. ReservedBytes' \in Nat
  <2>1. ReservedBytes = Size[file[p]] + Bytes(file, Reserved \ {p})
    BY <1>5, Summands, BytesLess
  <2>2. Bytes(file, Reserved \ {p}) \in Nat
    <3>1. IsFiniteSet(Reserved \ {p}) /\ \A q \in Reserved \ {p} : file[q] \in File
      BY Summands, FS_Subset
    <3> QED BY <3>1, BytesNat
  <2> QED BY <1>1, <1>6, <1>7, <2>1, <2>2
<1>9. CASE undo(p)
  <2>1. used' = used - Size[file[p]]
    BY <1>9 DEF undo, Undone
  <2> QED BY <1>1, <1>4, <1>6, <1>7, <1>8, <2>1, MinioAssumption
          DEF Books, UsedCoversCached, UsedIsAccounted
<1>10. CASE fill_fails(p) \/ fill_faults(p)
  <2>1. used' = used /\ ShmMayFail = TRUE
    BY <1>10, MinioAssumption DEF fill_fails, fill_faults
  <2> QED BY <1>1, <1>4, <1>6, <1>7, <1>8, <2>1, MinioAssumption
          DEF Books, UsedCoversCached
<1> QED BY <1>9, <1>10

\* The entry's path is set before it is in the table.
LEMMA FillBooks ==
    ASSUME Books, EInv, NEW p \in Proc, fill(p)
    PROVE  Books'
<1>1. /\ pc[p] = "fill" /\ pc'[p] = "add" /\ p \in Storing /\ file[p] \in File
      /\ UNCHANGED <<used, table, file>>
      /\ \A q \in Proc : q # p => pc'[q] = pc[q]
  BY DEF fill, Goto, EInv, Types, Entries, Storing, Places
<1>2. slot[p] \in Slot /\ slot[p] \notin ToSet(table)
  BY <1>1 DEF EInv, Slots
<1>3. \A s \in ToSet(table) : path'[s] = path[s]
  BY <1>2, Summands DEF fill, EInv, Types
<1>4. CachedBytes' = CachedBytes
  BY <1>1, <1>3, QuietBytes
<1>5. p \in Reserved /\ p \in Reserved' /\ p \in Filling /\ p \in Filling'
  BY <1>1 DEF Reserved, Filling, Storing
<1>6. ReservedBytes' = ReservedBytes /\ Bytes(file, Filling)' = Bytes(file, Filling)
  <2>1. ReservedBytes \in Nat /\ Bytes(file, Filling) \in Nat
    BY Summands
  <2> QED BY <1>1, <1>5, <2>1, ReservedStep
<1> QED BY <1>1, <1>4, <1>6 DEF Books, UsedCoversCached, UsedIsAccounted

\* What was reserved is cached.
LEMMA AddBooks ==
    ASSUME Books, EInv, NEW p \in Proc, add(p)
    PROVE  Books'
<1>1. /\ pc[p] = "add" /\ pc'[p] = "idle" /\ p \in Storing
      /\ file[p] \in File /\ Size[file[p]] \in Nat /\ path[slot[p]] = file[p]
      /\ UNCHANGED <<used, path, file>>
      /\ \A q \in Proc : q # p => pc'[q] = pc[q]
  BY MinioAssumption
  DEF add, ReturnCounting, Return, Goto, EInv, Types, Entries, Storing, Places
<1>2. slot[p] \in Slot /\ slot[p] \notin ToSet(table)
  BY <1>1 DEF EInv, Slots
<1>3. ToSet(table)' = ToSet(table) \union {slot[p]}
  BY AddStep
<1>4. CachedBytes' = Size[file[p]] + CachedBytes
  <2>1. Bytes(path, ToSet(table) \union {slot[p]}) = Size[path[slot[p]]] + Bytes(path, ToSet(table))
    BY <1>1, <1>2, Summands, BytesMore
  <2> QED BY <1>1, <1>3, <2>1 DEF CachedBytes, Bytes
<1>5. p \in Reserved \ Reserved' /\ p \in Filling \ Filling' /\ p \notin Reserved' /\ p \notin Filling'
  BY <1>1 DEF Reserved, Filling, Storing
<1>6. CachedBytes \in Nat /\ ReservedBytes \in Nat /\ Bytes(file, Filling) \in Nat
  BY Summands
<1>7. /\ ReservedBytes' = ReservedBytes - Size[file[p]]
      /\ Bytes(file, Filling)' = Bytes(file, Filling) - Size[file[p]]
  BY <1>1, <1>5, <1>6, ReservedStep
<1> QED BY <1>1, <1>4, <1>6, <1>7, MinioAssumption DEF Books, UsedCoversCached, UsedIsAccounted

\* The end of a flush: the process is alone, nothing is cached or reserved.
LEMMA ClearBooks ==
    ASSUME Solo, EInv, NEW p \in Proc, flush_clear(p)
    PROVE  Books'
<1>1. /\ table' = <<>> /\ used' = 0 /\ pc'[p] = "idle" /\ \A q \in Proc : q = p
  BY DEF Solo, EInv, Types, Entries, flush_clear, FlushedTable, Return, Goto
<1>2. ToSet(table)' = {} /\ Reserved' = {} /\ Filling' = {}
  BY <1>1 DEF ToSet, Reserved, Filling, Storing
<1>3. CachedBytes' = 0 /\ ReservedBytes' = 0 /\ Bytes(file, Filling)' = 0
  BY <1>2, BytesNone DEF CachedBytes, ReservedBytes, Reserved, Bytes
<1> QED BY <1>1, <1>3, MinioAssumption DEF Books, UsedCoversCached, UsedIsAccounted

\* Every step keeps the books.
LEMMA NextBooks == ASSUME Solo, EInv, Books, [Next]_vars PROVE Books'
<1> USE DEF Goto, Return, ReturnCounting, cacheVars, lockVars
<1>1. ASSUME NEW p \in Proc, Call(p) PROVE Books'
  <2>1. /\ UNCHANGED <<used, table, path>> /\ pc[p] = "idle" /\ pc'[p] \in {"find", "store", "flush"}
        /\ \A q \in Proc : q # p => pc'[q] = pc[q] /\ file'[q] = file[q]
    BY <1>1 DEF Call, cache_read, cache_load, cache_store, cache_flush, Begin, EInv, Types
  <2> QED BY <2>1, QuietBooks
<1>2. ASSUME NEW p \in Proc, find_miss(p) \/ find_hit(p) \/ couple(p) \/ copy(p) \/ copy_aborts(p)
                             \/ read_file(p) \/ take_slot(p) \/ flush_visit(p)
      PROVE  Books'
  <2>1. UNCHANGED <<used, table, path, file>>
    BY <1>2 DEF find_miss, find_hit, couple, copy, copy_aborts, read_file, take_slot, Fail, flush_visit
  <2>2. /\ pc[p] \in {"find", "couple", "copy", "open", "store", "flush"}
        /\ pc'[p] \in {"open", "idle", "couple", "copy", "dead", "store", "reserve", "flush"}
        /\ \A q \in Proc : q # p => pc'[q] = pc[q]
    BY <1>2 DEF find_miss, find_hit, couple, copy, copy_aborts, read_file, take_slot, Fail, flush_visit,
                EInv, Types
  <2> QED BY <2>1, <2>2, QuietBooks
<1>3. CASE UNCHANGED vars
  BY <1>3 DEF vars, Books, UsedCoversCached, UsedIsAccounted, CachedBytes, ReservedBytes, Bytes,
              Filling, Storing
<1> QED BY <1>1, <1>2, <1>3, ReserveBooks, DropBooks, FillBooks, AddBooks, ClearBooks
        DEF Next, Step, Finished

-----------------------------------------------------------------------------
(* What the shm objects hold.                                              *)

\* Unless somebody flushes, the shm object of every entry in the table, and of every
\* entry about to be added, holds the bytes of the entry's file.
Objects ==
    /\ (\A p \in Proc : pc[p] # "flush") =>
         \A s \in ToSet(table) : shm[ShmPath[path[s]]] = path[s]
    /\ \A p \in Proc : pc[p] = "add" => shm[ShmPath[file[p]]] = file[p]

\* No two files share the name of a shm object.
OwnPaths == \A f, g \in File : ShmPath[f] = ShmPath[g] => f = g

\* No entry, no object.
LEMMA InitObjects == Init => Objects
BY DEF Init, Objects, ToSet

\* Steps that leave the objects alone.
LEMMA QuietObjects ==
    ASSUME Objects, EInv, NEW p \in Proc, UNCHANGED <<table, path, shm>>,
           \A q \in Proc : q # p => pc'[q] = pc[q] /\ file'[q] = file[q],
           pc[p] # "flush", pc'[p] # "add"
    PROVE  Objects'
<1>1. (\A q \in Proc : pc'[q] # "flush") => \A q \in Proc : pc[q] # "flush"
  OBVIOUS
<1>2. \A q \in Proc : pc'[q] = "add" => shm[ShmPath[file'[q]]] = file'[q]
  BY DEF Objects
<1> QED BY <1>1, <1>2 DEF Objects

\* Every step keeps the objects of the entries: a store writes its own file's object only.
LEMMA NextObjects ==
    ASSUME Solo, OwnPaths, ShmMayFail = FALSE, EInv, Objects, [Next]_vars
    PROVE  Objects'
<1> USE DEF Goto, Return, ReturnCounting, cacheVars, lockVars
<1>1. ASSUME NEW p \in Proc, Call(p) PROVE Objects'
  <2>1. /\ UNCHANGED <<table, path, shm>> /\ pc[p] = "idle" /\ pc'[p] \in {"find", "store", "flush"}
        /\ \A q \in Proc : q # p => pc'[q] = pc[q] /\ file'[q] = file[q]
    BY <1>1 DEF Call, cache_read, cache_load, cache_store, cache_flush, Begin, EInv, Types
  <2> QED BY <2>1, QuietObjects
<1>2. ASSUME NEW p \in Proc, find_miss(p) \/ find_hit(p) \/ couple(p) \/ copy(p) \/ copy_aborts(p)
                             \/ read_file(p) \/ take_slot(p) \/ reserve(p) \/ undo(p)
      PROVE  Objects'
  <2>1. UNCHANGED <<table, path, shm, file>>
    BY <1>2 DEF find_miss, find_hit, couple, copy, copy_aborts, read_file, take_slot, reserve, undo, Fail
  <2>2. /\ pc[p] \in {"find", "couple", "copy", "open", "store", "reserve", "undo"}
        /\ pc'[p] \in {"open", "idle", "couple", "copy", "dead", "store", "reserve", "fill", "undo"}
        /\ \A q \in Proc : q # p => pc'[q] = pc[q]
    BY <1>2 DEF find_miss, find_hit, couple, copy, copy_aborts, read_file, take_slot, reserve, undo, Fail,
                EInv, Types
  <2> QED BY <2>1, <2>2, QuietObjects
<1>3. ASSUME NEW p \in Proc, fill(p) PROVE Objects'
  <2>1. /\ pc[p] = "fill" /\ p \in Storing /\ file[p] \in File /\ UNCHANGED <<table, file>>
        /\ pc'[p] = "add" /\ \A q \in Proc : q # p => pc'[q] = pc[q]
        /\ slot[p] \notin ToSet(table)
    BY <1>3 DEF fill, EInv, Types, Entries, Slots, Storing, Places
  <2>2. \A f \in File : shm'[ShmPath[f]] = IF f = file[p] THEN f ELSE shm[ShmPath[f]]
    BY <1>3, <2>1 DEF fill, EInv, Types, OwnPaths
  <2>3. \A s \in ToSet(table) : path'[s] = path[s] /\ path[s] \in File
    BY <1>3, <2>1, Summands DEF fill, EInv, Types
  <2>4. \A q \in Proc : pc'[q] = "add" => file[q] \in File
    BY <2>1 DEF EInv, Entries, Places
  <2>5. (\A q \in Proc : pc'[q] # "flush") => \A q \in Proc : pc[q] # "flush"
    BY <2>1
  <2>6. (\A q \in Proc : pc'[q] # "flush") =>
          \A s \in ToSet(table)' : shm'[ShmPath[path'[s]]] = path'[s]
    BY <2>1, <2>2, <2>3, <2>5 DEF Objects
  <2>7. \A q \in Proc : pc'[q] = "add" => shm'[ShmPath[file'[q]]] = file'[q]
    BY <2>1, <2>2, <2>4 DEF Objects
  <2> QED BY <2>6, <2>7 DEF Objects
<1>4. ASSUME NEW p \in Proc, add(p) PROVE Objects'
  <2>1. /\ pc[p] = "add" /\ UNCHANGED <<path, shm, file>> /\ path[slot[p]] = file[p]
        /\ pc'[p] = "idle" /\ \A q \in Proc : q # p => pc'[q] = pc[q]
    BY <1>4 DEF add, EInv, Types, Entries
  <2>2. ToSet(table)' = ToSet(table) \union {slot[p]}
    BY <1>4, AddStep
  <2> QED BY <2>1, <2>2 DEF Objects
<1>5. ASSUME NEW p \in Proc, fill_fails(p) \/ fill_faults(p) PROVE Objects'
  BY <1>5 DEF fill_fails, fill_faults
<1>6. ASSUME NEW p \in Proc, flush_visit(p) PROVE Objects'
  <2>1. pc'[p] = "flush" /\ \A q \in Proc : q = p
    BY <1>6 DEF flush_visit, Solo, EInv, Entries
  <2> QED BY <2>1 DEF Objects
<1>7. ASSUME NEW p \in Proc, flush_clear(p) PROVE Objects'
  <2>1. pc'[p] = "idle" /\ table' = <<>> /\ \A q \in Proc : q = p
    BY <1>7 DEF flush_clear, FlushedTable, Solo, EInv, Types, Entries
  <2> QED BY <2>1 DEF Objects, ToSet
<1>8. CASE UNCHANGED vars
  BY <1>8 DEF vars, Objects
<1> QED BY <1>1, <1>2, <1>3, <1>4, <1>5, <1>6, <1>7, <1>8 DEF Next, Step, Finished

\* Nobody flushes while a load copies, so the entry's object is there.
LEMMA ObjectsGiveOwnFile ==
    ASSUME Solo, EInv, Objects
    PROVE  CopiesOwnFile
<1> SUFFICES ASSUME NEW p \in Proc, pc[p] = "copy"
             PROVE  path[slot[p]] = file[p] /\ shm[Name(slot[p])] = file[p]
  BY DEF CopiesOwnFile
<1>1. slot[p] \in ToSet(table) /\ path[slot[p]] = file[p]
  BY DEF EInv, Entries
<1>2. \A q \in Proc : pc[q] # "flush"
  BY DEF Solo, EInv, Entries
<1> QED BY <1>1, <1>2 DEF Objects, Name

-----------------------------------------------------------------------------
(* The statistics.                                                         *)

\* The reads on their way, and what has been counted for those that ended.
Reading == {p \in Proc : pc[p] # "idle" /\ call[p] = "read"}
Ends == Stats \ {"n_accs"}

Counts ==
    /\ stat["n_accs"] = Sum(Ends) + Cardinality(Reading)
    /\ \A p \in Proc : pc[p] = "flush" => call[p] = "flush"

\* The sum over the ways a read ends is a number.
LEMMA SumOfEnds ==
    ASSUME stat \in [Stats -> Nat]
    PROVE  /\ IsFiniteSet(Ends) /\ Sum(Ends) = SumOf(stat, Ends) /\ Sum(Ends) \in Nat
           /\ stat["n_accs"] \in Nat
<1>1. IsFiniteSet(Stats)
  <2>1. /\ IsFiniteSet({"n_accs"}) /\ IsFiniteSet({"n_accs", "n_hits"})
        /\ IsFiniteSet({"n_accs", "n_hits", "n_miss_cold"})
        /\ IsFiniteSet({"n_accs", "n_hits", "n_miss_cold", "n_miss_capacity"})
    <3>1. IsFiniteSet({"n_accs"})
      BY FS_Singleton
    <3>2. /\ {"n_accs", "n_hits"} = {"n_accs"} \union {"n_hits"}
          /\ {"n_accs", "n_hits", "n_miss_cold"} = {"n_accs", "n_hits"} \union {"n_miss_cold"}
          /\ {"n_accs", "n_hits", "n_miss_cold", "n_miss_capacity"}
               = {"n_accs", "n_hits", "n_miss_cold"} \union {"n_miss_capacity"}
      OBVIOUS
    <3> QED BY <3>1, <3>2, FS_AddElement
  <2>2. Stats = {"n_accs", "n_hits", "n_miss_cold", "n_miss_capacity"} \union {"n_fail"}
    BY DEF Stats
  <2> QED BY <2>1, <2>2, FS_AddElement
<1>2. IsFiniteSet(Ends)
  BY <1>1, FS_Subset DEF Ends
<1> QED BY <1>2, SumNat DEF Ends, Sum, SumOf, Stats

\* A read that is counted once more when it begins, and another count when it ends.
LEMMA CountingStep ==
    ASSUME EInv, Counts, NEW p \in Proc,
           \/ stat' = stat /\ Reading' = Reading
           \/ stat' = Counted("n_accs") /\ p \notin Reading /\ Reading' = Reading \union {p}
           \/ \E k \in Ends : stat' = Counted(k) /\ p \in Reading /\ Reading' = Reading \ {p}
    PROVE  (stat["n_accs"] = Sum(Ends) + Cardinality(Reading))'
<1>1. stat \in [Stats -> Nat] /\ IsFiniteSet(Ends) /\ "n_accs" \in Stats
  BY SumOfEnds DEF EInv, Types, Stats
<1>2. Sum(Ends) = SumOf(stat, Ends) /\ Sum(Ends)' = SumOf(stat', Ends) /\ Sum(Ends) \in Nat
  BY <1>1, SumOfEnds DEF Sum, SumOf, Ends
<1>3. IsFiniteSet(Reading) /\ Cardinality(Reading) \in Nat
  <2>1. Reading \subseteq Proc
    BY DEF Reading
  <2> QED BY <2>1, FS_Subset, FS_CardinalityType, MinioAssumption
<1>4. CASE stat' = stat /\ Reading' = Reading
  <2>1. Sum(Ends)' = Sum(Ends)
    BY <1>2, <1>4
  <2> QED BY <1>4, <2>1 DEF Counts
<1>5. CASE stat' = Counted("n_accs") /\ p \notin Reading /\ Reading' = Reading \union {p}
  <2>1. /\ stat'["n_accs"] = stat["n_accs"] + 1
        /\ \A k \in Ends : stat[k] \in Int /\ stat'[k] = stat[k]
    BY <1>1, <1>5, CountedStat DEF Ends
  <2>2. Sum(Ends)' = Sum(Ends)
    BY <1>1, <1>2, <2>1, SumSame
  <2>3. Cardinality(Reading)' = Cardinality(Reading) + 1
    BY <1>3, <1>5, FS_AddElement
  <2> QED BY <1>2, <1>3, <2>1, <2>2, <2>3 DEF Counts
<1>6. ASSUME NEW k \in Ends, stat' = Counted(k), p \in Reading, Reading' = Reading \ {p}
      PROVE  (stat["n_accs"] = Sum(Ends) + Cardinality(Reading))'
  <2>1. /\ stat'["n_accs"] = stat["n_accs"] /\ stat'[k] = stat[k] + 1 /\ stat[k] \in Nat
        /\ \A j \in Ends : stat[j] \in Int /\ stat'[j] \in Int
        /\ \A j \in Ends \ {k} : stat'[j] = stat[j]
    BY <1>1, <1>6, CountedStat DEF Ends
  <2>2. SumOf(stat', Ends) = SumOf(stat, Ends) - stat[k] + stat'[k]
    BY <1>1, <1>6, <2>1, SumChange
  <2>3. Sum(Ends)' = Sum(Ends) + 1
    BY <1>2, <2>1, <2>2
  <2>4. Cardinality(Reading)' = Cardinality(Reading) - 1
    BY <1>3, <1>6, FS_RemoveElement
  <2> QED BY <1>2, <1>3, <2>1, <2>3, <2>4 DEF Counts
<1> QED BY <1>4, <1>5, <1>6

\* Nothing has been counted.
LEMMA InitCounts == Init => Counts
<1> SUFFICES ASSUME Init PROVE Counts
  OBVIOUS
<1>1. Reading = {} /\ Cardinality(Reading) = 0
  BY FS_EmptySet DEF Init, Reading
<1>2. stat \in [Stats -> Nat] /\ stat = [k \in Stats |-> 0] /\ "n_accs" \in Stats
  BY DEF Init, Stats
<1>3. Sum(Ends) = 0
  <2> DEFINE Zero == {T \in SUBSET Ends : SumOf(stat, T) = 0}
  <2>1. ASSUME NEW T \in SUBSET Ends, \A U \in SUBSET T : U # T => U \in Zero
        PROVE  T \in Zero
    <3>1. IsFiniteSet(T)
      BY <1>2, SumOfEnds, FS_Subset
    <3>2. CASE T = {}
      BY <3>1, <3>2, SumFirst
    <3>3. CASE T # {}
      <4>1. First(T) \in Stats /\ Rest(T) \in Zero
        BY <2>1, <3>3, FirstAndRest DEF Ends
      <4> QED BY <1>2, <3>1, <3>3, <4>1, SumFirst
    <3> QED BY <3>2, <3>3
  <2>2. \A T \in SUBSET Ends : T \in Zero
    <3> HIDE DEF Zero
    <3> QED BY <1>2, <2>1, SumOfEnds, SubsetInduction
  <2> QED BY <1>2, <2>2, SumOfEnds
<1> QED BY <1>1, <1>2, <1>3 DEF Init, Counts

\* Every step keeps the counts: an entry that is found fits the buffer of cache_read, so
\* the only way out that does not count is not taken.
LEMMA NextCounts ==
    ASSUME Solo, MaxItemSize <= MaxUsable, EInv, Counts, [Next]_vars
    PROVE  Counts'
<1> USE DEF Goto, Return, ReturnCounting, cacheVars, lockVars
<1> DEFINE Moves(p) ==
             \/ stat' = stat /\ Reading' = Reading
             \/ stat' = Counted("n_accs") /\ p \notin Reading /\ Reading' = Reading \union {p}
             \/ \E k \in Ends : stat' = Counted(k) /\ p \in Reading /\ Reading' = Reading \ {p}
<1> DEFINE FlushesOnly == \A p \in Proc : pc[p] = "flush" => call[p] = "flush"
<1>0. {"n_hits", "n_miss_cold", "n_miss_capacity", "n_fail"} = Ends
  BY DEF Ends, Stats
<1>1. ASSUME NEW p \in Proc, Moves(p), FlushesOnly' PROVE Counts'
  BY <1>1, CountingStep DEF Counts
<1>2. ASSUME NEW p \in Proc, Call(p) PROVE Counts'
  <2>1. PICK what \in {"read", "load", "store", "flush"}, l \in {"find", "store", "flush"} :
          /\ pc[p] = "idle" /\ call' = [call EXCEPT ![p] = what] /\ pc' = [pc EXCEPT ![p] = l]
          /\ stat' = IF what = "read" THEN Counted("n_accs") ELSE stat
          /\ l = "flush" => what = "flush"
    BY <1>2 DEF Call, cache_read, cache_load, cache_store, cache_flush, Begin
  <2>2. /\ pc'[p] = l /\ call'[p] = what
        /\ \A q \in Proc : q # p => pc'[q] = pc[q] /\ call'[q] = call[q]
    BY <2>1 DEF EInv, Types
  <2>3. FlushesOnly'
    BY <2>1, <2>2 DEF Counts
  <2>4. Moves(p)
    BY <2>1, <2>2 DEF Reading
  <2> QED BY <1>1, <2>3, <2>4
<1>3. ASSUME NEW p \in Proc, UNCHANGED call, pc[p] # "idle",
             NEW l \in {"open", "couple", "copy", "dead", "store", "reserve", "fill", "undo", "add"},
             pc' = [pc EXCEPT ![p] = l], UNCHANGED stat
      PROVE  Counts'
  <2>1. pc'[p] = l /\ \A q \in Proc : q # p => pc'[q] = pc[q]
    BY <1>3 DEF EInv, Types
  <2>2. Reading' = Reading
    BY <1>3, <2>1 DEF Reading
  <2>3. FlushesOnly'
    BY <1>3, <2>1 DEF Counts
  <2> QED BY <1>1, <1>3, <2>2, <2>3
<1>4. ASSUME NEW p \in Proc, UNCHANGED call, pc[p] # "idle", pc' = [pc EXCEPT ![p] = "idle"],
             \/ \E k \in Ends : stat' = IF call[p] = "read" THEN Counted(k) ELSE stat
             \/ call[p] # "read" /\ UNCHANGED stat
      PROVE  Counts'
  <2>1. pc'[p] = "idle" /\ \A q \in Proc : q # p => pc'[q] = pc[q]
    BY <1>4 DEF EInv, Types
  <2>2. Reading' = Reading \ {p}
    BY <1>4, <2>1 DEF Reading
  <2>3. call[p] = "read" <=> p \in Reading
    BY <1>4 DEF Reading
  <2>4. Moves(p)
    BY <1>4, <2>2, <2>3
  <2>5. FlushesOnly'
    BY <1>4, <2>1 DEF Counts
  <2> QED BY <1>1, <2>4, <2>5
<1> HIDE DEF Moves, FlushesOnly
<1>5. ASSUME NEW p \in Proc, find_miss(p) PROVE Counts'
  <2>1. UNCHANGED <<call, stat>> /\ pc[p] # "idle"
    BY <1>5 DEF find_miss
  <2>2. CASE call[p] = "read"
    BY <1>3, <1>5, <2>1, <2>2 DEF find_miss
  <2>3. CASE call[p] # "read"
    BY <1>4, <1>5, <2>1, <2>3 DEF find_miss
  <2> QED BY <2>2, <2>3
<1>6. ASSUME NEW p \in Proc, find_hit(p) \/ couple(p) \/ copy_aborts(p) \/ reserve(p) \/ fill(p)
                             \/ fill_faults(p)
      PROVE  Counts'
  <2>1. UNCHANGED <<call, stat>> /\ pc[p] # "idle"
    BY <1>6 DEF find_hit, couple, copy_aborts, reserve, fill, fill_faults
  <2>2. \E l \in {"couple", "copy", "dead", "fill", "undo", "add"} : pc' = [pc EXCEPT ![p] = l]
    BY <1>6 DEF find_hit, couple, copy_aborts, reserve, fill, fill_faults
  <2> QED BY <1>3, <2>1, <2>2
<1>7. ASSUME NEW p \in Proc, copy(p) PROVE Counts'
  <2>1. UNCHANGED call /\ pc[p] # "idle" /\ pc' = [pc EXCEPT ![p] = "idle"]
    BY <1>7 DEF copy
  <2>2. slot[p] \in ToSet(table) /\ path[slot[p]] \in File /\ Size[path[slot[p]]] <= MaxItemSize
    BY <1>7 DEF copy, EInv, Entries
  <2>3. call[p] = "read" => ~ (Size[path[slot[p]]] > Buffer(p))
    BY <2>2, MinioAssumption DEF Buffer
  <2>4. \/ stat' = IF call[p] = "read" THEN Counted("n_hits") ELSE stat
        \/ call[p] # "read" /\ UNCHANGED stat
    BY <1>7, <2>3 DEF copy
  <2> QED BY <1>0, <1>4, <2>1, <2>4
<1>8. ASSUME NEW p \in Proc, read_file(p) \/ take_slot(p) PROVE Counts'
  <2>1. UNCHANGED call /\ pc[p] # "idle"
    BY <1>8 DEF read_file, take_slot, Fail
  <2>2. \/ UNCHANGED stat /\ \E l \in {"store", "reserve"} : pc' = [pc EXCEPT ![p] = l]
        \/ /\ pc' = [pc EXCEPT ![p] = "idle"]
           /\ \E k \in Ends : stat' = IF call[p] = "read" THEN Counted(k) ELSE stat
    BY <1>0, <1>8 DEF read_file, take_slot, Fail
  <2> QED BY <1>3, <1>4, <2>1, <2>2
<1>9. ASSUME NEW p \in Proc, undo(p) \/ fill_fails(p) \/ add(p) PROVE Counts'
  <2>1. UNCHANGED call /\ pc[p] # "idle" /\ pc' = [pc EXCEPT ![p] = "idle"]
    BY <1>9 DEF undo, fill_fails, add, Fail
  <2>2. \E k \in Ends : stat' = IF call[p] = "read" THEN Counted(k) ELSE stat
    BY <1>0, <1>9 DEF undo, fill_fails, add, Fail
  <2> QED BY <1>4, <2>1, <2>2
<1>10. ASSUME NEW p \in Proc, flush_clear(p) PROVE Counts'
  <2>1. /\ UNCHANGED <<call, stat>> /\ pc[p] # "idle" /\ pc' = [pc EXCEPT ![p] = "idle"]
        /\ call[p] = "flush"
    BY <1>10 DEF flush_clear, Counts
  <2> QED BY <1>4, <2>1
<1>11. ASSUME UNCHANGED <<pc, call, stat>> PROVE Counts'
  BY <1>11 DEF Counts, Reading, Sum
<1>12. ASSUME NEW p \in Proc, flush_visit(p) PROVE Counts'
  BY <1>11, <1>12 DEF flush_visit
<1>13. CASE UNCHANGED vars
  BY <1>11, <1>13 DEF vars
<1> QED BY <1>2, <1>5, <1>6, <1>7, <1>8, <1>9, <1>10, <1>12, <1>13 DEF Next, Step, Finished

-----------------------------------------------------------------------------
(* The theorems.                                                           *)

\* The inductive invariant holds.
THEOREM Invariance == ASSUME Solo PROVE Spec => [](EInv /\ Books)
<1>1. Init => EInv /\ Books
  BY InitEInv, InitBooks
<1>2. EInv /\ Books /\ [Next]_vars => (EInv /\ Books)'
  BY NextEInv, NextBooks
<1> QED BY <1>1, <1>2, PTL DEF Spec

\* minio.c:74-79: whatever stores fail and however they interleave, no store writes an
\* entry that another store is filling or that readers find.
THEOREM SlotsNeverShared == ASSUME Solo PROVE Spec => []SlotsExclusive
<1>1. EInv => SlotsExclusive
  BY DEF EInv, Slots, SlotsExclusive
<1> QED BY <1>1, Invariance, PTL

\* minio.h:71: used is the bytes of the entries in the table and of the stores on their
\* way, and the entries never exceed the cache, when no shm call fails.
THEOREM BooksBalance == ASSUME Solo, ShmMayFail = FALSE PROVE Spec => []Accounting
<1>1. EInv /\ Books => Accounting
  <2> SUFFICES ASSUME EInv, Books PROVE Accounting
    OBVIOUS
  <2>1. TypeOK
    BY DEF EInv, Types, Books, TypeOK
  <2>2. CachedFits
    BY Summands, MinioAssumption DEF Books, CachedFits
  <2> QED BY <2>1, <2>2 DEF Books, Accounting
<1> QED BY <1>1, Invariance, PTL

\* What is published fits, and used is never less than what is cached and reserved, also
\* when shm calls fail and after a flush: the test of the capacity errs on the safe side.
THEOREM CapacityTestIsSafe == ASSUME Solo PROVE Spec => [](UsedCoversCached /\ CachedFits)
<1>1. EInv /\ Books => UsedCoversCached /\ CachedFits
  <2> SUFFICES ASSUME EInv, Books PROVE UsedCoversCached /\ CachedFits
    OBVIOUS
  <2> QED BY Summands, MinioAssumption DEF Books, CachedFits
<1> QED BY <1>1, Invariance, PTL

\* minio.c:240: what a load copies are the bytes of the file it was asked for, also when
\* several processes store that file at once, if no two files share a shm name and no
\* shm call fails.
THEOREM LoadsCopyOwnFile ==
    ASSUME Solo, OwnPaths, ShmMayFail = FALSE
    PROVE  Spec => []CopiesOwnFile
<1>1. Init => EInv /\ Objects
  BY InitEInv, InitObjects
<1>2. (EInv /\ Objects) /\ [Next]_vars => (EInv /\ Objects)'
  BY NextEInv, NextObjects
<1>3. EInv /\ Objects => CopiesOwnFile
  BY ObjectsGiveOwnFile
<1> QED BY <1>1, <1>2, <1>3, PTL DEF Spec

\* Each cache_read is counted once more when it ends, a hit, a miss or a failure, if the
\* caller's buffer is as large as the largest item cached.
THEOREM EveryReadIsCounted ==
    ASSUME Solo, MaxItemSize <= MaxUsable
    PROVE  Spec => []StatsAddUp
<1>1. Init => EInv /\ Counts
  BY InitEInv, InitCounts
<1>2. (EInv /\ Counts) /\ [Next]_vars => (EInv /\ Counts)'
  BY NextEInv, NextCounts
<1>3. Counts => StatsAddUp
  BY DEF Counts, StatsAddUp, Reading, Ends
<1> QED BY <1>1, <1>2, <1>3, PTL DEF Spec
=============================================================================
