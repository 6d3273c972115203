---------------------------- MODULE LadCacheNode ----------------------------
(***************************************************************************)
(* One node of LADCache (ladcache/csrc/ladcache/cache.c): users submit,     *)
(* reap and release requests through queues in shared memory; the manager   *)
(* thread serves them from the local cache, from a peer (in a thread of its *)
(* own) or from storage through io_uring, caches what it read while there   *)
(* is room, and tells the peers.  Nothing is ever evicted.  File data       *)
(* travels in POSIX shm objects named after the path.                       *)
(*                                                                         *)
(* Peers and the network are external: a peer may announce a file at any    *)
(* time, and fail, refuse or answer when it is asked for one.               *)
(***************************************************************************)
EXTENDS Integers, FiniteSets, SequencesExt

CONSTANTS
    NUsers,        \* n_users
    QueueDepth,    \* queue_depth: requests of one user
    Path,          \* the files users ask for; distinct shm names
    PeerFiles,     \* bound: those that peers announce
    Size,          \* Size[p]: shm_size of the object p is read into
    Capacity,      \* lcache.capacity
    Threshold,     \* lcache.threshold (max_unsynced); 0 is no limit
    DebugLimits,   \* the values tried for debug_limit
    MaxIdleIters,  \* MAX_IDLE_ITERS
    Faults,        \* what may go wrong, see FaultKinds
    None           \* no file, no object

FaultKinds == {"open",    \* open or fstat of a file fails
               "shm",     \* shm_alloc fails
               "again",   \* ... with EAGAIN, from mlock
               "read",    \* a read completes with res < 0
               "peer",    \* a peer cannot be reached, or refuses
               "cut",     \* ... or goes away in the middle of its answer
               "free",    \* free() of a stray pointer ends the process
               "sync"}    \* a SYNC message cannot be sent

Users == 1 .. NUsers
Entry == Users \X (1 .. QueueDepth)
Owner(e) == e[1]
Object == Path \X (1 .. 2 * NUsers * QueueDepth + Capacity + 2) \* of a name, over time

ASSUME NodeAssumption ==
    /\ NUsers \in Nat \ {0} /\ QueueDepth \in Nat \ {0}
    /\ IsFiniteSet(Path) /\ PeerFiles \subseteq Path
    /\ Size \in [Path -> Nat \ {0}]
    /\ Capacity \in Nat \ {0} /\ Threshold \in Nat /\ DebugLimits \subseteq Nat
    /\ MaxIdleIters \in Nat
    /\ Faults \subseteq FaultKinds
    /\ None \notin Path /\ None \notin Object /\ None \notin Entry

VARIABLES
    free, ready, bottleneck, done, cleanup, \* the queues of each user
    debug_limit,                            \* reads of one user under way; 0 is no limit
    debug_count,                            \* ustate_t, per user
    path, status, skip_clean,               \* request_t, per entry
    ldata, udata,                           \* the objects loader and user map
    reading, cq,                            \* each user's io_uring
    fetching,                               \* entries with a cache_remote_load thread
    hung,                                   \* those whose thread loops for ever
    held,                                   \* entries users reaped and hold
    lost,                                   \* entries reaped with an error
    ht,                                     \* ht[p]: the objects cached for p, newest first
    used, unsynced, n_unsynced,             \* lcache_t
    remote,                                 \* rcache.ht: paths some peer announced
    mpc, turn, idle_iters, prev_length,     \* manager_loop; mpc "dead": process gone
    shm,                                    \* shm[p]: the object linked under p's name
    full,                                   \* objects that hold their whole file
    overlap,                                \* history: paths asked for twice at a time
    announced,                              \* history: paths sent to every peer
    unsent                                  \* history: others, of a sync that failed

queues == <<free, ready, bottleneck, done, cleanup>>
counts == <<debug_limit, debug_count>>
request == <<path, status, skip_clean, ldata, udata>>
io == <<reading, cq, fetching, hung>>
user == <<held, lost>>
cache == <<ht, used, unsynced, n_unsynced>>
manager == <<mpc, turn, idle_iters, prev_length>>
memory == <<shm, full>>
history == <<overlap, announced, unsent>>
vars == <<queues, counts, request, io, user, cache, remote, manager, memory, history>>

-----------------------------------------------------------------------------
(* shm objects.                                                            *)

Live == {shm[p] : p \in Path} \union {ldata[e] : e \in Entry}
          \union {udata[e] : e \in Entry}
          \union UNION {ToSet(ht[p]) : p \in Path}

\* shm_alloc's object: the one that has the name, or a new one.
Opened(p) == IF shm[p] # None THEN shm[p] ELSE CHOOSE o \in Object : o[1] = p /\ o \notin Live

\* Objects without a name or a mapping are gone, and what they held.
FullKept == full' = full \intersect
    ({shm'[p] : p \in Path} \union {ldata'[e] : e \in Entry}
       \union {udata'[e] : e \in Entry} \union UNION {ToSet(ht[p]) : p \in Path})

-----------------------------------------------------------------------------

Init ==
    /\ free = [u \in Users |-> [i \in 1 .. QueueDepth |-> <<u, i>>]]
    /\ ready = [u \in Users |-> <<>>]
    /\ bottleneck = [u \in Users |-> <<>>]
    /\ done = [u \in Users |-> <<>>]
    /\ cleanup = [u \in Users |-> <<>>]
    /\ debug_limit \in DebugLimits
    /\ debug_count = [u \in Users |-> 0]
    /\ path = [e \in Entry |-> None]
    /\ status = [e \in Entry |-> "ok"]
    /\ skip_clean = [e \in Entry |-> FALSE]
    /\ ldata = [e \in Entry |-> None]
    /\ udata = [e \in Entry |-> None]
    /\ reading = {} /\ fetching = {} /\ hung = {}
    /\ cq = [u \in Users |-> <<>>]
    /\ held = {} /\ lost = {}
    /\ ht = [p \in Path |-> <<>>]
    /\ used = 0 /\ unsynced = <<>> /\ n_unsynced = 0
    /\ remote = {}
    /\ mpc = "ready" /\ turn = 1 /\ idle_iters = 0 /\ prev_length = 0
    /\ shm = [p \in Path |-> None]
    /\ full = {}
    /\ overlap = {} /\ announced = {} /\ unsent = {}

-----------------------------------------------------------------------------
(* The users (UserState.submit and reap, Request's dealloc).               *)

\* Requests for p that may still touch an object of p's name.
Pending(p) == {e \in Entry \ lost : path[e] = p /\ e \notin ToSet(free[Owner(e)])}

cache_get_submit(u, p) ==
    /\ free[u] # <<>>
    /\ LET e == Head(free[u]) IN
        /\ free' = [free EXCEPT ![u] = Tail(@)]
        /\ ready' = [ready EXCEPT ![u] = Append(@, e)]
        /\ path' = [path EXCEPT ![e] = p]
    /\ overlap' = IF Pending(p) # {} /\ ht[p] = <<>> THEN overlap \union {p} ELSE overlap
    /\ UNCHANGED <<bottleneck, done, cleanup, counts, status, skip_clean,
                   ldata, udata, io, user, cache, remote, manager, memory,
                   announced, unsent>>

Readable(e) == status[e] = "ok" /\ shm[path[e]] # None

cache_get_reap(u) ==
    /\ done[u] # <<>> /\ Readable(Head(done[u]))
    /\ LET e == Head(done[u]) IN
        /\ done' = [done EXCEPT ![u] = Tail(@)]
        /\ held' = held \union {e}
        /\ udata' = [udata EXCEPT ![e] = shm[path[e]]]
    /\ UNCHANGED <<free, ready, bottleneck, cleanup, counts, path, status,
                   skip_clean, ldata, io, lost, cache, remote, manager, memory,
                   history>>

\* The request failed, or its object has no name any more.  The wrapper
\* raises, or with -EAGAIN goes on, and drops the entry either way.
reap_fails(u) ==
    /\ done[u] # <<>> /\ ~Readable(Head(done[u]))
    /\ done' = [done EXCEPT ![u] = Tail(@)]
    /\ lost' = lost \union {Head(done[u])}
    /\ UNCHANGED <<free, ready, bottleneck, cleanup, counts, request, io, held,
                   cache, remote, manager, memory, history>>

cache_release(e) ==
    /\ e \in held
    /\ held' = held \ {e}
    /\ udata' = [udata EXCEPT ![e] = None]
    /\ cleanup' = [cleanup EXCEPT ![Owner(e)] = Append(@, e)]
    /\ UNCHANGED <<ldata, shm>>
    /\ FullKept
    /\ UNCHANGED <<free, ready, bottleneck, done, counts, path, status,
                   skip_clean, io, lost, cache, remote, manager, history>>

User == \E u \in Users :
    \/ \E p \in Path : cache_get_submit(u, p)
    \/ cache_get_reap(u)
    \/ reap_fails(u)
    \/ \E e \in held : cache_release(e)

-----------------------------------------------------------------------------
(* The manager: one round for each user in turn.                           *)

Goto(from, to) == mpc = from /\ mpc' = to

MustSync == \/ n_unsynced >= Threshold /\ Threshold > 0
            \/ idle_iters > MaxIdleIters /\ n_unsynced > 0

\* It takes the list before it sends it; on a failure the count stays.
cache_sync ==
    /\ unsynced' = <<>>
    /\ IF unsynced = <<>>
       THEN UNCHANGED <<n_unsynced, announced, unsent>>
       ELSE \/ /\ n_unsynced' = 0
               /\ announced' = announced \union ToSet(unsynced)
               /\ unsent' = unsent \ ToSet(unsynced)
            \/ /\ "sync" \in Faults
               /\ unsent' = unsent \union (ToSet(unsynced) \ announced)
               /\ UNCHANGED <<n_unsynced, announced>>

\* The next round begins when nothing is left to clean.
manager_sync ==
    /\ Goto("cleanup", "ready")
    /\ cleanup[turn] = <<>>
    /\ turn' = (turn % NUsers) + 1
    /\ IF MustSync
       THEN idle_iters' = 0 /\ cache_sync
       ELSE UNCHANGED <<idle_iters, unsynced, n_unsynced, announced, unsent>>
    /\ prev_length' = n_unsynced'
    /\ UNCHANGED <<queues, counts, request, io, user, ht, used, remote,
                   memory, overlap>>

\* Mutation of Candidate: a new request overtakes the bottleneck.
NewFirst(u) ==
    IF ready[u] # <<>> THEN Head(ready[u])
    ELSE IF bottleneck[u] # <<>> /\ debug_count[u] < debug_limit
         THEN Head(bottleneck[u]) ELSE None

\* The request manager_check_ready looks at.
Candidate(u) ==
    IF debug_limit # 0 /\ debug_count[u] < debug_limit /\ bottleneck[u] # <<>>
    THEN Head(bottleneck[u])
    ELSE IF ready[u] # <<>> THEN Head(ready[u]) ELSE None

Popped(q, e) == IF q # <<>> /\ Head(q) = e THEN Tail(q) ELSE q

\* Mutation of Taken: the request of the bottleneck stays there.
TakenFromReady(u, e) ==
    /\ ready' = [ready EXCEPT ![u] = Popped(@, e)]
    /\ UNCHANGED bottleneck

\* ... and takes from the queue it is at the head of.
Taken(u, e) ==
    /\ bottleneck' = [bottleneck EXCEPT ![u] = Popped(@, e)]
    /\ ready' = [ready EXCEPT ![u] = Popped(@, e)]

Completed(u, e) == done' = [done EXCEPT ![u] = Append(@, e)]

check_nothing ==
    /\ Goto("ready", "done")
    /\ Candidate(turn) = None
    /\ UNCHANGED <<queues, counts, request, io, user, cache, remote, turn,
                   idle_iters, prev_length, memory, history>>

\* cache_local_load.
check_local(e) ==
    /\ Goto("ready", "done")
    /\ e = Candidate(turn) /\ ht[path[e]] # <<>>
    /\ Taken(turn, e) /\ Completed(turn, e)
    /\ ldata' = [ldata EXCEPT ![e] = Head(ht[path[e]])]
    /\ skip_clean' = [skip_clean EXCEPT ![e] = TRUE]
    /\ UNCHANGED <<free, cleanup, counts, path, status, udata, io, user, cache,
                   remote, turn, idle_iters, prev_length, memory, history>>

\* A thread of its own goes on with cache_remote_load.
check_remote(e) ==
    /\ Goto("ready", "done")
    /\ e = Candidate(turn) /\ ht[path[e]] = <<>> /\ path[e] \in remote
    /\ Taken(turn, e)
    /\ fetching' = fetching \union {e}
    /\ UNCHANGED <<free, done, cleanup, counts, request, reading, cq, hung, user,
                   cache, remote, turn, idle_iters, prev_length, memory, history>>

Storage(e) == e = Candidate(turn) /\ ht[path[e]] = <<>> /\ path[e] \notin remote

AtLimit(u) == debug_limit # 0 /\ debug_count[u] >= debug_limit

check_bottleneck(e) ==
    /\ Goto("ready", "done")
    /\ Storage(e) /\ AtLimit(turn)
    /\ ready' = [ready EXCEPT ![turn] = Tail(@)]
    /\ bottleneck' = [bottleneck EXCEPT ![turn] = Append(@, e)]
    /\ UNCHANGED <<free, done, cleanup, counts, request, io, user, cache, remote,
                   turn, idle_iters, prev_length, memory, history>>

\* manager_submit_io.
check_submit(e) ==
    /\ Goto("ready", "done")
    /\ Storage(e) /\ ~AtLimit(turn)
    /\ Taken(turn, e)
    /\ ldata' = [ldata EXCEPT ![e] = Opened(path[e])]
    /\ shm' = [shm EXCEPT ![path[e]] = Opened(path[e])]
    /\ reading' = reading \union {e}
    /\ debug_count' = [debug_count EXCEPT ![turn] = @ + 1]
    /\ UNCHANGED <<free, done, cleanup, debug_limit, path, status, skip_clean,
                   udata, cq, fetching, hung, user, cache, remote, turn, idle_iters,
                   prev_length, full, history>>

\* ... fails: a failing shm_alloc unlinks the name, whoever linked it.
check_submit_fails(e) ==
    /\ Goto("ready", "done")
    /\ Storage(e) /\ ~AtLimit(turn)
    /\ Taken(turn, e) /\ Completed(turn, e)
    /\ UNCHANGED <<ldata, udata>>
    /\ \E fault \in Faults \intersect {"open", "shm", "again"} :
         /\ status' = [status EXCEPT ![e] = IF fault = "again" THEN "again" ELSE "failed"]
         /\ shm' = IF fault = "open" THEN shm ELSE [shm EXCEPT ![path[e]] = None]
    /\ FullKept
    /\ UNCHANGED <<free, cleanup, counts, path, skip_clean, io, user, cache,
                   remote, turn, idle_iters, prev_length, history>>

check_ready == \/ check_nothing
               \/ \E e \in Entry :
                    \/ check_local(e) \/ check_remote(e) \/ check_bottleneck(e)
                    \/ check_submit(e) \/ check_submit_fails(e)

Fits(p) == used + Size[p] <= Capacity

\* Mutation of CleanupSkipped: a newly cached request is cleaned like others.
CleanupNotSkipped(e) == skip_clean

CleanupSkipped(e) == [skip_clean EXCEPT ![e] = TRUE]

Outcome(e, ok) == [status EXCEPT ![e] = IF ok THEN @ ELSE "failed"]

\* Mutation of Added: the new entry replaces one that is there.
Replaced(e) == [ht EXCEPT ![path[e]] = <<ldata[e]>>]

\* HASH_ADD does not look for an entry of that path.
Added(e) == [ht EXCEPT ![path[e]] = <<ldata[e]>> \o @]

\* Mutation of Listed: a list that is long enough takes no more.
ListedWhileShort(p) == IF Len(unsynced) < Threshold - 1 THEN Append(unsynced, p) ELSE unsynced

Listed(p) == Append(unsynced, p)

\* One completion of manager_check_done.
check_done ==
    /\ mpc = "done" /\ cq[turn] # <<>>
    /\ LET e == Head(cq[turn]).entry
           ok == Head(cq[turn]).ok
           p == path[e] IN
        /\ cq' = [cq EXCEPT ![turn] = Tail(@)]
        /\ debug_count' = [debug_count EXCEPT ![turn] = @ - 1]
        /\ status' = Outcome(e, ok)
        /\ Completed(turn, e)
        /\ IF ok /\ Fits(p)
           THEN /\ ht' = Added(e)
                /\ used' = used + Size[p]
                /\ skip_clean' = CleanupSkipped(e)
                /\ unsynced' = Listed(p)
                /\ n_unsynced' = n_unsynced + 1
           ELSE UNCHANGED <<cache, skip_clean>>
    /\ UNCHANGED <<free, ready, bottleneck, cleanup, debug_limit, path, ldata, udata,
                   reading, fetching, hung, user, remote, manager, memory, history>>

check_done_ends ==
    /\ Goto("done", "cleanup")
    /\ cq[turn] = <<>>
    /\ UNCHANGED <<queues, counts, request, io, user, cache, remote, turn,
                   idle_iters, prev_length, memory, history>>

MustClean(e) == ~skip_clean[e] /\ status[e] = "ok"

\* One turn of the while loop: manager_check_cleanup, and the statement the
\* missing braces make its body.
check_cleanup ==
    /\ mpc = "cleanup" /\ cleanup[turn] # <<>>
    /\ LET e == Head(cleanup[turn]) IN
        /\ shm' = IF MustClean(e) THEN [shm EXCEPT ![path[e]] = None] ELSE shm
        /\ path' = [path EXCEPT ![e] = None]
        /\ status' = [status EXCEPT ![e] = "ok"]
        /\ skip_clean' = [skip_clean EXCEPT ![e] = FALSE]
        /\ ldata' = [ldata EXCEPT ![e] = None]
        /\ cleanup' = [cleanup EXCEPT ![turn] = Tail(@)]
        /\ free' = [free EXCEPT ![turn] = Append(@, e)]
    /\ idle_iters' = IF n_unsynced > prev_length THEN 0
                     ELSE IF idle_iters > MaxIdleIters THEN idle_iters
                     ELSE idle_iters + 1
    /\ UNCHANGED udata
    /\ FullKept
    /\ UNCHANGED <<ready, bottleneck, done, counts, io, user, cache, remote,
                   mpc, turn, prev_length, history>>

Manager == \/ manager_sync \/ check_ready \/ check_done \/ check_done_ends
           \/ check_cleanup

-----------------------------------------------------------------------------
(* The kernel, the threads of cache_remote_load and the peers.  All but    *)
(* the kernel and the peers end with the manager's process.                *)

kernel_read(e) ==
    /\ e \in reading
    /\ reading' = reading \ {e}
    /\ \/ /\ cq' = [cq EXCEPT ![Owner(e)] = Append(@, [entry |-> e, ok |-> TRUE])]
          /\ full' = full \union {ldata[e]}
       \/ /\ "read" \in Faults
          /\ cq' = [cq EXCEPT ![Owner(e)] = Append(@, [entry |-> e, ok |-> FALSE])]
          /\ UNCHANGED full
    /\ UNCHANGED <<queues, counts, request, fetching, hung, user, cache, remote,
                   manager, shm, history>>

Fetched(e) ==
    /\ mpc # "dead" /\ e \in fetching \ hung
    /\ fetching' = fetching \ {e}
    /\ Completed(Owner(e), e)
    /\ UNCHANGED <<free, ready, bottleneck, cleanup, counts, path, skip_clean,
                   udata, reading, cq, hung, user, cache, remote, turn, idle_iters,
                   prev_length, history>>

cache_remote_load(e) ==
    /\ Fetched(e)
    /\ ldata' = [ldata EXCEPT ![e] = Opened(path[e])]
    /\ shm' = [shm EXCEPT ![path[e]] = Opened(path[e])]
    /\ full' = full \union {Opened(path[e])}
    /\ UNCHANGED <<mpc, status>>

\* The peer is unreachable ("failed"), or refuses: network_get_message does not set
\* the pointer to an answer without a payload, and the status stays 0.  Then free()
\* is given a pointer it was given before or that was never set.
remote_load_fails(e) ==
    /\ "peer" \in Faults
    /\ Fetched(e)
    /\ \E result \in {"failed", "ok"} : status' = [status EXCEPT ![e] = result]
    /\ mpc' \in {mpc} \union (IF "free" \in Faults THEN {"dead"} ELSE {})
    /\ UNCHANGED <<ldata, memory>>

\* network_get_message compares read's result with EOF, which is -1: at the end of a
\* connection that was cut read returns 0, and its loop goes on.
remote_load_hangs(e) ==
    /\ "cut" \in Faults
    /\ mpc # "dead" /\ e \in fetching \ hung
    /\ hung' = hung \union {e}
    /\ UNCHANGED <<queues, counts, request, reading, cq, fetching, user, cache, remote,
                   manager, memory, history>>

\* monitor_handle_sync, for one file a peer announces.
peer_announces(p) ==
    /\ mpc # "dead" /\ p \notin remote
    /\ remote' = remote \union {p}
    /\ UNCHANGED <<queues, counts, request, io, user, cache, manager, memory, history>>

Next == \/ User
        \/ Manager
        \/ \E e \in Entry : \/ kernel_read(e) \/ cache_remote_load(e)
                           \/ remote_load_fails(e) \/ remote_load_hangs(e)
        \/ \E p \in PeerFiles : peer_announces(p)

Spec == Init /\ [][Next]_vars

(* The manager loops for ever, the kernel finishes what it began, and a     *)
(* remote load ends or hangs.  Users and peers do what they like.           *)
Fairness == /\ WF_vars(Manager)
            /\ \A e \in Entry : /\ WF_vars(kernel_read(e))
                                /\ WF_vars(cache_remote_load(e) \/ remote_load_fails(e)
                                             \/ remote_load_hangs(e))

FairSpec == Spec /\ Fairness

-----------------------------------------------------------------------------
(* Properties.                                                             *)

(* Type invariant. *)
TypeOK ==
    /\ \A u \in Users : \A q \in {free[u], ready[u], bottleneck[u], done[u], cleanup[u]} :
         ToSet(q) \subseteq {e \in Entry : Owner(e) = u}
    /\ path \in [Entry -> Path \union {None}]
    /\ status \in [Entry -> {"ok", "failed", "again"}]
    /\ skip_clean \in [Entry -> BOOLEAN]
    /\ ldata \in [Entry -> Object \union {None}]
    /\ udata \in [Entry -> Object \union {None}]
    /\ reading \subseteq Entry /\ hung \subseteq fetching /\ fetching \subseteq Entry
    /\ held \subseteq Entry /\ lost \subseteq Entry
    /\ shm \in [Path -> Object \union {None}] /\ full \subseteq Object
    /\ mpc \in {"ready", "done", "cleanup", "dead"} /\ turn \in Users
    /\ idle_iters \in 0 .. MaxIdleIters + 1
    /\ used \in 0 .. Capacity

\* Where a user sees a request; a failed reap has it as well.
StatusOf(e) ==
    CASE e \in ToSet(free[Owner(e)]) -> "free"
      [] e \in ToSet(done[Owner(e)]) -> "completed"
      [] e \in held \union lost \union ToSet(cleanup[Owner(e)]) -> "held"
      [] OTHER -> "requested"

InRing == reading \union UNION {{c.entry : c \in ToSet(cq[u])} : u \in Users}

(* The requests go round the loop of the async loader's abstract service:   *)
(* none is lost between the queues of its user, the bottleneck, io_uring    *)
(* and the fetching threads, none is in two of them, and each comes back    *)
(* with the path it was submitted for.                                      *)
Service == INSTANCE LoaderService WITH
    File <- Path,
    NoFile <- None,
    file <- path,
    status <- [e \in Entry |-> StatusOf(e)]

ImplementsService == Service!Spec

(* Nothing waits for nobody: a request that is neither the user's nor       *)
(* waiting in a queue is with the kernel or a thread, and the number of     *)
(* reads under way is known to the limiter and kept to its limit.           *)
ReadsAreCounted ==
    \A u \in Users :
      LET mine == {e \in InRing : Owner(e) = u} IN
      /\ Cardinality(mine) = debug_count[u]
      /\ debug_limit # 0 => debug_count[u] <= debug_limit
      /\ Len(free[u]) + Len(ready[u]) + Len(bottleneck[u]) + Len(done[u])
           + Len(cleanup[u]) + Cardinality(mine)
           + Cardinality({e \in fetching \union held \union lost : Owner(e) = u})
         = QueueDepth

(* cache.c:1015 says that bottlenecked requests are processed first "to     *)
(* maintain FIFO order": a user's requests go to storage in the order in    *)
(* which they were submitted.                                               *)
StorageInOrder ==
    [][\A e \in Entry :
         check_submit(e) => e = Head(bottleneck[turn] \o ready[turn])]_vars

(* The cache stays within its capacity and `used` is what it holds, also    *)
(* when two requests for one path were both added to the table.             *)
UsedIsCached ==
    /\ used <= Capacity
    /\ used = SumFunctionOnSet([p \in Path |-> Size[p] * Len(ht[p])], Path)

(* The books of the node are right: types, reads under way, bytes cached.   *)
Accounting == TypeOK /\ ReadsAreCounted /\ UsedIsCached

(* Paths nobody asked for twice at a time before they were cached. *)
Undisturbed(p) == p \notin overlap

(* A file that is cached can be served: its object keeps its name and holds *)
(* all of it, whatever is cleaned up around it.                             *)
CachedIsReadable ==
    \A p \in Path : ht[p] # <<>> /\ Undisturbed(p) =>
      shm[p] = Head(ht[p]) /\ shm[p] \in full

(* A request that completed without an error finds its object under its     *)
(* name, complete, when the user reaps it, unless a peer refused it.        *)
CompletedIsReadable ==
    \A u \in Users : \A e \in ToSet(done[u]) :
      status[e] = "ok" /\ ldata[e] # None /\ Undisturbed(path[e]) =>
        shm[path[e]] = ldata[e] /\ shm[path[e]] \in full

(* Data a user holds is whole, and stays so until it is released, unless a  *)
(* peer refused the request: then it may be what a failed read left behind. *)
HeldIsWhole ==
    \A e \in held : ldata[e] # None /\ Undisturbed(path[e]) => udata[e] \in full

(* The data of a file is whole wherever a user may meet it: in the cache,   *)
(* completed under its name, and in hand.                                   *)
DataIsWhole == CachedIsReadable /\ CompletedIsReadable /\ HeldIsWhole

(* Every cached file is on the list of those to announce, has been          *)
(* announced to all peers, or was in a message that failed.                 *)
CachedIsAnnounced ==
    \A p \in Path : ht[p] # <<>> => p \in ToSet(unsynced) \union announced \union unsent

(* Every request comes back, also one that waited in the bottleneck, unless *)
(* a peer's failure took down the process or hung the request's own thread: *)
(* a hung load holds up nobody else's request.                              *)
RequestsComplete ==
    \A e \in Entry :
      e \in ToSet(ready[Owner(e)]) ~> e \in ToSet(done[Owner(e)]) \union hung \/ mpc = "dead"

(* The comment on network_get_message, "Returns 0 on success, -errno on     *)
(* failure.", and its test for answers that are too short: a remote load    *)
(* returns, whatever its peer does.                                         *)
RemoteLoadReturns == \A e \in Entry : e \in fetching ~> e \notin fetching \/ mpc = "dead"

(* README.md of ladcache, on max_unsynced: the node "will also sync after a *)
(* short period without having cached any new files".                       *)
IdleListIsSent == unsynced # <<>> ~> unsynced = <<>> \/ mpc = "dead"
=============================================================================
