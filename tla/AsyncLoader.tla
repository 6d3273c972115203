---------------------------- MODULE AsyncLoader ----------------------------
(***************************************************************************)
(* The asynchronous file loader (async-loader/csrc/async/async.c): worker  *)
(* processes request files and get entries back through three status lists *)
(* in shared memory; the loader process's reader thread collects requests  *)
(* in the LBA sorting queue and issues them to io_uring in batches; its    *)
(* responder thread moves finished reads to the completed lists.  File     *)
(* data travels in POSIX shm objects named after the path.                 *)
(*                                                                         *)
(* The lists are sequences here; AsyncFifo shows that the linked lists of  *)
(* the code are queues.                                                    *)
(***************************************************************************)
EXTENDS Naturals, FiniteSets, SequencesExt

CONSTANTS
    NWorkers,       \* n_workers
    QueueDepth,     \* queue_depth: entries per worker
    DispatchN,      \* dispatch_n: requests that make a batch
    MaxIdleIters,   \* max_idle_iters
    MaxIoErrors,    \* the literal 32 of async_responder_loop
    File,           \* paths the workers ask for
    ShmName,        \* ShmName[f]: f with '/' replaced by '_'
    Lba,            \* Lba[f]: block address of f's first extent
    Missing,        \* files that never open
    Flaky,          \* files whose open, fstat, shm_open, ... may fail
    IoMayFail,      \* TRUE: a read may complete with res < 0
    DistinctNames,  \* TRUE: no worker asks for a path whose shm name is in use
    None            \* no file, no entry, no object

Workers == 0 .. (NWorkers - 1)
Entry == Workers \X (1 .. QueueDepth)    \* <<owner, index in its queue>>
Owner(e) == e[1]                         \* e->worker

\* shm objects: enough for one per name and two mappings per entry.
Object == 1 .. (Cardinality(File) + 2 * NWorkers * QueueDepth)

ASSUME LoaderAssumption ==
    /\ NWorkers \in Nat \ {0}
    /\ QueueDepth \in Nat \ {0}
    /\ DispatchN \in Nat
    /\ MaxIdleIters \in Nat
    /\ MaxIoErrors \in Nat
    /\ IsFiniteSet(File)
    /\ Lba \in [File -> Nat]
    /\ DOMAIN ShmName = File
    /\ Missing \subseteq File
    /\ Flaky \subseteq File
    /\ IoMayFail \in BOOLEAN
    /\ DistinctNames \in BOOLEAN
    /\ None \notin File
    /\ None \notin Entry
    /\ None \notin Object

VARIABLES
    free, ready, completed, \* the status lists of each worker
    path,                   \* entry->path
    held,                   \* held[w]: entries w got and has not released
    crashed,                \* workers stopped by the assert of async_try_get
    lost,                   \* the entry a crashed worker had popped
    rpc,                    \* reader: "check", "issue", "pop", "open"
    rr,                     \* reader: i % n_states, the worker it visits next
    idle,                   \* idle_iters
    opening,                \* reader: the entry it popped and is opening
    batch,                  \* sortable[0 .. n_queued - 1], what is left to issue
    sqes,                   \* prepared submissions, before io_uring_submit
    inflight,               \* reads the kernel works on
    cq,                     \* completion queue: [entry, ok]
    responding,             \* responder: the entry whose CQE it consumed
    errs,                   \* responder: cnt, failed CQEs looked at
    up,                     \* the loader process runs
    fdOpen,                 \* entries whose fd is open
    shm,                    \* shm[n]: the object linked under name n
    lmap, wmap,             \* objects mapped as shm_ldata, shm_wdata
    contents                \* contents[o]: the file whose bytes o holds

lists == <<free, ready, completed>>
readerVars == <<rpc, rr, idle, opening, batch, sqes>>
ringVars == <<inflight, cq, responding, errs, up>>
workerVars == <<path, held, crashed, lost>>
memVars == <<shm, lmap, wmap, contents>>
vars == <<lists, readerVars, ringVars, workerVars, memVars, fdOpen>>

-----------------------------------------------------------------------------
(* Shm names and objects.                                                  *)

Name(e) == ShmName[path[e]]

Names == {ShmName[f] : f \in File}

\* Objects the kernel keeps: linked under a name or mapped by a process.
Live(links, lm, wm) ==
    {links[n] : n \in Names} \union {lm[e] : e \in Entry} \union {wm[e] : e \in Entry}

\* The memory of an object that is neither linked nor mapped is gone.
Kept(data, links, lm, wm) ==
    [o \in Object |-> IF o \in Live(links, lm, wm) THEN data[o] ELSE None]

FreshObject(links, lm, wm) ==
    CHOOSE o \in Object : o \notin Live(links, lm, wm)

-----------------------------------------------------------------------------

Init ==
    /\ free = [w \in Workers |-> [i \in 1 .. QueueDepth |-> <<w, i>>]]
    /\ ready = [w \in Workers |-> <<>>]
    /\ completed = [w \in Workers |-> <<>>]
    /\ path = [e \in Entry |-> None]
    /\ held = [w \in Workers |-> {}]
    /\ crashed = {}
    /\ lost = {}
    /\ rpc = "check"
    /\ rr = 0
    /\ idle = 0
    /\ opening = {}
    /\ batch = <<>>
    /\ sqes = <<>>
    /\ inflight = {}
    /\ cq = <<>>
    /\ responding = {}
    /\ errs = 0
    /\ up = TRUE
    /\ fdOpen = {}
    /\ shm = [n \in Names |-> None]
    /\ lmap = [e \in Entry |-> None]
    /\ wmap = [e \in Entry |-> None]
    /\ contents = [o \in Object |-> None]

-----------------------------------------------------------------------------
(* The worker's interface.                                                 *)

\* Shm names in use: of requests on their way and of data a worker still holds.
NamesInUse ==
    {Name(e) : e \in {e2 \in Entry : e2 \notin ToSet(free[Owner(e2)])}}

\* The caller of Worker.request.  The loader itself checks nothing.
MayRequest(f) == DistinctNames => ShmName[f] \notin NamesInUse

\* async_try_request with a free entry; with none it returns false and
\* changes nothing.
async_try_request(w, f) ==
    LET e == Head(free[w]) IN
    /\ w \notin crashed
    /\ MayRequest(f)
    /\ free[w] # <<>>
    /\ free' = [free EXCEPT ![w] = Tail(@)]
    /\ ready' = [ready EXCEPT ![w] = Append(@, e)]
    /\ path' = [path EXCEPT ![e] = f]
    /\ UNCHANGED <<completed, held, crashed, lost, readerVars, ringVars, memVars, fdOpen>>

\* async_try_get: pop, then shm_open by name without O_CREAT and map.
async_try_get(w) ==
    LET e == Head(completed[w]) IN
    /\ w \notin crashed
    /\ completed[w] # <<>>
    /\ shm[Name(e)] # None
    /\ completed' = [completed EXCEPT ![w] = Tail(@)]
    /\ held' = [held EXCEPT ![w] = @ \union {e}]
    /\ wmap' = [wmap EXCEPT ![e] = shm[Name(e)]]
    /\ UNCHANGED <<free, ready, path, crashed, lost, readerVars, ringVars,
                   shm, lmap, contents, fdOpen>>

\* async_try_get when nothing is linked under the entry's name: the assert
\* on shm_wfd stops the worker, which has popped the entry.
async_try_get_aborts(w) ==
    LET e == Head(completed[w]) IN
    /\ w \notin crashed
    /\ completed[w] # <<>>
    /\ shm[Name(e)] = None
    /\ completed' = [completed EXCEPT ![w] = Tail(@)]
    /\ crashed' = crashed \union {w}
    /\ lost' = lost \union {e}
    /\ wmap' = [x \in Entry |-> IF Owner(x) = w THEN None ELSE wmap[x]]
    /\ contents' = Kept(contents, shm, lmap, wmap')
    /\ UNCHANGED <<free, ready, path, held, readerVars, ringVars, shm, lmap, fdOpen>>

\* Mutation of Unlinked: the name of a released entry stays linked.
StaysLinked(n) == shm

\* shm_unlink(name): the name is gone, mapped memory stays.
Unlinked(n) == [shm EXCEPT ![n] = None]

async_release(w, e) ==
    /\ w \notin crashed
    /\ e \in held[w]
    /\ shm' = Unlinked(Name(e))
    /\ wmap' = [wmap EXCEPT ![e] = None]
    /\ contents' = Kept(contents, shm', lmap, wmap')
    /\ held' = [held EXCEPT ![w] = @ \ {e}]
    /\ free' = [free EXCEPT ![w] = Append(@, e)]
    /\ UNCHANGED <<ready, completed, path, crashed, lost, readerVars, ringVars, lmap, fdOpen>>

-----------------------------------------------------------------------------
(* The reader thread.                                                      *)

\* async_reader_loop: a full batch, or idle for long enough with a partial one.
NeedsDispatch ==
    \/ Len(batch) = DispatchN
    \/ idle > MaxIdleIters * NWorkers

\* What sort may make of the sorting queue: any order by increasing LBA.
SortedByLba(s) ==
    {t \in [DOMAIN s -> ToSet(s)] :
        /\ IsInjective(t)
        /\ ToSet(t) = ToSet(s)
        /\ \A i, j \in DOMAIN t : i < j => Lba[path[t[i]]] <= Lba[path[t[j]]]}

reader_dispatch ==
    /\ up
    /\ rpc = "check"
    /\ NeedsDispatch
    /\ batch' \in SortedByLba(batch)
    /\ rpc' = "issue"
    /\ UNCHANGED <<lists, workerVars, rr, idle, opening, sqes, ringVars, memVars, fdOpen>>

\* The head of the sorted queue is the entry async_perform_io works on; it
\* first unmaps whatever the entry's previous round left mapped.
Issuing == up /\ rpc = "issue" /\ batch # <<>>

LmapDropped(e) == [lmap EXCEPT ![e] = None]

\* shm_ldata of entry e maps the object just opened.
MappedObject(e, o) == o

\* async_perform_io succeeds: shm_open with O_CREAT but without O_EXCL takes
\* the object linked under the name if there is one.
perform_io ==
    LET e   == Head(batch)
        n   == Name(e)
        lm  == LmapDropped(e)
        new == shm[n] = None
        o   == IF new THEN FreshObject(shm, lm, wmap) ELSE shm[n]
    IN  /\ Issuing
        /\ shm' = [shm EXCEPT ![n] = o]
        /\ lmap' = [lm EXCEPT ![e] = MappedObject(e, o)]
        /\ contents' = Kept(contents, shm', lmap', wmap)
        /\ batch' = Tail(batch)
        /\ sqes' = Append(sqes, e)
        /\ UNCHANGED <<lists, workerVars, rpc, rr, idle, opening, ringVars, wmap, fdOpen>>

FdsAfterFailure(e) == fdOpen \ {e}

\* async_perform_io fails, before its shm_open succeeded or after (then it
\* unlinks the name): the request goes back to the end of the ready list.
perform_io_fails ==
    LET e == Head(batch) IN
    /\ Issuing
    /\ path[e] \in Flaky
    /\ \/ shm' = shm
       \/ shm' = Unlinked(Name(e))
    /\ lmap' = LmapDropped(e)
    /\ contents' = Kept(contents, shm', lmap', wmap)
    /\ fdOpen' = FdsAfterFailure(e)
    /\ batch' = Tail(batch)
    /\ ready' = [ready EXCEPT ![Owner(e)] = Append(@, e)]
    /\ UNCHANGED <<free, completed, workerVars, rpc, rr, idle, opening, sqes, ringVars, wmap>>

\* io_uring_submit, and the reset of idle_iters and n_queued.
reader_submit ==
    /\ up
    /\ rpc = "issue"
    /\ batch = <<>>
    /\ inflight' = inflight \union ToSet(sqes)
    /\ sqes' = <<>>
    /\ idle' = 0
    /\ rpc' = "pop"
    /\ UNCHANGED <<lists, workerVars, rr, opening, batch, cq, responding, errs, up, memVars, fdOpen>>

\* The reader is at the pop of its loop body, on the way from the check
\* that found nothing to dispatch or from a dispatch.
AtPop == up /\ (rpc = "pop" \/ (rpc = "check" /\ ~NeedsDispatch))

\* Mutation of NextWorker: no modulo.
NextWorkerUnbounded == rr + 1

NextWorker == (rr + 1) % NWorkers

\* Mutation of IdleAfterEmptyPop: idling is not counted.
IdleUnchanged == idle

\* Idling counts only while some request waits in the sorting queue.
IdleAfterEmptyPop == IF batch # <<>> THEN idle + 1 ELSE idle

reader_pop_empty ==
    /\ AtPop
    /\ ready[rr] = <<>>
    /\ idle' = IdleAfterEmptyPop
    /\ rr' = NextWorker
    /\ rpc' = "check"
    /\ UNCHANGED <<lists, workerVars, opening, batch, sqes, ringVars, memVars, fdOpen>>

reader_pop ==
    /\ AtPop
    /\ ready[rr] # <<>>
    /\ ready' = [ready EXCEPT ![rr] = Tail(@)]
    /\ opening' = {Head(ready[rr])}
    /\ idle' = 0
    /\ rr' = NextWorker
    /\ rpc' = "open"
    /\ UNCHANGED <<free, completed, workerVars, batch, sqes, ringVars, memVars, fdOpen>>

\* open succeeds: into the sorting queue.
reader_open(e) ==
    /\ up
    /\ rpc = "open"
    /\ e \in opening
    /\ path[e] \notin Missing
    /\ fdOpen' = fdOpen \union {e}
    /\ batch' = Append(batch, e)
    /\ opening' = {}
    /\ rpc' = "check"
    /\ UNCHANGED <<lists, workerVars, rr, idle, sqes, ringVars, memVars>>

\* Mutations of Requeued: a request that cannot be opened is forgotten, or
\* dropped and its entry freed.
ForgottenRequest(e) == UNCHANGED <<free, ready>>

DroppedRequest(e) == UNCHANGED ready /\ free' = [free EXCEPT ![Owner(e)] = Append(@, e)]

Requeued(e) == UNCHANGED free /\ ready' = [ready EXCEPT ![Owner(e)] = Append(@, e)]

\* open fails: back to the end of the ready list.
reader_open_fails(e) ==
    /\ up
    /\ rpc = "open"
    /\ e \in opening
    /\ path[e] \in Missing \union Flaky
    /\ Requeued(e)
    /\ opening' = {}
    /\ rpc' = "check"
    /\ UNCHANGED <<completed, workerVars, rr, idle, batch, sqes, ringVars, memVars, fdOpen>>

Reader ==
    \/ reader_dispatch \/ perform_io \/ perform_io_fails \/ reader_submit
    \/ reader_pop_empty \/ reader_pop
    \/ \E e \in opening : reader_open(e) \/ reader_open_fails(e)

-----------------------------------------------------------------------------
(* The kernel and the responder thread.                                    *)

\* The bytes of the file arrive in the mapped object.
kernel_read(e) ==
    /\ up
    /\ e \in inflight
    /\ inflight' = inflight \ {e}
    /\ contents' = [contents EXCEPT ![lmap[e]] = path[e]]
    /\ cq' = Append(cq, [entry |-> e, ok |-> TRUE])
    /\ UNCHANGED <<lists, workerVars, readerVars, responding, errs, up, shm, lmap, wmap, fdOpen>>

kernel_read_fails(e) ==
    /\ up
    /\ IoMayFail
    /\ e \in inflight
    /\ inflight' = inflight \ {e}
    /\ cq' = Append(cq, [entry |-> e, ok |-> FALSE])
    /\ UNCHANGED <<lists, workerVars, readerVars, responding, errs, up, memVars, fdOpen>>

\* Mutation of Succeeded: cqe->res is not looked at.
AnyResult(cqe) == TRUE

Succeeded(cqe) == cqe.ok

\* A successful CQE: mark it seen and close the fd ...
respond_seen ==
    LET e == Head(cq).entry IN
    /\ up
    /\ responding = {}
    /\ cq # <<>>
    /\ Succeeded(Head(cq))
    /\ cq' = Tail(cq)
    /\ responding' = {e}
    /\ fdOpen' = fdOpen \ {e}
    /\ UNCHANGED <<lists, workerVars, readerVars, inflight, errs, up, memVars>>

\* ... then push the entry to its worker's completed list.
respond_push(e) ==
    /\ up
    /\ e \in responding
    /\ responding' = {}
    /\ completed' = [completed EXCEPT ![Owner(e)] = Append(@, e)]
    /\ UNCHANGED <<free, ready, workerVars, readerVars, inflight, cq, errs, up, memVars, fdOpen>>

\* Mutation of CqAfterError: the failed CQE is marked seen.
CqSkipped == Tail(cq)

\* A failed CQE is not marked seen: the next io_uring_wait_cqe returns it again.
CqAfterError == cq

\* A failed CQE: count it, and exit when cnt++ > 32.
respond_error ==
    /\ up
    /\ responding = {}
    /\ cq # <<>>
    /\ ~Succeeded(Head(cq))
    /\ cq' = CqAfterError
    /\ errs' = errs + 1
    /\ up' = (errs <= MaxIoErrors)
    /\ UNCHANGED <<lists, workerVars, readerVars, inflight, responding, memVars, fdOpen>>

Kernel == \E e \in inflight : kernel_read(e) \/ kernel_read_fails(e)

Responder == respond_seen \/ respond_error \/ \E e \in responding : respond_push(e)

Worker(w) ==
    \/ \E f \in File : async_try_request(w, f)
    \/ async_try_get(w)
    \/ async_try_get_aborts(w)
    \/ \E e \in held[w] : async_release(w, e)

Next ==
    \/ \E w \in Workers : Worker(w)
    \/ Reader
    \/ Kernel
    \/ Responder

Spec == Init /\ [][Next]_vars

\* The loader's threads run and the kernel answers every read; the workers
\* may stop asking, getting or releasing at any time.
Fairness ==
    /\ WF_vars(Reader)
    /\ WF_vars(Responder)
    /\ \A e \in Entry : WF_vars(kernel_read(e) \/ kernel_read_fails(e))

FairSpec == Spec /\ Fairness

-----------------------------------------------------------------------------
(* Properties.                                                             *)

CqSeq == [i \in DOMAIN cq |-> cq[i].entry]

CqEntries == ToSet(CqSeq)

ListsTypeOK ==
    /\ free \in [Workers -> Seq(Entry)]
    /\ ready \in [Workers -> Seq(Entry)]
    /\ completed \in [Workers -> Seq(Entry)]
    /\ held \in [Workers -> SUBSET Entry]
    /\ crashed \subseteq Workers
    /\ lost \subseteq Entry
    /\ rpc \in {"check", "issue", "pop", "open"}
    /\ rr \in Workers
    /\ idle \in Nat
    /\ opening \subseteq Entry
    /\ batch \in Seq(Entry)
    /\ sqes \in Seq(Entry)
    /\ inflight \subseteq Entry
    /\ cq \in Seq([entry : Entry, ok : BOOLEAN])
    /\ responding \subseteq Entry
    /\ errs \in Nat
    /\ up \in BOOLEAN
    /\ fdOpen \subseteq Entry

MemoryTypeOK ==
    /\ path \in [Entry -> File \union {None}]
    /\ shm \in [Names -> Object \union {None}]
    /\ lmap \in [Entry -> Object \union {None}]
    /\ wmap \in [Entry -> Object \union {None}]
    /\ contents \in [Object -> File \union {None}]

TypeOK == ListsTypeOK /\ MemoryTypeOK

\* The places an entry can be; the lists of a worker hold its own entries.
Places == {"free", "ready", "opening", "batch", "sqes", "inflight", "cq",
           "responding", "completed", "held", "lost"}

In(e, p) ==
    CASE p = "free"       -> e \in ToSet(free[Owner(e)])
      [] p = "ready"      -> e \in ToSet(ready[Owner(e)])
      [] p = "opening"    -> e \in opening
      [] p = "batch"      -> e \in ToSet(batch)
      [] p = "sqes"       -> e \in ToSet(sqes)
      [] p = "inflight"   -> e \in inflight
      [] p = "cq"         -> e \in CqEntries
      [] p = "responding" -> e \in responding
      [] p = "completed"  -> e \in ToSet(completed[Owner(e)])
      [] p = "held"       -> e \in held[Owner(e)]
      [] p = "lost"       -> e \in lost

NoneTwice ==
    /\ \A w \in Workers : IsInjective(free[w]) /\ IsInjective(ready[w]) /\ IsInjective(completed[w])
    /\ IsInjective(batch)
    /\ IsInjective(sqes)
    /\ IsInjective(CqSeq)

\* async.h, status lists: an entry is "only ever present in at most 1 list";
\* with IO issued it is "tracked only by the uring buffer", and once a worker
\* read it, it is "only added to the free list upon release".  Every entry is
\* in one place and appears there once, so none is lost and none served twice.
EachEntryInOnePlace ==
    /\ \A e \in Entry : \E p \in Places : \A q \in Places : In(e, q) <=> q = p
    /\ NoneTwice

\* The dispatch test is "n_queued == dispatch_n": a batch that grew past
\* dispatch_n would no longer be issued for being full.
BatchNeverOvershoots == DispatchN > 0 => Len(batch) <= DispatchN

\* The fd of an entry is open from the reader's open until the responder's
\* close, or the close after a failed async_perform_io, and at no other time.
FdsMatchIo ==
    fdOpen = ToSet(batch) \union ToSet(sqes) \union inflight \union CqEntries

\* The assert of async_try_get: whatever reaches a completed list is linked
\* under its shm name, and the object holds the file's bytes.  (With names in
\* use by one request at a time.)
CompletedIsReadable ==
    \A w \in Workers : \A e \in ToSet(completed[w]) :
        /\ shm[Name(e)] # None
        /\ contents[shm[Name(e)]] = path[e]

\* README, Entry.get_data: what a worker holds is the data of the file it
\* asked for, until it releases it; the loader does not write over it.
HeldDataIsOwn ==
    \A w \in Workers \ crashed : \A e \in held[w] :
        wmap[e] # None /\ contents[wmap[e]] = path[e]

\* From the completion to the release of a request its data is the file's,
\* while the entries around it are reused and remapped.
DataIsOwn == CompletedIsReadable /\ HeldDataIsOwn

\* async.c:242, "the responsibility of the worker to call ASYNC_RELEASE in
\* order to unlink this shm object": no name stays linked, holding memory,
\* after the last request for it ended, whatever failed or collided meanwhile.
NoOrphanShm == \A n \in Names : shm[n] # None => n \in NamesInUse

\* Neither descriptors nor shared memory leak, whichever request of a batch
\* fails, is retried or shares its name with another.
NothingLeaks == FdsMatchIo /\ NoOrphanShm

\* async.c:136, assert(e->shm_wfd >= 0): no worker is stopped by it.
ShmOpenSucceeds == crashed = {}

StatusOf(e) ==
    CASE In(e, "free")                          -> "free"
      [] In(e, "completed") \/ In(e, "lost")    -> "completed"
      [] In(e, "held")                          -> "held"
      [] OTHER                                  -> "requested"

Service == INSTANCE LoaderService WITH
    NoFile <- None,
    file   <- [e \in Entry |-> IF In(e, "free") THEN None ELSE path[e]],
    status <- [e \in Entry |-> StatusOf(e)]

\* Whatever the reader, the responder and the kernel do in whichever order,
\* and however often a request is retried, an entry goes round the loop of
\* async.h and carries the path it was requested for.
ImplementsService == Service!Spec

Requested(e) == StatusOf(e) = "requested"

\* Every request is completed, whatever dispatch_n is, unless a failed read ends
\* the loader: a batch too small to be full is flushed when the reader idles.
\* (Files open.)
RequestsComplete ==
    \A e \in Entry : Requested(e) ~> In(e, "completed") \/ ~up

\* async.c:286-289, README: requests in the sorting queue are submitted when
\* no new request has been found for a while.
PartialBatchIsFlushed == batch # <<>> ~> batch = <<>> \/ ~up

FailedReadAtHead == cq # <<>> /\ ~Head(cq).ok

\* A read the kernel fails is retried by nobody: its CQE stays at the head of
\* the completion queue and the loader exits.
FailedReadStopsLoader == FailedReadAtHead ~> ~up
============================================================================
