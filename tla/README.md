# Verification of GPEmu and GLIDE

TLA+ models of the concurrent and stateful parts of this repository,
model-checked with TLC, and theorems about them checked with TLAPS. Paths below
are relative to the repository's root.

## 1. The system

GPEmu emulates the GPUs of deep-learning clusters; GLIDE serves inference
requests on such an emulation. The repository also carries the native
data-loading modules the emulated training jobs use. Python code calls into C
modules; several processes share memory mapped before a fork.

| Component | State it keeps | Operations | What is hard | What makes it correct |
|---|---|---|---|---|
| **async-loader** (`async-loader/csrc/async`) | per worker: an array of entries in three linked lists (free, ready, completed) in shared memory; the reader's sorting queue and idle counter; an io_uring; POSIX shm objects | `Worker.request`, `try_get`, `wait_get`, `Entry.release`; the reader and the responder thread | three threads and the kernel pass entries on under different locks; requests are retried, reads fail; objects are shared by name | every entry is in one place; a worker gets the bytes it asked for; every request completes |
| **LBA sort** (`async-loader/csrc/utils/sort.c`) | none | `sort` | equal keys, odd lengths, the switch of algorithm | a sorted permutation |
| **minio** (`minio/csrc/minio`) | a uthash table and an array of slots in shared memory, two atomic counters, spinlocks, shm objects, statistics | `read`, `load`, `store`, `contains`, `flush` | slots and bytes are reserved before they are known to fit; lock coupling; failing system calls | slots and bytes are exclusive and bounded; a load returns its file; calls return |
| **ladcache** (`ladcache/csrc/ladcache`) | per user: five queues, a ring; the local cache and its list of files to announce; a directory of peers' files; shm objects | `submit`, `reap`, `release`; manager, monitor and registrar threads, one thread per remote load | requests for one path at once; a limiter with a queue of its own; a directory that lags; cleanup of what others still use | requests are conserved, capacity is kept, data is the file's, peers learn what is cached |
| **GPEmu sharing** (`gpemu/gpemu/gpemu`, `gpemu/sharing-rabbitmq`) | request and response topics or queues; the producer's buffer | `request_gpu_time`; the manager's `start`, `process_message`, `stop` | redelivery and replay after a crash, replies without correlation, an asynchronous producer | an application goes on only when its GPU time was served; order of arrival |
| **GLIDE engine** (`glide/engine.py`, `batching.py`, `scheduler.py`) | request queue, completed requests, clock, the scheduler's starvation set | `submit_request`, `process_batch`, `process_next`, `run_queue`, `reset`; three batchers, three schedulers | the batch is chosen before the scheduler; two lists changed in one loop; a scheduler that remembers over resets | nothing lost, served twice or overtaken; starvation counted once |
| **GLIDE dashboard** (`glide/dashboard_server.py`) | run thread, its lock and stop flag, metrics file under flock; experiment state and cache file | start, stop and poll of live runs; start and results of experiments | request handlers and threads write the same files; a file is blank while it is written; the server dies | runs do not overlap, the file tells what ran, no result is lost |
| **Kubernetes plugin** (`gpemu-k8s`) | devices, a gRPC server | `Serve`, `Register`, `ListAndWatch`, restart on events | restart, unbuffered health channel | registered again after a kubelet restart |
| emulators, mlock, profiler, workload, reports, database; `rep/` | none beyond a call, or files | sequential | nothing interacts | out of scope |

How they interact. Workers of the async loader and the loader process share
memory only (the lists, the entries, shm objects). minio's processes share its
table, counters and locks. ladcache's users talk to their node's manager
through queues and nodes to each other over TCP. The sharing applications and
their manager exchange messages through a broker. GLIDE's live run owns an
engine and writes the file the HTTP handlers read; live runs and experiments
share the server process, its request threads and its death.

## 2. Modules

| Module | Models | Checked by |
|---|---|---|
| `FifoQueues` | what the status lists promise: FIFO queues that entries go round | refined by `AsyncFifo` |
| `AsyncFifo` | the lists as next/prev pointers | `AsyncFifo`, `AsyncFifoDepth3` |
| `LoaderService` | what a loader promises a user: free, requested, completed, held, free, with the path asked for | refined by `AsyncLoader` and by `LadCacheNode` |
| `AsyncLoader` | the whole loader over queues | `AsyncLoaderCollisions`, `AsyncLoaderLive` |
| `LbaSort` | the reader's sort | `LbaSort` |
| `MinioCache` | minio as steps of concurrent calls | `MinioConcurrent`, `MinioFlush` |
| `LadCacheNode` | a node of ladcache: users, manager, io_uring, remote-load threads, cache, shm names | `LadCacheNode`, `LadCacheIdleSync` |
| `BatchService` | what an engine promises: one line, served from its front in batches, no scheduler | refined by `GlideEngine` |
| `GlideEngine` | the inference engine with every batcher and scheduler | `GlideEngine` |
| `GlideLive` | the dashboard's live run: handlers, run thread, metrics file | in `GlideDashboard` |
| `GlideExperiments` | the dashboard's experiments: background thread, state, cache file | in `GlideDashboard` |
| `GlideDashboard` | the composition of the two in one server process that dies and restarts | `GlideDashboard` |
| `GpuSharing` | applications, broker and manager, on Kafka and on RabbitMQ | `GpuSharing` |
| `MC*` | values for the constants | |
| `DataLemmas` | lemmas on induction and loops, sequences, families of queues, cardinalities, sums over finite sets | TLAPS |
| `AsyncListsProofs`, `AsyncLoaderProofs`, `MinioProofs`, `LadCacheProofs`, `GlideProofs`, `DashboardProofs`, `SharingProofs` | theorems | TLAPS |

### AsyncFifo, FifoQueues

`next`, `prev` are the entries' pointer fields, `head` the three list heads,
`taken[l]` the entries popped from list `l` and not pushed yet. A list operation
runs under its list's spinlock, so `fifo_pop` and `fifo_push` are one action
each; the assignments inside are applied in source order. `InitPrev` is the
expression `(j - 1) % queue_depth` in 64-bit unsigned arithmetic. Whether the
lists are queues is not obvious: `fifo_push` leaves the ring open (the new tail
points to the head's successor), and the three lists share the fields.
`ImplementsFifo` answers it by a refinement: the contents of a list are read off
the pointers from the head to `head.prev`.

### AsyncLoader, LoaderService

| Variable | Code |
|---|---|
| `free`, `ready`, `completed` | the lists of `wstate_t`, as sequences (justified by `AsyncFifo` and proved by `ListsAreFifo`) |
| `path`, `fdOpen`, `lmap`, `wmap` | `entry_t.path`, whether `fd` is open, the objects mapped at `shm_ldata`, `shm_wdata` |
| `rpc`, `rr`, `idle`, `opening`, `batch`, `sqes` | the reader: position, `i % n_states`, `idle_iters`, the entry being opened, `sortable[0..n_queued-1]`, prepared submissions |
| `inflight`, `cq` | io_uring, a kernel model: reads complete in any order |
| `responding`, `errs`, `up` | the responder: the entry in hand, `cnt`, whether the process runs |
| `shm`, `contents` | POSIX shared memory: the object linked under each name, the file in each object |
| `held`, `crashed`, `lost` | the workers |

The reader's loop is cut where another thread or a worker can see a difference:
the dispatch test, each `async_perform_io`, the submission, the pop, the open.
`async_perform_io` is one action: the calls inside it touch the entry, which
nobody else has, and one name, whose state between `shm_open` and the submission
no other step distinguishes; its failure paths are `perform_io_fails`, with or
without the unlink. The retry of the code (push to the end of the ready list) is
`Requeued`. `sort` is `SortedByLba`: any order by LBA, as the order of equal
keys is of no use to a caller; `LbaSort` is the code's own algorithm, proved to make such an order. The
test of `async_try_get` for an empty list is racy by design; it is merged with the
pop since only the worker itself pops `completed`.

`DistinctNames` states the use the code is written for: a worker asks for no
path whose shm name is in use. The code does not check it; the run
`AsyncLoaderCollisions` drops the restriction.

### LbaSort

`sort_small` and `merge` are loops, written as functions of the iteration (`array`, `lptr`), and
`sort` is a recursive function on the queues of at most `MaxLen` requests; none is a
RECURSIVE operator, so the module can be proved about. The spec has one step, from any queue of
bounded length to the sorted queue. The overlapping `memcpy` of `sort_small` is taken as a move.

### MinioCache

A call of a process is a sequence of actions: one per atomic operation on a
shared counter and one per critical section. `table` is the hash table in
insertion order, as uthash links it, `next` the `hh.next` fields, which outlive
a flush and which the flush's `HASH_ITER` follows from slot 0. `shm` maps a name
to the file whose bytes the object holds. Statistics counters are merged with
the step before the return, except `n_accs`. A process stopped by the assert of
`cache_load` keeps the entry lock it holds, and so does one whose copy faults: `mmap` returns
`MAP_FAILED` when it fails, and the code tests for NULL (`copy_aborts`). A store that
faults (`fill_faults`) leaves its slot, its bytes and an object of the right
size without the file's bytes (`Unwritten`).

`MayFlush` is TRUE only in the run with one process: after a flush the code
allocates a new uthash table in an anonymous mapping of the process that stores
first (`uthash.h:219`), which the others cannot see, so a cache shared by running
processes cannot be flushed; the flush is checked with one.

### LadCacheNode

| Variable | Code |
|---|---|
| `free`, `ready`, `bottleneck`, `done`, `cleanup` | the five queues of `ustate_t` |
| `debug_limit`, `debug_count` | the limiter of concurrent reads |
| `path`, `status`, `skip_clean`, `ldata`, `udata` | fields of `request_t`; the last two as the shm objects mapped |
| `reading`, `cq` | each user's io_uring |
| `fetching`, `hung` | entries with a `cache_remote_load` thread; those whose thread loops in `network_get_message` |
| `held`, `lost` | requests a user reaped and holds, or that the wrapper dropped |
| `ht`, `used`, `unsynced`, `n_unsynced` | `lcache_t`: table (all entries of a path, newest first), bytes, list to announce |
| `remote` | `rcache.ht` |
| `mpc`, `turn`, `idle_iters`, `prev_length` | `manager_loop`; `mpc = "dead"` when a stray `free` ended the process |
| `shm`, `full` | the object linked under each name; objects holding their whole file |

`manager_loop` goes over the users; a round is `check_ready` (one request),
`check_done` (every completion there is), `check_cleanup` (every released
request) and, before the next user, the test for a synchronisation
(`manager_sync`, which calls `cache_sync`). `manager_check_ready` has one action per outcome: nothing to
do, local hit, remote load, put aside by the limiter, submitted to io_uring,
failed. The statement after the brace-less `while` of `cache.c:1173` is part of
`check_cleanup`, as it is in the code. `shm_alloc` reuses an object of the same
name (`Opened`) and unlinks the name when it fails. Names, mappings and contents
are kept apart, so data read through a name that was unlinked or taken over is
seen to be wrong. The queues of `fifo.h` are doubly linked with a lock each and
are taken as sequences. `announced`, `unsent` and `overlap` are history
variables: what was sent to all peers, what was in a message that failed, and
which paths were asked for twice at a time.

### GlideEngine, BatchService

An engine belongs to one thread, so its methods do not overlap; `process_batch`
is still cut at the calls of `select_next` since HASP's memory changes with each:
`BeginBatch` (the batcher's choice), `Pick` (one turn of `while selected`, with
both removals) and `Finish` (one start, one sleep, one end). `Better` is the key
of the three schedulers, `IsNext` Python's first-of-the-best `min` and `max`; HASP's
score is kept as a fraction so that no rounding is introduced, and the terms of its
ablation variants are a parameter. `MaxDelay` is by how much a sleep overshoots.
`Submit` may give a request an arrival time in the past, as the experiments do.

`ImplementsBatchService` says the engine has no scheduler that matters: the map
is `line <- batch \o` the rest of the queue, `finished <-` the completed requests
with their times.

### GlideLive, GlideExperiments, GlideDashboard

`hpc[h]` is where a request thread stands; handlers are cut at every acquisition
of `_RUN_LOCK`, at the flock, and between reading and writing a file. A write is
`Lock` (flock, truncate) and `Flush` (dump, unlock), between which a reader, which
takes no lock, sees a blank file; either half may raise. `WorkerEnd` and `WorkerLast`
are separate: the status of the last write is chosen before the flock is taken. A run's engine
has batches of one, for which `GlideEngine` shows that requests end in order, so
`index` and `served` stand for it. `Restart` ends threads and locks and
leaves the files. `GlideDashboard` instantiates both parts over the same `hpc` and
lets them die together.

Four history variables record what a request thread was told. `quiet[h]` is set when a
stop finds no thread, and cleared when a run is announced, when the write of the
stop raises and when the server dies under it: it says whose stop still counts. `called[h]` is
the number of experiments started when a request for results came in, `answered` the last
experiment a client was given results of, and `cleared` the last one whose start left no cache
file: `_start_experiments` prints an `OSError` of `os.remove` and goes on with the old
file in place (`RemoveCache`).

### GpuSharing

`log` is what Kafka keeps, `queue` what the broker still has for the manager,
`outbox` what `KafkaProducer.send` has buffered, `responses[a]` the unread answers
of an application. Neither side compares batch ids, so answers are only counted.
Kafka's consumer has no group: a new one starts at the earliest message (`Crash`).
RabbitMQ puts an unacknowledged message back where it was, and `on_request` rejects
one whose handling raises (`Nack`). `Stop` is the flag that `start` looks at
only when it has taken a message.

## 3. Runs

| Run | Bounds | Distinct states | Shows |
|---|---|---|---|
| `AsyncFifo` | depth 4 | 242 254 | the pointer lists are FIFO queues (`ImplementsFifo`) |
| `AsyncFifoDepth3` | depth 3 | | **violation** of `NoDoubleHandout` |
| `AsyncLoaderCollisions` | 2 workers, 1 entry each, batches of 2; 2 files with one shm name, one of them flaky; failing reads | 82 592 | entries survive whatever fails or collides (`EachEntryInOnePlace`), nothing leaks, `LoaderService` is implemented |
| `AsyncLoaderLive` | 2 workers, 1 entry each, 3 files with names of their own, idle limit 1, failing reads | 49 680 | data is the file's and stays so; requests complete, also in a batch that never fills, unless the loader exits; a failed read makes it exit |
| `LbaSort` | `SMALL_N` 4, up to 7 requests, 4 LBAs | 65 362 | sorted, nothing lost |
| `MinioConcurrent` | 2 processes, 3 files, cache of 5 bytes, 3 slots, 2 locks, 4 calls | 218 991 | slots, bytes, data and statistics are right in every interleaving, every call returns |
| `MinioFlush` | 1 process, 6 calls, flushes, a missing file, failing shm calls, a process that dies in a copy | 274 321 | reused slots stay exclusive; `used` never counts less than is cached |
| `LadCacheNode` | 1 user with 2 requests; 2 files of 1 and 2 bytes, one of which a peer may announce; capacity 3; sync at 2 files; limiter off or 1; failing reads, mlocks, peers, syncs, answers cut off | 455 416 | requests are conserved and come back, in the order of submission from storage, none held up by a hung remote load, the books are right, cached data is whole and announced |
| `LadCacheIdleSync` | 1 user, 1 request, no failures | | **violation** of `IdleListIsSent` |
| `GlideEngine` | 3 requests, batches of 2, three batchers, five schedulers, resets, waits, sleeps that overshoot | 1 020 600 | nothing lost or overtaken, starvation counted once, `BatchService` implemented, `run_queue` drains the queue |
| `GlideDashboard` | 2 request threads, 2 live runs of 2 requests or 2 experiments of 2 combinations, up to two writes or requests that raise, a cache file that cannot be removed, an experiment that fails, a death of the server | 257 103 | runs do not overlap, the file tells what ran, a stop's effect lasts and outcomes are kept, replaced results are given only when their cache could not be removed, given ones are durable, work ends |
| `GpuSharing` | 2 applications of 2 batches, 2 deaths and 1 stop of the manager, 1 request that raises; Kafka and RabbitMQ | 284 636 | no GPU time skipped or invented, order kept, answered unless dropped |

Some properties are conjunctions, checked as one since they answer one question
together:

| Property | Conjuncts |
|---|---|
| `AsyncLoader!NothingLeaks` | descriptors match the IO under way (`FdsMatchIo`); no name stays linked for nobody (`NoOrphanShm`) |
| `AsyncLoader!DataIsOwn` | completed entries hold their file under its name (`CompletedIsReadable`); what a worker holds stays its file's (`HeldDataIsOwn`) |
| `LbaSort!AscendingPermutation` | ascending; a permutation |
| `MinioCache!Accounting` | types; what is cached fits (`CachedFits`); `used` is what is cached, reserved or lost (`UsedIsAccounted`) |
| `LadCacheNode!Accounting` | types; reads under way equal the limiter's count and every request is accounted for (`ReadsAreCounted`); `used` is the sum of the table and within capacity (`UsedIsCached`) |
| `LadCacheNode!DataIsWhole` | in the cache, in the done queue, in a user's hand |
| `GlideDashboard!OneRunAtATime` | types of the live run; one run alive, and the file speaks of no earlier one |
| `GlideDashboard!OutcomeIsTold` | "completed" means the whole trace (`CompletedIsComplete`); at rest the file claims no live run (`RestIsTerminal`) |
| `GlideDashboard!WorkEnds` | every run and every experiment ends |
| `GpuSharing!Tokens` | types; one request or answer on the way per blocked application (`OneTokenEach`) |
| `GpuSharing!GpuTimeIsServed` | a batch got past was handled, unless Kafka replayed (`HandledFirstUnlessReplayed`); never more batches than GPU slots, in every case (`NoFreeTime`) |

Why the bounds are enough.

* *Async loader.* Two workers and batches of two have every hand-over between
  two lists, the partial batch and the full one. The error counter's limit of 32
  is `MaxIoErrors`, made small since each failed completion is handled alike.
  That a batch is never overfull needs three requests at once; it is proved
  (`BatchBounded`) and not run.
* *Lists.* Depth 4 is the smallest power of two at which a list has a middle,
  depth 3 the smallest depth that is no power of two.
* *Sort.* `SMALL_N` is 4 instead of 16 so that the insertion sort sees three
  elements and queues of seven split into unequal halves.
* *minio.* Two files fit together exactly, the third never fits though it
  passes the item limit; slots and bytes both run out; two slots share a lock.
  `MaxCalls` bounds the history, the calls themselves are unbounded in the code.
* *ladcache.* Two requests of one user can be for one path or for two, wait in the
  bottleneck behind each other, and fill the cache; the second file does not fit
  once the first is cached twice. A second user adds a ring and five queues the
  manager treats alike, in turn; what users share (names, cache, list) is shared
  by two requests of one user as well.
* *Engine.* Three requests give a full batch and a rest, a batch whose members
  the schedulers order differently, a request that does not fit in memory and one
  whose estimate is not its work. Times are in units in which the timeout and the
  ageing threshold are 1, so that waits reach both and twice the latter.
* *Dashboard.* Two handlers and two runs give every race between a start and a
  stop. Two failing writes are one more than a result survives: the first makes the thread write
  `failed` with all it has served, and if that raises as well the last result is lost
  with the thread. `ResultsReachFile` therefore speaks of at most one failed write.
  The live run and the experiments share only request threads and the restart;
  `MCGlideDashboard` lets a behaviour start one kind or the other (`OnePart`), to
  keep TLC from enumerating the product; the theorems are about the product.
* *Sharing.* Two deaths give a replay of a replay; the stop, the raised request and
  the deaths combine freely.

Deadlock checking is off where the system may really stop: the loader exits on a
failed read, a worker or a minio process is stopped by its assert, ladcache's process is
ended by a stray `free`, an engine or a dashboard nobody calls rests, and so do
applications whose requests were dropped. `AsyncFifo`, `LbaSort` and
`MinioConcurrent` are checked for deadlock; there the end of all calls is an
explicit step.

Every property of a passing run has a mutation: next to the definition it
replaces stands a variant with a plausible bug, marked "Mutation of", under which
TLC finds the property violated. They are in no specification.

## 4. Fairness

* `AsyncLoader!Fairness`: the reader and the responder are loops of threads
  without conditions (`async_start`), hence weakly fair; a submitted read is
  answered in the end. The workers are not fair: they may stop asking, fetching or
  releasing.
* `MinioCache!FairSpec`: a process inside a call takes its next step when it can;
  nobody has to call. Weak fairness suffices for the spinlocks only since the
  calls are bounded: `pthread_spin_lock` is not a fair lock, and `EveryCallReturns`
  says that no lock is left taken and no two processes wait for each other, not
  that a process cannot be overtaken.
* `LadCacheNode!Fairness`: `manager_loop` has no exit, the kernel answers reads, and
  the thread of a remote load gets somewhere: its peer answers, refuses, cannot be reached,
  or goes away in the middle of its answer, in which case the thread loops for ever
  (`hung`). Users and peers are not fair: nobody has to submit, reap, release or announce.
* `GlideEngine!Fairness`: a method that was called runs to its end. Nobody has to
  call one.
* `GlideLive!Fairness`, `GlideExperiments!Fairness`: a thread that has begun goes on;
  no request ever has to come. Weak fairness is enough for the flock: while a run is
  alive no stop goes on to the file and no start does, so its thread has no rival.
* `GpuSharing!Fairness`: manager, producer and blocked applications go on, and
  somebody starts the manager again: `examples/share_manager.py` is run by hand, the
  RabbitMQ script reconnects by itself. Deaths are bounded, sends are not forced.

## 5. What is proved

Everything holds for all values of the constants that satisfy the modules'
ASSUMEs, which TLC evaluates in the runs of those modules.

* `AsyncLoaderProofs!OnePlace`: `Spec => []EachEntryInOnePlace`, with
  collisions and all failures allowed. The invariant is inductive together with the
  types (`ListsTypeOK`), that the lists of a worker hold its own entries
  (`OwnLists`), and that the reader and the responder have at most one entry in
  hand, where their positions say so (`Hands`): `IInv`. Each step moves one
  entry from one place to another or none; `Moves` and `MoveKeepsOnePlace`
  turn that into the invariant, and each action has a lemma that establishes it.
* `AsyncLoaderProofs!ListsTypeCorrect`: the type invariant of the lists and the
  threads, from the same `IInv`.
* `AsyncLoaderProofs!BatchBounded`: `Spec => []BatchNeverOvershoots`. A batch
  may be full only where the dispatch test is next (`BatchInv`), which is what
  makes the test for equality safe.
* `AsyncLoaderProofs!LoaderImplementsService`: `Spec => ImplementsService`. Workers see
  an entry go round the loop of `LoaderService`, with its path: by the lemmas of `OnePlace` a
  step moves one entry between two places or none, the status of the service follows from
  the place (`StatusAt`), and a move inside the loader is a stutter.
* `LadCacheProofs!NodeImplementsService`: `Spec => ImplementsService`, for the same service as
  the async loader's. The invariant `NodeInv` adds to `CacheInv` that the queues of a user hold
  his own requests (`Shapes`) and that each request is in exactly one of ten places:
  five queues, the ring's two halves, a remote-load thread, a user's hand, or dropped by the
  wrapper. A step moves one request between two places or none (`Moves`, one lemma per
  action); the service's status follows from the place (`StatusOf`), so that submitting, completing,
  reaping (also in vain) and cleaning are the steps of the service and every other move a
  stutter. A hung thread stays where it is.
* `LadCacheProofs!StorageKeepsOrder`: `Spec => StorageInOrder`. `manager_check_ready` looks
  at the bottleneck only when there is a limit and a free place below it, and at the
  ready queue otherwise; that the latter cannot overtake needs `Limiter`: without a limit the bottleneck
  is empty, and at the limit nothing is submitted.
* `LadCacheProofs!BooksAreRight`: `Spec => []Accounting`. `ObjectInv` adds to `NodeInv` the types
  of the fields, that a name is linked to an object of its own file (`NamesOwn`), that the table
  holds a path's objects under that path and `used` is their bytes (`CacheOwn`), and that a read
  goes into an object of the request's path (`RequestsOwn`): only then do the bytes added for a completion
  belong to the path they are added under. That `Opened` finds an object nobody uses is by
  cardinality (`OpenedIsOwn`): there are more objects of a path than requests, cached bytes
  and names can refer to. `CountInv` says that a user's requests with the kernel are as many as
  `debug_count`; that the queues and sets of a user add up to `queue_depth` then follows from
  `NodeInv` (`PlacesAddUp`).
* `LadCacheProofs!DataStaysWhole`: `Spec => []DataIsWhole`, for files outside `overlap`, as the
  property says. While such a file is not cached there is one request for it at most, so its
  name is that of the object being read; once it is cached every request for it was served
  from the cache and will not unlink the name (`skip_clean`), or is still waiting to be (`Sound`,
  `SoundPath`). Contents are dropped only of objects that nothing links or maps (`KeepsFull`).
* `AsyncLoaderProofs!TypeCorrect` and `NothingIsLeaked`: `TypeOK` and `NothingLeaks`, with
  collisions and all failures. `MemInv` says that an entry which is not free has a path
  (`PathsKnown`), that a descriptor is open exactly between the open and the end of the read
  (`FdsOpen`), and that a linked name is that of an entry which is not free (`NamesNeeded`).
* `AsyncLoaderProofs!DataStaysOwn` and `ShmOpensSucceed`: `DistinctNames => (Spec => []DataIsOwn)`, and
  that under the same hypothesis no worker aborts. `DistinctNames` is the use the code is written for
  and the guard of `async_try_request` in that case: nobody asks for a path whose name is in use. `DataInv`
  says that then no two entries in use share a name, a name is linked as long as an entry needs it
  and to the object the loader mapped, two names are never linked to one object, and that
  object holds the entry's file from the read on. Without the hypothesis it is false
  (section 6).
* `MinioProofs!SlotsNeverShared`, `BooksBalance`, `CapacityTestIsSafe`, `LoadsCopyOwnFile`,
  `EveryReadIsCounted`: `SlotsExclusive`, `Accounting`, `UsedCoversCached`, `CopiesOwnFile`
  and `StatsAddUp`. All assume `Solo`: the cache is not flushed, or a single process uses it,
  for the reason given in section 2. The base is `EInv`: types, that a slot handed out is
  below the counter (which only grows) and is owned by one store or published once, and what an
  entry in the table is. `Books` says that `used` covers what is published and reserved,
  exactly so if no shm call fails: `BooksBalance` assumes `ShmMayFail = FALSE`, since the code
  leaks bytes otherwise (section 6), `CapacityTestIsSafe` does not. `Objects` says what is
  behind a published name; `LoadsCopyOwnFile` assumes that no two files share one (`OwnPaths`) and that
  shm calls do not fail. `Counts` relates the statistics to the calls under way;
  `EveryReadIsCounted` assumes that the caller's buffer takes the largest item
  (`MaxItemSize <= MaxUsable`), as a read that does not fit in it ends uncounted.
* `LadCacheProofs!NothingCachedSilently`: `Spec => []CachedIsAnnounced`, under every
  failure. The strengthening `CacheInv` adds types: in particular that a completion in a
  ring is one of an entry, so that what it caches has a path to list.
* `GlideProofs!EngineTypeCorrect`, `NoneLostNoneTwice`, `NeverOvertaken` and
  `ServiceImplemented`: the type invariant, `EachRequestInOnePlace`,
  `NoOvertaking`, and that the engine implements `BatchService`, for any requests,
  batch size, batcher, scheduler, profile and resets. `TypeOK` and
  `EachRequestInOnePlace` are not inductive. The invariant `Inv` adds that what is
  selected is the front of the queue and, with what is ordered, makes up the batch
  (`Selection`), and that the queue keeps the order of submission while what left it left
  before those behind, and ended no later (`InOrder`). From `Selection` the two removals of
  `Pick` take the same request; from `InOrder` follows `NoOvertaking`. For the
  refinement, `Pick` maps to a stutter since the batch leaves the abstract line only
  in `Finish`, which is `Serve`.
* `GlideProofs!StarvationCounted`: `Spec => []StarvationIsCounted`. `Counted` says that HASP's set is
  those of the present batch who waited too long, once its first request is chosen, with
  those of earlier batches who had: the first `select_next` of a batch looks at all of it, and
  time stands still until the batch is ordered.
* `DashboardProofs!RunsNeverOverlap`, `OutcomeIsTrue`, `NoResultIsLost`, `StopsLast`, `OutcomeIsKept`,
  `CurrentResults`, `DurableResults`: all seven safety properties of the run `GlideDashboard`, five
  invariants and two action properties, of the composition, live runs and experiments at once and no bound
  on threads, runs, requests, failed writes and deaths. `LiveInv` says where the holders of the
  lock and of the flock are (`Locks`), that a living thread is that of the last run and nobody
  is starting another (`LastRun`), how far it is (`Progress`), that the file, and what is about to be written to
  it, is true of the run it names or one result behind (`File`), that a stop which found no thread
  meets none later unless a run was announced, and when it is over the file claims no live run
  (`Stopping`), and that somebody is there to write
  an outcome (`Resting`). `ExperimentInv` says that a state that is complete is that of
  the last experiment, that a complete cache is at least as recent as the last start that removed
  one, and that no result is known before its cache is written.
* `SharingProofs!ServedInOrder`: `Spec => []FirstComeFirstServed`. The broker's queue
  is always an end of the log (`RestOfLog`), the manager works on the request just
  before that end (`AtWork`), everything before it was handled or dropped
  (`AllBefore`), and no request is in the log twice (`SentOnce`). A replay moves the end
  back to the whole log and keeps all four.
* `SharingProofs!TimeIsServed`: `Spec => []GpuTimeIsServed`. `GpuInv` adds, for Kafka
  until a manager dies, that at most one answer is on the way to an application and
  that it answers the request it waits with (`KafkaAnswers`), and for RabbitMQ that every
  answer is to the only request (`RabbitAnswers`).
* `SharingProofs!OneTokenAlways`: `Spec => []Tokens`. `Unanswered` adds to `GpuInv` that until a manager
  dies, what the broker still has and what the manager works on is the request its application
  waits with, so that nothing that was answered is answered again.
* `AsyncListsProofs!ListsAreFifo`, `PowersOfTwoAreFifo` and `HandedOutOnce`: with a closed ring
  `AsyncFifo` implements `FifoQueues`, step by step, and hands no entry out twice. The hypothesis
  `RingCloses` is that 2^64 is a multiple of the queue depth, which `PowersClose` shows of the powers of
  two by a loop over the 64 doublings; with other depths the claim is false (section 6). The
  invariant `FifoInv` is that there are three queues the pointers hold: a list's head is the first
  element and the head's `prev` the last, `next` leads from each element but the last to
  the following one (`Ring`; the last one's `next` is of no account unless it is alone, which is why the
  open ring does no harm), and no entry is in two lists, in two hands, or in a list and a hand
  (`Apart`). `Apart` is what makes the shared pointer fields harmless: a push or pop writes to
  entries of its own list or to the one in hand, so the other rings stay (`RingKept`). The contents that the
  refinement reads off the pointers are those queues (`ContentsAre`), since a ring has at most
  `QueueDepth` entries.
* `AsyncListsProofs!SortSorts` and `QueueIsSorted`: the sort of `LbaSort` sorts, for every `SMALL_N` of
  at least 2 (with 1 the code's recursion would not end), every length and every set of LBAs.
  `PointerInside` bounds the two pointers of `merge` at every iteration, by which it copies every
  element (`MergeKeeps`) and in order (`MergeOrders`); `InsertOrders` is one iteration of `sort_small`:
  what was sorted and the new element are sorted after it. `SortExists` shows that the recursion of `sort`
  has a solution, by induction on the length, and `SortSorts` that it sorts, by the same.
  That elements are kept is stated as equal sets and equal lengths; as each request is queued once,
  that makes a permutation: `EachIssuedOnce`.
* The two results are what `AsyncLoader` is built on: it has the status lists as sequences and
  the sort as any order by LBA.
* `DataLemmas`: induction over an interval and over the naturals (`RangeInduction`,
  `StrongInduction`), that a loop has a function of its states (`LoopExists`), what appending to and
  removing from one of a family of queues does to the elements of each and to their
  freedom from duplicates, and that the sum over a finite set exists, does not depend on the order
  in which it is taken, and changes as its terms do. The library's induction rules have an operator
  as a parameter, which the provers do not instantiate; here the induction is on the set of the values
  for which a fact holds, by the well-foundedness of `<` and of inclusion. This is also how recursive
  functions are proved about.

The theorems about `AsyncLoader` with names of their own, the status lists, minio's data and its exact
books, and ladcache's whole data have the hypotheses named above, which are those of the
properties or of the runs that check them; all others hold under every failure the models have.
Every safety property and every refinement of a passing run is proved.

Model-checked only: liveness (`RequestsComplete`, `EveryCallReturns`, `RunQueueDrains`, `WorkEnds`,
`AnsweredUnlessDropped`, `FailedReadStopsLoader`) and ENABLED, which are out of the prover's reach.

## 6. Where code and documentation disagree

Shown by a run:

1. `async.c:491`: with a queue depth that is no power of two the free ring is
   broken and entries are handed out twice, while `async.h:77-83` takes any depth.
   `AsyncFifoDepth3`.
2. `ladcache/cache.c:1173`: `while (manager_check_cleanup(..))` has neither braces nor a
   body of its own, so idle iterations are counted only when something is cleaned,
   and the idle synchronisation of `ladcache/README.md:19` does not come when users are
   idle. `LadCacheIdleSync`.

Visible in the models by changing a constant of a run or naming another of a
module's properties, and not kept as runs of their own:

3. `async.c:329-334`: a file that cannot be opened is retried for ever and keeps the idle
   count at zero, so partial batches of others are never flushed: `PartialBatchIsFlushed`
   fails with a file in `Missing`.
4. `async.c:136`: a path requested twice at once aborts a worker: `ShmOpenSucceeds`
   fails with one file and two workers.
5. `async.c:244`, `minio.c:100`: paths that differ in `/` and `_` share an object
   and its data (`async-loader/README.md:91`, `minio/README.md:42`). `DataIsOwn` fails
   with the constants of `AsyncLoaderCollisions`, `CopiesOwnFile` when `ShmPath`
   maps two files to one name.
6. `minio.c:83`: the reservation of a store that will not fit makes one fail that
   would (`minio.c:250`), and `minio.c:75`: stores that do not fit use up table slots,
   after which files that fit are refused, also with one process: `MissedForCapacity`.
7. `minio.c:268`: a flush leaves objects behind (`minio.c:265`): `FlushFreesObjects`.
8. `minio.c:110`: stores that fail in `shm_open` or `ftruncate` keep their
   bytes: `UsedIsAccounted` fails with `ShmMayFail`, `UsedCoversCached` does not.
9. `dashboard_server.py:3072` says that the scheduler order affects measured
   completion: the batcher has already chosen a prefix of the queue and a batch ends as a
   whole, so it does not. `ShortestEndsFirst` fails; `NeverOvertaken` proves the
   converse, which is also why no request is delayed for ever (`README.md:275`).
10. `gpemu/gpemu/gpemu/sharing.py:40` says that the GPU time of a batch has been handled
    when `request_gpu_time` returns: after a Kafka manager died and replayed, an answer
    to an earlier batch is taken for it. `HandledFirst` fails; `NoFreeTime` does not.
11. `dashboard_server.py:2699-2715`: a stop that found no thread and is overtaken by a
    start marks the new run's file as stopped until its next write. `StopLasts` and
    `StopKeepsOutcome` therefore speak of stops that no announcement of a run overlapped.
12. `cache.c:226`: `network_get_message` reads an answer until `read` returns `EOF`, which is -1;
    at the end of a connection `read` returns 0. A peer that goes away in the middle of
    an answer makes the thread of the remote load loop for ever, where the comment at
    `cache.c:187` promises "Returns 0 on success, -errno on failure" and line 229 tests for short
    answers. `RemoteLoadReturns` fails with `"cut"` in `Faults`.
    `RequestsComplete` shows that nobody else's request is held up.
13. `dashboard_server.py:3190-3194`: when the cache of the last experiment cannot be removed, the
    error is printed and the new experiment starts beside the old file, from which
    `/api/experiment_results` (3276-3282) then answers "complete" with the replaced results, until
    the new experiment writes its own. `ResultsAreFresh` fails; `ResultsAreCurrent` exempts
    exactly this case, and the state in memory never gives replaced results.

Seen while reading, small: `minio.c:122` and `minio.c:172` compare the result of `mmap` with NULL, but it
returns `MAP_FAILED`, so that the copy after it faults (`fill_faults`, `copy_aborts`); `sharing.py:60` passes `mode` to a constructor that does not
take it, so the package's RabbitMQ application cannot be constructed; `cache.c:919` frees a
pointer that was never set or was freed before, `cache.c:213` among the reasons: an answer without
a payload returns 0 and leaves `*out` unset; `cache.c:1255` counts a request as in
flight before it has an entry, and does not undo it; the descriptor of a file read by
ladcache stays open when the file is cached; ladcache's Python wrapper drops the entry of a failed
request (`lost` in the model); `rcache.ht` is shared by threads without its lock being
taken; `InferenceEngine._skip_sleep` is a class variable that the scheduler comparison sets
and restores while other threads run engines.

## 7. Not modelled

* *async-loader, minio*: process start-up and the mappings made before the fork; address
  spaces (that an anonymous mapping made after the fork is private to its process);
  failures of `io_uring_submit`; file sizes and direct IO; the Python wrappers beyond
  the calls they make, a read that returns fewer bytes than asked for (`async.c:361` takes it for
  the whole file), a second `release` of one entry object among it; paths longer
  than 128 bytes; `cache_destroy`; wrap-around of minio's counters.
* *ladcache*: `in_flight` (a counter only `get_in_flight` reads); registration and the
  registrar; the monitor's epoll loop and the node as a server of its peers
  (`monitor_handle_request`): peers are external, may announce a file at any time, and
  fail, refuse, answer or be cut off; a failing `shm_alloc` of a remote load, which the code does not
  check; teardown and exhaustion of heap memory; a read that returns fewer bytes than asked for, which
  `cache.c:1097` takes for the whole file. A request a peer refuses keeps status 0,
  and what its user reads is undefined by the code: `DataIsWhole` excludes it.
* *Dashboard*: pages, profile endpoints, the files of the selected model and GPU, the
  scheduler comparison. `_ensure_write_dir` (`dashboard_server.py:46-73`) moves all files to another
  directory when theirs cannot be written to: the models have one metrics file and one cache file,
  whose place does not change. A torn metrics file is modelled as a blank one.
* *Sharing*: topics and partitions of Kafka beyond one of each; a connection lost by an
  application; the RabbitMQ classes of the package (see section 6).
* *Kubernetes plugin*: it restarts its gRPC server on file-system events of the kubelet, and
  nothing in the repository ever marks a device unhealthy; its behaviour is that of the
  gRPC library and of the kubelet.
* *Emulators, mlock extension, profiler, workloads, reports, database helpers*: table
  lookups, sleeps, file and SQLite I/O, floating-point statistics; nothing outlives a call.
* *`rep/`*: training scripts, copies of third-party engines with an emulation call inserted,
  plotting scripts and recorded logs. They make up most of the repository's lines
  (`rep/ffcv/figure5/log.py` alone holds more than half of its Python: 85 846 lines of
  recorded output), have no logic of this system, and are the reason why the models, which
  cover its concurrent core, stand for a small share of all lines.

## 8. Plan

What is left, most valuable first:

1. `LadCacheCluster`: several `LadCacheNode`s, with the registrar, the monitor's sides of
   synchronisation and remote loads, peers that join and leave, lost connections. Property: a
   path in a directory was cached by the peer it names.
2. The Kubernetes plugin's restart loop against an abstract kubelet.
