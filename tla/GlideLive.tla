----------------------------- MODULE GlideLive -----------------------------
(***************************************************************************)
(* The live run of the GLIDE dashboard (src/glide/dashboard_server.py): the *)
(* threads that serve /api/start_run (or start_new_run) and /api/stop_run,  *)
(* the background thread of a run, and the metrics file they all write.     *)
(*                                                                         *)
(* Writers hold an exclusive flock on the file; the readers take none, so   *)
(* between the truncation and the flush of a write they see a blank file.   *)
(* The engine of a run has the default batcher (batches of one), for which  *)
(* GlideEngine shows that requests end in the order of the trace: two       *)
(* counters stand for it.  Handlers are shared with GlideExperiments.       *)
(***************************************************************************)
EXTENDS Integers

CONSTANTS Handlers,   \* the server's request threads
          TraceLen,   \* len(trace), the requests of one run
          MaxRuns,    \* bound: runs started
          MaxFaults   \* bound: writes to the file, and requests, that raise

Runs == 1 .. MaxRuns
Free == 0    \* no run has this number
Idle == "idle"

Active   == {"starting", "running", "stopping"}
Terminal == {"completed", "stopped", "failed"}

(* What the metrics file says: its status, and (history) which run it speaks *)
(* of; served is the length of its per_request.                              *)
Blank == [status |-> "blank", run |-> 0, served |-> 0]
Metrics(status, run, served) == [status |-> status, run |-> run, served |-> served]

VARIABLES
  hpc,        \* where each handler is
  run_lock,   \* _RUN_LOCK: its holder, or Free
  stop,       \* _RUN_STOP
  thread,     \* _RUN_THREAD: the run it belongs to, 0 for None
  metrics,    \* the content of METRICS_PATH
  flock,      \* the holder of the flock on it, or Free
  out,        \* the payload a writer is about to dump
  wpc,        \* where the thread of each run is
  index,      \* trace_index of each run
  served,     \* len(engine.completed_requests) of each run
  runs,       \* history: the runs started or being started
  quiet,      \* history: a handler's last stop found no thread and was not broken
              \* off, and no run was announced since
  faults      \* the writes and the requests that have raised

shared == <<run_lock, stop, thread, metrics, flock, out>>
worker == <<wpc, index, served>>
vars   == <<hpc, shared, worker, runs, quiet, faults>>

Writers == Handlers \cup Runs

Init ==
  /\ hpc = [h \in Handlers |-> Idle]
  /\ run_lock = Free
  /\ stop = FALSE
  /\ thread = 0
  /\ metrics = Blank
  /\ flock = Free
  /\ out = [w \in Writers |-> Blank]
  /\ wpc = [k \in Runs |-> "unborn"]
  /\ index = [k \in Runs |-> 0]
  /\ served = [k \in Runs |-> 0]
  /\ runs = 0
  /\ quiet = [h \in Handlers |-> FALSE]
  /\ faults = 0

Alive(k) == wpc[k] \notin {"unborn", "dead"}

\* Mutation of RunIsAlive: the file is asked, and not the thread.
FileSaysAlive == metrics.status \in Active

\* Mutation of RunIsAlive: a run that was told to stop counts as ended.
AliveUnlessStopped == thread # 0 /\ Alive(thread) /\ ~stop

RunIsAlive == thread # 0 /\ Alive(thread)

(***************************************************************************)
(* A write to the metrics file.  Lock and Flush are its two halves: flock,  *)
(* seek and truncate; then dump, flush and unlock.  Either may raise (the   *)
(* open before the first, a full disk in the second, which leaves the file  *)
(* blank); the lock is released all the same.                               *)
(***************************************************************************)
Lock(w, payload) == /\ flock = Free
                    /\ flock' = w
                    /\ out' = [out EXCEPT ![w] = payload]
                    /\ metrics' = Blank
                    /\ UNCHANGED faults

Flush(w) == /\ flock = w
            /\ flock' = Free
            /\ metrics' = out[w]
            /\ out' = [out EXCEPT ![w] = Blank]
            /\ UNCHANGED faults

Raise(w) == /\ faults < MaxFaults
            /\ faults' = faults + 1
            /\ flock' = IF flock = w THEN Free ELSE flock
            /\ out' = [out EXCEPT ![w] = Blank]
            /\ UNCHANGED metrics

(***************************************************************************)
(* /api/start_run and /api/start_new_run: _start_live_engine_run.           *)
(***************************************************************************)
Go(h, from, to) == hpc[h] = from /\ hpc' = [hpc EXCEPT ![h] = to]

StartRefused(h) ==
  /\ hpc[h] = Idle /\ run_lock = Free
  /\ RunIsAlive
  /\ UNCHANGED vars

StartBegin(h) ==
  /\ Go(h, Idle, "clear")
  /\ run_lock = Free
  /\ ~RunIsAlive
  /\ runs < MaxRuns
  /\ run_lock' = h
  /\ stop' = FALSE
  /\ UNCHANGED <<thread, metrics, flock, out, worker, runs, quiet, faults>>

(* _clear_metrics_file: the file stays blank until the next write. *)
StartClear(h) ==
  /\ Go(h, "clear", "announce")
  /\ flock = Free
  /\ metrics' = Blank
  /\ UNCHANGED <<run_lock, stop, thread, flock, out, worker, runs, quiet, faults>>

StartAnnounce(h) ==
  /\ Go(h, "announce", "announced")
  /\ Lock(h, Metrics("starting", runs + 1, 0))
  /\ runs' = runs + 1
  /\ quiet' = [g \in Handlers |-> FALSE]
  /\ UNCHANGED <<run_lock, stop, thread, worker>>

(* The thread is created and started under the lock. *)
StartSpawn(h) ==
  /\ Go(h, "announced", Idle)
  /\ Flush(h)
  /\ thread' = runs
  /\ wpc' = [wpc EXCEPT ![runs] = "begin"]
  /\ run_lock' = Free
  /\ UNCHANGED <<stop, index, served, runs, quiet>>

StartRaises(h) ==
  /\ hpc[h] \in {"clear", "announce", "announced"}
  /\ hpc' = [hpc EXCEPT ![h] = Idle]
  /\ Raise(h)
  /\ run_lock' = Free
  /\ UNCHANGED <<stop, thread, worker, runs, quiet>>

(***************************************************************************)
(* /api/stop_run: _stop_live_engine_run, then a look at the metrics file,   *)
(* then _mark_run_stopped when no thread was found for an active status.    *)
(***************************************************************************)
StopAsk(h) ==
  /\ hpc[h] = Idle /\ run_lock = Free
  /\ stop' = (stop \/ RunIsAlive)
  /\ hpc' = [hpc EXCEPT ![h] = IF RunIsAlive THEN Idle ELSE "look"]
  /\ quiet' = [quiet EXCEPT ![h] = ~RunIsAlive]
  /\ UNCHANGED <<run_lock, thread, metrics, flock, out, worker, runs, faults>>

\* Mutation of ClaimsRun: whatever the file says is marked.
ClaimsAnything == TRUE

ClaimsRun == metrics.status \in Active

(* _load_metrics_file takes no lock; a blank file reads as "waiting". *)
StopNotRunning(h) ==
  /\ Go(h, "look", Idle)
  /\ ~ClaimsRun
  /\ UNCHANGED <<shared, worker, runs, quiet, faults>>

StopLook(h) ==
  /\ Go(h, "look", "mark")
  /\ ClaimsRun
  /\ UNCHANGED <<shared, worker, runs, quiet, faults>>

MarkedStopped == [metrics EXCEPT !.status = "stopped"]

(* _mark_run_stopped reads the file again, under the flock. *)
StopMark(h) ==
  /\ Go(h, "mark", "marked")
  /\ Lock(h, MarkedStopped)
  /\ UNCHANGED <<run_lock, stop, thread, worker, runs, quiet>>

StopMarked(h) ==
  /\ Go(h, "marked", Idle)
  /\ Flush(h)
  /\ UNCHANGED <<run_lock, stop, thread, worker, runs, quiet>>

StopRaises(h) ==
  /\ hpc[h] \in {"mark", "marked"}
  /\ hpc' = [hpc EXCEPT ![h] = Idle]
  /\ Raise(h)
  /\ quiet' = [quiet EXCEPT ![h] = FALSE]
  /\ UNCHANGED <<run_lock, stop, thread, worker, runs>>

(***************************************************************************)
(* _run_live_engine, the thread of run k.                                   *)
(***************************************************************************)
At(k, from, to) == wpc[k] = from /\ wpc' = [wpc EXCEPT ![k] = to]
LockFor(k, from, payload) ==
  /\ wpc[k] = from
  /\ Lock(k, payload)
  /\ UNCHANGED <<hpc, run_lock, stop, thread, worker, runs, quiet>>

WorkerAnnounce(k) == LockFor(k, "begin", Metrics("running", k, 0))

(* What trace_index may be when a request is in the queue. *)
Submissions(k) == {i \in index[k] .. TraceLen : i > served[k]}

(* One turn of the loop without a stop: submit what is due, serve the head.  *)
(* A turn with nothing due waits, and changes nothing.                       *)
WorkerServe(k) ==
  /\ At(k, "loop", "serving")
  /\ ~stop
  /\ \E i \in Submissions(k) : index' = [index EXCEPT ![k] = i]
  /\ UNCHANGED <<hpc, shared, served, runs, quiet, faults>>

(* process_next returns after its sleep. *)
WorkerServed(k) ==
  /\ At(k, "serving", "append")
  /\ served' = [served EXCEPT ![k] = @ + 1]
  /\ UNCHANGED <<hpc, shared, index, runs, quiet, faults>>

(* _append_live_result builds its payload under the flock. *)
WorkerAppend(k) ==
  LockFor(k, "append",
          Metrics(IF stop THEN "stopping" ELSE "running", k, served[k]))

LoopEnds(k) == stop \/ served[k] = TraceLen

(* The status of the last write is chosen before the flock is taken: by the  *)
(* check at the head of the loop, or after it.                               *)
WorkerEnd(k) ==
  /\ wpc[k] = "loop"
  /\ LoopEnds(k)
  /\ wpc' = [wpc EXCEPT ![k] = IF stop THEN "stopped" ELSE "completed"]
  /\ UNCHANGED <<hpc, shared, index, served, runs, quiet, faults>>

\* Mutation of LastPayload: the payload's own status is not overwritten.
LivePayload(k, status) == Metrics(IF stop THEN "stopping" ELSE status, k, served[k])

\* Mutation of LastPayload: no results in the last write.
StatusAlone(k, status) == Metrics(status, k, 0)

LastPayload(k, status) == Metrics(status, k, served[k])

WorkerLast(k) == \E status \in Terminal :
  LockFor(k, status, LastPayload(k, status))

AfterFlush(k) == IF wpc[k] \in Terminal THEN "dead" ELSE "loop"

WorkerFlush(k) ==
  /\ Flush(k)
  /\ wpc' = [wpc EXCEPT ![k] = AfterFlush(k)]
  /\ UNCHANGED <<hpc, run_lock, stop, thread, index, served, runs, quiet>>

(* An exception inside the try block, in a write or in process_next, is      *)
(* answered with a last write of "failed"; one in the first write, or in     *)
(* that last one, ends the thread.                                           *)
WorkerRaises(k) ==
  /\ \/ /\ wpc[k] \in {"begin", "failed"}
        /\ wpc' = [wpc EXCEPT ![k] = "dead"]
     \/ /\ wpc[k] \in {"serving", "append", "stopped", "completed"}
        /\ wpc' = [wpc EXCEPT ![k] = "failed"]
  /\ Raise(k)
  /\ UNCHANGED <<hpc, run_lock, stop, thread, index, served, runs, quiet>>

(* A stop that found no thread is under way. *)
Stopping(h) == hpc[h] \in {"look", "mark", "marked"}

(* The server process dies and is started again: its threads and locks go,   *)
(* the metrics file stays as it is.                                          *)
Restart ==
  /\ hpc' = [h \in Handlers |-> Idle]
  /\ run_lock' = Free /\ flock' = Free
  /\ stop' = FALSE /\ thread' = 0
  /\ out' = [w \in Writers |-> Blank]
  /\ wpc' = [k \in Runs |-> IF Alive(k) THEN "dead" ELSE wpc[k]]
  /\ quiet' = [h \in Handlers |-> quiet[h] /\ ~Stopping(h)]
  /\ UNCHANGED <<metrics, index, served, runs, faults>>

HandlerCalls(h) == StartRefused(h) \/ StartBegin(h) \/ StopAsk(h)

HandlerWorks(h) == \/ StartClear(h) \/ StartAnnounce(h) \/ StartSpawn(h)
                   \/ StopNotRunning(h) \/ StopLook(h) \/ StopMark(h) \/ StopMarked(h)

WorkerWorks(k) == \/ WorkerAnnounce(k) \/ WorkerServe(k) \/ WorkerServed(k)
                  \/ WorkerAppend(k) \/ WorkerEnd(k) \/ WorkerLast(k) \/ WorkerFlush(k)

Faults == \/ \E h \in Handlers : StartRaises(h) \/ StopRaises(h)
          \/ \E k \in Runs : WorkerRaises(k)

Step == \/ \E h \in Handlers : HandlerCalls(h) \/ HandlerWorks(h)
        \/ \E k \in Runs : WorkerWorks(k)
        \/ Faults

(* A thread of the server goes on once it has begun: time passes between two *)
(* requests of the trace, and the flock and _RUN_LOCK are held over short    *)
(* blocks.  Weak fairness is enough although writers compete for the flock:  *)
(* while a run is alive no stop goes on to the file, and no start does.      *)
Fairness == /\ \A h \in Handlers : WF_vars(HandlerWorks(h))
            /\ \A k \in Runs : WF_vars(WorkerWorks(k))

(***************************************************************************)
(* Properties.                                                              *)
(***************************************************************************)

(* Where a handler is here, or in GlideExperiments. *)
HandlerPlaces == {Idle, "clear", "announce", "announced", "look", "mark", "marked"}
                   \cup {"cache", "state"}

(* Type invariant. *)
TypeOK ==
  /\ hpc \in [Handlers -> HandlerPlaces]
  /\ run_lock \in Handlers \cup {Free} /\ flock \in Writers \cup {Free}
  /\ stop \in BOOLEAN /\ thread \in 0 .. MaxRuns /\ runs \in 0 .. MaxRuns
  /\ metrics.status \in Active \cup Terminal \cup {"blank"}
  /\ metrics.run \in 0 .. MaxRuns /\ metrics.served \in 0 .. TraceLen
  /\ \A k \in Runs : served[k] <= index[k] /\ index[k] <= TraceLen
  /\ quiet \in [Handlers -> BOOLEAN] /\ faults \in 0 .. MaxFaults

(* Two runs never overlap, and a restart waits for the thread of the run     *)
(* before it (test_stop_waits_for_worker_before_accepting_restart): the file *)
(* never speaks of an earlier run than the last one announced.               *)
OneRunAtATime ==
  /\ \A j, k \in Runs : Alive(j) /\ Alive(k) => j = k
  /\ metrics.status # "blank" => metrics.run \in {0, runs}
  /\ \A k \in Runs : k < runs => ~Alive(k)

(* "completed" is only ever said of a run whose whole trace was served, also *)
(* when a stop, a failed write or a second stop came in between.             *)
CompletedIsComplete ==
  metrics.status = "completed" => metrics.served = TraceLen

(* Results are not lost on the way to the file: what it says of a run is at  *)
(* most one request behind, also after a stop, a repair, failed writes or a  *)
(* restart of the server, and it is complete when the run's thread has ended *)
(* in a server that still lives, also if one write failed (the last write    *)
(* repeats it; when that fails, too, the thread ends a request behind).      *)
ResultsReachFile(untroubled) ==
  \A k \in Runs :
    metrics.run = k =>
      /\ served[k] - metrics.served \in {0, 1}
      /\ wpc[k] = "dead" /\ untroubled => metrics.served = served[k]

(* No request is being served and no run is alive. *)
Settled == /\ \A h \in Handlers : hpc[h] = Idle
           /\ ~RunIsAlive

(* Once everything has come to rest the file does not claim a live run,      *)
(* unless a write raised or the server died.                                 *)
RestIsTerminal(untroubled) ==
  Settled /\ faults = 0 /\ untroubled /\ runs > 0 => metrics.status \in Terminal

(* Once a stop that found no thread has returned, the file claims no live    *)
(* run until a start announces the next one: no thread that was overlooked,  *)
(* no other stop and no write still to come brings the claim back, also      *)
(* after a restart.  A stop whose own write raised promises nothing.         *)
StopLasts ==
  \A h \in Handlers :
    quiet[h] /\ ~Stopping(h) => metrics.status \notin Active

(* A stop that no start overlapped does not turn a finished run into a       *)
(* stopped one.                                                              *)
StopKeepsOutcome ==
  [][\A h \in Handlers :
       StopMark(h) /\ quiet[h] => metrics.status \notin {"completed", "failed"}]_vars

(* Every run ends, served to its last request, stopped or failed. *)
RunEnds == \A k \in Runs : wpc[k] = "begin" ~> wpc[k] = "dead"
=============================================================================
