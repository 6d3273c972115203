-------------------------- MODULE GlideExperiments --------------------------
(***************************************************************************)
(* The experiments of the GLIDE dashboard (src/glide/dashboard_server.py):  *)
(* the threads that serve /api/run_experiments and /api/experiment_results, *)
(* the background thread that computes, the state they share under          *)
(* _EXPERIMENT_LOCK and the cache file, which outlives the server.          *)
(* Handlers are shared with GlideLive.                                      *)
(***************************************************************************)
EXTENDS Naturals

CONSTANTS Handlers,        \* the server's request threads
          Combinations,    \* scenarios times schedulers (12 in the code)
          MaxExperiments,  \* bound: experiments started
          MaxFailures      \* bound: experiments that raise

Idle == "idle"

(* The content of the cache file and of _EXPERIMENT_STATE: a status and      *)
(* (history) the experiment it belongs to.                                   *)
Absent == [status |-> "absent", of |-> 0]
Torn   == [status |-> "torn", of |-> 0]
State(status, n) == [status |-> status, of |-> n]

VARIABLES
  hpc,          \* where each handler is
  state,        \* _EXPERIMENT_STATE
  cache,        \* experiment_cache.json
  epc,          \* where the background thread is, "dead" when there is none
  done,         \* the combinations it has reported as begun
  experiments,  \* history: the experiments started
  called,       \* history: the experiments started when a handler was called, 0 when
                \* it serves no request
  cleared,      \* history: the last experiment whose start left no cache file
  answered,     \* history: the last experiment a client was given results of
  failures      \* the experiments that have raised

vars == <<hpc, state, cache, epc, done, experiments, called, cleared, answered,
          failures>>

Init ==
  /\ hpc = [h \in Handlers |-> Idle]
  /\ state = State("idle", 0)
  /\ cache = Absent
  /\ epc = "dead"
  /\ done = 0
  /\ experiments = 0
  /\ called = [h \in Handlers |-> 0]
  /\ cleared = 0
  /\ answered = 0
  /\ failures = 0

\* Mutation of ClearedCache: the file is left where it is.
CacheKept == cache

ClearedCache == Absent

(***************************************************************************)
(* /api/run_experiments: _start_experiments, under the lock throughout.     *)
(***************************************************************************)

(* An OSError of os.remove is printed: the file stays, the start goes on. *)
RemoveCache ==
  \/ cache' = ClearedCache /\ cleared' = experiments + 1
  \/ cache # Absent /\ UNCHANGED <<cache, cleared>>

StartExperiments(h) ==
  /\ hpc[h] = Idle
  /\ epc = "dead"
  /\ experiments < MaxExperiments
  /\ experiments' = experiments + 1
  /\ RemoveCache
  /\ state' = State("computing", experiments + 1)
  /\ epc' = "combination"
  /\ done' = 0
  /\ UNCHANGED <<hpc, called, answered, failures>>

(***************************************************************************)
(* _run_experiments_background.                                             *)
(***************************************************************************)
Goes(from, to) == epc = from /\ epc' = to

\* Mutation of ProgressState: the last combination is reported as the end.
EagerState == State(IF done + 1 = Combinations THEN "complete" ELSE "computing",
                    state.of)

ProgressState == State("computing", state.of)

(* update_progress, then one workload under one scheduler. *)
Progress ==
  /\ epc = "combination"
  /\ done' = done + 1
  /\ epc' = IF done' = Combinations THEN "report" ELSE "combination"
  /\ state' = ProgressState
  /\ UNCHANGED <<hpc, cache, experiments, called, cleared, answered, failures>>

(* export_report, then open(cache_path, 'w'), which empties the file. *)
OpenCache ==
  /\ Goes("report", "dump")
  /\ cache' = Torn
  /\ UNCHANGED <<hpc, state, done, experiments, called, cleared, answered, failures>>

WriteCache ==
  /\ Goes("dump", "publish")
  /\ cache' = State("complete", experiments)
  /\ UNCHANGED <<hpc, state, done, experiments, called, cleared, answered, failures>>

Publish ==
  /\ Goes("publish", "exit")
  /\ state' = State("complete", experiments)
  /\ UNCHANGED <<hpc, cache, done, experiments, called, cleared, answered, failures>>

\* Mutation of FailedState: the exception is printed and nothing else.
StateKept == state

FailedState == State("failed", experiments)

(* An exception on the way: what was written of the cache stays. *)
Fail ==
  /\ epc \in {"combination", "report", "dump"}
  /\ failures < MaxFailures
  /\ failures' = failures + 1
  /\ epc' = "exit"
  /\ state' = FailedState
  /\ done' = 0
  /\ UNCHANGED <<hpc, cache, experiments, called, cleared, answered>>

Exit ==
  /\ Goes("exit", "dead")
  /\ UNCHANGED <<hpc, state, cache, done, experiments, called, cleared, answered, failures>>

(***************************************************************************)
(* /api/experiment_results: the cache without a lock, else the state.       *)
(***************************************************************************)
AskResults(h) ==
  /\ hpc[h] = Idle
  /\ hpc' = [hpc EXCEPT ![h] = "cache"]
  /\ called' = [called EXCEPT ![h] = experiments]
  /\ UNCHANGED <<state, cache, epc, done, experiments, cleared, answered, failures>>

Answered(h) == /\ hpc' = [hpc EXCEPT ![h] = Idle]
               /\ called' = [called EXCEPT ![h] = 0]

AnswerFromCache(h) ==
  /\ hpc[h] = "cache"
  /\ cache.status = "complete"
  /\ answered' = cache.of
  /\ Answered(h)
  /\ UNCHANGED <<state, cache, epc, done, experiments, cleared, failures>>

(* Absent, or not valid JSON. *)
CacheMiss(h) ==
  /\ hpc[h] = "cache"
  /\ cache.status # "complete"
  /\ hpc' = [hpc EXCEPT ![h] = "state"]
  /\ UNCHANGED <<state, cache, epc, done, experiments, called, cleared, answered, failures>>

AnswerFromState(h) ==
  /\ hpc[h] = "state"
  /\ answered' = IF state.status = "complete" THEN state.of ELSE answered
  /\ Answered(h)
  /\ UNCHANGED <<state, cache, epc, done, experiments, cleared, failures>>

(* The server process dies and is started again: the cache file stays. *)
Restart ==
  /\ hpc' = [h \in Handlers |-> Idle]
  /\ state' = State("idle", 0)
  /\ epc' = "dead"
  /\ done' = 0
  /\ called' = [h \in Handlers |-> 0]
  /\ UNCHANGED <<cache, experiments, cleared, answered, failures>>

Background == Progress \/ OpenCache \/ WriteCache \/ Publish \/ Exit

Step == \/ \E h \in Handlers : StartExperiments(h) \/ AskResults(h)
        \/ \E h \in Handlers : AnswerFromCache(h) \/ CacheMiss(h) \/ AnswerFromState(h)
        \/ Background \/ Fail

Fairness == WF_vars(Background)

(***************************************************************************)
(* Properties.                                                              *)
(***************************************************************************)

(* A client is never given the results of an experiment that a later one had *)
(* already replaced when it asked, however crashes, failures and starts      *)
(* interleave with the answer, unless no later start could remove the cache  *)
(* file (the code goes on all the same, and serves what is left there).      *)
ResultsAreCurrent ==
  [][\A h \in Handlers :
       /\ AnswerFromCache(h) => cache.of >= called[h] \/ cache.of >= cleared
       /\ AnswerFromState(h) /\ state.status = "complete" => state.of >= called[h]]_vars

(* The same without the exception, which the code does not keep: while a     *)
(* new experiment computes, and after it failed, the replaced one's results  *)
(* are told to be complete.                                                  *)
ResultsAreFresh ==
  [][\A h \in Handlers : AnswerFromCache(h) => cache.of >= called[h]]_vars

(* Results once given can be given again until the next experiment starts,   *)
(* also after the server died: the cache is written before the state says    *)
(* "complete".                                                               *)
ResultsAreDurable ==
  answered = experiments /\ experiments > 0 => cache = State("complete", experiments)

(* An experiment that was started is complete, failed or forgotten by a      *)
(* restart in the end: "computing" does not last.                            *)
ExperimentEnds == state.status = "computing" ~> state.status # "computing"
=============================================================================
