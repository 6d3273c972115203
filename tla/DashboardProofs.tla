-------------------------- MODULE DashboardProofs --------------------------
(***************************************************************************)
(* GlideDashboard, for every number of request threads, runs, requests,    *)
(* experiments, failures and restarts, live runs and experiments together: *)
(* runs do not overlap, the metrics file says of a run what is true of it, *)
(* a stop lasts and keeps a finished run's outcome, and results of         *)
(* experiments are as current as the cache file allows, and stay once they *)
(* were given.                                                             *)
(***************************************************************************)
EXTENDS GlideDashboard, TLAPS

Runs == 1 .. MaxRuns
Writers == Handlers \cup Runs
Active == {"starting", "running", "stopping"}
Terminal == {"completed", "stopped", "failed"}
RunPlaces == {"unborn", "begin", "loop", "serving", "append", "dead"} \cup Terminal

Starts == {"clear", "announce", "announced"}
Stops == {"look", "mark", "marked"}
Asks == {"cache", "state"}

Contents == [status : Active \cup Terminal \cup {"blank"}, run : 0 .. MaxRuns, served : 0 .. TraceLen]
Blank == [status |-> "blank", run |-> 0, served |-> 0]

Alive(k) == wpc[k] \notin {"unborn", "dead"}

\* Where everybody is, and what the file and a writer can say.
Types ==
    /\ hpc \in [Handlers -> {"idle"} \cup Starts \cup Stops \cup Asks]
    /\ run_lock \in Handlers \cup {0}
    /\ flock \in Writers \cup {0}
    /\ stop \in BOOLEAN
    /\ thread \in 0 .. MaxRuns
    /\ runs \in 0 .. MaxRuns
    /\ faults \in 0 .. MaxFaults
    /\ restarts \in 0 .. MaxRestarts
    /\ metrics \in Contents
    /\ out \in [Writers -> Contents]
    /\ wpc \in [Runs -> RunPlaces]
    /\ index \in [Runs -> 0 .. TraceLen]
    /\ served \in [Runs -> 0 .. TraceLen]
    /\ quiet \in [Handlers -> BOOLEAN]

\* _RUN_LOCK and the flock, and where their holders are; the file is blank while
\* somebody holds the flock.
Locks ==
    /\ \A h \in Handlers : hpc[h] \in Starts <=> run_lock = h
    /\ \A h \in Handlers : hpc[h] \in {"announced", "marked"} <=> flock = h
    /\ \A k \in Runs : flock = k => wpc[k] \in {"begin", "append"} \cup Terminal
    /\ flock # 0 => metrics = Blank

\* A thread that is alive is that of the last run, and no run is being started.
LastRun ==
    /\ \A k \in Runs : k > runs => wpc[k] = "unborn"
    /\ \A k \in Runs : Alive(k) => k = thread /\ k = runs /\ run_lock = 0
    /\ \A h \in Handlers : hpc[h] \in {"clear", "announce"} => runs < MaxRuns
    /\ \A h \in Handlers : hpc[h] = "announced" => runs > 0 /\ wpc[runs] = "unborn"

\* How far a run's thread has come.
Progress ==
    \A k \in Runs :
      /\ served[k] <= index[k]
      /\ wpc[k] \in {"unborn", "begin"} => index[k] = 0
      /\ wpc[k] = "serving" => served[k] < index[k]
      /\ wpc[k] = "completed" => served[k] = TraceLen
      /\ wpc[k] = "failed" => faults > 0

\* A run whose last result may be missing in the file.
Behind(k) ==
    \/ wpc[k] \in {"append", "failed"}
    \/ wpc[k] = "dead" /\ (restarts > 0 \/ faults > 1)

\* m, the file's content or what a writer is about to write, is true.
Truthful(m) ==
    /\ m.run \in {0, runs}
    /\ m.status = "completed" => m.served = TraceLen
    /\ \A k \in Runs : m.run = k =>
         IF Behind(k) THEN served[k] - m.served \in {0, 1} ELSE m.served = served[k]

\* The file, and what is about to be written to it, is true.
File ==
    /\ Truthful(metrics)
    /\ flock # 0 => Truthful(out[flock])
    /\ \A h \in Handlers : hpc[h] = "announced" =>
         out[h] = [status |-> "starting", run |-> runs, served |-> 0]
    /\ \A h \in Handlers : hpc[h] = "marked" => out[h].status = "stopped"
    /\ \A k \in Runs : flock = k =>
         /\ out[k].run = k /\ out[k].served = served[k]
         /\ wpc[k] \in Terminal => out[k].status = wpc[k]

\* After a stop that found no thread, and until the next run is announced, no thread is
\* alive, and nobody tells an outcome while the stop is on its way, or claims a live run
\* when it has returned.
Stopping ==
    \A h \in Handlers : quiet[h] =>
      /\ \A k \in Runs : ~ Alive(k)
      /\ \A g \in Handlers : hpc[g] # "announced"
      /\ hpc[h] = "mark" => metrics.status \notin {"completed", "failed"}
      /\ hpc[h] \notin Stops => metrics.status \notin Active

\* Where no write raised and the server never died, somebody is there to write an outcome.
Resting ==
    faults = 0 /\ restarts = 0 /\ runs > 0 =>
      \/ metrics.status \in Terminal
      \/ run_lock # 0
      \/ \E k \in Runs : Alive(k)
      \/ \E h \in Handlers : hpc[h] = "marked"

\* The inductive invariant of the live run.
LiveInv == Types /\ Locks /\ LastRun /\ Progress /\ File /\ Stopping /\ Resting

\* The cache, the state and the thread of the last experiment.
Complete == [status |-> "complete", of |-> experiments]

\* The inductive invariant of the experiments: a complete cache is that of the last
\* experiment, or of one that no later start could remove; a complete state is that of the
\* last experiment; and no result of an experiment is known before its cache is written.
ExperimentInv ==
    /\ experiments \in Nat
    /\ answered \in Nat /\ answered <= experiments
    /\ called \in [Handlers -> Nat] /\ \A h \in Handlers : called[h] <= experiments
    /\ cleared \in Nat /\ cleared <= experiments
    /\ cache.status = "complete" =>
         /\ cache = [status |-> "complete", of |-> cache.of]
         /\ cache.of \in Nat /\ cleared <= cache.of /\ cache.of <= experiments
    /\ epc \in {"combination", "report", "dump"} =>
         answered < experiments /\ cache # Complete
    /\ epc = "publish" => cache = Complete
    /\ state.status = "complete" =>
         state = Complete /\ cache = Complete /\ epc \in {"exit", "dead"}
    /\ answered = experiments /\ experiments > 0 => cache = Complete


-----------------------------------------------------------------------------
(* The live run.                                                           *)

\* Request threads and runs are told apart; no run has the number 0.
LEMMA Apart ==
    /\ \A h \in Handlers : h # 0 /\ h \notin Runs /\ h \in Writers
    /\ \A k \in Runs : k # 0 /\ k \in Nat /\ k <= MaxRuns /\ k \in Writers
    /\ \A k \in 0 .. MaxRuns : k # 0 => k \in Runs
    /\ MaxRuns \in Nat /\ TraceLen \in Nat
BY HandlersAssumption, BoundsAssumption, TraceAssumption DEF Runs, Writers

\* What the file can say.
LEMMA ContentsOf ==
    /\ \A m \in Contents : /\ m.status \in Active \cup Terminal \cup {"blank"}
                           /\ m.run \in 0 .. MaxRuns /\ m.served \in 0 .. TraceLen
    /\ \A s \in Active \cup Terminal \cup {"blank"}, r \in 0 .. MaxRuns, n \in 0 .. TraceLen :
         [status |-> s, run |-> r, served |-> n] \in Contents
    /\ Blank \in Contents /\ Blank.status = "blank" /\ Blank.run = 0 /\ Blank.served = 0
BY BoundsAssumption, TraceAssumption DEF Contents, Blank

\* A server that just started, without a metrics file.
LEMMA InitLive == Init => LiveInv
<1> SUFFICES ASSUME Init PROVE LiveInv
  OBVIOUS
<1>1. /\ hpc = [h \in Handlers |-> "idle"] /\ quiet = [h \in Handlers |-> FALSE]
      /\ run_lock = 0 /\ flock = 0 /\ stop = FALSE /\ thread = 0
      /\ runs = 0 /\ faults = 0 /\ restarts = 0
      /\ metrics = Blank /\ out = [w \in Writers |-> Blank]
      /\ wpc = [k \in Runs |-> "unborn"]
      /\ index = [k \in Runs |-> 0] /\ served = [k \in Runs |-> 0]
  BY DEF Init, Live!Init, Live!Free, Live!Idle, Live!Blank, Live!Runs, Live!Writers, Blank,
         Writers, Runs
<1>2. Types
  <2>1. /\ metrics \in Contents /\ out \in [Writers -> Contents]
        /\ 0 \in 0 .. MaxRuns /\ 0 \in 0 .. MaxFaults /\ 0 \in 0 .. MaxRestarts /\ 0 \in 0 .. TraceLen
    BY <1>1, ContentsOf, BoundsAssumption, TraceAssumption
  <2> QED BY <1>1, <2>1 DEF Types, RunPlaces
<1>3. Locks
  BY <1>1, Apart DEF Locks, Starts
<1>4. LastRun
  BY <1>1, Apart DEF LastRun, Alive
<1>5. Progress
  BY <1>1, Apart DEF Progress
<1>6. File
  BY <1>1, Apart, ContentsOf DEF File, Truthful, Behind
<1>7. Stopping
  BY <1>1 DEF Stopping
<1>8. Resting
  BY <1>1 DEF Resting
<1> QED BY <1>2, <1>3, <1>4, <1>5, <1>6, <1>7, <1>8 DEF LiveInv

\* A start takes _RUN_LOCK and goes on if the thread is not alive.
LEMMA BeginStep ==
    ASSUME LiveInv, NEW h \in Handlers, Live!StartBegin(h), UNCHANGED restarts
    PROVE  LiveInv'
<1>1. /\ hpc[h] = "idle" /\ hpc'[h] = "clear"
      /\ \A g \in Handlers : g # h => hpc'[g] = hpc[g]
      /\ run_lock = 0 /\ run_lock' = h /\ runs < MaxRuns /\ stop' = FALSE
      /\ thread # 0 => ~ Alive(thread)
      /\ UNCHANGED <<thread, metrics, flock, out, wpc, index, served, runs, quiet, faults>>
  BY Apart DEF Live!StartBegin, Live!Free, Live!Idle, Live!worker, Live!RunIsAlive, Live!Go,
     Live!Alive, Alive, LiveInv, Types
<1>2. hpc' \in [Handlers -> {"idle"} \cup Starts \cup Stops \cup Asks]
  BY <1>1 DEF Live!StartBegin, Live!Free, Live!Idle, Live!worker, Live!RunIsAlive, Live!Go,
     Live!Alive, Alive, LiveInv, Types, Starts, Stops, Asks, Terminal
<1>3. Types'
  BY <1>1, <1>2 DEF LiveInv, Types
<1>4. Locks'
  BY <1>1, <1>2, Apart DEF LiveInv, Locks, Starts, Terminal
<1>5. LastRun'
  BY <1>1, <1>2, Apart DEF LiveInv, LastRun, Alive, Starts
<1>6. Progress'
  BY <1>1, <1>2 DEF LiveInv, Progress
<1>7. File'
  BY <1>1, <1>2 DEF LiveInv, File, Truthful, Behind
<1>8. Stopping'
  BY <1>1, <1>2 DEF LiveInv, Stopping, Alive, Stops
<1>9. Resting'
  BY <1>1, <1>2 DEF LiveInv, Resting, Alive
<1> QED BY <1>3, <1>4, <1>5, <1>6, <1>7, <1>8, <1>9 DEF LiveInv

\* It clears the file.
LEMMA ClearStep ==
    ASSUME LiveInv, NEW h \in Handlers, Live!StartClear(h), UNCHANGED restarts
    PROVE  LiveInv'
<1>1. /\ hpc[h] = "clear" /\ hpc'[h] = "announce"
      /\ \A g \in Handlers : g # h => hpc'[g] = hpc[g]
      /\ metrics' = Blank /\ flock = 0
      /\ UNCHANGED <<run_lock, stop, thread, flock, out, wpc, index, served, runs, quiet, faults>>
  BY Apart DEF Live!StartClear, Live!Free, Live!Blank, Live!worker, Live!Go, Blank, LiveInv,
     Types
<1>2. hpc' \in [Handlers -> {"idle"} \cup Starts \cup Stops \cup Asks]
  BY <1>1 DEF Live!StartClear, Live!Free, Live!Blank, Live!worker, Live!Go, Blank, LiveInv,
     Types, Starts, Stops, Asks, Terminal
<1>3. Types'
  BY <1>1, <1>2, Apart, ContentsOf DEF LiveInv, Types
<1>4. Locks'
  BY <1>1, <1>2, Apart DEF LiveInv, Locks, Starts, Terminal
<1>5. LastRun'
  BY <1>1, <1>2 DEF LiveInv, LastRun, Alive
<1>6. Progress'
  BY <1>1, <1>2 DEF LiveInv, Progress
<1>7. File'
  BY <1>1, <1>2, Apart, ContentsOf DEF LiveInv, File, Truthful, Behind, Types, Locks
<1>8. Stopping'
  BY <1>1, <1>2, Apart, ContentsOf DEF LiveInv, Stopping, Alive, Stops, Active
<1>9. Resting'
  BY <1>1, <1>2, Apart DEF LiveInv, Resting, Alive, Locks, Starts
<1> QED BY <1>3, <1>4, <1>5, <1>6, <1>7, <1>8, <1>9 DEF LiveInv

\* It announces the next run.
LEMMA AnnounceStep ==
    ASSUME LiveInv, NEW h \in Handlers, Live!StartAnnounce(h), UNCHANGED restarts
    PROVE  LiveInv'
<1>1. /\ hpc[h] = "announce" /\ hpc'[h] = "announced"
      /\ \A g \in Handlers : g # h => hpc'[g] = hpc[g]
      /\ metrics' = Blank /\ flock = 0 /\ flock' = h /\ runs' = runs + 1
      /\ out'[h] = [status |-> "starting", run |-> runs + 1, served |-> 0]
      /\ \A w \in Writers : w # h => out'[w] = out[w]
      /\ quiet' = [g \in Handlers |-> FALSE]
      /\ UNCHANGED <<run_lock, stop, thread, wpc, index, served, faults>>
  BY Apart DEF Live!StartAnnounce, Live!Metrics, Live!worker, Live!Lock, Live!Go, Live!Free,
     Live!Blank, Writers, Blank, LiveInv, Types
<1>2. /\ hpc' \in [Handlers -> {"idle"} \cup Starts \cup Stops \cup Asks]
      /\ out' \in [Writers -> Contents]
      /\ runs' \in 0 .. MaxRuns
  BY <1>1, Apart, ContentsOf DEF Live!StartAnnounce, Live!Metrics, Live!worker, Live!Lock,
     Live!Go, Live!Free, Live!Blank, Writers, LiveInv, Types, Starts, Stops, Asks, LastRun,
     Progress, Active, Terminal, Blank
<1>3. Types'
  BY <1>1, <1>2, Apart, ContentsOf DEF LiveInv, Types
<1>4. Locks'
  BY <1>1, <1>2, Apart DEF LiveInv, Locks, Starts, Terminal
<1>5. LastRun'
  BY <1>1, <1>2, Apart, ContentsOf DEF LiveInv, LastRun, Locks, Types, Alive, Starts
<1>6. Progress'
  BY <1>1, <1>2 DEF LiveInv, Progress
<1>7. File'
  BY <1>1, <1>2, Apart, ContentsOf DEF LiveInv, File, Truthful, Behind, Types, Locks,
     LastRun, Progress, Terminal
<1>8. Stopping'
  BY <1>1 DEF Stopping
<1>9. Resting'
  BY <1>1, <1>2, Apart DEF LiveInv, Resting, Alive, Locks, Starts
<1> QED BY <1>3, <1>4, <1>5, <1>6, <1>7, <1>8, <1>9 DEF LiveInv

\* It creates the thread of the run.
LEMMA SpawnStep ==
    ASSUME LiveInv, NEW h \in Handlers, Live!StartSpawn(h), UNCHANGED restarts
    PROVE  LiveInv'
<1>1. /\ hpc[h] = "announced" /\ hpc'[h] = "idle"
      /\ \A g \in Handlers : g # h => hpc'[g] = hpc[g]
      /\ metrics' = out[h] /\ flock = h /\ flock' = 0 /\ run_lock' = 0 /\ thread' = runs
      /\ out'[h] = Blank /\ \A w \in Writers : w # h => out'[w] = out[w]
      /\ wpc' = [wpc EXCEPT ![runs] = "begin"]
      /\ UNCHANGED <<stop, index, served, runs, quiet, faults>>
  BY Apart DEF Live!StartSpawn, Live!Free, Live!Idle, Live!Flush, Live!Go, Live!Blank,
     Writers, Blank, LiveInv, Types
<1>2. /\ hpc' \in [Handlers -> {"idle"} \cup Starts \cup Stops \cup Asks]
      /\ out' \in [Writers -> Contents]
      /\ wpc' \in [Runs -> RunPlaces]
      /\ wpc'[runs] = "begin" /\ runs \in Runs /\ \A j \in Runs : j # runs => wpc'[j] = wpc[j]
  <2>1. /\ hpc \in [Handlers -> {"idle"} \cup Starts \cup Stops \cup Asks]
        /\ out \in [Writers -> Contents] /\ wpc \in [Runs -> RunPlaces] /\ Blank \in Contents
    BY ContentsOf DEF LiveInv, Types
  <2>2. hpc' = [hpc EXCEPT ![h] = "idle"] /\ out' = [out EXCEPT ![h] = Blank]
    BY DEF Live!StartSpawn, Live!Idle, Live!Flush, Live!Go, Live!Blank, Blank
  <2>3. runs \in Runs
    BY <1>1, Apart DEF LiveInv, Types, LastRun
  <2> QED BY <1>1, <2>1, <2>2, <2>3 DEF RunPlaces
<1>3. Types'
  BY <1>1, <1>2, Apart DEF LiveInv, Types
<1>4. Locks'
  BY <1>1, <1>2, Apart DEF LiveInv, Locks, Starts, Terminal
<1>5. LastRun'
  BY <1>1, <1>2, Apart DEF LiveInv, LastRun, Alive, Starts, Locks
<1>6. Progress'
  BY <1>1, <1>2, Apart DEF LiveInv, Progress, LastRun
<1>7. File'
  BY <1>1, <1>2, Apart, ContentsOf DEF LiveInv, File, Truthful, Behind, Types, Locks,
     LastRun, Progress, Terminal
<1>8. Stopping'
  BY <1>1, <1>2 DEF LiveInv, Stopping, Alive, Stops
<1>9. Resting'
  BY <1>1, <1>2 DEF LiveInv, Resting, Alive
<1> QED BY <1>3, <1>4, <1>5, <1>6, <1>7, <1>8, <1>9 DEF LiveInv

\* A write of a start raises.
LEMMA StartRaisesStep ==
    ASSUME LiveInv, NEW h \in Handlers, Live!StartRaises(h), UNCHANGED restarts
    PROVE  LiveInv'
<1>1. /\ hpc[h] \in Starts /\ hpc'[h] = "idle"
      /\ \A g \in Handlers : g # h => hpc'[g] = hpc[g]
      /\ flock' = (IF flock = h THEN 0 ELSE flock) /\ run_lock' = 0 /\ faults' = faults + 1
      /\ faults < MaxFaults
      /\ out'[h] = Blank /\ \A w \in Writers : w # h => out'[w] = out[w]
      /\ UNCHANGED <<stop, thread, metrics, wpc, index, served, runs, quiet>>
  BY Apart DEF Live!StartRaises, Live!Free, Live!Idle, Live!worker, Live!Raise, Live!Blank,
     Writers, Blank, Starts, LiveInv, Types
<1>2. /\ hpc' \in [Handlers -> {"idle"} \cup Starts \cup Stops \cup Asks]
      /\ out' \in [Writers -> Contents]
  BY <1>1, Apart, ContentsOf DEF Live!StartRaises, Live!Free, Live!Idle, Live!worker,
     Live!Raise, Live!Blank, Writers, LiveInv, Types, Starts, Stops, Asks, LastRun,
     Progress, Active, Terminal, Blank
<1>3. Types'
  BY <1>1, <1>2, Apart, ContentsOf, BoundsAssumption DEF LiveInv, Types
<1>4. Locks'
  BY <1>1, <1>2, Apart DEF LiveInv, Locks, Starts, Terminal
<1>5. LastRun'
  BY <1>1, <1>2 DEF LiveInv, LastRun, Alive
<1>6. Progress'
  BY <1>1, <1>2 DEF LiveInv, Progress, Types
<1>7. File'
  BY <1>1, <1>2, Apart DEF LiveInv, File, Truthful, Behind, Types
<1>8. Stopping'
  BY <1>1, <1>2 DEF LiveInv, Stopping, Alive, Starts, Stops
<1>9. Resting'
  BY <1>1, <1>2 DEF LiveInv, Resting, Types
<1> QED BY <1>3, <1>4, <1>5, <1>6, <1>7, <1>8, <1>9 DEF LiveInv

\* A stop asks the thread that is alive to stop, or goes on to the file.
LEMMA AskStep ==
    ASSUME LiveInv, NEW h \in Handlers, Live!StopAsk(h), UNCHANGED restarts
    PROVE  LiveInv'
<1>1. /\ hpc[h] = "idle" /\ run_lock = 0
      /\ \A g \in Handlers : g # h => hpc'[g] = hpc[g]
      /\ \/ hpc'[h] = "idle" /\ quiet'[h] = FALSE
         \/ /\ hpc'[h] = "look" /\ quiet'[h] = TRUE
            /\ thread # 0 => ~ Alive(thread)
      /\ \A g \in Handlers : g # h => quiet'[g] = quiet[g]
      /\ UNCHANGED <<run_lock, thread, metrics, flock, out, wpc, index, served, runs, faults>>
  BY Apart DEF Live!StopAsk, Live!Free, Live!Idle, Live!worker, Live!RunIsAlive, Live!Alive,
     Alive, LiveInv, Types
<1>2. /\ hpc' \in [Handlers -> {"idle"} \cup Starts \cup Stops \cup Asks]
      /\ quiet' \in [Handlers -> BOOLEAN]
      /\ stop' \in BOOLEAN
  BY <1>1 DEF Live!StopAsk, Live!Free, Live!Idle, Live!worker, Live!RunIsAlive, Live!Alive,
     Alive, LiveInv, Types, Starts, Stops, Asks, Terminal
<1>3. Types'
  BY <1>1, <1>2 DEF LiveInv, Types
<1>4. Locks'
  BY <1>1, <1>2, Apart DEF LiveInv, Locks, Starts, Terminal
<1>5. LastRun'
  BY <1>1, <1>2 DEF LiveInv, LastRun, Alive
<1>6. Progress'
  BY <1>1, <1>2 DEF LiveInv, Progress
<1>7. File'
  BY <1>1, <1>2 DEF LiveInv, File, Truthful, Behind
<1>8. Stopping'
  BY <1>1, <1>2, Apart DEF LiveInv, Stopping, Alive, Stops, Locks, LastRun, Starts
<1>9. Resting'
  BY <1>1, <1>2 DEF LiveInv, Resting, Alive
<1> QED BY <1>3, <1>4, <1>5, <1>6, <1>7, <1>8, <1>9 DEF LiveInv

\* It looks at the file.
LEMMA LookStep ==
    ASSUME LiveInv, NEW h \in Handlers, Live!StopNotRunning(h) \/ Live!StopLook(h), UNCHANGED restarts
    PROVE  LiveInv'
<1>1. /\ hpc[h] = "look"
      /\ \/ hpc'[h] = "idle" /\ metrics.status \notin Active
         \/ hpc'[h] = "mark" /\ metrics.status \in Active
      /\ \A g \in Handlers : g # h => hpc'[g] = hpc[g]
      /\ UNCHANGED <<run_lock, stop, thread, metrics, flock, out, wpc, index, served, runs, quiet, faults>>
  BY Apart DEF Live!StopNotRunning, Live!StopLook, Live!Idle, Live!shared, Live!worker,
     Live!Go, Live!ClaimsRun, Live!Active, Active, LiveInv, Types
<1>2. hpc' \in [Handlers -> {"idle"} \cup Starts \cup Stops \cup Asks]
  BY <1>1 DEF Live!StopNotRunning, Live!StopLook, Live!Idle, Live!shared, Live!worker,
     Live!Go, Live!ClaimsRun, Live!Active, Active, LiveInv, Types, Starts, Stops, Asks,
     Terminal
<1>3. Types'
  BY <1>1, <1>2 DEF LiveInv, Types
<1>4. Locks'
  BY <1>1, <1>2, Apart DEF LiveInv, Locks, Starts, Terminal
<1>5. LastRun'
  BY <1>1, <1>2 DEF LiveInv, LastRun, Alive
<1>6. Progress'
  BY <1>1, <1>2 DEF LiveInv, Progress
<1>7. File'
  BY <1>1, <1>2 DEF LiveInv, File, Truthful, Behind
<1>8. Stopping'
  BY <1>1, <1>2, Apart, ContentsOf DEF LiveInv, Stopping, Alive, Stops, Active
<1>9. Resting'
  BY <1>1, <1>2 DEF LiveInv, Resting, Alive
<1> QED BY <1>3, <1>4, <1>5, <1>6, <1>7, <1>8, <1>9 DEF LiveInv

\* It marks the run stopped, whatever the file says by then.
LEMMA MarkStep ==
    ASSUME LiveInv, NEW h \in Handlers, Live!StopMark(h), UNCHANGED restarts
    PROVE  LiveInv'
<1>1. /\ hpc[h] = "mark" /\ hpc'[h] = "marked"
      /\ \A g \in Handlers : g # h => hpc'[g] = hpc[g]
      /\ metrics' = Blank /\ flock = 0 /\ flock' = h
      /\ out'[h] = [metrics EXCEPT !.status = "stopped"] /\ \A w \in Writers : w # h => out'[w] = out[w]
      /\ UNCHANGED <<run_lock, stop, thread, wpc, index, served, runs, quiet, faults>>
  BY Apart DEF Live!StopMark, Live!worker, Live!Lock, Live!Go, Live!MarkedStopped,
     Live!Free, Live!Blank, Writers, Blank, LiveInv, Types
<1>2. /\ hpc' \in [Handlers -> {"idle"} \cup Starts \cup Stops \cup Asks]
      /\ out' \in [Writers -> Contents]
      /\ out'[h].status = "stopped" /\ out'[h].run = metrics.run /\ out'[h].served = metrics.served
  BY <1>1 DEF Live!StopMark, Live!worker, Live!Lock, Live!Go, Live!MarkedStopped, Live!Free,
     Live!Blank, Writers, Blank, LiveInv, Types, Starts, Stops, Asks, Terminal, Contents
<1>3. Types'
  BY <1>1, <1>2, Apart, ContentsOf DEF LiveInv, Types
<1>4. Locks'
  BY <1>1, <1>2, Apart DEF LiveInv, Locks, Starts, Terminal
<1>5. LastRun'
  BY <1>1, <1>2 DEF LiveInv, LastRun, Alive
<1>6. Progress'
  BY <1>1, <1>2 DEF LiveInv, Progress
<1>7. File'
  <2>1. Truthful(metrics)' /\ Truthful(out[h])'
    BY <1>1, <1>2, ContentsOf, Apart DEF LiveInv, File, Truthful, Behind, Types
  <2>2. Truthful(out[flock])'
    BY <1>1, <2>1
  <2>3. \A g \in Handlers : hpc'[g] = "announced" => FALSE
    BY <1>1, Apart DEF LiveInv, Locks
  <2>4. \A g \in Handlers : hpc'[g] = "marked" => g = h
    BY <1>1, Apart DEF LiveInv, Locks
  <2>5. \A k \in Runs : flock' # k
    BY <1>1, Apart
  <2> QED BY <1>2, <2>1, <2>2, <2>3, <2>4, <2>5 DEF File
<1>8. Stopping'
  BY <1>1, <1>2, Apart, ContentsOf DEF LiveInv, Stopping, Alive, Stops, Active
<1>9. Resting'
  BY <1>1, <1>2 DEF LiveInv, Resting
<1> QED BY <1>3, <1>4, <1>5, <1>6, <1>7, <1>8, <1>9 DEF LiveInv

\* The mark is in the file.
LEMMA MarkedStep ==
    ASSUME LiveInv, NEW h \in Handlers, Live!StopMarked(h), UNCHANGED restarts
    PROVE  LiveInv'
<1>1. /\ hpc[h] = "marked" /\ hpc'[h] = "idle"
      /\ \A g \in Handlers : g # h => hpc'[g] = hpc[g]
      /\ metrics' = out[h] /\ flock = h /\ flock' = 0
      /\ out'[h] = Blank /\ \A w \in Writers : w # h => out'[w] = out[w]
      /\ UNCHANGED <<run_lock, stop, thread, wpc, index, served, runs, quiet, faults>>
  BY Apart DEF Live!StopMarked, Live!Idle, Live!worker, Live!Flush, Live!Go, Live!Free,
     Live!Blank, Writers, Blank, LiveInv, Types
<1>2. /\ hpc' \in [Handlers -> {"idle"} \cup Starts \cup Stops \cup Asks]
      /\ out' \in [Writers -> Contents]
  BY <1>1, Apart, ContentsOf DEF Live!StopMarked, Live!Idle, Live!worker, Live!Flush,
     Live!Go, Live!Free, Live!Blank, Writers, LiveInv, Types, Starts, Stops, Asks, LastRun,
     Progress, Active, Terminal, Blank
<1>3. Types'
  BY <1>1, <1>2, Apart DEF LiveInv, Types
<1>4. Locks'
  BY <1>1, <1>2, Apart DEF LiveInv, Locks, Starts, Terminal
<1>5. LastRun'
  BY <1>1, <1>2 DEF LiveInv, LastRun, Alive
<1>6. Progress'
  BY <1>1, <1>2 DEF LiveInv, Progress
<1>7. File'
  BY <1>1, <1>2, Apart DEF LiveInv, File, Truthful, Behind, Types
<1>8. Stopping'
  <2>1. metrics'.status = "stopped"
    BY <1>1 DEF LiveInv, File
  <2> QED BY <1>1, <2>1 DEF LiveInv, Stopping, Alive, Active
<1>9. Resting'
  BY <1>1, <1>2, Apart DEF LiveInv, Resting, Alive, File, Locks, Terminal
<1> QED BY <1>3, <1>4, <1>5, <1>6, <1>7, <1>8, <1>9 DEF LiveInv

\* A write of a stop raises.
LEMMA StopRaisesStep ==
    ASSUME LiveInv, NEW h \in Handlers, Live!StopRaises(h), UNCHANGED restarts
    PROVE  LiveInv'
<1>1. /\ hpc[h] \in {"mark", "marked"} /\ hpc'[h] = "idle"
      /\ \A g \in Handlers : g # h => hpc'[g] = hpc[g]
      /\ flock' = (IF flock = h THEN 0 ELSE flock) /\ faults' = faults + 1 /\ faults < MaxFaults
      /\ out'[h] = Blank /\ \A w \in Writers : w # h => out'[w] = out[w]
      /\ quiet'[h] = FALSE /\ \A g \in Handlers : g # h => quiet'[g] = quiet[g]
      /\ UNCHANGED <<run_lock, stop, thread, metrics, wpc, index, served, runs>>
  BY Apart DEF Live!StopRaises, Live!Idle, Live!worker, Live!Raise, Live!Free, Live!Blank,
     Writers, Blank, LiveInv, Types
<1>2. /\ hpc' \in [Handlers -> {"idle"} \cup Starts \cup Stops \cup Asks]
      /\ out' \in [Writers -> Contents]
      /\ quiet' \in [Handlers -> BOOLEAN]
  BY <1>1, Apart, ContentsOf DEF Live!StopRaises, Live!Idle, Live!worker, Live!Raise,
     Live!Free, Live!Blank, Writers, LiveInv, Types, Starts, Stops, Asks, LastRun, Progress,
     Active, Terminal, Blank
<1>3. Types'
  BY <1>1, <1>2, Apart, ContentsOf, BoundsAssumption DEF LiveInv, Types
<1>4. Locks'
  BY <1>1, <1>2, Apart DEF LiveInv, Locks, Starts, Terminal
<1>5. LastRun'
  BY <1>1, <1>2 DEF LiveInv, LastRun, Alive
<1>6. Progress'
  BY <1>1, <1>2 DEF LiveInv, Progress, Types
<1>7. File'
  BY <1>1, <1>2, Apart DEF LiveInv, File, Truthful, Behind, Types
<1>8. Stopping'
  BY <1>1, <1>2 DEF LiveInv, Stopping, Alive, Stops
<1>9. Resting'
  BY <1>1, <1>2 DEF LiveInv, Resting, Types
<1> QED BY <1>3, <1>4, <1>5, <1>6, <1>7, <1>8, <1>9 DEF LiveInv

\* A run takes the flock to write what it has served.
LEMMA LockStep ==
    ASSUME LiveInv, NEW k \in Runs, Live!WorkerAnnounce(k) \/ Live!WorkerAppend(k) \/ Live!WorkerLast(k),
           UNCHANGED restarts
    PROVE  LiveInv'
<1>1. /\ metrics' = Blank /\ flock = 0 /\ flock' = k
      /\ \E s \in Active \cup Terminal :
           /\ out' = [out EXCEPT ![k] = [status |-> s, run |-> k,
                                          served |-> IF wpc[k] = "begin" THEN 0 ELSE served[k]]]
           /\ wpc[k] \in Terminal => s = wpc[k]
           /\ wpc[k] \in {"begin", "append"} => s \in Active
      /\ wpc[k] \in {"begin", "append"} \cup Terminal
      /\ UNCHANGED <<hpc, run_lock, stop, thread, wpc, index, served, runs, quiet, faults>>
  BY Apart DEF Live!WorkerAnnounce, Live!WorkerAppend, Live!WorkerLast, Live!Metrics,
     Live!LockFor, Live!Terminal, Live!LastPayload, Live!worker, Live!Lock, Live!Free,
     Live!Blank, Blank, Active, Terminal, LiveInv, Types
<1>2. /\ out' \in [Writers -> Contents]
      /\ out'[k].run = k /\ out'[k].served = served[k]
      /\ wpc[k] \in Terminal => out'[k].status = wpc[k]
      /\ wpc[k] \notin Terminal => out'[k].status \in Active
      /\ \A w \in Writers : w # k => out'[w] = out[w]
  BY <1>1, Apart, ContentsOf DEF Live!WorkerAnnounce, Live!WorkerAppend, Live!WorkerLast,
     Live!Metrics, Live!LockFor, Live!Terminal, Live!LastPayload, Live!worker, Live!Lock,
     Live!Free, Live!Blank, LiveInv, Types, Starts, Stops, Asks, LastRun, Progress, Active,
     Terminal, Blank
<1>3. Types'
  BY <1>1, <1>2, Apart, ContentsOf DEF LiveInv, Types
<1>4. Locks'
  BY <1>1, <1>2, Apart DEF LiveInv, Locks
<1>5. LastRun'
  BY <1>1, <1>2 DEF LiveInv, LastRun, Alive
<1>6. Progress'
  BY <1>1, <1>2 DEF LiveInv, Progress
<1>7. File'
  <2>1. \A h \in Handlers : hpc'[h] \notin {"announced", "marked"}
    BY <1>1, Apart DEF LiveInv, Locks
  <2>2. k = runs /\ k # 0
    BY <1>1, Apart DEF LiveInv, LastRun, Alive, Terminal
  <2>3. Truthful(metrics)'
    BY <1>1, Apart, ContentsOf DEF Truthful
  <2>4. out'[k].status = "completed" => out'[k].served = TraceLen
    BY <1>1, <1>2 DEF LiveInv, Progress, Active, Terminal
  <2>5. Truthful(out[k])'
    <3>1. served[k] - served[k] = 0
      BY DEF LiveInv, Types
    <3> QED BY <1>1, <1>2, <2>2, <2>4, <3>1, Apart DEF Truthful
  <2> QED BY <1>1, <1>2, <2>1, <2>3, <2>5 DEF File
<1>8. Stopping'
  BY <1>1, <1>2, Apart, ContentsOf DEF LiveInv, Stopping, Alive, Stops, Active
<1>9. Resting'
  BY <1>1, <1>2, Apart DEF LiveInv, Resting, Alive, File, Locks, Terminal
<1> QED BY <1>3, <1>4, <1>5, <1>6, <1>7, <1>8, <1>9 DEF LiveInv

\* It submits what is due and serves the head.
LEMMA ServeStep ==
    ASSUME LiveInv, NEW k \in Runs, Live!WorkerServe(k), UNCHANGED restarts
    PROVE  LiveInv'
<1>1. /\ wpc[k] = "loop" /\ wpc'[k] = "serving"
      /\ \A j \in Runs : j # k => wpc'[j] = wpc[j]
      /\ index'[k] > served[k] /\ index'[k] >= index[k]
      /\ \A j \in Runs : j # k => index'[j] = index[j]
      /\ UNCHANGED <<hpc, run_lock, stop, thread, metrics, flock, out, served, runs, quiet, faults>>
  BY Apart DEF Live!WorkerServe, Live!shared, Live!At, Live!Submissions, Runs, LiveInv,
     Types
<1>2. /\ wpc' \in [Runs -> RunPlaces]
      /\ index' \in [Runs -> 0 .. TraceLen]
  <2>1. wpc \in [Runs -> RunPlaces] /\ index \in [Runs -> 0 .. TraceLen]
    BY DEF LiveInv, Types
  <2>2. wpc' = [wpc EXCEPT ![k] = "serving"]
    BY DEF Live!WorkerServe, Live!At
  <2>3. PICK n \in index[k] .. TraceLen : index' = [index EXCEPT ![k] = n]
    BY DEF Live!WorkerServe, Live!Submissions
  <2>4. n \in 0 .. TraceLen
    BY <2>1, <2>3, Apart
  <2> QED BY <2>1, <2>2, <2>3, <2>4 DEF RunPlaces
<1>3. Types'
  BY <1>1, <1>2 DEF LiveInv, Types
<1>4. Locks'
  BY <1>1, <1>2, Apart DEF LiveInv, Locks, Starts, Terminal
<1>5. LastRun'
  BY <1>1, <1>2 DEF LiveInv, LastRun, Alive
<1>6. Progress'
  BY <1>1, <1>2 DEF LiveInv, Progress, Types
<1>7. File'
  BY <1>1, <1>2, Apart, ContentsOf DEF LiveInv, File, Truthful, Behind, Types, Locks,
     Progress, Terminal
<1>8. Stopping'
  BY <1>1, <1>2 DEF LiveInv, Stopping, Alive, Stops
<1>9. Resting'
  BY <1>1, <1>2 DEF LiveInv, Resting, Alive
<1> QED BY <1>3, <1>4, <1>5, <1>6, <1>7, <1>8, <1>9 DEF LiveInv

\* The head is served.
LEMMA ServedStep ==
    ASSUME LiveInv, NEW k \in Runs, Live!WorkerServed(k), UNCHANGED restarts
    PROVE  LiveInv'
<1>1. /\ wpc[k] = "serving" /\ wpc'[k] = "append"
      /\ \A j \in Runs : j # k => wpc'[j] = wpc[j]
      /\ served'[k] = served[k] + 1
      /\ \A j \in Runs : j # k => served'[j] = served[j]
      /\ UNCHANGED <<hpc, run_lock, stop, thread, metrics, flock, out, index, runs, quiet, faults>>
  BY Apart DEF Live!WorkerServed, Live!shared, Live!At, Runs, LiveInv, Types
<1>2. /\ wpc' \in [Runs -> RunPlaces]
      /\ served' \in [Runs -> 0 .. TraceLen]
  <2>1. /\ wpc \in [Runs -> RunPlaces] /\ served \in [Runs -> 0 .. TraceLen]
        /\ index \in [Runs -> 0 .. TraceLen] /\ TraceLen \in Nat
    BY Apart DEF LiveInv, Types
  <2>2. /\ wpc' = [wpc EXCEPT ![k] = "append"] /\ served' = [served EXCEPT ![k] = @ + 1]
    BY DEF Live!WorkerServed, Live!At
  <2>3. served[k] < index[k]
    BY <1>1 DEF LiveInv, Progress
  <2>4. served[k] + 1 \in 0 .. TraceLen
    BY <2>1, <2>3
  <2> QED BY <2>1, <2>2, <2>4 DEF RunPlaces
<1>3. Types'
  BY <1>1, <1>2 DEF LiveInv, Types
<1>4. Locks'
  BY <1>1, <1>2 DEF LiveInv, Locks
<1>5. LastRun'
  BY <1>1, <1>2 DEF LiveInv, LastRun, Alive
<1>6. Progress'
  BY <1>1, <1>2 DEF LiveInv, Progress, Types
<1>7. File'
  BY <1>1, <1>2, Apart, ContentsOf DEF LiveInv, File, Truthful, Behind, Types, Locks,
     Progress, Terminal
<1>8. Stopping'
  BY <1>1, <1>2 DEF LiveInv, Stopping, Alive, Stops
<1>9. Resting'
  BY <1>1, <1>2 DEF LiveInv, Resting, Alive
<1> QED BY <1>3, <1>4, <1>5, <1>6, <1>7, <1>8, <1>9 DEF LiveInv

\* The loop ends.
LEMMA EndStep ==
    ASSUME LiveInv, NEW k \in Runs, Live!WorkerEnd(k), UNCHANGED restarts
    PROVE  LiveInv'
<1>1. /\ wpc[k] = "loop" /\ wpc'[k] \in {"stopped", "completed"}
      /\ wpc'[k] = "completed" => served[k] = TraceLen
      /\ \A j \in Runs : j # k => wpc'[j] = wpc[j]
      /\ UNCHANGED <<hpc, run_lock, stop, thread, metrics, flock, out, index, served, runs, quiet, faults>>
  BY Apart DEF Live!WorkerEnd, Live!shared, Live!LoopEnds, Runs, LiveInv, Types
<1>2. wpc' \in [Runs -> RunPlaces]
  <2>1. wpc \in [Runs -> RunPlaces]
    BY DEF LiveInv, Types
  <2>2. \E l \in {"stopped", "completed"} : wpc' = [wpc EXCEPT ![k] = l]
    BY DEF Live!WorkerEnd
  <2> QED BY <2>1, <2>2 DEF RunPlaces, Terminal
<1>3. Types'
  BY <1>1, <1>2 DEF LiveInv, Types
<1>4. Locks'
  BY <1>1, <1>2 DEF LiveInv, Locks, Terminal
<1>5. LastRun'
  BY <1>1, <1>2 DEF LiveInv, LastRun, Alive
<1>6. Progress'
  BY <1>1, <1>2 DEF LiveInv, Progress
<1>7. File'
  BY <1>1, <1>2, Apart, ContentsOf DEF LiveInv, File, Truthful, Behind, Types, Locks,
     Progress, Terminal
<1>8. Stopping'
  BY <1>1, <1>2 DEF LiveInv, Stopping, Alive, Stops
<1>9. Resting'
  BY <1>1, <1>2 DEF LiveInv, Resting, Alive
<1> QED BY <1>3, <1>4, <1>5, <1>6, <1>7, <1>8, <1>9 DEF LiveInv

\* What it wrote is in the file.
LEMMA FlushStep ==
    ASSUME LiveInv, NEW k \in Runs, Live!WorkerFlush(k), UNCHANGED restarts
    PROVE  LiveInv'
<1>1. /\ metrics' = out[k] /\ flock = k /\ flock' = 0
      /\ wpc'[k] = IF wpc[k] \in Terminal THEN "dead" ELSE "loop"
      /\ \A j \in Runs : j # k => wpc'[j] = wpc[j]
      /\ out'[k] = Blank /\ \A w \in Writers : w # k => out'[w] = out[w]
      /\ UNCHANGED <<hpc, run_lock, stop, thread, index, served, runs, quiet, faults>>
  BY Apart DEF Live!WorkerFlush, Live!Flush, Live!AfterFlush, Live!Free, Live!Blank,
     Live!Terminal, Runs, Writers, Blank, Terminal, LiveInv, Types
<1>2. /\ wpc' \in [Runs -> RunPlaces]
      /\ out' \in [Writers -> Contents]
  <2>1. wpc \in [Runs -> RunPlaces] /\ out \in [Writers -> Contents] /\ Blank \in Contents
    BY ContentsOf DEF LiveInv, Types
  <2>2. /\ \E l \in {"dead", "loop"} : wpc' = [wpc EXCEPT ![k] = l]
        /\ out' = [out EXCEPT ![k] = Blank]
    BY DEF Live!WorkerFlush, Live!AfterFlush, Live!Flush, Live!Blank, Blank
  <2> QED BY <2>1, <2>2 DEF RunPlaces
<1>3. Types'
  BY <1>1, <1>2, Apart DEF LiveInv, Types
<1>4. Locks'
  BY <1>1, <1>2, Apart DEF LiveInv, Locks
<1>5. LastRun'
  <2>1. Alive(k)
    BY <1>1, Apart DEF LiveInv, Locks, Alive, Terminal
  <2>2. k = thread /\ k = runs /\ run_lock = 0
    BY <2>1 DEF LiveInv, LastRun
  <2>3. \A j \in Runs : j > runs => wpc'[j] = "unborn"
    BY <1>1, <2>2, Apart DEF LiveInv, LastRun
  <2>4. \A j \in Runs : Alive(j)' => j = k
    BY <1>1, <2>2 DEF LiveInv, LastRun, Alive
  <2>5. \A h \in Handlers : hpc'[h] \notin Starts
    BY <1>1, <2>2, Apart DEF LiveInv, Locks
  <2> QED BY <1>1, <2>2, <2>3, <2>4, <2>5 DEF LastRun, Starts
<1>6. Progress'
  BY <1>1, <1>2 DEF LiveInv, Progress
<1>7. File'
  BY <1>1, <1>2, Apart DEF LiveInv, File, Truthful, Behind, Types
<1>8. Stopping'
  BY <1>1, <1>2, Apart, ContentsOf DEF LiveInv, Stopping, Types, Locks, LastRun, File,
     Truthful, Alive, Stops, Starts, Active, Terminal
<1>9. Resting'
  BY <1>1, <1>2, Apart DEF LiveInv, Resting, Alive, File, Locks, Terminal
<1> QED BY <1>3, <1>4, <1>5, <1>6, <1>7, <1>8, <1>9 DEF LiveInv

\* A write of a run raises.
LEMMA WorkerRaisesStep ==
    ASSUME LiveInv, NEW k \in Runs, Live!WorkerRaises(k), UNCHANGED restarts
    PROVE  LiveInv'
<1>1. /\ flock' = (IF flock = k THEN 0 ELSE flock) /\ faults' = faults + 1 /\ faults < MaxFaults
      /\ \/ wpc[k] \in {"begin", "failed"} /\ wpc'[k] = "dead"
         \/ wpc[k] \in {"serving", "append", "stopped", "completed"} /\ wpc'[k] = "failed"
      /\ \A j \in Runs : j # k => wpc'[j] = wpc[j]
      /\ out'[k] = Blank /\ \A w \in Writers : w # k => out'[w] = out[w]
      /\ UNCHANGED <<hpc, run_lock, stop, thread, metrics, index, served, runs, quiet>>
  BY Apart DEF Live!WorkerRaises, Live!Raise, Live!Free, Live!Blank, Runs, Writers, Blank,
     LiveInv, Types
<1>2. /\ wpc' \in [Runs -> RunPlaces]
      /\ out' \in [Writers -> Contents]
  <2>1. wpc \in [Runs -> RunPlaces] /\ out \in [Writers -> Contents] /\ Blank \in Contents
    BY ContentsOf DEF LiveInv, Types
  <2>2. /\ \E l \in {"dead", "failed"} : wpc' = [wpc EXCEPT ![k] = l]
        /\ out' = [out EXCEPT ![k] = Blank]
    BY DEF Live!WorkerRaises, Live!Raise, Live!Blank, Blank
  <2> QED BY <2>1, <2>2 DEF RunPlaces, Terminal
<1>3. Types'
  BY <1>1, <1>2, Apart, ContentsOf, BoundsAssumption DEF LiveInv, Types
<1>4. Locks'
  BY <1>1, <1>2, Apart DEF LiveInv, Locks
<1>5. LastRun'
  BY <1>1, <1>2 DEF LiveInv, LastRun, Alive
<1>6. Progress'
  BY <1>1, <1>2 DEF LiveInv, Progress, Types
<1>7. File'
  BY <1>1, <1>2, Apart, ContentsOf DEF LiveInv, File, Truthful, Behind, Types, Locks,
     Progress, Terminal
<1>8. Stopping'
  BY <1>1, <1>2 DEF LiveInv, Stopping, Alive, Stops
<1>9. Resting'
  BY <1>1, <1>2 DEF LiveInv, Resting, Types
<1> QED BY <1>3, <1>4, <1>5, <1>6, <1>7, <1>8, <1>9 DEF LiveInv

\* The server dies and starts again: nobody writes, and no run is alive.
LEMMA RestartStep ==
    ASSUME LiveInv, Restart
    PROVE  LiveInv'
<1>1. /\ \A h \in Handlers : hpc'[h] = "idle"
      /\ hpc' \in [Handlers -> {"idle"} \cup Starts \cup Stops \cup Asks]
      /\ run_lock' = 0 /\ flock' = 0 /\ stop' = FALSE /\ thread' = 0
      /\ restarts' = restarts + 1 /\ restarts' \in 0 .. MaxRestarts
      /\ quiet' = [h \in Handlers |-> quiet[h] /\ hpc[h] \notin Stops]
      /\ UNCHANGED <<metrics, index, served, runs, faults>>
  BY BoundsAssumption DEF Restart, Live!Restart, Live!Stopping, Live!Idle, Live!Free, Stops, LiveInv,
     Types
<1>2. out' \in [Writers -> Contents]
  BY ContentsOf DEF Restart, Live!Restart, Live!Blank, Live!Writers, Live!Runs, Blank, Writers, Runs
<1>3. /\ \A k \in Runs : wpc'[k] = IF Alive(k) THEN "dead" ELSE wpc[k]
      /\ wpc' \in [Runs -> RunPlaces]
  BY DEF Restart, Live!Restart, Live!Alive, Live!Runs, Runs, Alive, LiveInv, Types, RunPlaces
<1>4. Types'
  <2>1. 0 \in 0 .. MaxRuns /\ FALSE \in BOOLEAN
    BY Apart
  <2> QED BY <1>1, <1>2, <1>3, <2>1 DEF LiveInv, Types
<1>5. Locks'
  BY <1>1, <1>3, Apart DEF Locks, Starts
<1>6. LastRun'
  BY <1>1, <1>3, Apart DEF LiveInv, LastRun, Alive
<1>7. Progress'
  BY <1>1, <1>3 DEF LiveInv, Progress, Alive
<1>8. File'
  <2>1. Truthful(metrics)'
    BY <1>1, <1>3, Apart DEF LiveInv, Types, File, Truthful, Behind, Alive
  <2> QED BY <1>1, <2>1, Apart DEF File
<1>9. Stopping'
  BY <1>1, <1>3 DEF LiveInv, Stopping, Stops, Alive
<1>10. Resting'
  BY <1>1 DEF LiveInv, Types, Resting
<1> QED BY <1>4, <1>5, <1>6, <1>7, <1>8, <1>9, <1>10 DEF LiveInv

\* The request threads of the experiments.
LEMMA AskingStep ==
    ASSUME LiveInv, UNCHANGED <<live, restarts>>,
           \/ UNCHANGED hpc
           \/ \E h \in Handlers, l \in {"idle"} \cup Asks :
                hpc[h] \in {"idle"} \cup Asks /\ hpc' = [hpc EXCEPT ![h] = l]
    PROVE  LiveInv'
<1>1. /\ UNCHANGED <<run_lock, stop, thread, metrics, flock, out, wpc, index, served, runs, quiet, faults>>
      /\ hpc' \in [Handlers -> {"idle"} \cup Starts \cup Stops \cup Asks]
      /\ \A h \in Handlers : \/ hpc'[h] = hpc[h]
                             \/ hpc[h] \in {"idle"} \cup Asks /\ hpc'[h] \in {"idle"} \cup Asks
  BY DEF LiveInv, Types, live
<1>2. \A h \in Handlers :
        /\ \A l \in Starts \cup Stops : hpc'[h] = l <=> hpc[h] = l
        /\ hpc'[h] \in Starts <=> hpc[h] \in Starts
        /\ hpc'[h] \in Stops <=> hpc[h] \in Stops
  BY <1>1 DEF Starts, Stops, Asks
<1>3. Types'
  BY <1>1 DEF LiveInv, Types
<1>4. Locks'
  BY <1>1, <1>2 DEF LiveInv, Locks, Starts, Stops
<1>5. LastRun'
  BY <1>1, <1>2 DEF LiveInv, LastRun, Alive, Starts
<1>6. Progress'
  BY <1>1 DEF LiveInv, Progress
<1>7. File'
  BY <1>1, <1>2 DEF LiveInv, File, Truthful, Behind, Starts, Stops
<1>8. Stopping'
  BY <1>1, <1>2 DEF LiveInv, Stopping, Alive, Starts, Stops
<1>9. Resting'
  BY <1>1, <1>2 DEF LiveInv, Resting, Alive, Stops
<1> QED BY <1>3, <1>4, <1>5, <1>6, <1>7, <1>8, <1>9 DEF LiveInv

\* Every step of the server keeps the invariant of the live run.
LEMMA NextLive == ASSUME LiveInv, [Next]_vars PROVE LiveInv'
<1>1. CASE Live!Step /\ UNCHANGED restarts
  <2>1. ASSUME NEW h \in Handlers, Live!HandlerCalls(h) \/ Live!HandlerWorks(h)
                                   \/ Live!StartRaises(h) \/ Live!StopRaises(h)
        PROVE  LiveInv'
    <3>1. CASE Live!StartRefused(h)
      <4>1. UNCHANGED <<hpc, live, restarts>>
        BY <1>1, <3>1 DEF Live!StartRefused, Live!vars, Live!shared, Live!worker, live
      <4> QED BY <4>1, AskingStep
    <3> QED BY <1>1, <2>1, <3>1, BeginStep, ClearStep, AnnounceStep, SpawnStep, StartRaisesStep, AskStep,
               LookStep, MarkStep, MarkedStep, StopRaisesStep DEF Live!HandlerCalls, Live!HandlerWorks
  <2>2. ASSUME NEW k \in Runs, Live!WorkerWorks(k) \/ Live!WorkerRaises(k) PROVE LiveInv'
    BY <1>1, <2>2, LockStep, ServeStep, ServedStep, EndStep, FlushStep, WorkerRaisesStep
       DEF Live!WorkerWorks
  <2> QED BY <1>1, <2>1, <2>2 DEF Live!Step, Live!Faults, Live!Runs, Runs
<1>2. CASE Experiments!Step /\ UNCHANGED <<live, restarts>>
  <2>1. \/ UNCHANGED hpc
        \/ \E h \in Handlers, l \in {"idle"} \cup Asks :
             hpc[h] \in {"idle"} \cup Asks /\ hpc' = [hpc EXCEPT ![h] = l]
    BY <1>2 DEF Experiments!Step, Experiments!Background, Experiments!StartExperiments,
                Experiments!AskResults, Experiments!AnswerFromCache, Experiments!CacheMiss,
                Experiments!AnswerFromState, Experiments!Progress, Experiments!OpenCache,
                Experiments!WriteCache, Experiments!Publish, Experiments!Exit, Experiments!Fail,
                Experiments!Answered, Experiments!Idle, Asks
  <2> QED BY <1>2, <2>1, AskingStep
<1>3. CASE UNCHANGED vars
  BY <1>3, AskingStep DEF vars
<1> QED BY <1>1, <1>2, <1>3, RestartStep DEF Next

-----------------------------------------------------------------------------
(* The experiments.                                                        *)

\* No experiment was started.
LEMMA InitExperiments == Init => ExperimentInv
BY DEF Init, Experiments!Init, Experiments!State, Experiments!Absent, ExperimentInv

\* Every step of the server keeps the invariant of the experiments.
LEMMA NextExperiments == ASSUME ExperimentInv, [Next]_vars PROVE ExperimentInv'
<1> USE DEF ExperimentInv, Complete, Experiments!State, Experiments!Goes
<1>1. ASSUME NEW h \in Handlers, Experiments!StartExperiments(h) PROVE ExperimentInv'
  <2>1. /\ experiments' = experiments + 1 /\ UNCHANGED <<called, answered>>
        /\ state'.status = "computing" /\ epc' = "combination"
    BY <1>1 DEF Experiments!StartExperiments
  <2>2. CASE cache'.status = "absent" /\ cleared' = experiments + 1
    BY <2>1, <2>2
  <2>3. CASE UNCHANGED <<cache, cleared>>
    BY <2>1, <2>3
  <2> QED BY <1>1, <2>2, <2>3
          DEF Experiments!StartExperiments, Experiments!RemoveCache, Experiments!ClearedCache,
              Experiments!Absent
<1>2. ASSUME NEW h \in Handlers, Experiments!AskResults(h) PROVE ExperimentInv'
  BY <1>2 DEF Experiments!AskResults
<1>3. ASSUME NEW h \in Handlers, \/ Experiments!AnswerFromCache(h) \/ Experiments!CacheMiss(h)
                                 \/ Experiments!AnswerFromState(h)
      PROVE  ExperimentInv'
  <2>1. /\ UNCHANGED <<experiments, cleared, cache, state, epc>>
        /\ called' \in [Handlers -> Nat] /\ \A g \in Handlers : called'[g] \in {called[g], 0}
        /\ \/ answered' = answered
           \/ cache.status = "complete" /\ answered' = cache.of
           \/ state.status = "complete" /\ answered' = state.of
    BY <1>3 DEF Experiments!AnswerFromCache, Experiments!CacheMiss, Experiments!AnswerFromState,
       Experiments!Answered
  <2>2. \A g \in Handlers : called'[g] <= experiments
    BY <2>1
  <2>3. /\ answered' \in Nat /\ answered' <= experiments
        /\ answered' = experiments /\ experiments > 0 => cache = Complete
    BY <2>1
  <2>4. epc \in {"combination", "report", "dump"} => answered' < experiments
    BY <2>1
  <2> QED BY <2>1, <2>2, <2>3, <2>4
<1>4. CASE Experiments!Progress
  BY <1>4 DEF Experiments!Progress, Experiments!ProgressState
<1>5. CASE Experiments!OpenCache
  BY <1>5 DEF Experiments!OpenCache, Experiments!Torn
<1>6. CASE Experiments!WriteCache
  BY <1>6 DEF Experiments!WriteCache
<1>7. CASE Experiments!Publish
  BY <1>7 DEF Experiments!Publish
<1>8. CASE Experiments!Fail
  BY <1>8 DEF Experiments!Fail, Experiments!FailedState
<1>9. CASE Experiments!Exit
  BY <1>9 DEF Experiments!Exit
<1>10. CASE Restart
  BY <1>10 DEF Restart, Experiments!Restart
<1>11. CASE UNCHANGED experiment
  BY <1>11 DEF experiment
<1> QED BY <1>1, <1>2, <1>3, <1>4, <1>5, <1>6, <1>7, <1>8, <1>9, <1>10, <1>11
        DEF Next, vars, Experiments!Step, Experiments!Background

-----------------------------------------------------------------------------
(* The theorems.                                                           *)

\* Both invariants hold.
THEOREM Invariance == Spec => [](LiveInv /\ ExperimentInv)
<1>1. Init => LiveInv /\ ExperimentInv
  BY InitLive, InitExperiments
<1>2. (LiveInv /\ ExperimentInv) /\ [Next]_vars => (LiveInv /\ ExperimentInv)'
  BY NextLive, NextExperiments
<1> QED BY <1>1, <1>2, PTL DEF Spec

\* Whatever starts, stops, failed writes and restarts of the server there are, at most one
\* run's thread is alive, it is that of the last run, and the file speaks of no other.
THEOREM RunsNeverOverlap == Spec => []OneRunAtATime
<1>1. LiveInv => OneRunAtATime
  <2> SUFFICES ASSUME LiveInv PROVE OneRunAtATime
    OBVIOUS
  <2>1. Live!TypeOK
    <3>1. hpc \in [Handlers -> Live!HandlerPlaces]
      <4>1. Live!HandlerPlaces = {"idle"} \cup Starts \cup Stops \cup Asks
        BY DEF Live!HandlerPlaces, Live!Idle, Starts, Stops, Asks
      <4> QED BY <4>1 DEF LiveInv, Types
    <3>2. /\ metrics.status \in Active \cup Terminal \cup {"blank"}
          /\ metrics.run \in 0 .. MaxRuns /\ metrics.served \in 0 .. TraceLen
      BY ContentsOf DEF LiveInv, Types
    <3>3. \A k \in Runs : served[k] <= index[k] /\ index[k] <= TraceLen
      BY Apart DEF LiveInv, Types, Progress
    <3> QED BY <3>1, <3>2, <3>3 
           DEF Live!TypeOK, LiveInv, Types, Runs, Writers, Active, Terminal,
               Live!Runs, Live!Writers, Live!Free, Live!Active, Live!Terminal
  <2>2. \A j, k \in Runs : Alive(j) /\ Alive(k) => j = k
    BY DEF LiveInv, LastRun
  <2>3. \A k \in Runs : k < runs => ~ Alive(k)
    BY Apart DEF LiveInv, LastRun, Types
  <2>4. metrics.run \in {0, runs}
    BY DEF LiveInv, File, Truthful
  <2>5. Live!OneRunAtATime
    <3>1. Live!Runs = Runs /\ \A k \in Runs : Live!Alive(k) <=> Alive(k)
      BY DEF Runs, Alive, Live!Runs, Live!Alive
    <3> QED BY <2>2, <2>3, <2>4, <3>1 DEF Live!OneRunAtATime
  <2> QED BY <2>1, <2>5 DEF OneRunAtATime
<1> QED BY <1>1, Invariance, PTL

\* "completed" is said of whole traces only, and at rest the file claims no live run (unless
\* a write raised or the server died).
THEOREM OutcomeIsTrue == Spec => []OutcomeIsTold
<1>1. LiveInv => OutcomeIsTold
  <2> SUFFICES ASSUME LiveInv PROVE OutcomeIsTold
    OBVIOUS
  <2>1. Live!CompletedIsComplete
    BY DEF LiveInv, File, Truthful, Live!CompletedIsComplete
  <2>2. ASSUME Live!Settled, faults = 0, restarts = 0, runs > 0 PROVE metrics.status \in Terminal
    <3>1. \A h \in Handlers : hpc[h] = "idle"
      BY <2>2 DEF Live!Settled, Live!Idle
    <3>2. run_lock = 0
      BY <3>1 DEF LiveInv, Types, Locks, Starts
    <3>3. \A k \in Runs : ~ Alive(k)
      <4>1. thread # 0 => ~ Alive(thread)
        BY <2>2 DEF Live!Settled, Live!RunIsAlive, Live!Alive, Alive
      <4> QED BY <4>1, Apart DEF LiveInv, LastRun
    <3> QED BY <2>2, <3>1, <3>2, <3>3 DEF LiveInv, Resting
  <2> QED BY <2>1, <2>2 DEF OutcomeIsTold, Live!RestIsTerminal, Live!Terminal, Terminal
<1> QED BY <1>1, Invariance, PTL

\* The file is at most one request behind the run, and complete at its end (unless the
\* server died or two writes raised).
THEOREM NoResultIsLost == Spec => []ResultsReachFile
<1>1. LiveInv => ResultsReachFile
  <2> SUFFICES ASSUME LiveInv, NEW k \in Runs, metrics.run = k
               PROVE  /\ served[k] - metrics.served \in {0, 1}
                      /\ wpc[k] = "dead" /\ restarts = 0 /\ faults <= 1 => metrics.served = served[k]
    BY DEF ResultsReachFile, Live!ResultsReachFile, Live!Runs, Runs
  <2>1. IF Behind(k) THEN served[k] - metrics.served \in {0, 1} ELSE metrics.served = served[k]
    BY DEF LiveInv, File, Truthful
  <2>2. served[k] - served[k] = 0 /\ restarts \in Nat /\ faults \in Nat
    BY DEF LiveInv, Types
  <2> QED BY <2>1, <2>2 DEF Behind
<1> QED BY <1>1, Invariance, PTL

\* After a stop that found no thread the file claims no live run until the next is announced,
\* whatever stops, failed writes and restarts come in between.
THEOREM StopsLast == Spec => []StopLasts
<1>1. LiveInv => StopLasts
  <2> SUFFICES ASSUME LiveInv, NEW h \in Handlers, quiet[h], ~ Live!Stopping(h)
               PROVE  metrics.status \notin Live!Active
    BY DEF StopLasts, Live!StopLasts
  <2>1. hpc[h] \notin Stops
    BY DEF Live!Stopping, Stops
  <2> QED BY <2>1 DEF LiveInv, Stopping, Live!Active, Active
<1> QED BY <1>1, Invariance, PTL

\* A stop that no start overlapped never overwrites "completed" or "failed".
THEOREM OutcomeIsKept == Spec => StopKeepsOutcome
<1>1. LiveInv => [\A h \in Handlers :
                    Live!StopMark(h) /\ quiet[h]
                      => metrics.status \notin {"completed", "failed"}]_Live!vars
  BY DEF LiveInv, Stopping, Live!StopMark, Live!Go
<1>2. [](LiveInv) => StopKeepsOutcome
  BY <1>1, PTL DEF StopKeepsOutcome, Live!StopKeepsOutcome
<1> QED BY <1>2, Invariance, PTL

\* A client is given results of no experiment that was replaced before it asked, unless
\* the start of every later one failed to remove the cache.
THEOREM CurrentResults == Spec => ResultsAreCurrent
<1>1. ExperimentInv => [\A h \in Handlers :
                          /\ Experiments!AnswerFromCache(h)
                               => cache.of >= called[h] \/ cache.of >= cleared
                          /\ Experiments!AnswerFromState(h) /\ state.status = "complete"
                               => state.of >= called[h]]_Experiments!vars
  BY DEF ExperimentInv, Complete, Experiments!AnswerFromCache, Experiments!AnswerFromState
<1>2. [](ExperimentInv) => ResultsAreCurrent
  BY <1>1, PTL DEF ResultsAreCurrent, Experiments!ResultsAreCurrent
<1> QED BY <1>2, Invariance, PTL

\* Results of the last experiment once given stay in the cache file, whatever dies.
THEOREM DurableResults == Spec => []ResultsAreDurable
<1>1. ExperimentInv => ResultsAreDurable
  BY DEF ExperimentInv, Complete, ResultsAreDurable, Experiments!ResultsAreDurable, Experiments!State
<1> QED BY <1>1, Invariance, PTL
=============================================================================
