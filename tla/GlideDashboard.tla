--------------------------- MODULE GlideDashboard ---------------------------
(***************************************************************************)
(* The server process of the GLIDE dashboard: GlideLive and                 *)
(* GlideExperiments in one process, which share its request threads and die *)
(* and restart together.                                                    *)
(***************************************************************************)
EXTENDS Integers

CONSTANTS Handlers, TraceLen, MaxRuns, MaxFaults,
          Combinations, MaxExperiments, MaxFailures,
          MaxRestarts    \* bound: deaths of the server process

ASSUME TraceAssumption == TraceLen \in Nat
ASSUME CombinationsAssumption == Combinations \in Nat \ {0}
ASSUME BoundsAssumption == /\ MaxRuns \in Nat \ {0} /\ MaxFaults \in Nat
                           /\ MaxExperiments \in Nat /\ MaxFailures \in Nat
                           /\ MaxRestarts \in Nat

(* Request threads and runs write to the file under names of their own.      *)
ASSUME HandlersAssumption == Handlers \cap (0 .. MaxRuns) = {}

VARIABLES hpc,
          run_lock, stop, thread, metrics, flock, out, wpc, index, served,
          runs, quiet, faults,
          state, cache, epc, done, experiments, called, cleared, answered,
          failures,
          restarts       \* the deaths so far

live == <<run_lock, stop, thread, metrics, flock, out, wpc, index, served,
          runs, quiet, faults>>
experiment == <<state, cache, epc, done, experiments, called, cleared, answered,
                failures>>
vars == <<hpc, live, experiment, restarts>>

Live == INSTANCE GlideLive
Experiments == INSTANCE GlideExperiments

Init == Live!Init /\ Experiments!Init /\ restarts = 0

Restart == /\ restarts < MaxRestarts
           /\ restarts' = restarts + 1
           /\ Live!Restart
           /\ Experiments!Restart

Next == \/ Live!Step /\ UNCHANGED <<experiment, restarts>>
        \/ Experiments!Step /\ UNCHANGED <<live, restarts>>
        \/ Restart

Spec == Init /\ [][Next]_vars

FairSpec == Spec /\ Live!Fairness /\ Experiments!Fairness

(* The properties of the two parts, of the server as a whole; each is stated *)
(* and explained in its module.                                              *)
OneRunAtATime       == Live!TypeOK /\ Live!OneRunAtATime
OutcomeIsTold       == Live!CompletedIsComplete /\ Live!RestIsTerminal(restarts = 0)
ResultsReachFile    == Live!ResultsReachFile(restarts = 0 /\ faults <= 1)
StopLasts           == Live!StopLasts
StopKeepsOutcome    == Live!StopKeepsOutcome
WorkEnds            == Live!RunEnds /\ Experiments!ExperimentEnds
ResultsAreCurrent   == Experiments!ResultsAreCurrent
ResultsAreDurable   == Experiments!ResultsAreDurable
=============================================================================
