---------------------------- MODULE BatchService ----------------------------
(***************************************************************************)
(* What an inference engine of GLIDE (src/glide/engine.py) promises to the  *)
(* drivers that submit requests to it, in abstract: one line of requests,   *)
(* served from its front in batches of at most BatchSize requests that      *)
(* all finish together, no sooner than the longest of them takes.           *)
(* There is no scheduler here: GlideEngine, which has one, is shown to      *)
(* implement this module, so no scheduler changes when a request ends.      *)
(***************************************************************************)
EXTENDS Naturals, Sequences

CONSTANTS Requests,    \* the requests that can be submitted
          BatchSize,   \* the most requests of one batch
          Work         \* Work[r]: the time the GPU takes for r

VARIABLES clock,       \* the time
          line,        \* the requests waiting, in the order they came
          finished     \* a set of <<request, time it ended>>

vars == <<clock, line, finished>>

Init == /\ clock = 0
        /\ line = << >>
        /\ finished = {}

Tick == /\ clock' > clock
        /\ UNCHANGED <<line, finished>>

Submit(r) == /\ line' = Append(line, r)
             /\ UNCHANGED <<clock, finished>>

(* The first n requests of the line end at the same moment. *)
Serve(n) ==
  /\ clock' \in Nat
  /\ \A i \in 1 .. n : clock' >= clock + Work[line[i]]
  /\ line' = SubSeq(line, n + 1, Len(line))
  /\ finished' = finished \cup {<<line[i], clock'>> : i \in 1 .. n}

Forget == /\ line' = << >>
          /\ finished' = {}
          /\ UNCHANGED clock

Next == \/ Tick
        \/ \E r \in Requests : Submit(r)
        \/ \E n \in 1 .. BatchSize : n <= Len(line) /\ Serve(n)
        \/ Forget

Spec == Init /\ [][Next]_vars
=============================================================================
