-------------------------- MODULE MCGlideDashboard --------------------------
(* Instances of GlideDashboard for TLC. *)
EXTENDS GlideDashboard

CONSTANTS h1, h2

(* The two parts share the request threads and the restart, no other state:  *)
(* a behaviour starts live runs or experiments, to keep TLC from             *)
(* enumerating the product of the two.                                       *)
OnePart == runs' = 0 \/ experiments' = 0

(* Two writes raise in the first run only, and not when the server dies.     *)
FewFaults == faults' <= 1 \/ (runs' <= 1 /\ restarts' = 0)

MCNext == Next /\ OnePart /\ FewFaults
MCSpec == Init /\ [][MCNext]_vars
MCFairSpec == MCSpec /\ Live!Fairness /\ Experiments!Fairness
=============================================================================
