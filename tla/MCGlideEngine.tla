--------------------------- MODULE MCGlideEngine ---------------------------
(* Instances of GlideEngine for TLC. *)
EXTENDS GlideEngine, TLC

CONSTANTS r1, r2, r3

(* Three requests: a long one, a short one that does not fit in memory, and  *)
(* one without a profile, whose estimate is not what it takes.               *)
MCWork     == (r1 :> 2) @@ (r2 :> 1) @@ (r3 :> 2)
MCEstimate == (r1 :> 2) @@ (r2 :> 1) @@ (r3 :> 1)
MCFits     == {r1, r3}

(* The schedulers of create_scheduler and two variants of run_hasp_ablation. *)
MCPolicies == {Fifo, Sjf, Hasp({"aging", "memory", "compute"}),
               Hasp({"memory", "compute"}), Hasp({"aging", "memory"})}
=============================================================================
