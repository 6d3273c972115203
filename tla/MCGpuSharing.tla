---------------------------- MODULE MCGpuSharing ----------------------------
(* Instances of GpuSharing for TLC. *)
EXTENDS GpuSharing
CONSTANTS a1, a2
=============================================================================
