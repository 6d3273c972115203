--------------------------- MODULE MCLadCacheNode ---------------------------
(* Instances of LadCacheNode for TLC. *)
EXTENDS LadCacheNode

CONSTANTS p1, p2, p3

MCSize == [p \in Path |-> IF p = p2 THEN 2 ELSE 1]
=============================================================================
