--------------------------- MODULE MCAsyncLoader ---------------------------
(***************************************************************************)
(* Instances of AsyncLoader for TLC.                                       *)
(***************************************************************************)
EXTENDS AsyncLoader

CONSTANTS f1, f2, f3

\* Every file has a shm name of its own; f1 lies behind the others on the
\* device.
MCOwnName == [f \in File |-> f]
MCLba == [f \in File |-> IF f = f1 THEN 8 ELSE 4]

\* f1 and f2 are paths like /a/b and /a_b: one shm name for both.
MCSharedName == [f \in File |-> IF f = f2 THEN f1 ELSE f]
============================================================================
