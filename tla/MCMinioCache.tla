---------------------------- MODULE MCMinioCache ----------------------------
(***************************************************************************)
(* Small instances of MinioCache: three files of which any two of the      *)
(* smaller ones fill the cache and the largest never fits.                 *)
(***************************************************************************)
EXTENDS MinioCache

CONSTANTS f1, f2, f3, p1, p2

MCSize == [f \in File |-> CASE f = f1 -> 2 [] f = f2 -> 3 [] OTHER -> 6]

\* Each file has an shm name of its own.
MCOwnPath == [f \in File |-> f]

MCLockId == [s \in Slot |-> s % 2]
=============================================================================
