--------------------------- MODULE LoaderService ---------------------------
(***************************************************************************)
(* What a loader with queues in shared memory promises those who use it:   *)
(* every queue entry goes round one loop,                                  *)
(*                                                                         *)
(*     free -> requested -> completed -> held -> free,                     *)
(*                                                                         *)
(* and carries one file all the way round (async.h, the comment on the     *)
(* status lists of wstate_t; async-loader/README.md, Worker and Entry; the *)
(* queues of ustate_t in ladcache's cache.h).                              *)
(* AsyncLoader and LadCacheNode implement this module.                     *)
(***************************************************************************)
CONSTANTS Entry,    \* the queue entries
          File,     \* the files that can be requested
          NoFile    \* the path of an entry that is free

VARIABLES status,   \* where each entry is in the loop
          file      \* the file it is requested for

vars == <<status, file>>

Init ==
    /\ status = [e \in Entry |-> "free"]
    /\ file = [e \in Entry |-> NoFile]

Move(e, from, to) ==
    /\ status[e] = from
    /\ status' = [status EXCEPT ![e] = to]

Request(e, f) ==
    /\ Move(e, "free", "requested")
    /\ file' = [file EXCEPT ![e] = f]

Complete(e) == Move(e, "requested", "completed") /\ UNCHANGED file

Get(e) == Move(e, "completed", "held") /\ UNCHANGED file

Release(e) ==
    /\ Move(e, "held", "free")
    /\ file' = [file EXCEPT ![e] = NoFile]

Next == \E e \in Entry :
    \/ \E f \in File : Request(e, f)
    \/ Complete(e)
    \/ Get(e)
    \/ Release(e)

Spec == Init /\ [][Next]_vars
============================================================================
