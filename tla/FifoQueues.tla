---------------------------- MODULE FifoQueues ----------------------------
(***************************************************************************)
(* What the async loader's status lists promise to their users             *)
(* (async-loader/csrc/async/async.h, "Status lists"): three FIFO queues    *)
(* over a fixed pool of entries, each entry in at most one queue, and the  *)
(* entries travelling free -> ready -> completed -> free.  An entry popped *)
(* from a queue is in the hands of whoever popped it until it is pushed    *)
(* again.                                                                  *)
(*                                                                         *)
(* AsyncFifo (linked lists through next/prev pointers) implements this     *)
(* module.                                                                 *)
(***************************************************************************)
EXTENDS Sequences

CONSTANTS Entry,      \* the entries of one worker's queue
          InitFree    \* the order in which the free list first hands them out

VARIABLES queue,      \* queue[l]: the entries in status list l, oldest first
          taken       \* taken[l]: entries popped from l and not pushed again

vars == <<queue, taken>>

Lists == {"free", "ready", "completed"}

\* Where an entry popped from list l may be pushed: a worker pops a free entry
\* to make a request, the reader returns an entry it cannot open to the ready
\* list, a completed IO makes it completed, a release makes it free again.
MayMoveTo == [free |-> {"ready"}, ready |-> {"ready", "completed"}, completed |-> {"free"}]

Init ==
    /\ queue = [l \in Lists |-> IF l = "free" THEN InitFree ELSE <<>>]
    /\ taken = [l \in Lists |-> {}]

Pop(l) ==
    /\ queue[l] # <<>>
    /\ queue' = [queue EXCEPT ![l] = Tail(@)]
    /\ taken' = [taken EXCEPT ![l] = @ \union {Head(queue[l])}]

Push(k, l, e) ==
    /\ e \in taken[k]
    /\ l \in MayMoveTo[k]
    /\ queue' = [queue EXCEPT ![l] = Append(@, e)]
    /\ taken' = [taken EXCEPT ![k] = @ \ {e}]

Next ==
    \/ \E l \in Lists : Pop(l)
    \/ \E k, l \in Lists : \E e \in taken[k] : Push(k, l, e)

Spec == Init /\ [][Next]_vars
===========================================================================
