----------------------------- MODULE AsyncFifo -----------------------------
(***************************************************************************)
(* The status lists of one async-loader worker, at the level of the        *)
(* next/prev pointers (async-loader/csrc/async/async.c: fifo_push,         *)
(* fifo_pop and the ring built by async_init).  Every operation runs under *)
(* the spinlock of its list, so each is one action.                        *)
(*                                                                         *)
(* The three lists share the next/prev fields of the entries, fifo_push    *)
(* does not close the ring (the new tail's next is the head's SUCCESSOR),  *)
(* and async_init computes the predecessor of entry 0 in size_t            *)
(* arithmetic: whether the lists are FIFO queues is therefore a question,  *)
(* answered by the refinement ImplementsFifo.                              *)
(***************************************************************************)
EXTENDS Naturals, Sequences

CONSTANTS QueueDepth,   \* entries per worker (async_init's queue_depth)
          NULL          \* the null pointer

ASSUME QueueDepthAssumption == QueueDepth \in Nat \ {0}

Entry == 0 .. (QueueDepth - 1)    \* an entry is its index in state->queue

ASSUME NullAssumption == NULL \notin Entry

VARIABLES next, prev,   \* the pointer fields of the entries
          head,         \* head[l]: state->free, state->ready, state->completed
          taken         \* taken[l]: entries popped from l and not yet pushed

vars == <<next, prev, head, taken>>

Lists == {"free", "ready", "completed"}

MayMoveTo == [free |-> {"ready"}, ready |-> {"ready", "completed"}, completed |-> {"free"}]

-----------------------------------------------------------------------------
(* async_init: the ring of free entries.                                   *)

\* 2^n % QueueDepth, without leaving TLC's integers.
PowerOfTwoMod[n \in 0 .. 64] ==
    IF n = 0 THEN 1 % QueueDepth ELSE (2 * PowerOfTwoMod[n - 1]) % QueueDepth

\* (j - 1) % queue_depth for a size_t j: 0 - 1 wraps to 2^64 - 1.
InitPrev(j) ==
    IF j = 0 THEN (PowerOfTwoMod[64] + (QueueDepth - 1)) % QueueDepth ELSE j - 1

InitNext(j) == (j + 1) % QueueDepth

Init ==
    /\ next = [e \in Entry |-> InitNext(e)]
    /\ prev = [e \in Entry |-> InitPrev(e)]
    /\ head = [l \in Lists |-> IF l = "free" THEN 0 ELSE NULL]
    /\ taken = [l \in Lists |-> {}]

-----------------------------------------------------------------------------
(* fifo_push: the four assignments of the non-empty case, in their order:  *)
(*   elem->prev = head->prev;  elem->next = head->next;                    *)
(*   head->prev->next = elem;  head->prev = elem                           *)

LinkSole(l, e) ==
    /\ head' = [head EXCEPT ![l] = e]
    /\ prev' = [prev EXCEPT ![e] = e]
    /\ next' = [next EXCEPT ![e] = e]

\* Mutation of LinkBehindTail: the element is linked behind the head instead.
LinkBehindHead(l, e) ==
    /\ prev' = [prev EXCEPT ![e] = head[l], ![head[l]] = e]
    /\ next' = [next EXCEPT ![e] = next[head[l]], ![head[l]] = e]
    /\ UNCHANGED head

LinkBehindTail(l, e) ==
    LET h     == head[l]
        prev1 == [prev EXCEPT ![e] = prev[h]]
        next1 == [next EXCEPT ![e] = next[h]]
    IN  /\ next' = [next1 EXCEPT ![prev1[h]] = e]
        /\ prev' = [prev1 EXCEPT ![h] = e]
        /\ UNCHANGED head

fifo_push(k, l, e) ==
    /\ e \in taken[k]
    /\ l \in MayMoveTo[k]
    /\ IF head[l] = NULL THEN LinkSole(l, e) ELSE LinkBehindTail(l, e)
    /\ taken' = [taken EXCEPT ![k] = @ \ {e}]

-----------------------------------------------------------------------------
(* fifo_pop: unlink the head, in the order of the source:                  *)
(*   head->next->prev = head->prev;  head->prev->next = head->next;        *)
(*   head = head->next, and NULL when that is the popped element itself    *)

NewHead(out, nxt) == IF nxt = out THEN NULL ELSE nxt

fifo_pop(l) ==
    LET out   == head[l]
        prev1 == [prev EXCEPT ![next[out]] = prev[out]]
        next1 == [next EXCEPT ![prev1[out]] = next[out]]
    IN  /\ out # NULL
        /\ prev' = prev1
        /\ next' = next1
        /\ head' = [head EXCEPT ![l] = NewHead(out, next1[out])]
        /\ taken' = [taken EXCEPT ![l] = @ \union {out}]

-----------------------------------------------------------------------------

Next ==
    \/ \E l \in Lists : fifo_pop(l)
    \/ \E k, l \in Lists : \E e \in taken[k] : fifo_push(k, l, e)

Spec == Init /\ [][Next]_vars

-----------------------------------------------------------------------------
(* Properties.                                                             *)

\* async.h: "Entries move exclusively in a loop, and are only ever present in
\* at most 1 list".  The entry a list would hand out next is in nobody's hands
\* and at the head of no other list.
NoDoubleHandout ==
    \A l \in Lists : head[l] # NULL =>
        /\ \A k \in Lists : head[l] \notin taken[k]
        /\ \A k \in Lists \ {l} : head[k] # head[l]

\* The i-th entry met when following next from the head of list l.
Walk(l) ==
    LET entry[i \in 1 .. QueueDepth] ==
          IF i = 1 THEN head[l] ELSE next[entry[i - 1]]
    IN  entry

\* The list's contents: from the head to the tail, which is the head's prev.
Contents(l) ==
    IF head[l] = NULL THEN <<>>
    ELSE LET walk == Walk(l)
             tails == {i \in 1 .. QueueDepth : walk[i] = prev[head[l]]}
             len  == IF tails = {} THEN QueueDepth
                     ELSE CHOOSE i \in tails : \A j \in tails : i <= j
         IN  SubSeq(walk, 1, len)

\* The linked lists are FIFO queues over the pool, whatever the order of the
\* pushes and pops on the three lists that share the pointer fields.
Fifo == INSTANCE FifoQueues WITH
          queue    <- [l \in Lists |-> Contents(l)],
          InitFree <- [i \in 1 .. QueueDepth |-> i - 1]

ImplementsFifo == Fifo!Spec
=============================================================================
