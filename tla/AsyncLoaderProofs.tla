------------------------- MODULE AsyncLoaderProofs -------------------------
(***************************************************************************)
(* AsyncLoader, for every number of workers, queue depth, dispatch size,   *)
(* set of files and failure pattern: every queue entry is in exactly one   *)
(* place, once; the sorting queue never holds more than dispatch_n         *)
(* requests; an entry goes round the loop of async.h with the path it was  *)
(* requested for, however often its request is retried and whatever order  *)
(* it is served in: AsyncLoader implements LoaderService; no descriptor    *)
(* and no shm name leaks; and, with shm names in use by one request at a   *)
(* time, a worker holds the data of the file it asked for.                 *)
(***************************************************************************)
EXTENDS AsyncLoader, DataLemmas

\* The lists of a worker hold only entries of its own queue.
OwnLists ==
    \A w \in Workers : \A e \in Entry :
        e \in ToSet(free[w]) \union ToSet(ready[w]) \union ToSet(completed[w]) \union held[w]
            => Owner(e) = w

\* The reader has an entry in hand exactly while it opens it; the responder has
\* at most one.
Hands ==
    /\ rpc = "open" => \E e \in Entry : opening = {e}
    /\ rpc # "open" => opening = {}
    /\ \A d, e \in responding : d = e

InOnePlace(e) == \E p \in Places : \A q \in Places : In(e, q) <=> q = p

\* The inductive invariant.
IInv ==
    /\ ListsTypeOK
    /\ OwnLists
    /\ Hands
    /\ NoneTwice
    /\ \A e \in Entry : InOnePlace(e)

\* Entry e moves from place p to place q, the others stay where they are.
Moves(e, p, q) ==
    \A x \in Entry : \A r \in Places : In(x, r)' <=> IF x = e THEN r = q ELSE In(x, r)

\* ... and e was at p.
MovesFrom(e, p, q) == e \in Entry /\ In(e, p) /\ Moves(e, p, q)

\* Moving one entry from its place to another keeps every entry in one place.
LEMMA MoveKeepsOnePlace ==
    ASSUME \A x \in Entry : InOnePlace(x), NEW e \in Entry, NEW p \in Places, NEW q \in Places,
           Moves(e, p, q)
    PROVE  \A x \in Entry : InOnePlace(x)'
<1> SUFFICES ASSUME NEW x \in Entry PROVE InOnePlace(x)'
  OBVIOUS
<1>1. CASE x = e
  BY <1>1 DEF InOnePlace, Moves
<1>2. CASE x # e
  <2>1. PICK s \in Places : \A r \in Places : In(x, r) <=> r = s
    BY DEF InOnePlace
  <2>2. \A r \in Places : In(x, r)' <=> r = s
    BY <1>2, <2>1 DEF Moves
  <2> QED BY <2>2 DEF InOnePlace
<1> QED BY <1>1, <1>2

\* An entry in one place is in no other.
LEMMA OnlyPlace ==
    ASSUME NEW e \in Entry, InOnePlace(e), NEW p \in Places, In(e, p)
    PROVE  \A q \in Places : q # p => ~In(e, q)
BY DEF InOnePlace

\* An entry's owner is a worker.
LEMMA EntryFacts ==
    ASSUME NEW e \in Entry
    PROVE  Owner(e) \in Workers
BY DEF Entry, Owner

\* The invariant holds when the loader starts: every entry is on its free list.
LEMMA InitIInv == Init => IInv
<1> SUFFICES ASSUME Init PROVE IInv
  OBVIOUS
<1> USE LoaderAssumption
<1>1. \A w \in Workers : free[w] = [i \in 1 .. QueueDepth |-> <<w, i>>]
  BY DEF Init
<1>2. \A w \in Workers : /\ free[w] \in Seq(Entry)
                         /\ ToSet(free[w]) = {<<w, i>> : i \in 1 .. QueueDepth}
                         /\ IsInjective(free[w])
  <2> SUFFICES ASSUME NEW w \in Workers
               PROVE  /\ free[w] \in Seq(Entry)
                      /\ ToSet(free[w]) = {<<w, i>> : i \in 1 .. QueueDepth}
                      /\ IsInjective(free[w])
    OBVIOUS
  <2>1. DOMAIN free[w] = 1 .. QueueDepth /\ \A i \in 1 .. QueueDepth : free[w][i] = <<w, i>>
    BY <1>1
  <2>2. free[w] \in [1 .. QueueDepth -> Entry]
    <3>1. \A i \in 1 .. QueueDepth : <<w, i>> \in Entry
      BY DEF Entry
    <3>2. free[w] = [i \in 1 .. QueueDepth |-> <<w, i>>]
      BY <1>1
    <3> QED BY <3>1, <3>2
  <2>3. free[w] \in Seq(Entry)
    BY <2>2
  <2>4. ToSet(free[w]) = {<<w, i>> : i \in 1 .. QueueDepth}
    BY <2>1 DEF ToSet
  <2>5. IsInjective(free[w])
    BY <2>1 DEF IsInjective
  <2> QED BY <2>3, <2>4, <2>5
<1>3. ListsTypeOK
  <2>1. free \in [Workers -> Seq(Entry)]
    BY <1>2 DEF Init
  <2>2. /\ ready \in [Workers -> Seq(Entry)]
        /\ completed \in [Workers -> Seq(Entry)]
        /\ held \in [Workers -> SUBSET Entry]
    BY DEF Init
  <2>3. rr \in Workers
    BY DEF Init, Workers
  <2> QED BY <2>1, <2>2, <2>3 DEF Init, ListsTypeOK
<1>4. OwnLists
  BY <1>2 DEF Init, OwnLists, Owner, ToSet
<1>5. Hands
  BY DEF Init, Hands
<1>6. NoneTwice
  BY <1>2 DEF Init, NoneTwice, IsInjective, CqSeq
<1>7. \A e \in Entry : InOnePlace(e)
  <2> SUFFICES ASSUME NEW e \in Entry PROVE InOnePlace(e)
    OBVIOUS
  <2>1. e \in ToSet(free[Owner(e)])
    BY <1>2, EntryFacts DEF Entry, Owner
  <2>2. Owner(e) \in Workers
    BY EntryFacts
  <2>3. CqEntries = {} /\ ToSet(<<>>) = {}
    BY DEF Init, CqEntries, CqSeq, ToSet
  <2>4. /\ ready[Owner(e)] = <<>> /\ completed[Owner(e)] = <<>> /\ held[Owner(e)] = {}
        /\ batch = <<>> /\ sqes = <<>>
        /\ opening = {} /\ inflight = {} /\ responding = {} /\ lost = {}
    BY <2>2 DEF Init
  <2>5. \A q \in Places : In(e, q) <=> q = "free"
    BY <2>1, <2>3, <2>4 DEF In, Places
  <2> QED BY <2>5 DEF InOnePlace, Places
<1> QED BY <1>3, <1>4, <1>5, <1>6, <1>7 DEF IInv

-----------------------------------------------------------------------------
(* One lemma per action.                                                   *)

\* A request moves an entry from the free list to the ready list.
LEMMA RequestStep ==
    ASSUME IInv, NEW w \in Workers, NEW f \in File, async_try_request(w, f)
    PROVE  IInv' /\ MovesFrom(Head(free[w]), "free", "ready")
<1> DEFINE e == Head(free[w])
<1>1. /\ free' = [free EXCEPT ![w] = Tail(@)]
      /\ ready' = [ready EXCEPT ![w] = Append(@, e)]
      /\ free[w] # <<>>
      /\ UNCHANGED <<completed, held, lost, rpc, rr, idle, opening, batch, sqes, inflight, cq,
                     responding, errs, up, fdOpen, crashed>>
  BY DEF async_try_request, readerVars, ringVars
<1>2. Queues(Workers, Entry, free) /\ Queues(Workers, Entry, ready)
  BY DEF IInv, ListsTypeOK, NoneTwice, Queues
<1>3. e \in Entry /\ Queues(Workers, Entry, free') /\ Loses(Workers, free, w, e, free')
  BY <1>1, <1>2, PopOne
<1> HIDE DEF e
<1>4. Owner(e) = w
  BY <1>3 DEF IInv, OwnLists, Loses
<1>5. In(e, "free") /\ e \notin ToSet(ready[w])
  BY <1>3, <1>4, OnlyPlace DEF IInv, In, Places, Loses
<1>6. Queues(Workers, Entry, ready') /\ Gains(Workers, ready, w, e, ready')
  BY <1>1, <1>2, <1>3, <1>5, PushOne
<1>7. ListsTypeOK'
  BY <1>1, <1>3, <1>6 DEF IInv, ListsTypeOK, Queues
<1>8. OwnLists'
  BY <1>1, <1>3, <1>4, <1>6 DEF IInv, OwnLists, Gains, Loses
<1>9. Hands'
  BY <1>1 DEF IInv, Hands
<1>10. NoneTwice'
  BY <1>1, <1>3, <1>6 DEF IInv, NoneTwice, CqSeq, Queues
<1>11. Moves(e, "free", "ready")
  <2> SUFFICES ASSUME NEW x \in Entry, NEW r \in Places
               PROVE  In(x, r)' <=> IF x = e THEN r = "ready" ELSE In(x, r)
    BY DEF Moves
  <2>1. Owner(x) \in Workers
    BY EntryFacts
  <2>2. x \in ToSet(free'[Owner(x)]) <=> x \in ToSet(free[Owner(x)]) /\ x # e
    BY <1>3, <1>4, <2>1 DEF Loses
  <2>3. x \in ToSet(ready'[Owner(x)]) <=> x \in ToSet(ready[Owner(x)]) \/ x = e
    BY <1>4, <1>6, <2>1 DEF Gains
  <2>4. CqEntries' = CqEntries
    BY <1>1 DEF CqEntries, CqSeq
  <2>5. x = e => (In(x, r) <=> r = "free")
    BY <1>3, <1>5, OnlyPlace DEF IInv, Places
  <2> QED BY <1>1, <2>2, <2>3, <2>4, <2>5 DEF In, Places
<1>12. \A x \in Entry : InOnePlace(x)'
  BY <1>3, <1>11, MoveKeepsOnePlace DEF IInv, Places
<1>13. MovesFrom(e, "free", "ready")
  BY <1>3, <1>5, <1>11 DEF MovesFrom
<1> QED BY <1>7, <1>8, <1>9, <1>10, <1>12, <1>13 DEF IInv, e

\* A get moves an entry from the completed list into its worker's hands.
LEMMA GetStep ==
    ASSUME IInv, NEW w \in Workers, async_try_get(w)
    PROVE  IInv' /\ MovesFrom(Head(completed[w]), "completed", "held")
<1> DEFINE e == Head(completed[w])
<1>1. /\ completed' = [completed EXCEPT ![w] = Tail(@)]
      /\ held' = [held EXCEPT ![w] = @ \union {e}]
      /\ completed[w] # <<>>
      /\ UNCHANGED <<free, ready, lost, rpc, rr, idle, opening, batch, sqes, inflight, cq,
                     responding, errs, up, fdOpen, crashed>>
  BY DEF async_try_get, readerVars, ringVars
<1>2. Queues(Workers, Entry, completed) /\ held \in [Workers -> SUBSET Entry]
  BY DEF IInv, ListsTypeOK, NoneTwice, Queues
<1>3. e \in Entry /\ Queues(Workers, Entry, completed') /\ Loses(Workers, completed, w, e, completed')
  BY <1>1, <1>2, PopOne
<1> HIDE DEF e
<1>4. Owner(e) = w
  BY <1>3 DEF IInv, OwnLists, Loses
<1>5. In(e, "completed")
  BY <1>3, <1>4 DEF In, Places, Loses
<1>6. ListsTypeOK'
  BY <1>1, <1>2, <1>3 DEF IInv, ListsTypeOK, Queues
<1>7. OwnLists'
  BY <1>1, <1>2, <1>3, <1>4 DEF IInv, OwnLists, Loses
<1>8. Hands' /\ NoneTwice'
  BY <1>1, <1>3 DEF IInv, Hands, NoneTwice, CqSeq, Queues
<1>9. Moves(e, "completed", "held")
  <2> SUFFICES ASSUME NEW x \in Entry, NEW r \in Places
               PROVE  In(x, r)' <=> IF x = e THEN r = "held" ELSE In(x, r)
    BY DEF Moves
  <2>1. Owner(x) \in Workers
    BY EntryFacts
  <2>2. x \in ToSet(completed'[Owner(x)]) <=> x \in ToSet(completed[Owner(x)]) /\ x # e
    BY <1>3, <1>4, <2>1 DEF Loses
  <2>3. x \in held'[Owner(x)] <=> x \in held[Owner(x)] \/ x = e
    BY <1>1, <1>2, <1>4, <2>1
  <2>4. CqEntries' = CqEntries
    BY <1>1 DEF CqEntries, CqSeq
  <2>5. x = e => (In(x, r) <=> r = "completed")
    BY <1>3, <1>5, OnlyPlace DEF IInv, Places
  <2> QED BY <1>1, <2>2, <2>3, <2>4, <2>5 DEF In, Places
<1>10. \A x \in Entry : InOnePlace(x)'
  BY <1>3, <1>9, MoveKeepsOnePlace DEF IInv, Places
<1>11. MovesFrom(e, "completed", "held")
  BY <1>3, <1>5, <1>9 DEF MovesFrom
<1> QED BY <1>6, <1>7, <1>8, <1>10, <1>11 DEF IInv, e

\* A worker stopped by the assert of async_try_get loses the entry it popped.
LEMMA GetAbortsStep ==
    ASSUME IInv, NEW w \in Workers, async_try_get_aborts(w)
    PROVE  IInv' /\ MovesFrom(Head(completed[w]), "completed", "lost")
<1> DEFINE e == Head(completed[w])
<1>1. /\ completed' = [completed EXCEPT ![w] = Tail(@)]
      /\ lost' = lost \union {e}
      /\ crashed' = crashed \union {w}
      /\ completed[w] # <<>>
      /\ UNCHANGED <<free, ready, held, rpc, rr, idle, opening, batch, sqes, inflight, cq,
                     responding, errs, up, fdOpen>>
  BY DEF async_try_get_aborts, readerVars, ringVars
<1>2. Queues(Workers, Entry, completed)
  BY DEF IInv, ListsTypeOK, NoneTwice, Queues
<1>3. e \in Entry /\ Queues(Workers, Entry, completed') /\ Loses(Workers, completed, w, e, completed')
  BY <1>1, <1>2, PopOne
<1> HIDE DEF e
<1>4. Owner(e) = w
  BY <1>3 DEF IInv, OwnLists, Loses
<1>5. In(e, "completed")
  BY <1>3, <1>4 DEF In, Places, Loses
<1>6. ListsTypeOK'
  BY <1>1, <1>3 DEF IInv, ListsTypeOK, Queues
<1>7. OwnLists'
  BY <1>1, <1>3, <1>4 DEF IInv, OwnLists, Loses
<1>8. Hands' /\ NoneTwice'
  BY <1>1, <1>3 DEF IInv, Hands, NoneTwice, CqSeq, Queues
<1>9. Moves(e, "completed", "lost")
  <2> SUFFICES ASSUME NEW x \in Entry, NEW r \in Places
               PROVE  In(x, r)' <=> IF x = e THEN r = "lost" ELSE In(x, r)
    BY DEF Moves
  <2>1. Owner(x) \in Workers
    BY EntryFacts
  <2>2. x \in ToSet(completed'[Owner(x)]) <=> x \in ToSet(completed[Owner(x)]) /\ x # e
    BY <1>3, <1>4, <2>1 DEF Loses
  <2>3. CqEntries' = CqEntries
    BY <1>1 DEF CqEntries, CqSeq
  <2>4. x = e => (In(x, r) <=> r = "completed")
    BY <1>3, <1>5, OnlyPlace DEF IInv, Places
  <2> QED BY <1>1, <2>2, <2>3, <2>4 DEF In, Places
<1>10. \A x \in Entry : InOnePlace(x)'
  BY <1>3, <1>9, MoveKeepsOnePlace DEF IInv, Places
<1>11. MovesFrom(e, "completed", "lost")
  BY <1>3, <1>5, <1>9 DEF MovesFrom
<1> QED BY <1>6, <1>7, <1>8, <1>10, <1>11 DEF IInv, e

\* A release moves an entry from its worker's hands to the free list.
LEMMA ReleaseStep ==
    ASSUME IInv, NEW w \in Workers, NEW e \in held[w], async_release(w, e)
    PROVE  IInv' /\ MovesFrom(e, "held", "free")
<1>1. /\ free' = [free EXCEPT ![w] = Append(@, e)]
      /\ held' = [held EXCEPT ![w] = @ \ {e}]
      /\ UNCHANGED <<ready, completed, lost, rpc, rr, idle, opening, batch, sqes, inflight, cq,
                     responding, errs, up, fdOpen, crashed>>
  BY DEF async_release, readerVars, ringVars
<1>2. Queues(Workers, Entry, free) /\ held \in [Workers -> SUBSET Entry] /\ e \in Entry
  BY DEF IInv, ListsTypeOK, NoneTwice, Queues
<1>3. Owner(e) = w
  BY <1>2 DEF IInv, OwnLists
<1>4. In(e, "held") /\ e \notin ToSet(free[w])
  BY <1>2, <1>3, OnlyPlace DEF IInv, In, Places
<1>5. Queues(Workers, Entry, free') /\ Gains(Workers, free, w, e, free')
  BY <1>1, <1>2, <1>4, PushOne
<1>6. ListsTypeOK'
  BY <1>1, <1>2, <1>5 DEF IInv, ListsTypeOK, Queues
<1>7. OwnLists'
  BY <1>1, <1>2, <1>3, <1>5 DEF IInv, OwnLists, Gains
<1>8. Hands' /\ NoneTwice'
  BY <1>1, <1>5 DEF IInv, Hands, NoneTwice, CqSeq, Queues
<1>9. Moves(e, "held", "free")
  <2> SUFFICES ASSUME NEW x \in Entry, NEW r \in Places
               PROVE  In(x, r)' <=> IF x = e THEN r = "free" ELSE In(x, r)
    BY DEF Moves
  <2>1. Owner(x) \in Workers
    BY EntryFacts
  <2>2. x \in ToSet(free'[Owner(x)]) <=> x \in ToSet(free[Owner(x)]) \/ x = e
    BY <1>3, <1>5, <2>1 DEF Gains
  <2>3. x \in held'[Owner(x)] <=> x \in held[Owner(x)] /\ x # e
    BY <1>1, <1>2, <1>3, <2>1
  <2>4. CqEntries' = CqEntries
    BY <1>1 DEF CqEntries, CqSeq
  <2>5. x = e => (In(x, r) <=> r = "held")
    BY <1>2, <1>4, OnlyPlace DEF IInv, Places
  <2> QED BY <1>1, <2>2, <2>3, <2>4, <2>5 DEF In, Places
<1>10. \A x \in Entry : InOnePlace(x)'
  BY <1>2, <1>9, MoveKeepsOnePlace DEF IInv, Places
<1>11. MovesFrom(e, "held", "free")
  BY <1>2, <1>4, <1>9 DEF MovesFrom
<1> QED BY <1>6, <1>7, <1>8, <1>10, <1>11 DEF IInv

\* A step that moves no entry.
Stays == \A x \in Entry : \A r \in Places : In(x, r)' <=> In(x, r)

\* A step that moves what is prepared into the kernel's hands, and no other entry.
Submits ==
    \A x \in Entry :
        /\ \A r \in Places \ {"sqes", "inflight"} : In(x, r)' <=> In(x, r)
        /\ In(x, "sqes")' \/ In(x, "inflight")' <=> In(x, "sqes") \/ In(x, "inflight")

\* A step that moves no entry keeps every entry in one place.
LEMMA StayKeepsOnePlace ==
    ASSUME \A x \in Entry : InOnePlace(x), Stays
    PROVE  \A x \in Entry : InOnePlace(x)'
BY DEF InOnePlace, Stays

\* Sorting the batch moves no entry.
LEMMA DispatchStep ==
    ASSUME IInv, reader_dispatch
    PROVE  IInv' /\ Stays
<1>1. /\ batch' \in SortedByLba(batch)
      /\ rpc = "check" /\ rpc' = "issue"
      /\ UNCHANGED <<free, ready, completed, held, lost, rr, idle, opening, sqes, inflight, cq,
                     responding, errs, up, fdOpen, crashed>>
  BY DEF reader_dispatch, lists, workerVars, ringVars
<1>2. batch \in Seq(Entry)
  BY DEF IInv, ListsTypeOK
<1>3. /\ batch' \in [1 .. Len(batch) -> ToSet(batch)]
      /\ IsInjective(batch')
      /\ ToSet(batch') = ToSet(batch)
  BY <1>1, <1>2 DEF SortedByLba
<1>4. batch' \in Seq(Entry)
  <2>1. ToSet(batch) \subseteq Entry
    BY <1>2 DEF ToSet
  <2> QED BY <1>2, <1>3, <2>1
<1>5. ListsTypeOK'
  BY <1>1, <1>4 DEF IInv, ListsTypeOK
<1>6. OwnLists' /\ Hands' /\ NoneTwice'
  BY <1>1, <1>3 DEF IInv, OwnLists, Hands, NoneTwice, CqSeq
<1>7. Stays
  <2>1. CqEntries' = CqEntries
    BY <1>1 DEF CqEntries, CqSeq
  <2> QED BY <1>1, <1>3, <2>1 DEF Stays, In, Places
<1> QED BY <1>5, <1>6, <1>7, StayKeepsOnePlace DEF IInv

\* A prepared IO moves an entry from the batch to the submission queue.
LEMMA PerformIoStep ==
    ASSUME IInv, perform_io
    PROVE  IInv' /\ MovesFrom(Head(batch), "batch", "sqes")
<1> DEFINE e == Head(batch)
<1>1. /\ batch # <<>>
      /\ batch' = Tail(batch)
      /\ sqes' = Append(sqes, e)
      /\ UNCHANGED <<free, ready, completed, held, lost, rpc, rr, idle, opening, inflight, cq,
                     responding, errs, up, fdOpen, crashed>>
  BY DEF perform_io, Issuing, lists, workerVars, ringVars
<1>2. /\ batch \in Seq(Entry) /\ IsInjective(batch)
      /\ sqes \in Seq(Entry) /\ IsInjective(sqes)
  BY DEF IInv, ListsTypeOK, NoneTwice
<1>3. /\ e \in Entry /\ e \in ToSet(batch)
      /\ batch' \in Seq(Entry) /\ IsInjective(batch')
      /\ ToSet(batch') = ToSet(batch) \ {e}
  BY <1>1, <1>2, TailElems
<1> HIDE DEF e
<1>4. In(e, "batch") /\ e \notin ToSet(sqes)
  BY <1>3, OnlyPlace DEF IInv, In, Places
<1>5. /\ sqes' \in Seq(Entry) /\ IsInjective(sqes')
      /\ ToSet(sqes') = ToSet(sqes) \union {e}
  BY <1>1, <1>2, <1>3, <1>4, AppendElems
<1>6. ListsTypeOK'
  BY <1>1, <1>3, <1>5 DEF IInv, ListsTypeOK
<1>7. OwnLists' /\ Hands' /\ NoneTwice'
  BY <1>1, <1>3, <1>5 DEF IInv, OwnLists, Hands, NoneTwice, CqSeq
<1>8. Moves(e, "batch", "sqes")
  <2> SUFFICES ASSUME NEW x \in Entry, NEW r \in Places
               PROVE  In(x, r)' <=> IF x = e THEN r = "sqes" ELSE In(x, r)
    BY DEF Moves
  <2>1. CqEntries' = CqEntries
    BY <1>1 DEF CqEntries, CqSeq
  <2>2. x = e => (In(x, r) <=> r = "batch")
    BY <1>3, <1>4, OnlyPlace DEF IInv, Places
  <2> QED BY <1>1, <1>3, <1>5, <2>1, <2>2 DEF In, Places
<1>9. \A x \in Entry : InOnePlace(x)'
  BY <1>3, <1>8, MoveKeepsOnePlace DEF IInv, Places
<1>10. MovesFrom(e, "batch", "sqes")
  BY <1>3, <1>4, <1>8 DEF MovesFrom
<1> QED BY <1>6, <1>7, <1>9, <1>10 DEF IInv, e

\* A failed preparation moves an entry from the batch back to the ready list.
LEMMA PerformIoFailsStep ==
    ASSUME IInv, perform_io_fails
    PROVE  IInv' /\ MovesFrom(Head(batch), "batch", "ready")
<1> DEFINE e == Head(batch)
<1>1. /\ batch # <<>>
      /\ batch' = Tail(batch)
      /\ ready' = [ready EXCEPT ![Owner(e)] = Append(@, e)]
      /\ fdOpen' = fdOpen \ {e}
      /\ UNCHANGED <<free, completed, held, lost, rpc, rr, idle, opening, sqes, inflight, cq,
                     responding, errs, up, crashed>>
  BY DEF perform_io_fails, Issuing, FdsAfterFailure, workerVars, ringVars
<1>2. /\ batch \in Seq(Entry) /\ IsInjective(batch)
      /\ Queues(Workers, Entry, ready)
  BY DEF IInv, ListsTypeOK, NoneTwice, Queues
<1>3. /\ e \in Entry /\ e \in ToSet(batch)
      /\ batch' \in Seq(Entry) /\ IsInjective(batch')
      /\ ToSet(batch') = ToSet(batch) \ {e}
  BY <1>1, <1>2, TailElems
<1> HIDE DEF e
<1>4. In(e, "batch") /\ e \notin ToSet(ready[Owner(e)]) /\ Owner(e) \in Workers
  BY <1>3, OnlyPlace, EntryFacts DEF IInv, In, Places
<1>5. Queues(Workers, Entry, ready') /\ Gains(Workers, ready, Owner(e), e, ready')
  BY <1>1, <1>2, <1>3, <1>4, PushOne
<1>6. ListsTypeOK'
  BY <1>1, <1>3, <1>5 DEF IInv, ListsTypeOK, Queues
<1>7. OwnLists'
  BY <1>1, <1>4, <1>5 DEF IInv, OwnLists, Gains
<1>8. Hands' /\ NoneTwice'
  BY <1>1, <1>3, <1>5 DEF IInv, Hands, NoneTwice, CqSeq, Queues
<1>9. Moves(e, "batch", "ready")
  <2> SUFFICES ASSUME NEW x \in Entry, NEW r \in Places
               PROVE  In(x, r)' <=> IF x = e THEN r = "ready" ELSE In(x, r)
    BY DEF Moves
  <2>1. Owner(x) \in Workers
    BY EntryFacts
  <2>2. x \in ToSet(ready'[Owner(x)]) <=> x \in ToSet(ready[Owner(x)]) \/ x = e
    <3>1. CASE Owner(x) = Owner(e)
      BY <1>5, <3>1 DEF Gains
    <3>2. CASE Owner(x) # Owner(e)
      BY <1>5, <2>1, <3>2 DEF Gains
    <3> QED BY <3>1, <3>2
  <2>3. CqEntries' = CqEntries
    BY <1>1 DEF CqEntries, CqSeq
  <2>4. x = e => (In(x, r) <=> r = "batch")
    BY <1>3, <1>4, OnlyPlace DEF IInv, Places
  <2> QED BY <1>1, <1>3, <2>2, <2>3, <2>4 DEF In, Places
<1>10. \A x \in Entry : InOnePlace(x)'
  BY <1>3, <1>9, MoveKeepsOnePlace DEF IInv, Places
<1>11. MovesFrom(e, "batch", "ready")
  BY <1>3, <1>4, <1>9 DEF MovesFrom
<1> QED BY <1>6, <1>7, <1>8, <1>10, <1>11 DEF IInv, e

\* Everything in sqes moves to the kernel at once.
LEMMA SubmitStep ==
    ASSUME IInv, reader_submit
    PROVE  IInv' /\ Submits
<1>1. /\ rpc = "issue" /\ rpc' = "pop"
      /\ inflight' = inflight \union ToSet(sqes)
      /\ sqes' = <<>>
      /\ idle' = 0
      /\ UNCHANGED <<free, ready, completed, held, lost, rr, opening, batch, cq,
                     responding, errs, up, fdOpen, crashed>>
  BY DEF reader_submit, lists, workerVars
<1>2. sqes \in Seq(Entry) /\ ToSet(sqes) \subseteq Entry
  BY DEF IInv, ListsTypeOK, ToSet
<1>3. ListsTypeOK'
  BY <1>1, <1>2 DEF IInv, ListsTypeOK
<1>4. ToSet(sqes') = {} /\ IsInjective(sqes')
  BY <1>1 DEF ToSet, IsInjective
<1>5. OwnLists' /\ Hands' /\ NoneTwice'
  BY <1>1, <1>4 DEF IInv, OwnLists, Hands, NoneTwice, CqSeq
<1>6. ASSUME NEW x \in Entry PROVE InOnePlace(x)'
  <2>1. PICK p \in Places : \A q \in Places : In(x, q) <=> q = p
    BY DEF IInv, InOnePlace
  <2>2. CqEntries' = CqEntries
    BY <1>1 DEF CqEntries, CqSeq
  <2>3. In(x, "sqes") <=> x \in ToSet(sqes)
    BY DEF In
  <2>4. CASE p = "sqes"
    <3>1. x \in ToSet(sqes)
      BY <2>1, <2>3, <2>4 DEF Places
    <3>2. ASSUME NEW r \in Places PROVE In(x, r)' <=> r = "inflight"
      <4>1. r # "sqes" => ~In(x, r)
        BY <2>1, <2>4
      <4> QED BY <1>1, <1>4, <2>2, <3>1, <4>1 DEF In, Places
    <3> QED BY <3>2 DEF InOnePlace, Places
  <2>5. CASE p # "sqes"
    <3>1. x \notin ToSet(sqes)
      BY <2>1, <2>3, <2>5 DEF Places
    <3>2. ASSUME NEW r \in Places PROVE In(x, r)' <=> In(x, r)
      BY <1>1, <1>4, <2>2, <3>1 DEF In, Places
    <3> QED BY <2>1, <3>2 DEF InOnePlace
  <2> QED BY <2>4, <2>5
<1>7. Submits
  <2>1. CqEntries' = CqEntries
    BY <1>1 DEF CqEntries, CqSeq
  <2> QED BY <1>1, <1>4, <2>1 DEF Submits, In, Places
<1> QED BY <1>3, <1>5, <1>6, <1>7 DEF IInv

\* An empty pop moves no entry, and the next worker is a worker.
LEMMA PopEmptyStep ==
    ASSUME IInv, reader_pop_empty
    PROVE  IInv' /\ Stays
<1>1. /\ rpc \in {"pop", "check"} /\ rpc' = "check"
      /\ idle' = IF batch # <<>> THEN idle + 1 ELSE idle
      /\ rr' = (rr + 1) % NWorkers
      /\ UNCHANGED <<free, ready, completed, held, lost, opening, batch, sqes, inflight, cq,
                     responding, errs, up, fdOpen, crashed>>
  BY DEF reader_pop_empty, AtPop, NextWorker, IdleAfterEmptyPop, lists, workerVars, ringVars
<1>2. rr' \in Workers /\ idle' \in Nat
  BY <1>1, LoaderAssumption DEF IInv, ListsTypeOK, Workers
<1>3. ListsTypeOK'
  BY <1>1, <1>2 DEF IInv, ListsTypeOK
<1>4. OwnLists' /\ Hands' /\ NoneTwice'
  BY <1>1 DEF IInv, OwnLists, Hands, NoneTwice, CqSeq
<1>5. Stays
  BY <1>1 DEF Stays, In, Places, CqEntries, CqSeq
<1> QED BY <1>3, <1>4, <1>5, StayKeepsOnePlace DEF IInv

\* A pop moves an entry from the ready list into the reader's hands.
LEMMA PopStep ==
    ASSUME IInv, reader_pop
    PROVE  IInv' /\ MovesFrom(Head(ready[rr]), "ready", "opening")
<1> DEFINE e == Head(ready[rr])
<1>1. /\ rpc \in {"pop", "check"} /\ rpc' = "open"
      /\ ready[rr] # <<>>
      /\ ready' = [ready EXCEPT ![rr] = Tail(@)]
      /\ opening' = {e}
      /\ idle' = 0
      /\ rr' = (rr + 1) % NWorkers
      /\ UNCHANGED <<free, completed, held, lost, batch, sqes, inflight, cq,
                     responding, errs, up, fdOpen, crashed>>
  BY DEF reader_pop, AtPop, NextWorker, workerVars, ringVars
<1>2. Queues(Workers, Entry, ready) /\ rr \in Workers
  BY DEF IInv, ListsTypeOK, NoneTwice, Queues
<1>3. e \in Entry /\ Queues(Workers, Entry, ready') /\ Loses(Workers, ready, rr, e, ready')
  BY <1>1, <1>2, PopOne
<1> HIDE DEF e
<1>4. Owner(e) = rr
  BY <1>2, <1>3 DEF IInv, OwnLists, Loses
<1>5. In(e, "ready") /\ opening = {}
  BY <1>1, <1>3, <1>4 DEF IInv, Hands, In, Places, Loses
<1>6. rr' \in Workers
  BY <1>1, <1>2, LoaderAssumption DEF Workers
<1>7. ListsTypeOK'
  BY <1>1, <1>3, <1>6 DEF IInv, ListsTypeOK, Queues
<1>8. OwnLists'
  BY <1>1, <1>2, <1>3, <1>4 DEF IInv, OwnLists, Loses
<1>9. Hands' /\ NoneTwice'
  BY <1>1, <1>3 DEF IInv, Hands, NoneTwice, CqSeq, Queues
<1>10. Moves(e, "ready", "opening")
  <2> SUFFICES ASSUME NEW x \in Entry, NEW r \in Places
               PROVE  In(x, r)' <=> IF x = e THEN r = "opening" ELSE In(x, r)
    BY DEF Moves
  <2>1. Owner(x) \in Workers
    BY EntryFacts
  <2>2. x \in ToSet(ready'[Owner(x)]) <=> x \in ToSet(ready[Owner(x)]) /\ x # e
    <3>1. CASE Owner(x) = rr
      BY <1>3, <3>1 DEF Loses
    <3>2. CASE Owner(x) # rr
      BY <1>3, <1>4, <2>1, <3>2 DEF Loses
    <3> QED BY <3>1, <3>2
  <2>3. CqEntries' = CqEntries
    BY <1>1 DEF CqEntries, CqSeq
  <2>4. x = e => (In(x, r) <=> r = "ready")
    BY <1>3, <1>5, OnlyPlace DEF IInv, Places
  <2> QED BY <1>1, <1>5, <2>2, <2>3, <2>4 DEF In, Places
<1>11. \A x \in Entry : InOnePlace(x)'
  BY <1>3, <1>10, MoveKeepsOnePlace DEF IInv, Places
<1>12. MovesFrom(e, "ready", "opening")
  BY <1>3, <1>5, <1>10 DEF MovesFrom
<1> QED BY <1>7, <1>8, <1>9, <1>11, <1>12 DEF IInv, e

\* An opened entry moves from the reader's hands to the batch.
LEMMA OpenStep ==
    ASSUME IInv, NEW e \in opening, reader_open(e)
    PROVE  IInv' /\ MovesFrom(e, "opening", "batch")
<1>1. /\ rpc = "open" /\ rpc' = "check"
      /\ fdOpen' = fdOpen \union {e}
      /\ batch' = Append(batch, e)
      /\ opening' = {}
      /\ UNCHANGED <<free, ready, completed, held, lost, rr, idle, sqes, inflight, cq,
                     responding, errs, up, crashed>>
  BY DEF reader_open, lists, workerVars, ringVars
<1>2. e \in Entry /\ opening = {e} /\ batch \in Seq(Entry) /\ IsInjective(batch)
  BY <1>1 DEF IInv, ListsTypeOK, NoneTwice, Hands
<1>3. In(e, "opening") /\ e \notin ToSet(batch)
  BY <1>2, OnlyPlace DEF IInv, In, Places
<1>4. /\ batch' \in Seq(Entry) /\ IsInjective(batch')
      /\ ToSet(batch') = ToSet(batch) \union {e}
  BY <1>1, <1>2, <1>3, AppendElems
<1>5. ListsTypeOK'
  BY <1>1, <1>2, <1>4 DEF IInv, ListsTypeOK
<1>6. OwnLists' /\ Hands' /\ NoneTwice'
  BY <1>1, <1>4 DEF IInv, OwnLists, Hands, NoneTwice, CqSeq
<1>7. Moves(e, "opening", "batch")
  <2> SUFFICES ASSUME NEW x \in Entry, NEW r \in Places
               PROVE  In(x, r)' <=> IF x = e THEN r = "batch" ELSE In(x, r)
    BY DEF Moves
  <2>1. CqEntries' = CqEntries
    BY <1>1 DEF CqEntries, CqSeq
  <2>2. x = e => (In(x, r) <=> r = "opening")
    BY <1>2, <1>3, OnlyPlace DEF IInv, Places
  <2> QED BY <1>1, <1>2, <1>4, <2>1, <2>2 DEF In, Places
<1>8. \A x \in Entry : InOnePlace(x)'
  BY <1>2, <1>7, MoveKeepsOnePlace DEF IInv, Places
<1>9. MovesFrom(e, "opening", "batch")
  BY <1>2, <1>3, <1>7 DEF MovesFrom
<1> QED BY <1>5, <1>6, <1>8, <1>9 DEF IInv

\* An entry that cannot be opened moves from the reader's hands to the ready list.
LEMMA OpenFailsStep ==
    ASSUME IInv, NEW e \in opening, reader_open_fails(e)
    PROVE  IInv' /\ MovesFrom(e, "opening", "ready")
<1>1. /\ rpc = "open" /\ rpc' = "check"
      /\ ready' = [ready EXCEPT ![Owner(e)] = Append(@, e)]
      /\ opening' = {}
      /\ UNCHANGED <<free, completed, held, lost, rr, idle, batch, sqes, inflight, cq,
                     responding, errs, up, fdOpen, crashed>>
  BY DEF reader_open_fails, Requeued, workerVars, ringVars
<1>2. e \in Entry /\ opening = {e} /\ Owner(e) \in Workers /\ Queues(Workers, Entry, ready)
  BY <1>1, EntryFacts DEF IInv, ListsTypeOK, NoneTwice, Hands, Queues
<1>3. In(e, "opening") /\ e \notin ToSet(ready[Owner(e)])
  BY <1>2, OnlyPlace DEF IInv, In, Places
<1>4. Queues(Workers, Entry, ready') /\ Gains(Workers, ready, Owner(e), e, ready')
  BY <1>1, <1>2, <1>3, PushOne
<1>5. ListsTypeOK'
  BY <1>1, <1>4 DEF IInv, ListsTypeOK, Queues
<1>6. OwnLists'
  BY <1>1, <1>2, <1>4 DEF IInv, OwnLists, Gains
<1>7. Hands' /\ NoneTwice'
  BY <1>1, <1>4 DEF IInv, Hands, NoneTwice, CqSeq, Queues
<1>8. Moves(e, "opening", "ready")
  <2> SUFFICES ASSUME NEW x \in Entry, NEW r \in Places
               PROVE  In(x, r)' <=> IF x = e THEN r = "ready" ELSE In(x, r)
    BY DEF Moves
  <2>1. Owner(x) \in Workers
    BY EntryFacts
  <2>2. x \in ToSet(ready'[Owner(x)]) <=> x \in ToSet(ready[Owner(x)]) \/ x = e
    <3>1. CASE Owner(x) = Owner(e)
      BY <1>4, <3>1 DEF Gains
    <3>2. CASE Owner(x) # Owner(e)
      BY <1>4, <2>1, <3>2 DEF Gains
    <3> QED BY <3>1, <3>2
  <2>3. CqEntries' = CqEntries
    BY <1>1 DEF CqEntries, CqSeq
  <2>4. x = e => (In(x, r) <=> r = "opening")
    BY <1>2, <1>3, OnlyPlace DEF IInv, Places
  <2> QED BY <1>1, <1>2, <2>2, <2>3, <2>4 DEF In, Places
<1>9. \A x \in Entry : InOnePlace(x)'
  BY <1>2, <1>8, MoveKeepsOnePlace DEF IInv, Places
<1>10. MovesFrom(e, "opening", "ready")
  BY <1>2, <1>3, <1>8 DEF MovesFrom
<1> QED BY <1>5, <1>6, <1>7, <1>9, <1>10 DEF IInv

\* The entries of the completion queue, as a queue.
LEMMA CqFacts ==
    ASSUME ListsTypeOK
    PROVE  /\ CqSeq \in Seq(Entry)
           /\ Len(CqSeq) = Len(cq)
           /\ cq # <<>> => CqSeq # <<>> /\ Head(CqSeq) = Head(cq).entry
           /\ \A e \in Entry, b \in BOOLEAN :
                cq' = Append(cq, [entry |-> e, ok |-> b]) => CqSeq' = Append(CqSeq, e)
           /\ cq # <<>> /\ cq' = Tail(cq) => CqSeq' = Tail(CqSeq)
<1>1. cq \in Seq([entry : Entry, ok : BOOLEAN]) /\ DOMAIN cq = 1 .. Len(cq) /\ Len(cq) \in Nat
  BY DEF ListsTypeOK
<1>2. CqSeq \in Seq(Entry) /\ Len(CqSeq) = Len(cq) /\ \A i \in 1 .. Len(cq) : CqSeq[i] = cq[i].entry
  <2>1. \A i \in 1 .. Len(cq) : cq[i] \in [entry : Entry, ok : BOOLEAN]
    BY <1>1, ElementsIn
  <2>2. \A i \in 1 .. Len(cq) : cq[i].entry \in Entry
    BY <2>1
  <2>3. CqSeq = [i \in 1 .. Len(cq) |-> cq[i].entry]
    BY <1>1 DEF CqSeq
  <2>4. CqSeq \in [1 .. Len(cq) -> Entry]
    BY <2>2, <2>3
  <2>5. CqSeq \in Seq(Entry)
    BY <1>1, <2>4
  <2> QED BY <1>1, <2>3, <2>5
<1>3. cq # <<>> => CqSeq # <<>> /\ Head(CqSeq) = Head(cq).entry
  BY <1>1, <1>2
<1>4. ASSUME NEW e \in Entry, NEW b \in BOOLEAN, cq' = Append(cq, [entry |-> e, ok |-> b])
      PROVE  CqSeq' = Append(CqSeq, e)
  <2>1. /\ DOMAIN cq' = 1 .. (Len(cq) + 1)
        /\ \A i \in 1 .. Len(cq) : cq'[i] = cq[i]
        /\ cq'[Len(cq) + 1].entry = e
    BY <1>1, <1>4
  <2>2. CqSeq' = [i \in 1 .. (Len(cq) + 1) |-> cq'[i].entry]
    BY <2>1 DEF CqSeq
  <2>3. \A i \in 1 .. (Len(cq) + 1) : cq'[i].entry \in Entry
    <3>1. \A i \in 1 .. Len(cq) : CqSeq[i] \in Entry
      BY <1>2, ElementsIn
    <3> QED BY <1>1, <1>2, <2>1, <3>1
  <2>4. CqSeq' \in Seq(Entry) /\ Len(CqSeq') = Len(cq) + 1
    <3>1. CqSeq' \in [1 .. (Len(cq) + 1) -> Entry]
      BY <2>2, <2>3
    <3> QED BY <1>1, <2>2, <3>1
  <2> DEFINE t == Append(CqSeq, e)
  <2>5. /\ t \in Seq(Entry) /\ Len(t) = Len(cq) + 1
        /\ \A i \in 1 .. Len(cq) : t[i] = CqSeq[i]
        /\ t[Len(cq) + 1] = e
    BY <1>2
  <2> HIDE DEF t
  <2>6. \A i \in 1 .. (Len(cq) + 1) : CqSeq'[i] = t[i]
    BY <1>1, <1>2, <2>1, <2>2, <2>5
  <2>7. CqSeq' = t
    BY <2>4, <2>5, <2>6, SameSeq
  <2> QED BY <2>7 DEF t
<1>5. ASSUME cq # <<>>, cq' = Tail(cq) PROVE CqSeq' = Tail(CqSeq)
  <2>1. /\ DOMAIN cq' = 1 .. (Len(cq) - 1)
        /\ \A i \in 1 .. (Len(cq) - 1) : cq'[i] = cq[i + 1]
        /\ Len(cq) - 1 \in Nat
    BY <1>1, <1>5
  <2>2. CqSeq' = [i \in 1 .. (Len(cq) - 1) |-> cq'[i].entry]
    BY <2>1 DEF CqSeq
  <2>3. \A i \in 1 .. (Len(cq) - 1) : i + 1 \in 1 .. Len(cq) /\ cq'[i].entry = CqSeq[i + 1]
    BY <1>1, <1>2, <2>1
  <2>4. CqSeq' \in Seq(Entry) /\ Len(CqSeq') = Len(cq) - 1
    <3>1. \A i \in 1 .. (Len(cq) - 1) : cq'[i].entry \in Entry
      BY <1>2, <2>3
    <3>2. CqSeq' \in [1 .. (Len(cq) - 1) -> Entry]
      BY <2>2, <3>1
    <3> QED BY <2>1, <2>2, <3>2
  <2> DEFINE t == Tail(CqSeq)
  <2>5. /\ t \in Seq(Entry) /\ Len(t) = Len(cq) - 1
        /\ \A i \in 1 .. (Len(cq) - 1) : t[i] = CqSeq[i + 1]
    BY <1>2, <1>3, <1>5
  <2> HIDE DEF t
  <2>6. \A i \in 1 .. (Len(cq) - 1) : CqSeq'[i] = t[i]
    BY <2>2, <2>3, <2>5
  <2>7. CqSeq' = t
    BY <2>4, <2>5, <2>6, SameSeq
  <2> QED BY <2>7 DEF t
<1> QED BY <1>2, <1>3, <1>4, <1>5

\* The kernel completes a read, successfully or not.
LEMMA KernelStep ==
    ASSUME IInv, NEW e \in inflight, kernel_read(e) \/ kernel_read_fails(e)
    PROVE  IInv' /\ MovesFrom(e, "inflight", "cq")
<1>1. PICK b \in BOOLEAN :
      /\ inflight' = inflight \ {e}
      /\ cq' = Append(cq, [entry |-> e, ok |-> b])
      /\ UNCHANGED <<free, ready, completed, held, lost, rpc, rr, idle, opening, batch, sqes,
                     responding, errs, up, fdOpen, crashed>>
  BY DEF kernel_read, kernel_read_fails, lists, workerVars, readerVars
<1>2. ListsTypeOK /\ e \in Entry /\ CqSeq \in Seq(Entry) /\ IsInjective(CqSeq)
  BY CqFacts DEF IInv, ListsTypeOK, NoneTwice
<1>3. CqSeq' = Append(CqSeq, e)
  BY <1>1, <1>2, CqFacts
<1>4. In(e, "inflight") /\ e \notin CqEntries
  BY <1>2, OnlyPlace DEF IInv, In, Places
<1>5. IsInjective(CqSeq') /\ CqEntries' = CqEntries \union {e}
  BY <1>2, <1>3, <1>4, AppendElems DEF CqEntries
<1>6. ListsTypeOK'
  <2>1. cq' \in Seq([entry : Entry, ok : BOOLEAN])
    <3>1. [entry |-> e, ok |-> b] \in [entry : Entry, ok : BOOLEAN]
      BY <1>2
    <3> QED BY <1>1, <1>2, <3>1 DEF ListsTypeOK
  <2> QED BY <1>1, <1>2, <2>1 DEF ListsTypeOK
<1>7. OwnLists' /\ Hands' /\ NoneTwice'
  BY <1>1, <1>5 DEF IInv, OwnLists, Hands, NoneTwice
<1>8. Moves(e, "inflight", "cq")
  <2> SUFFICES ASSUME NEW x \in Entry, NEW r \in Places
               PROVE  In(x, r)' <=> IF x = e THEN r = "cq" ELSE In(x, r)
    BY DEF Moves
  <2>1. x = e => (In(x, r) <=> r = "inflight")
    BY <1>2, <1>4, OnlyPlace DEF IInv, Places
  <2> QED BY <1>1, <1>5, <2>1 DEF In, Places
<1>9. \A x \in Entry : InOnePlace(x)'
  BY <1>2, <1>8, MoveKeepsOnePlace DEF IInv, Places
<1>10. MovesFrom(e, "inflight", "cq")
  BY <1>2, <1>4, <1>8 DEF MovesFrom
<1> QED BY <1>6, <1>7, <1>9, <1>10 DEF IInv

\* The responder takes the head of the completion queue.
LEMMA RespondSeenStep ==
    ASSUME IInv, respond_seen
    PROVE  IInv' /\ MovesFrom(Head(cq).entry, "cq", "responding")
<1> DEFINE e == Head(cq).entry
<1>1. /\ cq # <<>>
      /\ cq' = Tail(cq)
      /\ responding = {}
      /\ responding' = {e}
      /\ fdOpen' = fdOpen \ {e}
      /\ UNCHANGED <<free, ready, completed, held, lost, rpc, rr, idle, opening, batch, sqes,
                     inflight, errs, up, crashed>>
  BY DEF respond_seen, lists, workerVars, readerVars
<1>2. /\ ListsTypeOK /\ CqSeq \in Seq(Entry) /\ IsInjective(CqSeq)
      /\ CqSeq # <<>> /\ Head(CqSeq) = e
  BY <1>1, CqFacts DEF IInv, NoneTwice
<1> HIDE DEF e
<1>3. CqSeq' = Tail(CqSeq)
  BY <1>1, <1>2, CqFacts
<1>4. /\ e \in Entry /\ e \in CqEntries
      /\ CqEntries' = CqEntries \ {e}
      /\ IsInjective(CqSeq')
  BY <1>2, <1>3, TailElems DEF CqEntries
<1>5. In(e, "cq")
  BY <1>4 DEF In
<1>6. ListsTypeOK'
  <2>1. cq' \in Seq([entry : Entry, ok : BOOLEAN])
    BY <1>1, <1>2 DEF ListsTypeOK
  <2> QED BY <1>1, <1>2, <1>4, <2>1 DEF ListsTypeOK
<1>7. OwnLists' /\ Hands' /\ NoneTwice'
  BY <1>1, <1>4 DEF IInv, OwnLists, Hands, NoneTwice
<1>8. Moves(e, "cq", "responding")
  <2> SUFFICES ASSUME NEW x \in Entry, NEW r \in Places
               PROVE  In(x, r)' <=> IF x = e THEN r = "responding" ELSE In(x, r)
    BY DEF Moves
  <2>1. x = e => (In(x, r) <=> r = "cq")
    BY <1>4, <1>5, OnlyPlace DEF IInv, Places
  <2> QED BY <1>1, <1>4, <2>1 DEF In, Places
<1>9. \A x \in Entry : InOnePlace(x)'
  BY <1>4, <1>8, MoveKeepsOnePlace DEF IInv, Places
<1>10. MovesFrom(e, "cq", "responding")
  BY <1>4, <1>5, <1>8 DEF MovesFrom
<1> QED BY <1>6, <1>7, <1>9, <1>10 DEF IInv, e

\* The responder pushes the entry it took to its worker's completed list.
LEMMA RespondPushStep ==
    ASSUME IInv, NEW e \in responding, respond_push(e)
    PROVE  IInv' /\ MovesFrom(e, "responding", "completed")
<1>1. /\ responding' = {}
      /\ completed' = [completed EXCEPT ![Owner(e)] = Append(@, e)]
      /\ UNCHANGED <<free, ready, held, lost, rpc, rr, idle, opening, batch, sqes,
                     inflight, cq, errs, up, fdOpen, crashed>>
  BY DEF respond_push, workerVars, readerVars
<1>2. /\ e \in Entry /\ Owner(e) \in Workers
      /\ responding = {e}
      /\ Queues(Workers, Entry, completed)
  BY EntryFacts DEF IInv, ListsTypeOK, NoneTwice, Hands, Queues
<1>3. In(e, "responding") /\ e \notin ToSet(completed[Owner(e)])
  BY <1>2, OnlyPlace DEF IInv, In, Places
<1>4. Queues(Workers, Entry, completed') /\ Gains(Workers, completed, Owner(e), e, completed')
  BY <1>1, <1>2, <1>3, PushOne
<1>5. ListsTypeOK'
  BY <1>1, <1>4 DEF IInv, ListsTypeOK, Queues
<1>6. OwnLists'
  BY <1>1, <1>2, <1>4 DEF IInv, OwnLists, Gains
<1>7. Hands' /\ NoneTwice'
  BY <1>1, <1>4 DEF IInv, Hands, NoneTwice, CqSeq, Queues
<1>8. Moves(e, "responding", "completed")
  <2> SUFFICES ASSUME NEW x \in Entry, NEW r \in Places
               PROVE  In(x, r)' <=> IF x = e THEN r = "completed" ELSE In(x, r)
    BY DEF Moves
  <2>1. Owner(x) \in Workers
    BY EntryFacts
  <2>2. x \in ToSet(completed'[Owner(x)]) <=> x \in ToSet(completed[Owner(x)]) \/ x = e
    <3>1. CASE Owner(x) = Owner(e)
      BY <1>4, <3>1 DEF Gains
    <3>2. CASE Owner(x) # Owner(e)
      BY <1>4, <2>1, <3>2 DEF Gains
    <3> QED BY <3>1, <3>2
  <2>3. CqEntries' = CqEntries
    BY <1>1 DEF CqEntries, CqSeq
  <2>4. x = e => (In(x, r) <=> r = "responding")
    BY <1>2, <1>3, OnlyPlace DEF IInv, Places
  <2> QED BY <1>1, <1>2, <2>2, <2>3, <2>4 DEF In, Places
<1>9. \A x \in Entry : InOnePlace(x)'
  BY <1>2, <1>8, MoveKeepsOnePlace DEF IInv, Places
<1>10. MovesFrom(e, "responding", "completed")
  BY <1>2, <1>3, <1>8 DEF MovesFrom
<1> QED BY <1>5, <1>6, <1>7, <1>9, <1>10 DEF IInv

\* The responder looks at a failed completion and leaves it where it is.
LEMMA RespondErrorStep ==
    ASSUME IInv, respond_error
    PROVE  IInv' /\ Stays
<1>1. /\ errs' = errs + 1
      /\ up' = (errs <= MaxIoErrors)
      /\ UNCHANGED <<free, ready, completed, held, lost, rpc, rr, idle, opening, batch, sqes,
                     inflight, cq, responding, fdOpen, crashed>>
  BY DEF respond_error, CqAfterError, lists, workerVars, readerVars
<1>2. ListsTypeOK'
  BY <1>1 DEF IInv, ListsTypeOK
<1>3. OwnLists' /\ Hands' /\ NoneTwice'
  BY <1>1 DEF IInv, OwnLists, Hands, NoneTwice, CqSeq
<1>4. Stays
  BY <1>1 DEF Stays, In, Places, CqEntries, CqSeq
<1> QED BY <1>2, <1>3, <1>4, StayKeepsOnePlace DEF IInv

\* A stuttering step.
LEMMA StutterStep ==
    ASSUME IInv, UNCHANGED vars
    PROVE  IInv' /\ Stays
<1>1. UNCHANGED <<free, ready, completed, held, lost, rpc, rr, idle, opening, batch, sqes,
                  inflight, cq, responding, errs, up, fdOpen, crashed>>
  BY DEF vars, lists, workerVars, readerVars, ringVars
<1>2. ListsTypeOK'
  BY <1>1 DEF IInv, ListsTypeOK
<1>3. OwnLists' /\ Hands' /\ NoneTwice'
  BY <1>1 DEF IInv, OwnLists, Hands, NoneTwice, CqSeq
<1>4. Stays
  BY <1>1 DEF Stays, In, Places, CqEntries, CqSeq
<1> QED BY <1>2, <1>3, <1>4, StayKeepsOnePlace DEF IInv

-----------------------------------------------------------------------------

\* Every step of the loader, its workers and the kernel keeps the invariant.
THEOREM NextIInv == IInv /\ [Next]_vars => IInv'
<1> SUFFICES ASSUME IInv, [Next]_vars PROVE IInv'
  OBVIOUS
<1>1. CASE \E w \in Workers : Worker(w)
  <2>1. PICK w \in Workers : Worker(w)
    BY <1>1
  <2>2. ASSUME NEW f \in File, async_try_request(w, f) PROVE IInv'
    BY <2>2, RequestStep
  <2>3. CASE async_try_get(w)
    BY <2>3, GetStep
  <2>4. CASE async_try_get_aborts(w)
    BY <2>4, GetAbortsStep
  <2>5. ASSUME NEW e \in held[w], async_release(w, e) PROVE IInv'
    BY <2>5, ReleaseStep
  <2> QED BY <2>1, <2>2, <2>3, <2>4, <2>5 DEF Worker
<1>2. CASE Reader
  <2>1. ASSUME NEW e \in opening, reader_open(e) \/ reader_open_fails(e) PROVE IInv'
    BY <2>1, OpenStep, OpenFailsStep
  <2> QED BY <1>2, <2>1, DispatchStep, PerformIoStep, PerformIoFailsStep, SubmitStep,
             PopEmptyStep, PopStep DEF Reader
<1>3. CASE Kernel
  BY <1>3, KernelStep DEF Kernel
<1>4. CASE Responder
  <2>1. ASSUME NEW e \in responding, respond_push(e) PROVE IInv'
    BY <2>1, RespondPushStep
  <2> QED BY <1>4, <2>1, RespondSeenStep, RespondErrorStep DEF Responder
<1>5. CASE UNCHANGED vars
  BY <1>5, StutterStep
<1> QED BY <1>1, <1>2, <1>3, <1>4, <1>5 DEF Next

\* The invariant holds in every reachable state.
THEOREM IInvHolds == Spec => []IInv
<1>1. Init => IInv
  BY InitIInv
<1>2. IInv /\ [Next]_vars => IInv'
  BY NextIInv
<1> QED BY <1>1, <1>2, PTL DEF Spec

\* The status lists, the io_uring and the hands of reader, responder and
\* workers partition the entries, whatever the number of workers, the queue
\* depth, the dispatch size and the failures: no entry is lost, and none is
\* linked twice (async.h, status lists).
THEOREM OnePlace == Spec => []EachEntryInOnePlace
<1>1. IInv => EachEntryInOnePlace
  BY DEF IInv, InOnePlace, EachEntryInOnePlace
<1> QED BY <1>1, IInvHolds, PTL

\* The state of the lists, the reader, the responder and the ring is always of
\* its type; in particular the reader's index stays a worker's.
THEOREM ListsTypeCorrect == Spec => []ListsTypeOK
<1>1. IInv => ListsTypeOK
  BY DEF IInv
<1> QED BY <1>1, IInvHolds, PTL

-----------------------------------------------------------------------------
(* The sorting queue never grows past dispatch_n.                          *)

\* The reader only goes to open an entry when there is room for it.
BatchInv ==
    DispatchN > 0 =>
        /\ Len(batch) <= DispatchN
        /\ rpc = "open" => Len(batch) < DispatchN
        /\ rpc = "pop" => batch = <<>>

\* A dispatch reorders the sorting queue and leaves its length.
LEMMA SortKeepsLength ==
    ASSUME NEW s \in Seq(Entry), NEW t \in SortedByLba(s)
    PROVE  Len(t) = Len(s)
<1>1. t \in [1 .. Len(s) -> ToSet(s)]
  BY DEF SortedByLba
<1>2. t \in Seq(ToSet(s)) /\ DOMAIN t = 1 .. Len(s)
  BY <1>1
<1> QED BY <1>2

\* Every step keeps it.
LEMMA NextBatchInv == IInv /\ BatchInv /\ [Next]_vars => BatchInv'
<1> SUFFICES ASSUME IInv, BatchInv, [Next]_vars, DispatchN > 0 PROVE BatchInv'
  BY DEF BatchInv
<1>1. /\ batch \in Seq(Entry) /\ Len(batch) \in Nat
      /\ DispatchN \in Nat
      /\ Len(batch) <= DispatchN
      /\ rpc = "open" => Len(batch) < DispatchN
      /\ rpc = "pop" => batch = <<>>
  BY LoaderAssumption DEF IInv, ListsTypeOK, BatchInv
<1>2. batch # <<>> => Len(Tail(batch)) <= DispatchN
  BY <1>1
<1>3. CASE reader_dispatch
  <2>1. batch' \in SortedByLba(batch) /\ rpc' = "issue"
    BY <1>3 DEF reader_dispatch
  <2>2. Len(batch') = Len(batch)
    BY <1>1, <2>1, SortKeepsLength
  <2> QED BY <1>1, <2>1, <2>2 DEF BatchInv
<1>4. CASE perform_io \/ perform_io_fails
  <2>1. batch # <<>> /\ batch' = Tail(batch) /\ rpc = "issue" /\ rpc' = rpc
    BY <1>4 DEF perform_io, perform_io_fails, Issuing
  <2> QED BY <1>2, <2>1 DEF BatchInv
<1>5. CASE reader_submit
  <2>1. batch = <<>> /\ batch' = batch /\ rpc' = "pop"
    BY <1>5 DEF reader_submit
  <2> QED BY <1>1, <2>1 DEF BatchInv
<1>6. CASE reader_pop_empty \/ reader_pop
  <2>1. batch' = batch /\ rpc' \in {"check", "open"} /\ AtPop
    BY <1>6 DEF reader_pop_empty, reader_pop
  <2>2. Len(batch) < DispatchN
    <3>1. CASE rpc = "pop"
      BY <1>1, <3>1
    <3>2. CASE ~NeedsDispatch
      BY <1>1, <3>2 DEF NeedsDispatch
    <3> QED BY <2>1, <3>1, <3>2 DEF AtPop
  <2> QED BY <1>1, <2>1, <2>2 DEF BatchInv
<1>7. ASSUME NEW e \in opening, reader_open(e) PROVE BatchInv'
  <2>1. batch' = Append(batch, e) /\ rpc = "open" /\ rpc' = "check"
    BY <1>7 DEF reader_open
  <2>2. e \in Entry
    BY DEF IInv, ListsTypeOK
  <2>3. Len(batch') = Len(batch) + 1
    BY <1>1, <2>1, <2>2
  <2> QED BY <1>1, <2>1, <2>3 DEF BatchInv
<1>8. ASSUME NEW e \in opening, reader_open_fails(e) PROVE BatchInv'
  BY <1>1, <1>8 DEF reader_open_fails, BatchInv
<1>9. CASE UNCHANGED <<batch, rpc>>
  BY <1>1, <1>9 DEF BatchInv
<1>10. Kernel \/ Responder \/ (\E w \in Workers : Worker(w)) => UNCHANGED <<batch, rpc>>
  BY DEF Kernel, Responder, Worker, kernel_read, kernel_read_fails, respond_seen, respond_push,
         respond_error, async_try_request, async_try_get, async_try_get_aborts, async_release,
         readerVars
<1>11. UNCHANGED vars => UNCHANGED <<batch, rpc>>
  BY DEF vars, readerVars
<1> QED BY <1>3, <1>4, <1>5, <1>6, <1>7, <1>8, <1>9, <1>10, <1>11 DEF Next, Reader

\* The dispatch test is "n_queued == dispatch_n" (async.c:290), so a batch that
\* ever passed dispatch_n would not be issued for being full: it never does.
THEOREM BatchBounded == Spec => []BatchNeverOvershoots
<1>1. Init => BatchInv
  BY LoaderAssumption DEF Init, BatchInv
<1>2. IInv /\ BatchInv /\ [Next]_vars => BatchInv'
  BY NextBatchInv
<1>3. BatchInv => BatchNeverOvershoots
  BY DEF BatchInv, BatchNeverOvershoots
<1> QED BY <1>1, <1>2, <1>3, IInvHolds, PTL DEF Spec

-----------------------------------------------------------------------------
(* The refinement of LoaderService.                                        *)

\* What the variables of the service stand for.
Statuses == [e \in Entry |-> StatusOf(e)]
Files == [e \in Entry |-> IF In(e, "free") THEN None ELSE path[e]]

\* The status of an entry whose place is p.
StatusAt(p) == CASE p = "free"                  -> "free"
                 [] p \in {"completed", "lost"} -> "completed"
                 [] p = "held"                  -> "held"
                 [] OTHER                       -> "requested"

\* Every entry has a path; the rest of the invariant is IInv.
RInv == IInv /\ DOMAIN path = Entry

\* An entry in one place has the status of that place.
LEMMA StatusOfPlace ==
    ASSUME NEW e \in Entry, NEW p \in Places, \A q \in Places : In(e, q) <=> q = p
    PROVE  StatusOf(e) = StatusAt(p)
BY DEF StatusOf, StatusAt, Places

\* A moving entry takes the status of its new place, the others keep theirs.
LEMMA MoveStatus ==
    ASSUME IInv, NEW e, NEW p \in Places, NEW q \in Places, MovesFrom(e, p, q)
    PROVE  /\ e \in Entry
           /\ Statuses[e] = StatusAt(p)
           /\ Statuses' = [Statuses EXCEPT ![e] = StatusAt(q)]
           /\ \A x \in Entry : In(x, "free")' <=> IF x = e THEN q = "free" ELSE In(x, "free")
           /\ In(e, "free") <=> p = "free"
<1>1. e \in Entry /\ In(e, p)
  BY DEF MovesFrom
<1>2. \A r \in Places : In(e, r) <=> r = p
  BY <1>1, OnlyPlace DEF IInv
<1>3. StatusOf(e) = StatusAt(p)
  BY <1>1, <1>2, StatusOfPlace
<1>4. \A x \in Entry : \A r \in Places : In(x, r)' <=> IF x = e THEN r = q ELSE In(x, r)
  BY DEF MovesFrom, Moves
<1>5. StatusOf(e)' = StatusAt(q)
  <2>1. \A r \in Places : In(e, r)' <=> r = q
    BY <1>1, <1>4
  <2> QED BY <2>1 DEF StatusOf, StatusAt, Places
<1>6. \A x \in Entry : x # e => StatusOf(x)' = StatusOf(x)
  <2>1. SUFFICES ASSUME NEW x \in Entry, x # e PROVE StatusOf(x)' = StatusOf(x)
    OBVIOUS
  <2>2. \A r \in Places : In(x, r)' <=> In(x, r)
    BY <1>4, <2>1
  <2> QED BY <2>2 DEF StatusOf, Places
<1>7. Statuses' = [Statuses EXCEPT ![e] = StatusAt(q)]
  BY <1>1, <1>5, <1>6 DEF Statuses
<1>8. "free" \in Places
  BY DEF Places
<1> QED BY <1>1, <1>2, <1>3, <1>4, <1>7, <1>8 DEF Statuses

\* A step that leaves what the workers can see is none of the service's.
LEMMA HiddenStep ==
    ASSUME UNCHANGED <<free, completed, held, lost, path>>
    PROVE  UNCHANGED <<Statuses, Files>>
BY DEF Statuses, Files, StatusOf, In

\* At the beginning every entry is on its free list.
LEMMA InitAllFree ==
    ASSUME Init
    PROVE  \A e \in Entry : \A q \in Places : In(e, q) <=> q = "free"
<1>1. SUFFICES ASSUME NEW e \in Entry PROVE \A q \in Places : In(e, q) <=> q = "free"
  OBVIOUS
<1>2. PICK p \in Places : \A q \in Places : In(e, q) <=> q = p
  BY InitIInv DEF IInv, InOnePlace
<1>3. /\ ready[Owner(e)] = <<>> /\ completed[Owner(e)] = <<>> /\ held[Owner(e)] = {}
      /\ batch = <<>> /\ sqes = <<>> /\ cq = <<>>
      /\ opening = {} /\ inflight = {} /\ responding = {} /\ lost = {}
  BY EntryFacts DEF Init
<1>4. CqEntries = {} /\ ToSet(<<>>) = {}
  BY <1>3 DEF CqEntries, CqSeq, ToSet
<1>5. p = "free"
  BY <1>2, <1>3, <1>4 DEF In, Places
<1> QED BY <1>2, <1>5

\* At the beginning every entry is free.
LEMMA InitService == Init => Service!Init /\ RInv
<1> SUFFICES ASSUME Init PROVE Service!Init /\ RInv
  OBVIOUS
<1>1. IInv
  BY InitIInv
<1>2. DOMAIN path = Entry
  BY DEF Init
<1>3. ASSUME NEW e \in Entry PROVE In(e, "free") /\ StatusOf(e) = "free"
  BY InitAllFree, StatusOfPlace DEF StatusAt, Places
<1>4. Service!Init
  BY <1>3 DEF Service!Init
<1> QED BY <1>1, <1>2, <1>4 DEF RInv

\* Every step keeps the invariant and is a step of the service, or none.
LEMMA StepService ==
    ASSUME RInv, [Next]_vars
    PROVE  RInv' /\ [Service!Next]_(Service!vars)
<1> USE DEF RInv
<1>1. IInv'
  BY NextIInv
<1>2. ASSUME UNCHANGED <<free, completed, held, lost, path>>
      PROVE  RInv' /\ [Service!Next]_(Service!vars)
  BY <1>1, <1>2, HiddenStep DEF Statuses, Files, Service!vars
<1>3. ASSUME NEW w \in Workers, NEW f \in File, async_try_request(w, f)
      PROVE  RInv' /\ [Service!Next]_(Service!vars)
  <2> DEFINE e == Head(free[w])
  <2>1. MovesFrom(e, "free", "ready")
    BY <1>3, RequestStep
  <2>2. path' = [path EXCEPT ![e] = f]
    BY <1>3 DEF async_try_request
  <2> HIDE DEF e
  <2>3. /\ e \in Entry /\ Statuses[e] = "free"
        /\ Statuses' = [Statuses EXCEPT ![e] = "requested"]
        /\ \A x \in Entry : In(x, "free")' <=> x # e /\ In(x, "free")
    BY <2>1, MoveStatus DEF StatusAt, Places
  <2>4. Files' = [Files EXCEPT ![e] = f]
    BY <2>2, <2>3 DEF Files
  <2>5. Service!Request(e, f)
    BY <2>3, <2>4 DEF Service!Request, Service!Move, Statuses, Files
  <2>6. DOMAIN path' = Entry
    BY <2>2
  <2> QED BY <1>1, <2>3, <2>5, <2>6 DEF Service!Next
<1>4. ASSUME NEW e, NEW p \in Places, NEW q \in Places, MovesFrom(e, p, q),
             UNCHANGED path, p # "free"
      PROVE  /\ e \in Entry /\ DOMAIN path' = Entry
             /\ Statuses[e] = StatusAt(p) /\ Statuses' = [Statuses EXCEPT ![e] = StatusAt(q)]
             /\ Files' = IF q = "free" THEN [Files EXCEPT ![e] = None] ELSE Files
  <2>1. /\ e \in Entry /\ Statuses[e] = StatusAt(p)
        /\ Statuses' = [Statuses EXCEPT ![e] = StatusAt(q)]
        /\ \A x \in Entry : In(x, "free")' <=> IF x = e THEN q = "free" ELSE In(x, "free")
        /\ ~In(e, "free")
    BY <1>4, MoveStatus
  <2>2. CASE q = "free"
    BY <1>4, <2>1, <2>2 DEF Files
  <2>3. CASE q # "free"
    BY <1>4, <2>1, <2>3 DEF Files
  <2> QED BY <1>4, <2>1, <2>2, <2>3
<1>5. ASSUME NEW w \in Workers, async_try_get(w)
      PROVE  RInv' /\ [Service!Next]_(Service!vars)
  <2> DEFINE e == Head(completed[w])
  <2>1. MovesFrom(e, "completed", "held") /\ UNCHANGED path
    BY <1>5, GetStep DEF async_try_get
  <2> HIDE DEF e
  <2>2. /\ e \in Entry /\ DOMAIN path' = Entry
        /\ Statuses[e] = "completed" /\ Statuses' = [Statuses EXCEPT ![e] = "held"]
        /\ Files' = Files
    BY <1>4, <2>1 DEF StatusAt, Places
  <2>3. Service!Get(e)
    BY <2>2 DEF Service!Get, Service!Move, Statuses, Files
  <2> QED BY <1>1, <2>2, <2>3 DEF Service!Next
<1>6. ASSUME NEW w \in Workers, async_try_get_aborts(w)
      PROVE  RInv' /\ [Service!Next]_(Service!vars)
  <2> DEFINE e == Head(completed[w])
  <2>1. MovesFrom(e, "completed", "lost") /\ UNCHANGED path
    BY <1>6, GetAbortsStep DEF async_try_get_aborts
  <2> HIDE DEF e
  <2>2. /\ e \in Entry /\ DOMAIN path' = Entry
        /\ Statuses[e] = "completed" /\ Statuses' = [Statuses EXCEPT ![e] = "completed"]
        /\ Files' = Files
    BY <1>4, <2>1 DEF StatusAt, Places
  <2>3. Statuses' = Statuses
    BY <2>2 DEF Statuses
  <2> QED BY <1>1, <2>2, <2>3 DEF Service!vars, Statuses, Files
<1>7. ASSUME NEW w \in Workers, NEW e \in held[w], async_release(w, e)
      PROVE  RInv' /\ [Service!Next]_(Service!vars)
  <2>1. MovesFrom(e, "held", "free") /\ UNCHANGED path
    BY <1>7, ReleaseStep DEF async_release
  <2>2. /\ e \in Entry /\ DOMAIN path' = Entry
        /\ Statuses[e] = "held" /\ Statuses' = [Statuses EXCEPT ![e] = "free"]
        /\ Files' = [Files EXCEPT ![e] = None]
    BY <1>4, <2>1 DEF StatusAt, Places
  <2>3. Service!Release(e)
    BY <2>2 DEF Service!Release, Service!Move, Statuses, Files
  <2> QED BY <1>1, <2>2, <2>3 DEF Service!Next
<1>8. ASSUME NEW e \in responding, respond_push(e)
      PROVE  RInv' /\ [Service!Next]_(Service!vars)
  <2>1. MovesFrom(e, "responding", "completed") /\ UNCHANGED path
    BY <1>8, RespondPushStep DEF respond_push, workerVars
  <2>2. /\ e \in Entry /\ DOMAIN path' = Entry
        /\ Statuses[e] = "requested" /\ Statuses' = [Statuses EXCEPT ![e] = "completed"]
        /\ Files' = Files
    BY <1>4, <2>1 DEF StatusAt, Places
  <2>3. Service!Complete(e)
    BY <2>2 DEF Service!Complete, Service!Move, Statuses, Files
  <2> QED BY <1>1, <2>2, <2>3 DEF Service!Next
<1>9. CASE Reader
  BY <1>2, <1>9 DEF Reader, reader_dispatch, perform_io, perform_io_fails, reader_submit,
                    reader_pop_empty, reader_pop, reader_open, reader_open_fails, Requeued,
                    lists, workerVars
<1>10. CASE Kernel \/ respond_seen \/ respond_error \/ UNCHANGED vars
  BY <1>2, <1>10 DEF Kernel, kernel_read, kernel_read_fails, respond_seen, respond_error,
                     vars, lists, workerVars
<1> QED BY <1>3, <1>5, <1>6, <1>7, <1>8, <1>9, <1>10 DEF Next, Worker, Responder

\* Workers cannot tell the loader from the abstract service: a request goes to the
\* reader, comes back completed and is released with its path, and nothing the reader,
\* the responder or the kernel does in between can be seen.
THEOREM LoaderImplementsService == Spec => ImplementsService
<1>1. RInv /\ [Next]_vars => RInv' /\ [Service!Next]_(Service!vars)
  BY StepService
<1> QED BY <1>1, InitService, PTL DEF Spec, ImplementsService, Service!Spec

-----------------------------------------------------------------------------
(* Descriptors, shm names and objects.                                     *)

\* e is in one of the places of S.
At(e, S) == \E p \in S : In(e, p)

\* The fd of an entry is open from the open to the close of its request, its name
\* is linked from the shm_open to the release, and its data is there from the
\* completion of the read.
WithFd == {"batch", "sqes", "inflight", "cq"}
Linked == {"sqes", "inflight", "cq", "responding", "completed", "held"}
Read   == {"responding", "completed", "held"}

Busy(e) == ~In(e, "free")

\* The inductive invariant of the memory and the descriptors.
PathsKnown  == \A e \in Entry : Busy(e) => path[e] \in File
FdsOpen     == \A e \in Entry : e \in fdOpen <=> At(e, WithFd)
NamesNeeded == \A n \in Names : shm[n] # None => \E e \in Entry : Busy(e) /\ Name(e) = n

MemInv == MemoryTypeOK /\ PathsKnown /\ FdsOpen /\ NamesNeeded

\* ... and with names in use by one request at a time.
NamesApart    == \A d, e \in Entry : Busy(d) /\ Busy(e) /\ Name(d) = Name(e) => d = e
NamesBacked   == \A n \in Names : shm[n] # None => \E e \in Entry : At(e, Linked) /\ Name(e) = n
ObjectsLinked == \A e \in Entry : At(e, Linked) => lmap[e] # None /\ lmap[e] = shm[Name(e)]
ObjectsApart  == \A m, n \in Names : shm[m] # None /\ shm[m] = shm[n] => m = n
ObjectsMapped == \A e \in Entry : In(e, "held") => wmap[e] = lmap[e]

HasData(e) == contents[lmap[e]] = path[e]

DataRead == \A e \in Entry : At(e, Read) => HasData(e)
DataDone == \A i \in DOMAIN cq : cq[i].ok => HasData(cq[i].entry)

DataInv ==
    /\ crashed = {}
    /\ NamesApart
    /\ NamesBacked
    /\ ObjectsLinked
    /\ ObjectsApart
    /\ ObjectsMapped
    /\ DataRead
    /\ DataDone

\* What MemInv says of a state, as a place moves.
LEMMA MoveAt ==
    ASSUME IInv, NEW e, NEW p \in Places, NEW q \in Places, MovesFrom(e, p, q)
    PROVE  /\ e \in Entry /\ In(e, p)
           /\ \A S \in SUBSET Places : At(e, S) <=> p \in S
           /\ \A x \in Entry : \A S \in SUBSET Places :
                At(x, S)' <=> IF x = e THEN q \in S ELSE At(x, S)
           /\ \A x \in Entry : \A r \in Places :
                In(x, r)' <=> IF x = e THEN q = r ELSE In(x, r)
           /\ Busy(e) <=> p # "free"
           /\ \A x \in Entry : Busy(x)' <=> IF x = e THEN q # "free" ELSE Busy(x)
<1>1. e \in Entry /\ In(e, p)
  BY DEF MovesFrom
<1>2. \A r \in Places : In(e, r) <=> r = p
  BY <1>1, OnlyPlace DEF IInv
<1>3. \A x \in Entry : \A r \in Places : In(x, r)' <=> IF x = e THEN q = r ELSE In(x, r)
  BY DEF MovesFrom, Moves
<1>4. \A S \in SUBSET Places : At(e, S) <=> p \in S
  BY <1>2 DEF At
<1>5. ASSUME NEW x \in Entry, NEW S \in SUBSET Places
      PROVE  At(x, S)' <=> IF x = e THEN q \in S ELSE At(x, S)
  <2>1. CASE x = e
    BY <1>3, <2>1 DEF At
  <2>2. CASE x # e
    BY <1>3, <2>2 DEF At
  <2> QED BY <2>1, <2>2
<1>6. "free" \in Places
  BY DEF Places
<1> QED BY <1>1, <1>2, <1>3, <1>4, <1>5, <1>6 DEF Busy

\* The same entries are free, have an fd, are linked and are read.
SamePlaces ==
    \A x \in Entry : /\ Busy(x)' <=> Busy(x)
                     /\ At(x, WithFd)' <=> At(x, WithFd)
                     /\ At(x, Linked)' <=> At(x, Linked)
                     /\ At(x, Read)' <=> At(x, Read)
                     /\ In(x, "held")' <=> In(x, "held")

\* Steps that move no entry, and the submission of what is prepared.
LEMMA StaySamePlaces == Stays \/ Submits => SamePlaces
<1>1. WithFd \subseteq Places /\ Linked \subseteq Places /\ Read \subseteq Places
  BY DEF WithFd, Linked, Read, Places
<1>2. Stays => SamePlaces
  BY <1>1 DEF Stays, SamePlaces, At, Busy, Places
<1>3. ASSUME Submits, NEW x \in Entry, NEW S \in SUBSET Places, "sqes" \in S <=> "inflight" \in S
      PROVE  At(x, S)' <=> At(x, S)
  BY <1>3 DEF Submits, At
<1>4. ASSUME Submits PROVE SamePlaces
  <2>1. \A x \in Entry : At(x, WithFd)' <=> At(x, WithFd)
    BY <1>1, <1>3, <1>4 DEF WithFd
  <2>2. \A x \in Entry : At(x, Linked)' <=> At(x, Linked)
    BY <1>1, <1>3, <1>4 DEF Linked
  <2>3. \A x \in Entry : At(x, Read)' <=> At(x, Read)
    BY <1>1, <1>3, <1>4 DEF Read
  <2>4. \A x \in Entry : (In(x, "free")' <=> In(x, "free")) /\ (In(x, "held")' <=> In(x, "held"))
    BY <1>4 DEF Submits, Places
  <2> QED BY <2>1, <2>2, <2>3, <2>4 DEF SamePlaces, Busy
<1> QED BY <1>2, <1>4

\* The names of paths, and what the objects of a busy entry's name are.
LEMMA NameIn == \A f \in File : ShmName[f] \in Names
BY DEF Names

\* There are finitely many names and entries.
LEMMA Sizes ==
    /\ IsFiniteSet(Names) /\ Cardinality(Names) <= Cardinality(File)
    /\ IsFiniteSet(Entry)
    /\ Cardinality(File) \in Nat /\ Cardinality(Entry) \in Nat
    /\ Object = 1 .. (Cardinality(File) + 2 * Cardinality(Entry))
    /\ IsFiniteSet(Object) /\ Cardinality(Object) = Cardinality(File) + 2 * Cardinality(Entry)
<1>1. IsFiniteSet(Names) /\ Cardinality(Names) <= Cardinality(File)
  BY ValuesOf, LoaderAssumption DEF Names
<1>2. IsFiniteSet(Workers) /\ Cardinality(Workers) = NWorkers
  BY FS_Interval, LoaderAssumption DEF Workers
<1>3. IsFiniteSet(1 .. QueueDepth) /\ Cardinality(1 .. QueueDepth) = QueueDepth
  BY FS_Interval, LoaderAssumption
<1>4. IsFiniteSet(Entry) /\ Cardinality(Entry) = NWorkers * QueueDepth
  BY <1>2, <1>3, FS_Product DEF Entry
<1>5. Cardinality(File) \in Nat /\ Cardinality(Entry) \in Nat
  BY <1>4, FS_CardinalityType, LoaderAssumption
<1>6. 2 * NWorkers * QueueDepth = 2 * Cardinality(Entry)
  BY <1>4, LoaderAssumption
<1>7. Object = 1 .. (Cardinality(File) + 2 * Cardinality(Entry))
  BY <1>6 DEF Object
<1>8. IsFiniteSet(Object) /\ Cardinality(Object) = Cardinality(File) + 2 * Cardinality(Entry)
  <2> DEFINE k == Cardinality(File) + 2 * Cardinality(Entry)
  <2>1. k \in Nat
    BY <1>5
  <2> HIDE DEF k
  <2>2. IsFiniteSet(1 .. k) /\ Cardinality(1 .. k) = k
    BY <2>1, FS_Interval
  <2> QED BY <1>7, <2>2 DEF k
<1> QED BY <1>1, <1>4, <1>5, <1>7, <1>8

\* There is an object for a name that has none: fewer are linked or mapped.
LEMMA FreshIsNew ==
    ASSUME NEW links, NEW lm, NEW wm, NEW n \in Names, links[n] = None
    PROVE  /\ FreshObject(links, lm, wm) \in Object
           /\ FreshObject(links, lm, wm) \notin Live(links, lm, wm)
<1> DEFINE M == Names \ {n}
           A == {links[m] : m \in M}
           B == {lm[e] : e \in Entry}
           C == {wm[e] : e \in Entry}
<1>1. IsFiniteSet(M) /\ Cardinality(M) = Cardinality(Names) - 1
  BY Sizes, FS_RemoveElement
<1>2. IsFiniteSet(A) /\ Cardinality(A) <= Cardinality(M)
  BY <1>1, ValuesOf
<1>3. IsFiniteSet(B) /\ Cardinality(B) <= Cardinality(Entry)
  BY Sizes, ValuesOf
<1>4. IsFiniteSet(C) /\ Cardinality(C) <= Cardinality(Entry)
  BY Sizes, ValuesOf
<1> HIDE DEF A, B, C, M
<1>5. IsFiniteSet(A \cup B) /\ Cardinality(A \cup B) <= Cardinality(A) + Cardinality(B)
  BY <1>2, <1>3, UnionAtMost
<1>6. /\ IsFiniteSet((A \cup B) \cup C)
      /\ Cardinality((A \cup B) \cup C) <= Cardinality(A \cup B) + Cardinality(C)
  BY <1>4, <1>5, UnionAtMost
<1>7. /\ Cardinality(A) \in Nat /\ Cardinality(B) \in Nat /\ Cardinality(C) \in Nat
      /\ Cardinality(A \cup B) \in Nat /\ Cardinality((A \cup B) \cup C) \in Nat
      /\ Cardinality(M) \in Nat /\ Cardinality(Names) \in Nat
  BY <1>1, <1>2, <1>3, <1>4, <1>5, <1>6, Sizes, FS_CardinalityType
<1>8. Cardinality((A \cup B) \cup C) < Cardinality(Object)
  BY <1>1, <1>2, <1>3, <1>4, <1>5, <1>6, <1>7, Sizes
<1>9. ~(Object \subseteq (A \cup B) \cup C)
  <2>1. SUFFICES ASSUME Object \subseteq (A \cup B) \cup C PROVE FALSE
    OBVIOUS
  <2>2. Cardinality(Object) <= Cardinality((A \cup B) \cup C)
    BY <1>6, <2>1, FS_Subset
  <2> QED BY <1>7, <1>8, <2>2, Sizes
<1>10. PICK o \in Object : o \notin (A \cup B) \cup C
  BY <1>9
<1>11. o \notin Live(links, lm, wm)
  BY <1>10, LoaderAssumption DEF A, B, C, M, Live
<1> QED BY <1>11 DEF FreshObject

-----------------------------------------------------------------------------
(* Nothing leaks.                                                          *)

\* Kept contents are contents.
LEMMA KeptType ==
    ASSUME NEW data \in [Object -> File \union {None}], NEW links, NEW lm, NEW wm
    PROVE  Kept(data, links, lm, wm) \in [Object -> File \union {None}]
BY DEF Kept

\* A busy entry's name is a name.
LEMMA BusyName ==
    ASSUME PathsKnown, NEW e \in Entry, Busy(e)
    PROVE  Name(e) \in Names
BY NameIn DEF PathsKnown, Name

\* A step that moves an entry, opens or closes its fd, and links or unlinks its name.
LEMMA MoveMemory ==
    ASSUME IInv, MemInv, MemoryTypeOK', NEW e, NEW p \in Places, NEW q \in Places,
           MovesFrom(e, p, q),
           IF p = "free" THEN q # "free" /\ path'[e] \in File ELSE path'[e] = path[e],
           \A x \in Entry \ {e} : path'[x] = path[x],
           \/ q \in WithFd /\ fdOpen' = fdOpen \union {e}
           \/ q \notin WithFd /\ fdOpen' = fdOpen \ {e}
           \/ (p \in WithFd <=> q \in WithFd) /\ fdOpen' = fdOpen,
           \A n \in Names :
             shm'[n] # None => \/ shm[n] # None /\ (n = Name(e) => q # "free")
                               \/ n = Name(e)' /\ q # "free"
    PROVE  MemInv'
<1>1. WithFd \subseteq Places
  BY DEF WithFd, Places
<1>2. /\ e \in Entry
      /\ At(e, WithFd) <=> p \in WithFd
      /\ \A x \in Entry : At(x, WithFd)' <=> IF x = e THEN q \in WithFd ELSE At(x, WithFd)
      /\ Busy(e) <=> p # "free"
      /\ \A x \in Entry : Busy(x)' <=> IF x = e THEN q # "free" ELSE Busy(x)
  BY <1>1, MoveAt
<1>3. PathsKnown'
  BY <1>2 DEF MemInv, PathsKnown
<1>4. FdsOpen'
  BY <1>2 DEF MemInv, FdsOpen
<1>5. NamesNeeded'
  <2>1. SUFFICES ASSUME NEW n \in Names, shm'[n] # None
                 PROVE  \E x \in Entry : Busy(x)' /\ Name(x)' = n
    BY DEF NamesNeeded
  <2>2. CASE n = Name(e)' /\ q # "free"
    BY <1>2, <2>2
  <2>3. CASE shm[n] # None /\ (n = Name(e) => q # "free")
    <3>1. PICK x \in Entry : Busy(x) /\ Name(x) = n
      BY <2>3 DEF MemInv, NamesNeeded
    <3>2. Busy(x)'
      BY <1>2, <2>3, <3>1
    <3>3. path'[x] = path[x]
      BY <1>2, <3>1
    <3> QED BY <3>1, <3>2, <3>3 DEF Name
  <2> QED BY <2>1, <2>2, <2>3
<1> QED BY <1>3, <1>4, <1>5 DEF MemInv

\* A step that moves none of them.
LEMMA StayMemory ==
    ASSUME MemInv, SamePlaces, UNCHANGED <<path, fdOpen, shm, lmap, wmap, contents>>
    PROVE  MemInv'
<1>1. MemoryTypeOK' /\ PathsKnown' /\ FdsOpen'
  BY DEF MemInv, MemoryTypeOK, PathsKnown, FdsOpen, SamePlaces
<1>2. NamesNeeded'
  BY DEF MemInv, NamesNeeded, SamePlaces, Name
<1> QED BY <1>1, <1>2 DEF MemInv

\* At first nothing is open, linked or mapped.
LEMMA InitMemory == Init => MemInv
<1> SUFFICES ASSUME Init PROVE MemInv
  OBVIOUS
<1>1. MemoryTypeOK
  BY DEF Init, MemoryTypeOK
<1>2. ASSUME NEW e \in Entry PROVE ~Busy(e) /\ ~At(e, WithFd) /\ ~At(e, Linked)
  BY InitAllFree DEF Busy, At, WithFd, Linked, Places
<1>3. PathsKnown /\ FdsOpen
  BY <1>2 DEF PathsKnown, FdsOpen, Init
<1>4. NamesNeeded
  BY DEF NamesNeeded, Init
<1> QED BY <1>1, <1>3, <1>4 DEF MemInv

\* A request: an entry leaves the free list with a path of the files.
LEMMA RequestMemory ==
    ASSUME IInv, MemInv, NEW w \in Workers, NEW f \in File, async_try_request(w, f)
    PROVE  MemInv'
<1> DEFINE e == Head(free[w])
<1>1. MovesFrom(e, "free", "ready")
  BY RequestStep
<1>2. /\ path' = [path EXCEPT ![e] = f]
      /\ UNCHANGED <<shm, lmap, wmap, contents, fdOpen>>
  BY DEF async_try_request, memVars
<1> HIDE DEF e
<1>3. e \in Entry
  BY <1>1, MoveAt DEF Places
<1>4. MemoryTypeOK' /\ path'[e] \in File /\ \A x \in Entry \ {e} : path'[x] = path[x]
  BY <1>2, <1>3 DEF MemInv, MemoryTypeOK
<1>5. \A n \in Names : shm'[n] # None => shm[n] # None
  BY <1>2
<1> QED BY <1>1, <1>2, <1>4, <1>5, MoveMemory DEF Places, WithFd

\* A get maps the object of the name.
LEMMA GetMemory ==
    ASSUME IInv, MemInv, NEW w \in Workers, async_try_get(w)
    PROVE  MemInv'
<1> DEFINE e == Head(completed[w])
<1>1. MovesFrom(e, "completed", "held")
  BY GetStep
<1>2. /\ wmap' = [wmap EXCEPT ![e] = shm[Name(e)]]
      /\ UNCHANGED <<path, shm, lmap, contents, fdOpen>>
  BY DEF async_try_get
<1> HIDE DEF e
<1>3. e \in Entry /\ Busy(e)
  BY <1>1, MoveAt DEF Places
<1>4. MemoryTypeOK'
  BY <1>2, <1>3, BusyName DEF MemInv, MemoryTypeOK
<1>5. /\ \A n \in Names : shm'[n] # None => shm[n] # None
      /\ path' = path /\ fdOpen' = fdOpen
  BY <1>2
<1> QED BY <1>1, <1>4, <1>5, MoveMemory DEF Places, WithFd

\* The assert that stops a worker unmaps what it had mapped.
LEMMA GetAbortsMemory ==
    ASSUME IInv, MemInv, NEW w \in Workers, async_try_get_aborts(w)
    PROVE  MemInv'
<1> DEFINE e == Head(completed[w])
<1>1. MovesFrom(e, "completed", "lost")
  BY GetAbortsStep
<1>2. /\ wmap' = [x \in Entry |-> IF Owner(x) = w THEN None ELSE wmap[x]]
      /\ contents' = Kept(contents, shm, lmap, wmap')
      /\ UNCHANGED <<path, shm, lmap, fdOpen>>
  BY DEF async_try_get_aborts
<1> HIDE DEF e
<1>3. contents' \in [Object -> File \union {None}]
  BY <1>2, KeptType DEF MemInv, MemoryTypeOK
<1>4. MemoryTypeOK'
  BY <1>2, <1>3 DEF MemInv, MemoryTypeOK
<1>5. /\ \A n \in Names : shm'[n] # None => shm[n] # None
      /\ path' = path /\ fdOpen' = fdOpen
  BY <1>2
<1> QED BY <1>1, <1>4, <1>5, MoveMemory DEF Places, WithFd

\* What is left of the names after one is unlinked.
LEMMA UnlinkOne ==
    ASSUME MemInv, NEW e \in Entry, Busy(e)
    PROVE  /\ Unlinked(Name(e)) \in [Names -> Object \union {None}]
           /\ Unlinked(Name(e))[Name(e)] = None
           /\ \A n \in Names : n # Name(e) => Unlinked(Name(e))[n] = shm[n]
BY BusyName DEF MemInv, MemoryTypeOK, Unlinked

\* A release unlinks the name.
LEMMA ReleaseMemory ==
    ASSUME IInv, MemInv, NEW w \in Workers, NEW e \in held[w], async_release(w, e)
    PROVE  MemInv'
<1>1. MovesFrom(e, "held", "free")
  BY ReleaseStep
<1>2. /\ shm' = Unlinked(Name(e))
      /\ wmap' = [wmap EXCEPT ![e] = None]
      /\ contents' = Kept(contents, shm', lmap, wmap')
      /\ UNCHANGED <<path, lmap, fdOpen>>
  BY DEF async_release
<1>3. e \in Entry /\ Busy(e)
  BY <1>1, MoveAt DEF Places
<1>4. contents' \in [Object -> File \union {None}]
  BY <1>2, KeptType DEF MemInv, MemoryTypeOK
<1>5. MemoryTypeOK'
  BY <1>2, <1>3, <1>4, UnlinkOne DEF MemInv, MemoryTypeOK
<1>6. /\ \A n \in Names : shm'[n] # None => shm[n] # None /\ n # Name(e)
      /\ path' = path /\ fdOpen' = fdOpen
  BY <1>2, <1>3, UnlinkOne
<1> QED BY <1>1, <1>5, <1>6, MoveMemory DEF Places, WithFd

\* What async_perform_io links and maps.
Opened(e) ==
    IF shm[Name(e)] = None THEN FreshObject(shm, LmapDropped(e), wmap) ELSE shm[Name(e)]

\* A prepared IO links the name and maps its object.
LEMMA PerformIoFacts ==
    ASSUME IInv, MemInv, perform_io, NEW e, e = Head(batch)
    PROVE  /\ MovesFrom(e, "batch", "sqes")
           /\ e \in Entry /\ Busy(e) /\ Name(e) \in Names
           /\ Opened(e) \in Object /\ Opened(e) # None
           /\ shm[Name(e)] = None => Opened(e) \notin Live(shm, LmapDropped(e), wmap)
           /\ shm' = [shm EXCEPT ![Name(e)] = Opened(e)]
           /\ lmap' = [lmap EXCEPT ![e] = Opened(e)]
           /\ contents' = Kept(contents, shm', lmap', wmap)
           /\ UNCHANGED <<path, wmap, fdOpen>>
<1>1. MovesFrom(e, "batch", "sqes")
  BY PerformIoStep
<1>2. e \in Entry /\ Busy(e)
  BY <1>1, MoveAt DEF Places
<1>3. Name(e) \in Names
  BY <1>2, BusyName DEF MemInv
<1>4. /\ Opened(e) \in Object
      /\ shm[Name(e)] = None => Opened(e) \notin Live(shm, LmapDropped(e), wmap)
  BY <1>3, FreshIsNew DEF Opened, MemInv, MemoryTypeOK
<1>5. /\ shm' = [shm EXCEPT ![Name(e)] = Opened(e)]
      /\ lmap' = [LmapDropped(e) EXCEPT ![e] = Opened(e)]
      /\ contents' = Kept(contents, shm', lmap', wmap)
      /\ UNCHANGED <<path, wmap, fdOpen>>
  BY DEF perform_io, Opened, MappedObject, workerVars
<1>6. lmap' = [lmap EXCEPT ![e] = Opened(e)]
  BY <1>2, <1>5 DEF LmapDropped, MemInv, MemoryTypeOK
<1> QED BY <1>1, <1>2, <1>3, <1>4, <1>5, <1>6, LoaderAssumption

\* A preparation links and maps, and leaves types, fds and needed names right.
LEMMA PerformIoMemory ==
    ASSUME IInv, MemInv, perform_io
    PROVE  MemInv'
<1>1. PICK e : e = Head(batch)
  OBVIOUS
<1>2. /\ MovesFrom(e, "batch", "sqes")
      /\ e \in Entry /\ Busy(e) /\ Name(e) \in Names
      /\ Opened(e) \in Object
      /\ shm' = [shm EXCEPT ![Name(e)] = Opened(e)]
      /\ lmap' = [lmap EXCEPT ![e] = Opened(e)]
      /\ contents' = Kept(contents, shm', lmap', wmap)
      /\ UNCHANGED <<path, wmap, fdOpen>>
  BY <1>1, PerformIoFacts
<1>3. contents' \in [Object -> File \union {None}]
  BY <1>2, KeptType DEF MemInv, MemoryTypeOK
<1>4. MemoryTypeOK'
  BY <1>2, <1>3 DEF MemInv, MemoryTypeOK
<1>5. /\ \A n \in Names : shm'[n] # None => shm[n] # None \/ n = Name(e)'
      /\ path' = path /\ fdOpen' = fdOpen
  BY <1>2 DEF Name, MemInv, MemoryTypeOK
<1> QED BY <1>2, <1>4, <1>5, MoveMemory DEF Places, WithFd

\* A failed preparation closes the fd and may unlink the name.
LEMMA PerformIoFailsFacts ==
    ASSUME IInv, MemInv, perform_io_fails, NEW e, e = Head(batch)
    PROVE  /\ MovesFrom(e, "batch", "ready")
           /\ e \in Entry /\ Busy(e) /\ Name(e) \in Names
           /\ shm' = shm \/ shm' = Unlinked(Name(e))
           /\ lmap' = [lmap EXCEPT ![e] = None]
           /\ contents' = Kept(contents, shm', lmap', wmap)
           /\ fdOpen' = fdOpen \ {e}
           /\ UNCHANGED <<path, wmap>>
<1>1. MovesFrom(e, "batch", "ready")
  BY PerformIoFailsStep
<1>2. e \in Entry /\ Busy(e)
  BY <1>1, MoveAt DEF Places
<1>3. Name(e) \in Names
  BY <1>2, BusyName DEF MemInv
<1> QED BY <1>1, <1>2, <1>3 DEF perform_io_fails, LmapDropped, FdsAfterFailure, workerVars

\* So does a preparation that fails.
LEMMA PerformIoFailsMemory ==
    ASSUME IInv, MemInv, perform_io_fails
    PROVE  MemInv'
<1>1. PICK e : e = Head(batch)
  OBVIOUS
<1>2. /\ MovesFrom(e, "batch", "ready")
      /\ e \in Entry /\ Busy(e) /\ Name(e) \in Names
      /\ shm' = shm \/ shm' = Unlinked(Name(e))
      /\ lmap' = [lmap EXCEPT ![e] = None]
      /\ contents' = Kept(contents, shm', lmap', wmap)
      /\ fdOpen' = fdOpen \ {e}
      /\ UNCHANGED <<path, wmap>>
  BY <1>1, PerformIoFailsFacts
<1>3. contents' \in [Object -> File \union {None}]
  BY <1>2, KeptType DEF MemInv, MemoryTypeOK
<1>4. shm' \in [Names -> Object \union {None}] /\ \A n \in Names : shm'[n] # None => shm[n] # None
  BY <1>2, UnlinkOne DEF MemInv, MemoryTypeOK
<1>5. MemoryTypeOK'
  BY <1>2, <1>3, <1>4 DEF MemInv, MemoryTypeOK
<1> QED BY <1>2, <1>4, <1>5, MoveMemory DEF Places, WithFd

\* The kernel writes into the mapped object, if any.
LEMMA KernelMemory ==
    ASSUME IInv, MemInv, NEW e \in inflight, kernel_read(e) \/ kernel_read_fails(e)
    PROVE  MemInv'
<1>1. MovesFrom(e, "inflight", "cq")
  BY KernelStep
<1>2. e \in Entry /\ Busy(e)
  BY <1>1, MoveAt DEF Places
<1>3. UNCHANGED <<path, shm, lmap, wmap, fdOpen>>
  BY DEF kernel_read, kernel_read_fails, workerVars, memVars
<1>4. contents' = contents \/ contents' = [contents EXCEPT ![lmap[e]] = path[e]]
  BY DEF kernel_read, kernel_read_fails, memVars
<1>5. path[e] \in File
  BY <1>2 DEF MemInv, PathsKnown
<1>6. MemoryTypeOK'
  BY <1>3, <1>4, <1>5 DEF MemInv, MemoryTypeOK
<1> QED BY <1>1, <1>3, <1>6, MoveMemory DEF Places, WithFd

\* The other moves leave the memory as it is; the open and the close of an fd are
\* those of an entry that gets into, or out of, the places that have one.
LEMMA OtherMoves ==
    ASSUME IInv, MemInv, NEW e, NEW p \in Places, NEW q \in Places, MovesFrom(e, p, q),
           p # "free", q # "free", UNCHANGED <<path, shm, lmap, wmap, contents>>,
           \/ q \in WithFd /\ fdOpen' = fdOpen \union {e}
           \/ q \notin WithFd /\ fdOpen' = fdOpen \ {e}
           \/ (p \in WithFd <=> q \in WithFd) /\ fdOpen' = fdOpen
    PROVE  MemInv'
<1>1. MemoryTypeOK'
  BY DEF MemInv, MemoryTypeOK
<1> QED BY <1>1, MoveMemory

\* Every step keeps the invariant.
LEMMA NextMemory == IInv /\ MemInv /\ [Next]_vars => MemInv'
<1> SUFFICES ASSUME IInv, MemInv, [Next]_vars PROVE MemInv'
  OBVIOUS
<1>1. CASE \E w \in Workers : Worker(w)
  BY <1>1, RequestMemory, GetMemory, GetAbortsMemory, ReleaseMemory DEF Worker
<1>2. ASSUME reader_dispatch \/ reader_submit \/ reader_pop_empty \/ respond_error \/ UNCHANGED vars
      PROVE  MemInv'
  <2>1. SamePlaces
    BY <1>2, DispatchStep, SubmitStep, PopEmptyStep, RespondErrorStep, StutterStep, StaySamePlaces
  <2>2. UNCHANGED <<path, fdOpen, shm, lmap, wmap, contents>>
    BY <1>2 DEF reader_dispatch, reader_submit, reader_pop_empty, respond_error, vars,
                workerVars, memVars
  <2> QED BY <2>1, <2>2, StayMemory
<1>3. CASE reader_pop
  <2>1. /\ MovesFrom(Head(ready[rr]), "ready", "opening")
        /\ UNCHANGED <<path, shm, lmap, wmap, contents, fdOpen>>
    BY <1>3, PopStep DEF reader_pop, workerVars, memVars
  <2> QED BY <2>1, OtherMoves DEF Places, WithFd
<1>4. ASSUME NEW e \in opening, reader_open(e) PROVE MemInv'
  <2>1. /\ MovesFrom(e, "opening", "batch")
        /\ UNCHANGED <<path, shm, lmap, wmap, contents>> /\ fdOpen' = fdOpen \union {e}
    BY <1>4, OpenStep DEF reader_open, workerVars, memVars
  <2> QED BY <2>1, OtherMoves DEF Places, WithFd
<1>5. ASSUME NEW e \in opening, reader_open_fails(e) PROVE MemInv'
  <2>1. /\ MovesFrom(e, "opening", "ready")
        /\ UNCHANGED <<path, shm, lmap, wmap, contents, fdOpen>>
    BY <1>5, OpenFailsStep DEF reader_open_fails, workerVars, memVars
  <2> QED BY <2>1, OtherMoves DEF Places, WithFd
<1>6. CASE Kernel
  BY <1>6, KernelMemory DEF Kernel
<1>7. CASE respond_seen
  <2>1. /\ MovesFrom(Head(cq).entry, "cq", "responding")
        /\ UNCHANGED <<path, shm, lmap, wmap, contents>>
        /\ fdOpen' = fdOpen \ {Head(cq).entry}
    BY <1>7, RespondSeenStep DEF respond_seen, workerVars, memVars
  <2> QED BY <2>1, OtherMoves DEF Places, WithFd
<1>8. ASSUME NEW e \in responding, respond_push(e) PROVE MemInv'
  <2>1. /\ MovesFrom(e, "responding", "completed")
        /\ UNCHANGED <<path, shm, lmap, wmap, contents, fdOpen>>
    BY <1>8, RespondPushStep DEF respond_push, workerVars, memVars
  <2> QED BY <2>1, OtherMoves DEF Places, WithFd
<1> QED BY <1>1, <1>2, <1>3, <1>4, <1>5, <1>6, <1>7, <1>8, PerformIoMemory, PerformIoFailsMemory
        DEF Next, Reader, Responder

\* The invariants of the places and of the memory.
THEOREM MemoryInvariance == Spec => [](IInv /\ MemInv)
<1>1. Init => IInv /\ MemInv
  BY InitIInv, InitMemory
<1>2. IInv /\ MemInv /\ [Next]_vars => IInv' /\ MemInv'
  BY NextIInv, NextMemory
<1> QED BY <1>1, <1>2, PTL DEF Spec

\* Everything is always of its type.
THEOREM TypeCorrect == Spec => []TypeOK
<1>1. IInv /\ MemInv => TypeOK
  BY DEF IInv, MemInv, TypeOK
<1> QED BY <1>1, MemoryInvariance, PTL

\* The fds that are open are those of the requests between the reader's open and
\* the responder's close, and only names of requests under way or of data still held
\* are linked, whatever fails, is retried or shares its name.
THEOREM NothingIsLeaked == Spec => []NothingLeaks
<1>1. ASSUME IInv, MemInv PROVE FdsMatchIo
  <2>1. fdOpen \subseteq Entry /\ inflight \subseteq Entry
    BY <1>1 DEF IInv, ListsTypeOK
  <2>2. ToSet(batch) \subseteq Entry /\ ToSet(sqes) \subseteq Entry
    BY <1>1 DEF IInv, ListsTypeOK, ToSet
  <2>3. CqEntries \subseteq Entry
    BY <1>1, CqFacts DEF IInv, CqEntries, ToSet
  <2>4. ASSUME NEW e \in Entry
        PROVE  e \in fdOpen <=> e \in ToSet(batch) \union ToSet(sqes) \union inflight \union CqEntries
    <3>1. e \in fdOpen <=> At(e, WithFd)
      BY <1>1 DEF MemInv, FdsOpen
    <3>2. /\ In(e, "batch") <=> e \in ToSet(batch)
          /\ In(e, "sqes") <=> e \in ToSet(sqes)
          /\ In(e, "inflight") <=> e \in inflight
          /\ In(e, "cq") <=> e \in CqEntries
      BY DEF In
    <3> QED BY <3>1, <3>2 DEF At, WithFd
  <2> QED BY <2>1, <2>2, <2>3, <2>4 DEF FdsMatchIo
<1>2. ASSUME MemInv PROVE NoOrphanShm
  <2>1. \A e \in Entry : Busy(e) <=> e \notin ToSet(free[Owner(e)])
    BY DEF Busy, In
  <2> QED BY <1>2, <2>1 DEF MemInv, NamesNeeded, NoOrphanShm, NamesInUse
<1>3. IInv /\ MemInv => NothingLeaks
  BY <1>1, <1>2 DEF NothingLeaks
<1> QED BY <1>3, MemoryInvariance, PTL

-----------------------------------------------------------------------------
(* Data is the file's.                                                     *)

\* The places are told apart.
LEMMA PlaceSets ==
    /\ WithFd \subseteq Places /\ Linked \subseteq Places /\ Read \subseteq Places
    /\ Read \subseteq Linked
    /\ "held" \in Read /\ "free" \notin Linked
BY DEF WithFd, Linked, Read, Places

\* What a move says of the sets of places the memory depends on.
LEMMA MoveSets ==
    ASSUME IInv, NEW e, NEW p \in Places, NEW q \in Places, MovesFrom(e, p, q)
    PROVE  /\ e \in Entry /\ In(e, p)
           /\ (Busy(e) <=> p # "free") /\ (At(e, Linked) <=> p \in Linked)
           /\ (At(e, Read) <=> p \in Read)
           /\ \A x \in Entry :
                /\ Busy(x)' <=> IF x = e THEN q # "free" ELSE Busy(x)
                /\ At(x, Linked)' <=> IF x = e THEN q \in Linked ELSE At(x, Linked)
                /\ At(x, Read)' <=> IF x = e THEN q \in Read ELSE At(x, Read)
                /\ In(x, "held")' <=> IF x = e THEN q = "held" ELSE In(x, "held")
<1>1. Linked \in SUBSET Places /\ Read \in SUBSET Places /\ "held" \in Places
  BY PlaceSets
<1> QED BY <1>1, MoveAt

\* Entries whose name is linked are busy, their object is mapped and linked.
LEMMA LinkedFacts ==
    ASSUME IInv, MemInv, ObjectsLinked, NEW x \in Entry, At(x, Linked)
    PROVE  /\ Busy(x) /\ Name(x) \in Names
           /\ lmap[x] \in Object /\ lmap[x] # None /\ lmap[x] = shm[Name(x)]
<1>1. Busy(x)
  BY OnlyPlace DEF At, Busy, IInv, Linked, Places
<1>2. Name(x) \in Names
  BY <1>1, BusyName DEF MemInv
<1>3. lmap[x] # None /\ lmap[x] = shm[Name(x)]
  BY DEF ObjectsLinked
<1> QED BY <1>1, <1>2, <1>3 DEF MemInv, MemoryTypeOK

\* Places where data is read are places where it is linked.
LEMMA ReadIsLinked == \A x \in Entry : At(x, Read) \/ In(x, "held") => At(x, Linked)
BY DEF At, Read, Linked

\* The entries of the completion queue are linked.
LEMMA CqIsLinked ==
    ASSUME IInv, NEW i \in DOMAIN cq
    PROVE  cq[i].entry \in Entry /\ In(cq[i].entry, "cq") /\ At(cq[i].entry, Linked)
<1>1. cq[i] \in [entry : Entry, ok : BOOLEAN]
  <2>1. cq \in Seq([entry : Entry, ok : BOOLEAN]) /\ i \in 1 .. Len(cq)
    BY DEF IInv, ListsTypeOK
  <2> QED BY <2>1, ElementsIn
<1>2. cq[i].entry \in CqEntries
  BY DEF CqEntries, CqSeq, ToSet
<1> QED BY <1>1, <1>2 DEF In, At, Linked

\* The object of an entry whose name is linked is kept.
LEMMA KeptData ==
    ASSUME NEW x \in Entry, lmap'[x] = lmap[x], lmap[x] \in Object,
           contents' = contents \/ contents' = Kept(contents, shm', lmap', wmap')
    PROVE  contents'[lmap[x]] = contents[lmap[x]]
BY DEF Kept, Live

\* A step that changes no name, object or data, whatever it moves between the places
\* where a name is linked.
LEMMA StayData ==
    ASSUME IInv, DataInv,
           UNCHANGED <<crashed, path, shm, lmap, wmap, contents>>,
           \A x \in Entry : Busy(x)' <=> Busy(x),
           \A x \in Entry : At(x, Linked)' <=> At(x, Linked),
           \A x \in Entry : In(x, "held")' => In(x, "held"),
           \A x \in Entry : At(x, Read)' => At(x, Read) \/ HasData(x),
           \A i \in DOMAIN cq' : cq'[i].ok =>
             \/ \E j \in DOMAIN cq : cq'[i] = cq[j]
             \/ HasData(cq'[i].entry)
    PROVE  DataInv'
<1>1. \A x : Name(x)' = Name(x) /\ HasData(x)' = HasData(x)
  BY DEF Name, HasData
<1>2. crashed' = {} /\ NamesApart' /\ NamesBacked' /\ ObjectsLinked' /\ ObjectsApart'
  BY <1>1 DEF DataInv, NamesApart, NamesBacked, ObjectsLinked, ObjectsApart
<1>3. ObjectsMapped' /\ DataRead' /\ DataDone'
  BY <1>1 DEF DataInv, ObjectsMapped, DataRead, DataDone
<1> QED BY <1>2, <1>3 DEF DataInv

\* A step that leaves paths and places of names alone and changes the objects of e at
\* most: the others keep theirs, and their data.
LEMMA OthersKeepData ==
    ASSUME IInv, MemInv, DataInv, NEW e \in Entry, Busy(e),
           UNCHANGED <<crashed, path, cq>>,
           \A x \in Entry \ {e} : /\ Busy(x)' <=> Busy(x)
                                  /\ At(x, Linked)' <=> At(x, Linked)
                                  /\ At(x, Read)' <=> At(x, Read)
                                  /\ In(x, "held")' <=> In(x, "held")
                                  /\ lmap'[x] = lmap[x] /\ wmap'[x] = wmap[x],
           \A n \in Names \ {Name(e)} : shm'[n] = shm[n],
           contents' = contents \/ contents' = Kept(contents, shm', lmap', wmap'),
           ~In(e, "cq"),
           ~At(e, Read)',
           IF At(e, Linked)'
             THEN /\ lmap'[e] # None /\ lmap'[e] = shm'[Name(e)]
                  /\ \A n \in Names \ {Name(e)} : shm[n] # lmap'[e]
             ELSE shm'[Name(e)] = None
    PROVE  DataInv'
<1>1. \A x : Name(x)' = Name(x)
  BY DEF Name
<1>2. \A x \in Entry : Busy(x)' => Busy(x)
  OBVIOUS
<1>3. \A x \in Entry \ {e} : Busy(x) => Name(x) # Name(e)
  BY DEF DataInv, NamesApart
<1>4. ASSUME NEW x \in Entry \ {e}, At(x, Linked)
      PROVE  /\ Name(x) # Name(e) /\ Name(x) \in Names /\ shm'[Name(x)] = shm[Name(x)]
             /\ lmap[x] \in Object /\ lmap[x] # None /\ lmap[x] = shm[Name(x)]
             /\ lmap'[x] = lmap[x]
             /\ contents'[lmap[x]] = contents[lmap[x]]
  <2>1. /\ Busy(x) /\ Name(x) \in Names
        /\ lmap[x] \in Object /\ lmap[x] # None /\ lmap[x] = shm[Name(x)]
    BY <1>4, LinkedFacts DEF DataInv
  <2>2. lmap'[x] = lmap[x]
    OBVIOUS
  <2>3. contents'[lmap[x]] = contents[lmap[x]]
    BY <2>1, <2>2, KeptData
  <2>4. Name(x) # Name(e)
    BY <1>3, <2>1
  <2> QED BY <2>1, <2>2, <2>3, <2>4
<1>5. \A x \in Entry \ {e} : At(x, Linked) => (HasData(x) => HasData(x)')
  BY <1>4 DEF HasData
<1>6. NamesApart'
  BY <1>1, <1>2 DEF DataInv, NamesApart
<1>7. NamesBacked'
  <2>1. SUFFICES ASSUME NEW n \in Names, shm'[n] # None
                 PROVE  \E x \in Entry : At(x, Linked)' /\ Name(x)' = n
    BY DEF NamesBacked
  <2>2. CASE n = Name(e)
    BY <1>1, <2>1, <2>2
  <2>3. CASE n # Name(e)
    <3>1. PICK x \in Entry : At(x, Linked) /\ Name(x) = n
      BY <2>1, <2>3 DEF DataInv, NamesBacked
    <3>2. x # e
      BY <2>3, <3>1
    <3> QED BY <1>1, <3>1, <3>2
  <2> QED BY <2>2, <2>3
<1>8. ObjectsLinked'
  BY <1>1, <1>4 DEF ObjectsLinked
<1>9. ObjectsApart'
  BY DEF DataInv, ObjectsApart
<1>10. ObjectsMapped'
  <2>1. In(e, "held")' => At(e, Read)'
    BY DEF At, Read
  <2> QED BY <2>1 DEF DataInv, ObjectsMapped
<1>11. DataRead'
  BY <1>5, ReadIsLinked DEF DataInv, DataRead
<1>12. DataDone'
  <2>1. SUFFICES ASSUME NEW i \in DOMAIN cq, cq[i].ok PROVE HasData(cq[i].entry)'
    BY DEF DataDone
  <2>2. cq[i].entry \in Entry \ {e} /\ At(cq[i].entry, Linked)
    BY CqIsLinked
  <2> QED BY <1>5, <2>1, <2>2 DEF DataInv, DataDone
<1> QED BY <1>6, <1>7, <1>8, <1>9, <1>10, <1>11, <1>12 DEF DataInv

\* A request takes a name no busy entry has.
LEMMA RequestData ==
    ASSUME IInv, MemInv, DataInv, DistinctNames, NEW w \in Workers, NEW f \in File,
           async_try_request(w, f)
    PROVE  DataInv'
<1>1. PICK e : e = Head(free[w])
  OBVIOUS
<1>2. MovesFrom(e, "free", "ready")
  BY <1>1, RequestStep
<1>3. /\ path' = [path EXCEPT ![e] = f]
      /\ UNCHANGED <<crashed, shm, lmap, wmap, contents, cq>>
      /\ ShmName[f] \notin NamesInUse
  BY <1>1 DEF async_try_request, memVars, ringVars, MayRequest
<1>4. /\ e \in Entry /\ In(e, "free")
      /\ \A x \in Entry : /\ Busy(x)' <=> x = e \/ Busy(x)
                          /\ At(x, Linked)' <=> x # e /\ At(x, Linked)
                          /\ At(x, Read)' <=> x # e /\ At(x, Read)
                          /\ In(x, "held")' <=> x # e /\ In(x, "held")
      /\ ~At(e, Linked)
  BY <1>2, MoveSets DEF Places, Linked, Read
<1>5. /\ path'[e] = f
      /\ \A x \in Entry \ {e} : Name(x)' = Name(x) /\ HasData(x)' = HasData(x)
  BY <1>3, <1>4 DEF MemInv, MemoryTypeOK, Name, HasData
<1>6. \A x \in Entry : Busy(x) => Name(x) # Name(e)' /\ x # e
  <2>1. \A x \in Entry : Busy(x) => Name(x) \in NamesInUse
    BY DEF Busy, In, NamesInUse
  <2>2. Name(e)' = ShmName[f]
    BY <1>5 DEF Name
  <2> QED BY <1>3, <1>4, <2>1, <2>2 DEF Busy
<1>7. NamesApart'
  BY <1>4, <1>5, <1>6 DEF DataInv, NamesApart
<1>8. NamesBacked' /\ ObjectsLinked' /\ ObjectsApart' /\ ObjectsMapped'
  BY <1>3, <1>4, <1>5 DEF DataInv, NamesBacked, ObjectsLinked, ObjectsApart, ObjectsMapped
<1>9. DataRead'
  BY <1>4, <1>5 DEF DataInv, DataRead
<1>20. DataDone'
  <2>1. \A i \in DOMAIN cq : cq[i].entry \in Entry \ {e}
    BY <1>4, CqIsLinked
  <2> QED BY <1>3, <1>5, <2>1 DEF DataInv, DataDone
<1> QED BY <1>3, <1>7, <1>8, <1>9, <1>20 DEF DataInv

\* A get maps the object the loader had mapped.
LEMMA GetData ==
    ASSUME IInv, MemInv, DataInv, NEW w \in Workers, async_try_get(w)
    PROVE  DataInv'
<1> DEFINE e == Head(completed[w])
<1>1. MovesFrom(e, "completed", "held")
  BY GetStep
<1>2. /\ wmap' = [wmap EXCEPT ![e] = shm[Name(e)]]
      /\ UNCHANGED <<crashed, path, shm, lmap, contents, cq>>
  BY DEF async_try_get, ringVars
<1> HIDE DEF e
<1>3. /\ e \in Entry /\ At(e, Linked)
      /\ \A x \in Entry : /\ Busy(x)' <=> Busy(x)
                          /\ At(x, Linked)' <=> At(x, Linked)
                          /\ At(x, Read)' <=> At(x, Read)
                          /\ In(x, "held")' <=> x = e \/ In(x, "held")
  BY <1>1, MoveSets DEF Places, Linked, Read
<1>4. \A x : Name(x)' = Name(x) /\ HasData(x)' = HasData(x)
  BY <1>2 DEF Name, HasData
<1>5. wmap'[e] = lmap[e] /\ \A x \in Entry \ {e} : wmap'[x] = wmap[x]
  BY <1>2, <1>3 DEF MemInv, MemoryTypeOK, DataInv, ObjectsLinked
<1>6. ObjectsMapped'
  BY <1>2, <1>3, <1>5 DEF DataInv, ObjectsMapped
<1>7. NamesApart' /\ NamesBacked' /\ ObjectsLinked' /\ ObjectsApart' /\ DataRead' /\ DataDone'
  BY <1>2, <1>3, <1>4
     DEF DataInv, NamesApart, NamesBacked, ObjectsLinked, ObjectsApart, DataRead, DataDone
<1> QED BY <1>2, <1>6, <1>7 DEF DataInv

\* No assert stops a worker: what is completed is linked.
LEMMA NeverAborts ==
    ASSUME IInv, MemInv, DataInv, NEW w \in Workers
    PROVE  ~async_try_get_aborts(w)
<1> DEFINE e == Head(completed[w])
<1>1. SUFFICES ASSUME async_try_get_aborts(w) PROVE FALSE
  OBVIOUS
<1>2. MovesFrom(e, "completed", "lost") /\ shm[Name(e)] = None
  BY <1>1, GetAbortsStep DEF async_try_get_aborts
<1> HIDE DEF e
<1>3. e \in Entry /\ At(e, Linked)
  BY <1>2, MoveSets DEF Places, Linked
<1> QED BY <1>2, <1>3, LinkedFacts DEF DataInv

\* A release unlinks the name of its entry alone.
LEMMA ReleaseData ==
    ASSUME IInv, MemInv, DataInv, NEW w \in Workers, NEW e \in held[w], async_release(w, e)
    PROVE  DataInv'
<1>1. MovesFrom(e, "held", "free")
  BY ReleaseStep
<1>2. /\ shm' = Unlinked(Name(e))
      /\ wmap' = [wmap EXCEPT ![e] = None]
      /\ contents' = Kept(contents, shm', lmap', wmap')
      /\ UNCHANGED <<crashed, path, lmap, cq>>
  BY DEF async_release, ringVars
<1>3. /\ e \in Entry /\ Busy(e) /\ ~In(e, "cq")
      /\ \A x \in Entry \ {e} : /\ Busy(x)' <=> Busy(x)
                                /\ At(x, Linked)' <=> At(x, Linked)
                                /\ At(x, Read)' <=> At(x, Read)
                                /\ In(x, "held")' <=> In(x, "held")
      /\ ~At(e, Linked)' /\ ~At(e, Read)'
  <2>1. ~In(e, "cq")
    BY <1>1, MoveAt, OnlyPlace DEF IInv, Places
  <2> QED BY <1>1, <2>1, MoveSets DEF Places, Linked, Read
<1>4. shm'[Name(e)] = None /\ \A n \in Names \ {Name(e)} : shm'[n] = shm[n]
  BY <1>2, <1>3, UnlinkOne
<1>5. \A x \in Entry \ {e} : lmap'[x] = lmap[x] /\ wmap'[x] = wmap[x]
  BY <1>2 DEF MemInv, MemoryTypeOK
<1> QED BY <1>2, <1>3, <1>4, <1>5, OthersKeepData

\* A prepared IO links an object of its own.
LEMMA PerformIoData ==
    ASSUME IInv, MemInv, DataInv, perform_io
    PROVE  DataInv'
<1>1. PICK e : e = Head(batch)
  OBVIOUS
<1>2. /\ MovesFrom(e, "batch", "sqes")
      /\ e \in Entry /\ Busy(e) /\ Name(e) \in Names
      /\ Opened(e) \in Object /\ Opened(e) # None
      /\ shm[Name(e)] = None => Opened(e) \notin Live(shm, LmapDropped(e), wmap)
      /\ shm' = [shm EXCEPT ![Name(e)] = Opened(e)]
      /\ lmap' = [lmap EXCEPT ![e] = Opened(e)]
      /\ contents' = Kept(contents, shm', lmap', wmap)
      /\ UNCHANGED <<path, wmap, fdOpen>>
  BY <1>1, PerformIoFacts
<1>3. /\ ~In(e, "cq") /\ ~At(e, Linked)
      /\ \A x \in Entry \ {e} : /\ Busy(x)' <=> Busy(x)
                                /\ At(x, Linked)' <=> At(x, Linked)
                                /\ At(x, Read)' <=> At(x, Read)
                                /\ In(x, "held")' <=> In(x, "held")
      /\ At(e, Linked)' /\ ~At(e, Read)'
  <2>1. ~In(e, "cq")
    BY <1>2, MoveAt, OnlyPlace DEF IInv, Places
  <2> QED BY <1>2, <2>1, MoveSets DEF Places, Linked, Read
<1>4. crashed' = crashed /\ cq' = cq
  BY DEF perform_io, workerVars, ringVars
<1>5. shm[Name(e)] = None
  <2>1. \A x \in Entry : At(x, Linked) => Name(x) # Name(e)
    BY <1>2, <1>3, LinkedFacts DEF DataInv, NamesApart
  <2> QED BY <1>2, <2>1 DEF DataInv, NamesBacked
<1>6. \A n \in Names : shm[n] # Opened(e)
  BY <1>2, <1>5 DEF Live
<1>7. /\ \A x \in Entry \ {e} : lmap'[x] = lmap[x] /\ wmap'[x] = wmap[x]
      /\ lmap'[e] = Opened(e)
  BY <1>2 DEF MemInv, MemoryTypeOK
<1>8. shm'[Name(e)] = Opened(e) /\ \A n \in Names \ {Name(e)} : shm'[n] = shm[n]
  BY <1>2 DEF MemInv, MemoryTypeOK
<1> QED BY <1>2, <1>3, <1>4, <1>6, <1>7, <1>8, OthersKeepData

\* A failed preparation changes at most its own name and object.
LEMMA PerformIoFailsData ==
    ASSUME IInv, MemInv, DataInv, perform_io_fails
    PROVE  DataInv'
<1>1. PICK e : e = Head(batch)
  OBVIOUS
<1>2. /\ MovesFrom(e, "batch", "ready")
      /\ e \in Entry /\ Busy(e) /\ Name(e) \in Names
      /\ shm' = shm \/ shm' = Unlinked(Name(e))
      /\ lmap' = [lmap EXCEPT ![e] = None]
      /\ contents' = Kept(contents, shm', lmap', wmap)
      /\ UNCHANGED <<path, wmap>>
  BY <1>1, PerformIoFailsFacts
<1>3. /\ ~In(e, "cq") /\ ~At(e, Linked)
      /\ \A x \in Entry \ {e} : /\ Busy(x)' <=> Busy(x)
                                /\ At(x, Linked)' <=> At(x, Linked)
                                /\ At(x, Read)' <=> At(x, Read)
                                /\ In(x, "held")' <=> In(x, "held")
      /\ ~At(e, Linked)' /\ ~At(e, Read)'
  <2>1. ~In(e, "cq")
    BY <1>2, MoveAt, OnlyPlace DEF IInv, Places
  <2> QED BY <1>2, <2>1, MoveSets DEF Places, Linked, Read
<1>4. crashed' = crashed /\ cq' = cq
  BY DEF perform_io_fails, workerVars, ringVars
<1>5. shm[Name(e)] = None
  <2>1. \A x \in Entry : At(x, Linked) => Name(x) # Name(e)
    BY <1>2, <1>3, LinkedFacts DEF DataInv, NamesApart
  <2> QED BY <1>2, <2>1 DEF DataInv, NamesBacked
<1>6. shm'[Name(e)] = None /\ \A n \in Names \ {Name(e)} : shm'[n] = shm[n]
  BY <1>2, <1>5, UnlinkOne
<1>7. \A x \in Entry \ {e} : lmap'[x] = lmap[x] /\ wmap'[x] = wmap[x]
  BY <1>2 DEF MemInv, MemoryTypeOK
<1> QED BY <1>2, <1>3, <1>4, <1>6, <1>7, OthersKeepData

\* The kernel writes into the object of the entry it reads for, and no other's.
LEMMA KernelData ==
    ASSUME IInv, MemInv, DataInv, NEW e \in inflight, kernel_read(e) \/ kernel_read_fails(e)
    PROVE  DataInv'
<1>1. MovesFrom(e, "inflight", "cq")
  BY KernelStep
<1>2. /\ e \in Entry /\ At(e, Linked) /\ ~At(e, Read)
      /\ \A x \in Entry : /\ Busy(x)' <=> Busy(x)
                          /\ At(x, Linked)' <=> At(x, Linked)
                          /\ At(x, Read)' <=> At(x, Read)
                          /\ In(x, "held")' <=> In(x, "held")
      /\ ~In(e, "cq")
  <2>1. ~In(e, "cq") /\ ~In(e, "held")
    BY <1>1, MoveAt, OnlyPlace DEF IInv, Places
  <2> QED BY <1>1, <2>1, MoveSets DEF Places, Linked, Read
<1>3. UNCHANGED <<crashed, path, shm, lmap, wmap>>
  BY DEF kernel_read, kernel_read_fails, workerVars, memVars
<1>4. /\ Busy(e) /\ Name(e) \in Names
      /\ lmap[e] \in Object /\ lmap[e] # None /\ lmap[e] = shm[Name(e)]
  BY <1>2, LinkedFacts DEF DataInv
<1>5. PICK b \in BOOLEAN :
      /\ cq' = Append(cq, [entry |-> e, ok |-> b])
      /\ contents' = IF b THEN [contents EXCEPT ![lmap[e]] = path[e]] ELSE contents
  BY DEF kernel_read, kernel_read_fails, memVars
<1>6. \A x : Name(x)' = Name(x)
  BY <1>3 DEF Name
<1>7. \A x \in Entry \ {e} : At(x, Linked) /\ HasData(x) => HasData(x)'
  <2>1. SUFFICES ASSUME NEW x \in Entry \ {e}, At(x, Linked), HasData(x) PROVE HasData(x)'
    OBVIOUS
  <2>2. Busy(x) /\ Name(x) \in Names /\ lmap[x] # None /\ lmap[x] = shm[Name(x)]
    BY <2>1, LinkedFacts DEF DataInv
  <2>3. Name(x) # Name(e)
    BY <1>2, <1>4, <2>2 DEF DataInv, NamesApart
  <2>4. lmap[x] # lmap[e]
    BY <1>4, <2>2, <2>3 DEF DataInv, ObjectsApart
  <2>5. contents'[lmap[x]] = contents[lmap[x]]
    BY <1>5, <2>4 DEF MemInv, MemoryTypeOK
  <2> QED BY <1>3, <2>1, <2>5 DEF HasData
<1>8. b => HasData(e)'
  BY <1>3, <1>4, <1>5 DEF HasData, MemInv, MemoryTypeOK
<1>9. NamesApart' /\ NamesBacked' /\ ObjectsLinked' /\ ObjectsApart' /\ ObjectsMapped'
  BY <1>2, <1>3, <1>6
     DEF DataInv, NamesApart, NamesBacked, ObjectsLinked, ObjectsApart, ObjectsMapped
<1>10. DataRead'
  BY <1>2, <1>7, ReadIsLinked DEF DataInv, DataRead
<1>11. DataDone'
  <2>1. SUFFICES ASSUME NEW i \in DOMAIN cq', cq'[i].ok, NEW x, x = cq'[i].entry
                 PROVE  HasData(x)'
    BY DEF DataDone, HasData
  <2>2. cq \in Seq([entry : Entry, ok : BOOLEAN])
    BY DEF IInv, ListsTypeOK
  <2>3. CASE i \in DOMAIN cq
    <3>1. cq'[i] = cq[i]
      BY <1>5, <2>2, <2>3
    <3>2. x \in Entry \ {e} /\ At(x, Linked)
      BY <1>2, <2>1, <2>3, <3>1, CqIsLinked
    <3>3. HasData(x)
      BY <2>1, <2>3, <3>1 DEF DataInv, DataDone
    <3> QED BY <1>7, <3>2, <3>3
  <2>4. CASE i \notin DOMAIN cq
    <3>1. cq'[i] = [entry |-> e, ok |-> b]
      BY <1>5, <2>1, <2>2, <2>4
    <3> QED BY <1>8, <2>1, <3>1
  <2> QED BY <2>3, <2>4
<1> QED BY <1>3, <1>9, <1>10, <1>11 DEF DataInv

\* Steps that only move an entry between places with a linked name, or without one.
LEMMA OtherMovesData ==
    ASSUME IInv, DataInv, NEW e, NEW p \in Places, NEW q \in Places, MovesFrom(e, p, q),
           p # "free", q # "free", q # "held", p \in Linked <=> q \in Linked,
           q \in Read => p \in Read \/ HasData(e),
           UNCHANGED <<crashed, path, shm, lmap, wmap, contents>>,
           cq' = cq \/ (cq # <<>> /\ cq' = Tail(cq))
    PROVE  DataInv'
<1>1. /\ \A x \in Entry : Busy(x)' <=> Busy(x)
      /\ \A x \in Entry : At(x, Linked)' <=> At(x, Linked)
      /\ \A x \in Entry : In(x, "held")' => In(x, "held")
      /\ \A x \in Entry : At(x, Read)' => At(x, Read) \/ HasData(x)
  <2>1. /\ At(e, Linked) <=> p \in Linked
        /\ At(e, Read) <=> p \in Read
        /\ \A x \in Entry : At(x, Linked)' <=> IF x = e THEN q \in Linked ELSE At(x, Linked)
        /\ \A x \in Entry : At(x, Read)' <=> IF x = e THEN q \in Read ELSE At(x, Read)
        /\ \A x \in Entry : In(x, "held")' <=> IF x = e THEN q = "held" ELSE In(x, "held")
        /\ Busy(e) <=> p # "free"
        /\ \A x \in Entry : Busy(x)' <=> IF x = e THEN q # "free" ELSE Busy(x)
    <3>1. /\ \A S \in SUBSET Places : At(e, S) <=> p \in S
          /\ \A x \in Entry : \A S \in SUBSET Places :
               At(x, S)' <=> IF x = e THEN q \in S ELSE At(x, S)
          /\ \A x \in Entry : \A r \in Places :
               In(x, r)' <=> IF x = e THEN q = r ELSE In(x, r)
          /\ Busy(e) <=> p # "free"
          /\ \A x \in Entry : Busy(x)' <=> IF x = e THEN q # "free" ELSE Busy(x)
      BY MoveAt
    <3>2. Linked \in SUBSET Places /\ Read \in SUBSET Places /\ "held" \in Places
      BY PlaceSets DEF Places
    <3> QED BY <3>1, <3>2
  <2> QED BY <2>1
<1>2. \A i \in DOMAIN cq' : \E j \in DOMAIN cq : cq'[i] = cq[j]
  <2>1. cq \in Seq([entry : Entry, ok : BOOLEAN])
    BY DEF IInv, ListsTypeOK
  <2>2. CASE cq' = cq
    BY <2>2
  <2>3. CASE cq # <<>> /\ cq' = Tail(cq)
    <3>1. \A i \in DOMAIN cq' : i + 1 \in DOMAIN cq /\ cq'[i] = cq[i + 1]
      BY <2>1, <2>3
    <3> QED BY <3>1
  <2> QED BY <2>2, <2>3
<1> QED BY <1>1, <1>2, StayData

\* Every step keeps the invariant.
LEMMA NextData == DistinctNames /\ IInv /\ MemInv /\ DataInv /\ [Next]_vars => DataInv'
<1> SUFFICES ASSUME DistinctNames, IInv, MemInv, DataInv, [Next]_vars PROVE DataInv'
  OBVIOUS
<1>1. CASE \E w \in Workers : Worker(w)
  BY <1>1, RequestData, GetData, NeverAborts, ReleaseData DEF Worker
<1>2. ASSUME reader_dispatch \/ reader_submit \/ reader_pop_empty \/ respond_error \/ UNCHANGED vars
      PROVE  DataInv'
  <2>1. SamePlaces
    BY <1>2, DispatchStep, SubmitStep, PopEmptyStep, RespondErrorStep, StutterStep, StaySamePlaces
  <2>2. UNCHANGED <<crashed, path, shm, lmap, wmap, contents, cq>>
    BY <1>2 DEF reader_dispatch, reader_submit, reader_pop_empty, respond_error, vars,
                workerVars, memVars, ringVars, CqAfterError
  <2> QED BY <2>1, <2>2, StayData DEF SamePlaces
<1>3. CASE reader_pop
  <2>1. /\ MovesFrom(Head(ready[rr]), "ready", "opening")
        /\ UNCHANGED <<crashed, path, shm, lmap, wmap, contents>> /\ cq' = cq
    BY <1>3, PopStep DEF reader_pop, workerVars, memVars, ringVars
  <2> QED BY <2>1, OtherMovesData DEF Places, Linked, Read
<1>4. ASSUME NEW e \in opening, reader_open(e) PROVE DataInv'
  <2>1. /\ MovesFrom(e, "opening", "batch")
        /\ UNCHANGED <<crashed, path, shm, lmap, wmap, contents>> /\ cq' = cq
    BY <1>4, OpenStep DEF reader_open, workerVars, memVars, ringVars
  <2> QED BY <2>1, OtherMovesData DEF Places, Linked, Read
<1>5. ASSUME NEW e \in opening, reader_open_fails(e) PROVE DataInv'
  <2>1. /\ MovesFrom(e, "opening", "ready")
        /\ UNCHANGED <<crashed, path, shm, lmap, wmap, contents>> /\ cq' = cq
    BY <1>5, OpenFailsStep DEF reader_open_fails, workerVars, memVars, ringVars
  <2> QED BY <2>1, OtherMovesData DEF Places, Linked, Read
<1>6. CASE Kernel
  BY <1>6, KernelData DEF Kernel
<1>7. CASE respond_seen
  <2>1. /\ MovesFrom(Head(cq).entry, "cq", "responding")
        /\ UNCHANGED <<crashed, path, shm, lmap, wmap, contents>>
        /\ cq # <<>> /\ cq' = Tail(cq) /\ Head(cq).ok
    BY <1>7, RespondSeenStep DEF respond_seen, Succeeded, workerVars, memVars
  <2>2. HasData(Head(cq).entry)
    <3>1. 1 \in DOMAIN cq /\ Head(cq) = cq[1]
      BY <2>1 DEF IInv, ListsTypeOK
    <3> QED BY <2>1, <3>1 DEF DataInv, DataDone
  <2> QED BY <2>1, <2>2, OtherMovesData DEF Places, Linked, Read
<1>8. ASSUME NEW e \in responding, respond_push(e) PROVE DataInv'
  <2>1. /\ MovesFrom(e, "responding", "completed")
        /\ UNCHANGED <<crashed, path, shm, lmap, wmap, contents>> /\ cq' = cq
    BY <1>8, RespondPushStep DEF respond_push, workerVars, memVars
  <2> QED BY <2>1, OtherMovesData DEF Places, Linked, Read
<1> QED BY <1>1, <1>2, <1>3, <1>4, <1>5, <1>6, <1>7, <1>8, PerformIoData, PerformIoFailsData
        DEF Next, Reader, Responder

\* With names in use by one request at a time, every name, object and datum is the
\* entry's it was opened for.
THEOREM DataInvariance == DistinctNames /\ Spec => [](IInv /\ MemInv /\ DataInv)
<1>1. Init => DataInv
  <2>1. SUFFICES ASSUME Init PROVE DataInv
    OBVIOUS
  <2>2. \A e \in Entry : ~Busy(e) /\ ~At(e, Linked) /\ ~At(e, Read) /\ ~In(e, "held")
    BY <2>1, InitAllFree DEF Busy, At, Linked, Read, Places
  <2>3. cq = <<>> /\ crashed = {} /\ shm = [n \in Names |-> None]
    BY <2>1 DEF Init
  <2> QED BY <2>2, <2>3 DEF DataInv, NamesApart, NamesBacked, ObjectsLinked, ObjectsApart,
             ObjectsMapped, DataRead, DataDone
<1>2. SUFFICES ASSUME DistinctNames PROVE Spec => [](IInv /\ MemInv /\ DataInv)
  OBVIOUS
<1>3. Init => IInv /\ MemInv
  BY InitIInv, InitMemory
<1>4. IInv /\ MemInv /\ DataInv /\ [Next]_vars => IInv' /\ MemInv' /\ DataInv'
  BY <1>2, NextIInv, NextMemory, NextData
<1> QED BY <1>1, <1>3, <1>4, PTL DEF Spec

\* From its completion to its release the data of a request is its file's, whatever the
\* other entries are used for meanwhile, when no two requests under way share a shm name.
THEOREM DataStaysOwn == DistinctNames => (Spec => []DataIsOwn)
<1>1. ASSUME IInv, MemInv, DataInv PROVE CompletedIsReadable
  <2>1. SUFFICES ASSUME NEW w \in Workers, NEW e \in ToSet(completed[w])
                 PROVE  shm[Name(e)] # None /\ contents[shm[Name(e)]] = path[e]
    BY DEF CompletedIsReadable
  <2>2. e \in Entry
    BY <1>1 DEF IInv, ListsTypeOK, ToSet
  <2>3. Owner(e) = w
    BY <1>1, <2>2 DEF IInv, OwnLists
  <2>4. In(e, "completed")
    BY <2>3 DEF In
  <2>5. At(e, Linked) /\ At(e, Read)
    BY <2>4 DEF At, Linked, Read
  <2> QED BY <1>1, <2>2, <2>5, LinkedFacts DEF DataInv, DataRead, HasData
<1>2. ASSUME IInv, MemInv, DataInv PROVE HeldDataIsOwn
  <2>1. SUFFICES ASSUME NEW w \in Workers \ crashed, NEW e \in held[w]
                 PROVE  wmap[e] # None /\ contents[wmap[e]] = path[e]
    BY DEF HeldDataIsOwn
  <2>2. e \in Entry
    BY <1>2 DEF IInv, ListsTypeOK
  <2>3. Owner(e) = w
    BY <1>2, <2>2 DEF IInv, OwnLists
  <2>4. In(e, "held")
    BY <2>3 DEF In
  <2>5. At(e, Linked) /\ At(e, Read)
    BY <2>4 DEF At, Linked, Read
  <2> QED BY <1>2, <2>2, <2>4, <2>5, LinkedFacts DEF DataInv, DataRead, ObjectsMapped, HasData
<1>3. IInv /\ MemInv /\ DataInv => DataIsOwn
  BY <1>1, <1>2 DEF DataIsOwn
<1> QED BY <1>3, DataInvariance, PTL

\* ... and the assert of async_try_get stops no worker (async.c:136).
THEOREM ShmOpensSucceed == DistinctNames => (Spec => []ShmOpenSucceeds)
<1>1. DataInv => ShmOpenSucceeds
  BY DEF DataInv, ShmOpenSucceeds
<1> QED BY <1>1, DataInvariance, PTL
=============================================================================
