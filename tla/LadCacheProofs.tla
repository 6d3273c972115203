--------------------------- MODULE LadCacheProofs ---------------------------
(***************************************************************************)
(* LadCacheNode, for any number of users, requests, files and failures: no *)
(* file enters the cache without its peers being told of it, or a message  *)
(* that names it failing; a user's requests go to storage in the order of  *)
(* submission, with the limiter or without it; the node implements         *)
(* LoaderService; the counts of reads and of cached bytes are right; what  *)
(* is cached, completed or held is whole, of every file that was not asked *)
(* for twice at once before it was cached.                                 *)
(***************************************************************************)
EXTENDS LadCacheNode, DataLemmas

Completion == [entry : Entry, ok : BOOLEAN]

\* What is cached is on the list, sent, or in a message that failed; to know which file
\* a completed read adds, the completions must be those of entries.
CacheInv ==
    /\ turn \in Users
    /\ path \in [Entry -> Path \union {None}]
    /\ reading \subseteq Entry
    /\ cq \in [Users -> Seq(Completion)]
    /\ DOMAIN ht = Path
    /\ unsynced \in Seq(Path \union {None})
    /\ CachedIsAnnounced

\* A new node has cached nothing.
LEMMA InitCacheInv == Init => CacheInv
<1> SUFFICES ASSUME Init PROVE CacheInv
  OBVIOUS
<1>1. turn \in Users /\ path \in [Entry -> Path \union {None}] /\ reading \subseteq Entry
  BY NodeAssumption DEF Init, Users
<1>2. /\ cq \in [Users -> Seq(Completion)] /\ unsynced \in Seq(Path \union {None})
      /\ DOMAIN ht = Path /\ \A p \in Path : ht[p] = <<>>
  BY DEF Init
<1> QED BY <1>1, <1>2 DEF CacheInv, CachedIsAnnounced

\* A step of a user, of a thread or of a peer: the cache and the list stay.
LEMMA OutsideStep ==
    ASSUME CacheInv, UNCHANGED <<turn, ht, unsynced, announced, unsent>>,
           path' \in [Entry -> Path \union {None}],
           reading' \subseteq Entry, cq' \in [Users -> Seq(Completion)]
    PROVE  CacheInv'
BY DEF CacheInv, CachedIsAnnounced

\* What is taken off the list was sent, or was in a message that failed.
LEMMA SyncStep ==
    ASSUME CacheInv, manager_sync
    PROVE  CacheInv'
<1>1. UNCHANGED <<path, reading, cq, ht>>
  BY DEF manager_sync, cache_sync, request, io
<1>2. turn' \in Users
  BY NodeAssumption DEF manager_sync, cache_sync, CacheInv, Users
<1>3. unsynced' \in Seq(Path \union {None})
  <2>1. unsynced' = unsynced \/ unsynced' = <<>>
    BY DEF manager_sync, cache_sync
  <2>2. <<>> \in Seq(Path \union {None})
    OBVIOUS
  <2>3. unsynced \in Seq(Path \union {None})
    BY DEF CacheInv
  <2> QED BY <2>1, <2>2, <2>3
<1>4. CachedIsAnnounced'
  <2>1. SUFFICES ASSUME NEW p \in Path, ht[p] # <<>>
                 PROVE  p \in ToSet(unsynced') \union announced' \union unsent'
    BY <1>1 DEF CachedIsAnnounced
  <2>2. p \in ToSet(unsynced) \union announced \union unsent
    BY <2>1 DEF CacheInv, CachedIsAnnounced
  <2>3. CASE UNCHANGED <<unsynced, announced, unsent>>
    BY <2>2, <2>3
  <2>4. CASE unsynced = <<>> /\ UNCHANGED <<announced, unsent>>
    <3>1. ToSet(unsynced) = {}
      BY <2>4 DEF ToSet
    <3> QED BY <2>2, <2>4, <3>1
  <2>5. CASE announced' = announced \union ToSet(unsynced) /\ unsent' = unsent \ ToSet(unsynced)
    BY <2>2, <2>5
  <2>6. CASE unsent' = unsent \union (ToSet(unsynced) \ announced) /\ UNCHANGED announced
    BY <2>2, <2>6
  <2> QED BY <2>3, <2>4, <2>5, <2>6 DEF manager_sync, cache_sync
<1> QED BY <1>1, <1>2, <1>3, <1>4 DEF CacheInv

\* A file that is cached goes on the list in the same step.
LEMMA DoneStep ==
    ASSUME CacheInv, check_done
    PROVE  CacheInv'
<1> DEFINE c == Head(cq[turn])
           p == path[c.entry]
<1>1. /\ cq[turn] \in Seq(Completion) /\ cq[turn] # <<>>
      /\ cq' = [cq EXCEPT ![turn] = Tail(@)]
      /\ UNCHANGED <<turn, path, reading, announced, unsent>>
      /\ \/ UNCHANGED <<ht, unsynced>>
         \/ ht' = Added(c.entry) /\ unsynced' = Listed(p)
  BY DEF check_done, manager, history, cache, CacheInv
<1>2. c \in Completion /\ Tail(cq[turn]) \in Seq(Completion)
  BY <1>1
<1>3. cq' \in [Users -> Seq(Completion)]
  BY <1>1, <1>2 DEF CacheInv
<1>4. p \in Path \union {None}
  BY <1>2 DEF CacheInv, Completion
<1> HIDE DEF c, p
<1>5. CASE UNCHANGED <<ht, unsynced>>
  BY <1>1, <1>3, <1>5 DEF CacheInv, CachedIsAnnounced
<1>6. CASE ht' = Added(c.entry) /\ unsynced' = Listed(p)
  <2>1. /\ unsynced' \in Seq(Path \union {None})
        /\ ToSet(unsynced') = ToSet(unsynced) \union {p}
    BY <1>4, <1>6, AppendElems DEF Listed, CacheInv
  <2>2. DOMAIN ht' = Path /\ \A q \in Path : q # p => ht'[q] = ht[q]
    BY <1>6 DEF Added, CacheInv, p
  <2> QED BY <1>1, <1>3, <2>1, <2>2 DEF CacheInv, CachedIsAnnounced
<1> QED BY <1>1, <1>5, <1>6

\* Every step keeps it.
LEMMA NextCacheInv == CacheInv /\ [Next]_vars => CacheInv'
<1> SUFFICES ASSUME CacheInv, [Next]_vars PROVE CacheInv'
  OBVIOUS
<1>0. /\ path \in [Entry -> Path \union {None}] /\ reading \subseteq Entry
      /\ cq \in [Users -> Seq(Completion)]
  BY DEF CacheInv
<1>1. ASSUME User PROVE CacheInv'
  <2>1. /\ UNCHANGED <<turn, ht, unsynced, announced, unsent, reading, cq>>
        /\ path' \in [Entry -> Path \union {None}]
    <3>1. ASSUME NEW u \in Users, NEW p \in Path, cache_get_submit(u, p)
          PROVE  /\ UNCHANGED <<turn, ht, unsynced, announced, unsent, reading, cq>>
                 /\ path' \in [Entry -> Path \union {None}]
      BY <1>0, <3>1 DEF cache_get_submit, io, cache, manager, history
    <3>2. ASSUME NEW u \in Users, cache_get_reap(u) \/ reap_fails(u)
          PROVE  UNCHANGED <<turn, ht, unsynced, announced, unsent, reading, cq, path>>
      BY <3>2 DEF cache_get_reap, reap_fails, io, request, cache, manager, history
    <3>3. ASSUME NEW e \in held, cache_release(e)
          PROVE  UNCHANGED <<turn, ht, unsynced, announced, unsent, reading, cq, path>>
      BY <3>3 DEF cache_release, io, request, cache, manager, history
    <3> QED BY <1>0, <1>1, <3>1, <3>2, <3>3 DEF User
  <2> QED BY <1>0, <2>1, OutsideStep
<1>2. CASE manager_sync
  BY <1>2, SyncStep
<1>3. CASE check_nothing \/ check_done_ends
  BY <1>0, <1>3, OutsideStep DEF check_nothing, check_done_ends, io, request, cache, history
<1>4. ASSUME NEW e \in Entry,
             check_local(e) \/ check_remote(e) \/ check_bottleneck(e)
               \/ check_submit(e) \/ check_submit_fails(e)
      PROVE  CacheInv'
  <2>1. /\ UNCHANGED <<turn, ht, unsynced, announced, unsent, path, cq>>
        /\ reading' \subseteq Entry
    BY <1>0, <1>4 DEF check_local, check_remote, check_bottleneck, check_submit,
                      check_submit_fails, io, request, cache, history
  <2> QED BY <1>0, <2>1, OutsideStep
<1>5. CASE check_done
  BY <1>5, DoneStep
<1>6. CASE check_cleanup
  <2>1. /\ UNCHANGED <<turn, ht, unsynced, announced, unsent, reading, cq>>
        /\ path' \in [Entry -> Path \union {None}]
    BY <1>0, <1>6 DEF check_cleanup, io, cache, history
  <2> QED BY <1>0, <2>1, OutsideStep
<1>7. ASSUME NEW e \in Entry, kernel_read(e) PROVE CacheInv'
  <2>1. /\ UNCHANGED <<turn, ht, unsynced, announced, unsent, path>>
        /\ reading' = reading \ {e}
        /\ \E ok \in BOOLEAN :
             cq' = [cq EXCEPT ![Owner(e)] = Append(@, [entry |-> e, ok |-> ok])]
    BY <1>7 DEF kernel_read, request, cache, manager, history
  <2>2. cq' \in [Users -> Seq(Completion)]
    <3>1. PICK ok \in BOOLEAN :
            cq' = [cq EXCEPT ![Owner(e)] = Append(@, [entry |-> e, ok |-> ok])]
      BY <2>1
    <3>2. [entry |-> e, ok |-> ok] \in Completion /\ Owner(e) \in Users
      BY DEF Completion, Entry, Owner
    <3> QED BY <1>0, <3>1, <3>2
  <2> QED BY <1>0, <2>1, <2>2, OutsideStep
<1>8. ASSUME NEW e \in Entry,
             cache_remote_load(e) \/ remote_load_fails(e) \/ remote_load_hangs(e)
      PROVE  CacheInv'
  BY <1>0, <1>8, OutsideStep DEF cache_remote_load, remote_load_fails, remote_load_hangs,
                                 Fetched, request, cache, manager, history
<1>9. CASE \E p \in PeerFiles : peer_announces(p)
  BY <1>0, <1>9, OutsideStep DEF peer_announces, io, request, cache, manager, history
<1>10. CASE UNCHANGED vars
  BY <1>0, <1>10, OutsideStep DEF vars, io, request, cache, manager, history
<1> QED BY <1>1, <1>2, <1>3, <1>4, <1>5, <1>6, <1>7, <1>8, <1>9, <1>10
        DEF Next, Manager, check_ready

\* For any number of users, files and failures: what a node caches it announces, or the
\* message that was to announce it failed.
THEOREM NothingCachedSilently == Spec => []CachedIsAnnounced
<1>1. CacheInv => CachedIsAnnounced
  BY DEF CacheInv
<1> QED BY <1>1, InitCacheInv, NextCacheInv, PTL DEF Spec

-----------------------------------------------------------------------------
(* Where each request is; the order of requests; the refinement.           *)

\* The entries whose completions are in a ring.
Ents(s) == [i \in 1 .. Len(s) |-> s[i].entry]
Ring == [u \in Users |-> Ents(cq[u])]

Places == {"free", "ready", "bottleneck", "reading", "cq", "fetching", "done", "held",
           "lost", "cleanup"}

In(e, p) ==
    \/ p = "free"       /\ e \in ToSet(free[Owner(e)])
    \/ p = "ready"      /\ e \in ToSet(ready[Owner(e)])
    \/ p = "bottleneck" /\ e \in ToSet(bottleneck[Owner(e)])
    \/ p = "reading"    /\ e \in reading
    \/ p = "cq"         /\ e \in ToSet(Ring[Owner(e)])
    \/ p = "fetching"   /\ e \in fetching
    \/ p = "done"       /\ e \in ToSet(done[Owner(e)])
    \/ p = "held"       /\ e \in held
    \/ p = "lost"       /\ e \in lost
    \/ p = "cleanup"    /\ e \in ToSet(cleanup[Owner(e)])

InOnePlace(e) == \E p \in Places : \A q \in Places : In(e, q) <=> q = p

\* Queues of the users' own requests, none of which is in one twice.
OwnQueues(q) ==
    /\ Queues(Users, Entry, q)
    /\ \A u \in Users : \A e \in ToSet(q[u]) : Owner(e) = u

\* The bottleneck is used only by the limiter.
Limiter ==
    /\ debug_limit \in Nat
    /\ debug_count \in [Users -> Int]
    /\ debug_limit = 0 => \A u \in Users : bottleneck[u] = <<>>

Shapes ==
    /\ OwnQueues(free) /\ OwnQueues(ready) /\ OwnQueues(bottleneck) /\ OwnQueues(done)
    /\ OwnQueues(cleanup) /\ OwnQueues(Ring)
    /\ fetching \subseteq Entry /\ held \subseteq Entry /\ lost \subseteq Entry
    /\ Limiter

\* The inductive invariant; CacheInv has the types of path, reading, cq and turn.
NodeInv ==
    /\ CacheInv
    /\ Shapes
    /\ \A e \in Entry : InOnePlace(e)

\* Request e moves from place p to place q, the others stay where they are.
Moves(e, p, q) ==
    /\ e \in Entry /\ In(e, p)
    /\ \A x \in Entry : \A r \in Places : In(x, r)' <=> IF x = e THEN r = q ELSE In(x, r)

\* r differs from q in that some queue no longer has e, or has it in addition.
Without(q, e, r) ==
    \A x \in Entry : x \in ToSet(r[Owner(x)]) <=> x \in ToSet(q[Owner(x)]) /\ x # e
With(q, e, r) ==
    \A x \in Entry : x \in ToSet(r[Owner(x)]) <=> x \in ToSet(q[Owner(x)]) \/ x = e

-----------------------------------------------------------------------------
(* Queues and places.                                                      *)

\* A request's owner is a user.
LEMMA OwnerIsUser == ASSUME NEW e \in Entry PROVE Owner(e) \in Users
BY DEF Entry, Owner

\* Popping a queue of a user takes one of his requests from it.
LEMMA PopOwn ==
    ASSUME NEW q, OwnQueues(q), NEW u \in Users, q[u] # <<>>,
           NEW r, r = [q EXCEPT ![u] = Tail(@)]
    PROVE  /\ OwnQueues(r)
           /\ Head(q[u]) \in Entry /\ Owner(Head(q[u])) = u /\ Head(q[u]) \in ToSet(q[u])
           /\ Without(q, Head(q[u]), r)
<1>1. /\ Queues(Users, Entry, r) /\ Head(q[u]) \in Entry
      /\ Loses(Users, q, u, Head(q[u]), r)
  BY PopOne DEF OwnQueues
<1>2. Owner(Head(q[u])) = u /\ Head(q[u]) \in ToSet(q[u])
  BY <1>1 DEF OwnQueues, Loses
<1>3. \A v \in Users : \A e \in ToSet(r[v]) : Owner(e) = v
  BY <1>1 DEF OwnQueues, Loses
<1>4. Without(q, Head(q[u]), r)
  <2>1. SUFFICES ASSUME NEW x \in Entry
                 PROVE  x \in ToSet(r[Owner(x)])
                          <=> x \in ToSet(q[Owner(x)]) /\ x # Head(q[u])
    BY DEF Without
  <2>2. Owner(x) \in Users
    BY OwnerIsUser
  <2> QED BY <1>1, <1>2, <2>2 DEF Loses
<1> QED BY <1>1, <1>2, <1>3, <1>4 DEF OwnQueues

\* Pushing a request of a user to one of his queues that does not have it.
LEMMA PushOwn ==
    ASSUME NEW q, OwnQueues(q), NEW e \in Entry, e \notin ToSet(q[Owner(e)]),
           NEW r, r = [q EXCEPT ![Owner(e)] = Append(@, e)]
    PROVE  OwnQueues(r) /\ With(q, e, r)
<1>1. Owner(e) \in Users
  BY OwnerIsUser
<1>2. Queues(Users, Entry, r) /\ Gains(Users, q, Owner(e), e, r)
  BY <1>1, PushOne DEF OwnQueues
<1>3. \A v \in Users : \A x \in ToSet(r[v]) : Owner(x) = v
  BY <1>1, <1>2 DEF OwnQueues, Gains
<1>4. With(q, e, r)
  <2>1. SUFFICES ASSUME NEW x \in Entry
                 PROVE  x \in ToSet(r[Owner(x)]) <=> x \in ToSet(q[Owner(x)]) \/ x = e
    BY DEF With
  <2>2. Owner(x) \in Users
    BY OwnerIsUser
  <2> QED BY <1>2, <2>2 DEF Gains
<1> QED BY <1>2, <1>3, <1>4 DEF OwnQueues

\* The entries of completions that are appended, and of those that are left.
LEMMA EntsOf ==
    ASSUME NEW s \in Seq(Completion)
    PROVE  /\ \A c \in Completion : Ents(Append(s, c)) = Append(Ents(s), c.entry)
           /\ s # <<>> => /\ Ents(s) # <<>> /\ Head(Ents(s)) = Head(s).entry
                          /\ Ents(Tail(s)) = Tail(Ents(s))
<1>1. Len(s) \in Nat /\ \A i \in 1 .. Len(s) : s[i].entry \in Entry
  <2>1. \A i \in 1 .. Len(s) : s[i] \in Completion
    BY ElementsIn
  <2> QED BY <2>1 DEF Completion
<1>2. /\ Ents(s) \in Seq(Entry) /\ Len(Ents(s)) = Len(s)
      /\ \A i \in 1 .. Len(s) : Ents(s)[i] = s[i].entry
  <2>1. Ents(s) \in [1 .. Len(s) -> Entry]
    BY <1>1 DEF Ents
  <2> QED BY <1>1, <2>1 DEF Ents
<1>3. ASSUME NEW c \in Completion PROVE Ents(Append(s, c)) = Append(Ents(s), c.entry)
  <2> DEFINE t == Append(s, c)
             a == Append(Ents(s), c.entry)
  <2>1. /\ Len(t) = Len(s) + 1 /\ t[Len(s) + 1] = c
        /\ \A i \in 1 .. Len(s) : t[i] = s[i]
    OBVIOUS
  <2>2. c.entry \in Entry
    BY DEF Completion
  <2>3. /\ a \in Seq(Entry) /\ Len(a) = Len(s) + 1 /\ a[Len(s) + 1] = c.entry
        /\ \A i \in 1 .. Len(s) : a[i] = Ents(s)[i]
    BY <1>2, <2>2
  <2> HIDE DEF t, a
  <2>4. \A i \in 1 .. (Len(s) + 1) : t[i].entry = a[i]
    BY <1>1, <1>2, <2>1, <2>3
  <2>5. \A i \in 1 .. (Len(s) + 1) : a[i] \in Entry
    BY <2>3, ElementsIn
  <2>6. Ents(t) \in [1 .. (Len(s) + 1) -> Entry]
        /\ \A i \in 1 .. (Len(s) + 1) : Ents(t)[i] = a[i]
    BY <2>1, <2>4, <2>5 DEF Ents
  <2>7. Ents(t) \in Seq(Entry) /\ Len(Ents(t)) = Len(s) + 1
    <3>1. DOMAIN Ents(t) = 1 .. (Len(s) + 1)
      BY <2>6
    <3>2. Ents(t) \in Seq(Entry)
      BY <1>1, <2>6
    <3> QED BY <1>1, <3>1, <3>2
  <2>8. Ents(t) = a
    BY <1>1, <2>3, <2>6, <2>7, SameSeq
  <2> QED BY <2>8 DEF t, a
<1>4. ASSUME s # <<>>
      PROVE  /\ Ents(s) # <<>> /\ Head(Ents(s)) = Head(s).entry
             /\ Ents(Tail(s)) = Tail(Ents(s))
  <2> DEFINE t == Tail(s)
             a == Tail(Ents(s))
  <2>1. /\ Len(s) > 0 /\ t \in Seq(Completion) /\ Len(t) = Len(s) - 1
        /\ \A i \in 1 .. (Len(s) - 1) : t[i] = s[i + 1]
    BY <1>4
  <2>2. Ents(s) # <<>> /\ Head(Ents(s)) = Head(s).entry
    BY <1>1, <1>2, <2>1
  <2>3. /\ a \in Seq(Entry) /\ Len(a) = Len(s) - 1
        /\ \A i \in 1 .. (Len(s) - 1) : a[i] = Ents(s)[i + 1]
    BY <1>1, <1>2, <2>2
  <2> HIDE DEF t, a
  <2>4. \A i \in 1 .. (Len(s) - 1) : t[i].entry = a[i]
    BY <1>1, <1>2, <2>1, <2>3
  <2>5. \A i \in 1 .. (Len(s) - 1) : a[i] \in Entry
    BY <2>3, ElementsIn
  <2>6. Ents(t) \in [1 .. (Len(s) - 1) -> Entry]
        /\ \A i \in 1 .. (Len(s) - 1) : Ents(t)[i] = a[i]
    BY <2>1, <2>4, <2>5 DEF Ents
  <2>7. Ents(t) \in Seq(Entry) /\ Len(Ents(t)) = Len(s) - 1
    <3>1. DOMAIN Ents(t) = 1 .. (Len(s) - 1)
      BY <2>6
    <3>2. Len(s) - 1 \in Nat
      BY <1>1, <2>1
    <3>3. \A n \in Nat : Ents(t) \in [1 .. n -> Entry] => Ents(t) \in Seq(Entry)
      OBVIOUS
    <3> QED BY <2>6, <3>1, <3>2, <3>3
  <2>8. Ents(t) = a
    BY <1>1, <2>3, <2>6, <2>7, SameSeq
  <2> QED BY <2>2, <2>8 DEF t, a
<1> QED BY <1>3, <1>4

\* A request in one place is in no other.
LEMMA OnlyPlace ==
    ASSUME NEW e \in Entry, InOnePlace(e), NEW p \in Places, In(e, p)
    PROVE  \A q \in Places : In(e, q) <=> q = p
BY DEF InOnePlace

\* A move keeps every request in one place.
LEMMA MoveKeepsOnePlace ==
    ASSUME \A x \in Entry : InOnePlace(x), NEW e, NEW p \in Places, NEW q \in Places,
           Moves(e, p, q)
    PROVE  \A x \in Entry : InOnePlace(x)'
<1> SUFFICES ASSUME NEW x \in Entry PROVE InOnePlace(x)'
  OBVIOUS
<1>1. CASE x = e
  BY <1>1 DEF InOnePlace, Moves
<1>2. CASE x # e
  <2>1. PICK s \in Places : \A r \in Places : In(x, r) <=> r = s
    BY DEF InOnePlace
  <2>2. \A r \in Places : In(x, r)' <=> r = s
    BY <1>2, <2>1 DEF Moves
  <2> QED BY <2>2 DEF InOnePlace
<1> QED BY <1>1, <1>2

-----------------------------------------------------------------------------
(* One lemma per action that moves a request.                              *)

\* A submission.
LEMMA SubmitStep ==
    ASSUME NodeInv, NEW u \in Users, NEW f \in Path, cache_get_submit(u, f)
    PROVE  Shapes' /\ Moves(Head(free[u]), "free", "ready")
<1> DEFINE e == Head(free[u])
<1>1. /\ free[u] # <<>>
      /\ free' = [free EXCEPT ![u] = Tail(@)]
      /\ ready' = [ready EXCEPT ![u] = Append(@, e)]
      /\ UNCHANGED <<bottleneck, done, cleanup, debug_limit, debug_count, reading, cq, fetching,
                     held, lost>>
  BY DEF cache_get_submit, counts, io, user
<1>2. /\ OwnQueues(free') /\ e \in Entry /\ Owner(e) = u /\ e \in ToSet(free[u])
      /\ Without(free, e, free')
  BY <1>1, PopOwn DEF NodeInv, Shapes
<1> HIDE DEF e
<1>3. \A q \in Places : In(e, q) <=> q = "free"
  BY <1>2, OnlyPlace DEF NodeInv, In, Places
<1>4. OwnQueues(ready') /\ With(ready, e, ready')
  BY <1>1, <1>2, <1>3, PushOwn DEF NodeInv, Shapes, In, Places
<1>5. Ring' = Ring
  BY <1>1 DEF Ring
<1>6. Shapes'
  BY <1>1, <1>2, <1>4, <1>5 DEF NodeInv, Shapes, Limiter
<1>7. Moves(e, "free", "ready")
  BY <1>1, <1>2, <1>3, <1>4, <1>5 DEF Moves, In, Places, With, Without
<1> QED BY <1>6, <1>7 DEF e

\* A reap, of either kind.
LEMMA ReapStep ==
    ASSUME NodeInv, NEW u \in Users, cache_get_reap(u) \/ reap_fails(u)
    PROVE  Shapes' /\ \E p \in {"held", "lost"} : Moves(Head(done[u]), "done", p)
<1> DEFINE e == Head(done[u])
<1>1. /\ done[u] # <<>>
      /\ done' = [done EXCEPT ![u] = Tail(@)]
      /\ \/ held' = held \union {e} /\ lost' = lost
         \/ lost' = lost \union {e} /\ held' = held
      /\ UNCHANGED <<free, ready, bottleneck, cleanup, debug_limit, debug_count, reading, cq,
                     fetching>>
  BY DEF cache_get_reap, reap_fails, counts, io
<1>2. /\ OwnQueues(done') /\ e \in Entry /\ Owner(e) = u /\ e \in ToSet(done[u])
      /\ Without(done, e, done')
  BY <1>1, PopOwn DEF NodeInv, Shapes
<1> HIDE DEF e
<1>3. \A q \in Places : In(e, q) <=> q = "done"
  BY <1>2, OnlyPlace DEF NodeInv, In, Places
<1>4. Ring' = Ring
  BY <1>1 DEF Ring
<1>5. Shapes'
  BY <1>1, <1>2, <1>4 DEF NodeInv, Shapes, Limiter
<1>6. CASE held' = held \union {e} /\ lost' = lost
  <2>1. Moves(e, "done", "held")
    BY <1>1, <1>2, <1>3, <1>4, <1>6 DEF Moves, In, Places, Without
  <2> QED BY <1>5, <2>1 DEF e
<1>7. CASE lost' = lost \union {e} /\ held' = held
  <2>1. Moves(e, "done", "lost")
    BY <1>1, <1>2, <1>3, <1>4, <1>7 DEF Moves, In, Places, Without
  <2> QED BY <1>5, <2>1 DEF e
<1> QED BY <1>1, <1>6, <1>7

\* A release.
LEMMA ReleaseStep ==
    ASSUME NodeInv, NEW e \in held, cache_release(e)
    PROVE  Shapes' /\ Moves(e, "held", "cleanup")
<1>1. /\ held' = held \ {e}
      /\ cleanup' = [cleanup EXCEPT ![Owner(e)] = Append(@, e)]
      /\ UNCHANGED <<free, ready, bottleneck, done, debug_limit, debug_count, reading, cq,
                     fetching, lost>>
  BY DEF cache_release, counts, io
<1>2. e \in Entry
  BY DEF NodeInv, Shapes
<1>3. \A q \in Places : In(e, q) <=> q = "held"
  BY <1>2, OnlyPlace DEF NodeInv, In, Places
<1>4. OwnQueues(cleanup') /\ With(cleanup, e, cleanup')
  BY <1>1, <1>2, <1>3, PushOwn DEF NodeInv, Shapes, In, Places
<1>5. Ring' = Ring
  BY <1>1 DEF Ring
<1>6. Shapes'
  BY <1>1, <1>4, <1>5 DEF NodeInv, Shapes, Limiter
<1>7. Moves(e, "held", "cleanup")
  BY <1>1, <1>2, <1>3, <1>4, <1>5 DEF Moves, In, Places, With
<1> QED BY <1>6, <1>7

\* The request the manager looks at is at the head of a queue of the user whose turn it
\* is, and of no other.
LEMMA CandidateFacts ==
    ASSUME NodeInv, NEW e \in Entry, e = Candidate(turn)
    PROVE  /\ turn \in Users /\ Owner(e) = turn
           /\ \/ /\ bottleneck[turn] # <<>> /\ e = Head(bottleneck[turn])
                 /\ debug_limit # 0 /\ debug_count[turn] < debug_limit
                 /\ In(e, "bottleneck")
              \/ /\ ready[turn] # <<>> /\ e = Head(ready[turn])
                 /\ ~(debug_limit # 0 /\ debug_count[turn] < debug_limit /\ bottleneck[turn] # <<>>)
                 /\ In(e, "ready")
<1>1. turn \in Users /\ e # None
  BY NodeAssumption DEF NodeInv, CacheInv
<1>2. CASE debug_limit # 0 /\ debug_count[turn] < debug_limit /\ bottleneck[turn] # <<>>
  <2>1. e = Head(bottleneck[turn])
    BY <1>2 DEF Candidate
  <2>2. Owner(e) = turn /\ e \in ToSet(bottleneck[turn])
    BY <1>1, <1>2, <2>1, PopOwn DEF NodeInv, Shapes
  <2> QED BY <1>1, <1>2, <2>1, <2>2 DEF In
<1>3. CASE ~(debug_limit # 0 /\ debug_count[turn] < debug_limit /\ bottleneck[turn] # <<>>)
  <2>1. ready[turn] # <<>> /\ e = Head(ready[turn])
    BY <1>1, <1>3 DEF Candidate
  <2>2. Owner(e) = turn /\ e \in ToSet(ready[turn])
    BY <1>1, <2>1, PopOwn DEF NodeInv, Shapes
  <2> QED BY <1>1, <1>3, <2>1, <2>2 DEF In
<1> QED BY <1>2, <1>3

\* Popped takes a request from the queue it heads and leaves a queue without it alone.
LEMMA PoppedOwn ==
    ASSUME NEW q, OwnQueues(q), NEW e \in Entry,
           \/ q[Owner(e)] # <<>> /\ e = Head(q[Owner(e)])
           \/ e \notin ToSet(q[Owner(e)]),
           NEW r, r = [q EXCEPT ![Owner(e)] = Popped(@, e)]
    PROVE  OwnQueues(r) /\ Without(q, e, r)
<1> DEFINE u == Owner(e)
<1>1. u \in Users
  BY OwnerIsUser
<1>2. CASE q[u] # <<>> /\ e = Head(q[u])
  <2>1. r = [q EXCEPT ![u] = Tail(@)]
    BY <1>2 DEF Popped
  <2>2. OwnQueues(r) /\ Without(q, Head(q[u]), r)
    <3> HIDE DEF u
    <3> QED BY <1>1, <1>2, <2>1, PopOwn
  <2> QED BY <1>2, <2>2
<1>3. CASE e \notin ToSet(q[u])
  <2>1. ~(q[u] # <<>> /\ Head(q[u]) = e)
    BY <1>1, <1>3, PopOwn
  <2>2. r = [q EXCEPT ![u] = @]
    BY <2>1 DEF Popped
  <2>3. q \in [Users -> Seq(Entry)]
    BY DEF OwnQueues, Queues
  <2>4. r = q
    BY <2>2, <2>3
  <2> QED BY <1>3, <2>4 DEF Without
<1> QED BY <1>2, <1>3

\* What Taken does to the queues of requests that wait.
LEMMA TakenStep ==
    ASSUME NodeInv, NEW e \in Entry, e = Candidate(turn), Taken(turn, e)
    PROVE  /\ OwnQueues(ready') /\ OwnQueues(bottleneck')
           /\ Without(ready, e, ready') /\ Without(bottleneck, e, bottleneck')
           /\ debug_limit = 0 => \A u \in Users : bottleneck'[u] = <<>>
           /\ \E p \in {"ready", "bottleneck"} : \A q \in Places : In(e, q) <=> q = p
<1> DEFINE u == turn
<1>1. /\ u \in Users /\ Owner(e) = u
      /\ \/ bottleneck[u] # <<>> /\ e = Head(bottleneck[u]) /\ debug_limit # 0 /\ In(e, "bottleneck")
         \/ ready[u] # <<>> /\ e = Head(ready[u]) /\ In(e, "ready")
  BY CandidateFacts
<1>2. \E p \in {"ready", "bottleneck"} : \A q \in Places : In(e, q) <=> q = p
  <2>1. {"ready", "bottleneck"} \subseteq Places /\ InOnePlace(e)
    BY DEF Places, NodeInv
  <2> QED BY <1>1, <2>1, OnlyPlace
<1>3. /\ OwnQueues(ready) /\ OwnQueues(bottleneck)
      /\ ready' = [ready EXCEPT ![u] = Popped(@, e)]
      /\ bottleneck' = [bottleneck EXCEPT ![u] = Popped(@, e)]
  BY DEF NodeInv, Shapes, Taken
<1>4. /\ \/ ready[u] # <<>> /\ e = Head(ready[u])
         \/ e \notin ToSet(ready[u])
      /\ \/ bottleneck[u] # <<>> /\ e = Head(bottleneck[u])
         \/ e \notin ToSet(bottleneck[u])
  BY <1>1, <1>2 DEF In, Places
<1>5. OwnQueues(ready') /\ Without(ready, e, ready')
  BY <1>1, <1>3, <1>4, PoppedOwn
<1>6. OwnQueues(bottleneck') /\ Without(bottleneck, e, bottleneck')
  BY <1>1, <1>3, <1>4, PoppedOwn
<1>7. ASSUME debug_limit = 0, NEW v \in Users PROVE bottleneck'[v] = <<>>
  <2>1. bottleneck[v] = <<>> /\ bottleneck \in [Users -> Seq(Entry)]
    BY <1>7 DEF NodeInv, Shapes, Limiter, OwnQueues, Queues
  <2> QED BY <1>3, <2>1 DEF Popped
<1> QED BY <1>2, <1>5, <1>6, <1>7

\* A request taken from the queues that completes at once: a local hit, or a read that
\* could not be submitted.
LEMMA AtOnceStep ==
    ASSUME NodeInv, NEW e \in Entry, check_local(e) \/ check_submit_fails(e)
    PROVE  Shapes' /\ \E p \in {"ready", "bottleneck"} : Moves(e, p, "done")
<1>1. /\ e = Candidate(turn) /\ Taken(turn, e)
      /\ done' = [done EXCEPT ![turn] = Append(@, e)]
      /\ UNCHANGED <<free, cleanup, debug_limit, debug_count, reading, cq, fetching, held, lost>>
  BY DEF check_local, check_submit_fails, Storage, Completed, counts, io, user
<1>2. /\ OwnQueues(ready') /\ OwnQueues(bottleneck')
      /\ Without(ready, e, ready') /\ Without(bottleneck, e, bottleneck')
      /\ debug_limit = 0 => \A u \in Users : bottleneck'[u] = <<>>
  BY <1>1, TakenStep
<1>3. PICK p \in {"ready", "bottleneck"} : \A q \in Places : In(e, q) <=> q = p
  BY <1>1, TakenStep
<1>4. Owner(e) = turn
  BY <1>1, CandidateFacts
<1>5. OwnQueues(done') /\ With(done, e, done')
  BY <1>1, <1>3, <1>4, PushOwn DEF NodeInv, Shapes, In, Places
<1>6. Ring' = Ring
  BY <1>1 DEF Ring
<1>7. Shapes'
  BY <1>1, <1>2, <1>5, <1>6 DEF NodeInv, Shapes, Limiter
<1>8. Moves(e, p, "done")
  BY <1>1, <1>2, <1>3, <1>5, <1>6 DEF Moves, In, Places, With, Without
<1> QED BY <1>7, <1>8

\* A request taken from the queues for a peer.
LEMMA RemoteStep ==
    ASSUME NodeInv, NEW e \in Entry, check_remote(e)
    PROVE  Shapes' /\ \E p \in {"ready", "bottleneck"} : Moves(e, p, "fetching")
<1>1. /\ e = Candidate(turn) /\ Taken(turn, e)
      /\ fetching' = fetching \union {e}
      /\ UNCHANGED <<free, done, cleanup, debug_limit, debug_count, reading, cq, held, lost>>
  BY DEF check_remote, counts, user
<1>2. /\ OwnQueues(ready') /\ OwnQueues(bottleneck')
      /\ Without(ready, e, ready') /\ Without(bottleneck, e, bottleneck')
      /\ debug_limit = 0 => \A u \in Users : bottleneck'[u] = <<>>
  BY <1>1, TakenStep
<1>3. PICK p \in {"ready", "bottleneck"} : \A q \in Places : In(e, q) <=> q = p
  BY <1>1, TakenStep
<1>4. Ring' = Ring
  BY <1>1 DEF Ring
<1>5. Shapes'
  BY <1>1, <1>2, <1>4 DEF NodeInv, Shapes, Limiter
<1>6. Moves(e, p, "fetching")
  BY <1>1, <1>2, <1>3, <1>4 DEF Moves, In, Places, Without
<1> QED BY <1>5, <1>6

\* A request taken from the queues for storage.
LEMMA StorageStep ==
    ASSUME NodeInv, NEW e \in Entry, check_submit(e)
    PROVE  Shapes' /\ \E p \in {"ready", "bottleneck"} : Moves(e, p, "reading")
<1>1. /\ e = Candidate(turn) /\ Taken(turn, e)
      /\ reading' = reading \union {e}
      /\ debug_count' = [debug_count EXCEPT ![turn] = @ + 1]
      /\ UNCHANGED <<free, done, cleanup, debug_limit, cq, fetching, held, lost>>
  BY DEF check_submit, Storage, user
<1>2. /\ OwnQueues(ready') /\ OwnQueues(bottleneck')
      /\ Without(ready, e, ready') /\ Without(bottleneck, e, bottleneck')
      /\ debug_limit = 0 => \A u \in Users : bottleneck'[u] = <<>>
  BY <1>1, TakenStep
<1>3. PICK p \in {"ready", "bottleneck"} : \A q \in Places : In(e, q) <=> q = p
  BY <1>1, TakenStep
<1>4. Ring' = Ring
  BY <1>1 DEF Ring
<1>5. Limiter'
  BY <1>1, <1>2 DEF NodeInv, CacheInv, Shapes, Limiter
<1>6. Shapes'
  BY <1>1, <1>2, <1>4, <1>5 DEF NodeInv, Shapes
<1>7. Moves(e, p, "reading")
  BY <1>1, <1>2, <1>3, <1>4 DEF Moves, In, Places, Without
<1> QED BY <1>6, <1>7

\* A request put aside by the limiter was the first of those that are ready.
LEMMA BottleneckStep ==
    ASSUME NodeInv, NEW e \in Entry, check_bottleneck(e)
    PROVE  Shapes' /\ Moves(e, "ready", "bottleneck")
<1>1. /\ e = Candidate(turn)
      /\ debug_limit # 0 /\ debug_count[turn] >= debug_limit
      /\ ready' = [ready EXCEPT ![turn] = Tail(@)]
      /\ bottleneck' = [bottleneck EXCEPT ![turn] = Append(@, e)]
      /\ UNCHANGED <<free, done, cleanup, debug_limit, debug_count, reading, cq, fetching,
                     held, lost>>
  BY DEF check_bottleneck, Storage, AtLimit, counts, io, user
<1>2. /\ turn \in Users /\ Owner(e) = turn
      /\ ready[turn] # <<>> /\ e = Head(ready[turn]) /\ In(e, "ready")
  <2>1. turn \in Users /\ ~(debug_count[turn] < debug_limit)
    BY <1>1 DEF NodeInv, CacheInv, Shapes, Limiter
  <2> QED BY <1>1, <2>1, CandidateFacts
<1>3. OwnQueues(ready') /\ Without(ready, e, ready')
  BY <1>1, <1>2, PopOwn DEF NodeInv, Shapes
<1>4. \A q \in Places : In(e, q) <=> q = "ready"
  BY <1>2, OnlyPlace DEF NodeInv, Places
<1>5. OwnQueues(bottleneck') /\ With(bottleneck, e, bottleneck')
  BY <1>1, <1>2, <1>4, PushOwn DEF NodeInv, Shapes, In, Places
<1>6. Ring' = Ring
  BY <1>1 DEF Ring
<1>7. Shapes'
  BY <1>1, <1>3, <1>5, <1>6 DEF NodeInv, Shapes, Limiter
<1>8. Moves(e, "ready", "bottleneck")
  BY <1>1, <1>3, <1>4, <1>5, <1>6 DEF Moves, In, Places, With, Without
<1> QED BY <1>7, <1>8

\* A completion is taken from the ring.
LEMMA CompletionStep ==
    ASSUME NodeInv, check_done
    PROVE  Shapes' /\ Moves(Head(cq[turn]).entry, "cq", "done")
<1> DEFINE e == Head(cq[turn]).entry
<1>1. /\ cq[turn] # <<>>
      /\ cq' = [cq EXCEPT ![turn] = Tail(@)]
      /\ done' = [done EXCEPT ![turn] = Append(@, e)]
      /\ debug_count' = [debug_count EXCEPT ![turn] = @ - 1]
      /\ UNCHANGED <<free, ready, bottleneck, cleanup, debug_limit, reading, fetching, held, lost>>
  BY DEF check_done, Completed, user
<1>2. turn \in Users /\ cq \in [Users -> Seq(Completion)] /\ cq[turn] \in Seq(Completion)
  BY DEF NodeInv, CacheInv
<1>3. /\ Ring[turn] # <<>> /\ Head(Ring[turn]) = e
      /\ Ents(Tail(cq[turn])) = Tail(Ring[turn])
  BY <1>1, <1>2, EntsOf DEF Ring
<1>4. Ring' = [Ring EXCEPT ![turn] = Tail(@)]
  BY <1>1, <1>2, <1>3 DEF Ring
<1> HIDE DEF e
<1>5. /\ OwnQueues(Ring') /\ Without(Ring, e, Ring')
      /\ e \in Entry /\ Owner(e) = turn /\ e \in ToSet(Ring[turn])
  BY <1>2, <1>3, <1>4, PopOwn DEF NodeInv, Shapes
<1>6. \A q \in Places : In(e, q) <=> q = "cq"
  BY <1>5, OnlyPlace DEF NodeInv, In, Places
<1>7. OwnQueues(done') /\ With(done, e, done')
  BY <1>1, <1>5, <1>6, PushOwn DEF NodeInv, Shapes, In, Places
<1>8. Limiter'
  BY <1>1, <1>2 DEF NodeInv, Shapes, Limiter
<1>9. Shapes'
  BY <1>1, <1>5, <1>7, <1>8 DEF NodeInv, Shapes
<1>10. Moves(e, "cq", "done")
  BY <1>1, <1>5, <1>6, <1>7 DEF Moves, In, Places, With, Without
<1> QED BY <1>9, <1>10 DEF e

\* A released request is cleaned up.
LEMMA CleanupStep ==
    ASSUME NodeInv, check_cleanup
    PROVE  Shapes' /\ Moves(Head(cleanup[turn]), "cleanup", "free")
<1> DEFINE e == Head(cleanup[turn])
<1>1. /\ cleanup[turn] # <<>>
      /\ cleanup' = [cleanup EXCEPT ![turn] = Tail(@)]
      /\ free' = [free EXCEPT ![turn] = Append(@, e)]
      /\ UNCHANGED <<ready, bottleneck, done, debug_limit, debug_count, reading, cq, fetching,
                     held, lost>>
  BY DEF check_cleanup, counts, io, user
<1>2. /\ OwnQueues(cleanup') /\ Without(cleanup, e, cleanup')
      /\ e \in Entry /\ Owner(e) = turn /\ e \in ToSet(cleanup[turn])
  BY <1>1, PopOwn DEF NodeInv, CacheInv, Shapes
<1> HIDE DEF e
<1>3. \A q \in Places : In(e, q) <=> q = "cleanup"
  BY <1>2, OnlyPlace DEF NodeInv, In, Places
<1>4. OwnQueues(free') /\ With(free, e, free')
  BY <1>1, <1>2, <1>3, PushOwn DEF NodeInv, Shapes, In, Places
<1>5. Ring' = Ring
  BY <1>1 DEF Ring
<1>6. Shapes'
  BY <1>1, <1>2, <1>4, <1>5 DEF NodeInv, Shapes, Limiter
<1>7. Moves(e, "cleanup", "free")
  BY <1>1, <1>2, <1>3, <1>4, <1>5 DEF Moves, In, Places, With, Without
<1> QED BY <1>6, <1>7 DEF e

\* The kernel answers a read.
LEMMA KernelStep ==
    ASSUME NodeInv, NEW e \in Entry, kernel_read(e)
    PROVE  Shapes' /\ Moves(e, "reading", "cq")
<1>1. PICK ok \in BOOLEAN :
        cq' = [cq EXCEPT ![Owner(e)] = Append(@, [entry |-> e, ok |-> ok])]
  BY DEF kernel_read
<1>2. /\ e \in reading /\ reading' = reading \ {e}
      /\ UNCHANGED <<free, ready, bottleneck, done, cleanup, debug_limit, debug_count, fetching,
                     held, lost>>
  BY DEF kernel_read, queues, counts, user
<1>3. /\ Owner(e) \in Users /\ cq \in [Users -> Seq(Completion)]
      /\ cq[Owner(e)] \in Seq(Completion) /\ [entry |-> e, ok |-> ok] \in Completion
  BY OwnerIsUser DEF NodeInv, CacheInv, Completion
<1>4. Ents(Append(cq[Owner(e)], [entry |-> e, ok |-> ok])) = Append(Ring[Owner(e)], e)
  BY <1>3, EntsOf DEF Ring
<1>5. Ring' = [Ring EXCEPT ![Owner(e)] = Append(@, e)]
  BY <1>1, <1>3, <1>4 DEF Ring
<1>6. \A q \in Places : In(e, q) <=> q = "reading"
  BY <1>2, OnlyPlace DEF NodeInv, In, Places
<1>7. OwnQueues(Ring') /\ With(Ring, e, Ring')
  BY <1>5, <1>6, PushOwn DEF NodeInv, Shapes, In, Places
<1>8. Shapes'
  BY <1>2, <1>7 DEF NodeInv, Shapes, Limiter
<1>9. Moves(e, "reading", "cq")
  BY <1>2, <1>6, <1>7 DEF Moves, In, Places, With
<1> QED BY <1>8, <1>9

\* A remote load ends, with the file or without it.
LEMMA FetchedStep ==
    ASSUME NodeInv, NEW e \in Entry, Fetched(e)
    PROVE  Shapes' /\ Moves(e, "fetching", "done")
<1>1. /\ e \in fetching /\ fetching' = fetching \ {e}
      /\ done' = [done EXCEPT ![Owner(e)] = Append(@, e)]
      /\ UNCHANGED <<free, ready, bottleneck, cleanup, debug_limit, debug_count, reading, cq,
                     held, lost>>
  BY DEF Fetched, Completed, counts, user
<1>2. \A q \in Places : In(e, q) <=> q = "fetching"
  BY <1>1, OnlyPlace DEF NodeInv, In, Places
<1>3. OwnQueues(done') /\ With(done, e, done')
  BY <1>1, <1>2, PushOwn DEF NodeInv, Shapes, In, Places
<1>4. Ring' = Ring
  BY <1>1 DEF Ring
<1>5. Shapes'
  BY <1>1, <1>3, <1>4 DEF NodeInv, Shapes, Limiter
<1>6. Moves(e, "fetching", "done")
  BY <1>1, <1>2, <1>3, <1>4 DEF Moves, In, Places, With
<1> QED BY <1>5, <1>6

-----------------------------------------------------------------------------
(* The service.                                                            *)

\* What the variable status of the service stands for, and its value at a place.
Statuses == [e \in Entry |-> StatusOf(e)]

StatusAt(p) == CASE p = "free"                        -> "free"
                 [] p = "done"                        -> "completed"
                 [] p \in {"held", "lost", "cleanup"} -> "held"
                 [] OTHER                             -> "requested"

\* A request in one place has the status of that place.
LEMMA StatusOfPlace ==
    ASSUME NEW e \in Entry, NEW p \in Places, \A q \in Places : In(e, q) <=> q = p
    PROVE  StatusOf(e) = StatusAt(p)
BY DEF StatusOf, StatusAt, In, Places

\* A moving request takes the status of its new place, the others keep theirs.
LEMMA MoveStatus ==
    ASSUME NodeInv, NEW e, NEW p \in Places, NEW q \in Places, Moves(e, p, q)
    PROVE  /\ e \in Entry
           /\ Statuses[e] = StatusAt(p)
           /\ Statuses' = [Statuses EXCEPT ![e] = StatusAt(q)]
<1>1. e \in Entry /\ \A r \in Places : In(e, r) <=> r = p
  BY OnlyPlace DEF Moves, NodeInv
<1>2. StatusOf(e) = StatusAt(p)
  BY <1>1, StatusOfPlace
<1>3. \A x \in Entry : InOnePlace(x) /\ InOnePlace(x)'
  BY MoveKeepsOnePlace DEF NodeInv
<1>4. StatusOf(e)' = StatusAt(q)
  <2>1. \A r \in Places : In(e, r)' <=> r = q
    BY <1>1 DEF Moves
  <2> QED BY <2>1 DEF StatusOf, StatusAt, In, Places
<1>5. \A x \in Entry : x # e => StatusOf(x)' = StatusOf(x)
  <2>1. SUFFICES ASSUME NEW x \in Entry, x # e PROVE StatusOf(x)' = StatusOf(x)
    OBVIOUS
  <2>2. \A r \in Places : In(x, r)' <=> In(x, r)
    BY <2>1 DEF Moves
  <2>3. /\ In(x, "free")' <=> In(x, "free")
        /\ In(x, "done")' <=> In(x, "done")
        /\ In(x, "held")' <=> In(x, "held")
        /\ In(x, "lost")' <=> In(x, "lost")
        /\ In(x, "cleanup")' <=> In(x, "cleanup")
    BY <2>2 DEF Places
  <2> QED BY <2>3 DEF StatusOf, In
<1>6. Statuses' = [Statuses EXCEPT ![e] = StatusAt(q)]
  BY <1>1, <1>4, <1>5 DEF Statuses
<1> QED BY <1>1, <1>2, <1>6 DEF Statuses

\* A step of the node as one of the service.
ServiceStep == NodeInv' /\ [Service!Next]_(Service!vars)

\* A step that moves no request is none of the service's.
LEMMA StayStep ==
    ASSUME NodeInv, CacheInv', UNCHANGED <<queues, debug_limit, debug_count, reading, cq, fetching, user, path>>
    PROVE  ServiceStep
<1>1. UNCHANGED <<free, ready, bottleneck, done, cleanup, reading, cq, fetching, held, lost>>
  BY DEF queues, user
<1>2. Ring' = Ring
  BY <1>1 DEF Ring
<1>3. Shapes'
  BY <1>1, <1>2 DEF NodeInv, Shapes, Limiter
<1>4. \A e \in Entry : InOnePlace(e)'
  BY <1>1, <1>2 DEF NodeInv, InOnePlace, In
<1>5. Statuses' = Statuses
  BY <1>1 DEF Statuses, StatusOf
<1> QED BY <1>3, <1>4, <1>5 DEF ServiceStep, NodeInv, Service!vars, Statuses

\* A move that keeps the paths.
LEMMA MoveStep ==
    ASSUME NodeInv, CacheInv', Shapes', UNCHANGED path,
           NEW e, NEW p \in Places, NEW q \in Places, Moves(e, p, q),
           \/ StatusAt(p) = StatusAt(q)
           \/ StatusAt(p) = "requested" /\ StatusAt(q) = "completed"
           \/ StatusAt(p) = "completed" /\ StatusAt(q) = "held"
    PROVE  ServiceStep
<1>1. /\ e \in Entry /\ Statuses[e] = StatusAt(p)
      /\ Statuses' = [Statuses EXCEPT ![e] = StatusAt(q)]
  BY MoveStatus
<1>2. NodeInv'
  BY MoveKeepsOnePlace DEF NodeInv
<1>3. CASE StatusAt(p) = StatusAt(q)
  <2>1. Statuses' = Statuses
    BY <1>1, <1>3 DEF Statuses
  <2> QED BY <1>2, <2>1 DEF ServiceStep, Service!vars, Statuses
<1>4. CASE StatusAt(p) = "requested" /\ StatusAt(q) = "completed"
  <2>1. Service!Complete(e)
    BY <1>1, <1>4 DEF Service!Complete, Service!Move, Statuses
  <2> QED BY <1>1, <1>2, <2>1 DEF ServiceStep, Service!Next
<1>5. CASE StatusAt(p) = "completed" /\ StatusAt(q) = "held"
  <2>1. Service!Get(e)
    BY <1>1, <1>5 DEF Service!Get, Service!Move, Statuses
  <2> QED BY <1>1, <1>2, <2>1 DEF ServiceStep, Service!Next
<1> QED BY <1>3, <1>4, <1>5

\* At the beginning every request is free.
LEMMA InitService == Init => Service!Init /\ NodeInv
<1> SUFFICES ASSUME Init PROVE Service!Init /\ NodeInv
  OBVIOUS
<1> USE NodeAssumption
<1>1. CacheInv
  BY InitCacheInv
<1>2. \A u \in Users : /\ free[u] \in Seq(Entry)
                       /\ ToSet(free[u]) = {<<u, i>> : i \in 1 .. QueueDepth}
                       /\ IsInjective(free[u])
  <2> SUFFICES ASSUME NEW u \in Users
               PROVE  /\ free[u] \in Seq(Entry)
                      /\ ToSet(free[u]) = {<<u, i>> : i \in 1 .. QueueDepth}
                      /\ IsInjective(free[u])
    OBVIOUS
  <2>1. /\ free[u] = [i \in 1 .. QueueDepth |-> <<u, i>>]
        /\ DOMAIN free[u] = 1 .. QueueDepth
        /\ \A i \in 1 .. QueueDepth : free[u][i] = <<u, i>>
    BY DEF Init
  <2>2. \A i \in 1 .. QueueDepth : <<u, i>> \in Entry
    BY DEF Entry
  <2>3. free[u] \in [1 .. QueueDepth -> Entry]
    BY <2>1, <2>2
  <2>4. free[u] \in Seq(Entry)
    BY <2>3
  <2> QED BY <2>1, <2>4 DEF ToSet, IsInjective
<1>3. OwnQueues(free)
  <2>1. free \in [Users -> Seq(Entry)]
    BY <1>2 DEF Init
  <2> QED BY <1>2, <2>1 DEF OwnQueues, Queues, Owner
<1>4. \A q : q = [u \in Users |-> <<>>] => OwnQueues(q)
  BY DEF OwnQueues, Queues, ToSet, IsInjective
<1>5. Ring = [u \in Users |-> <<>>]
  <2>1. \A u \in Users : cq[u] = <<>>
    BY DEF Init
  <2>2. Ents(<<>>) = <<>>
    BY DEF Ents
  <2> QED BY <2>1, <2>2 DEF Ring
<1>6. Limiter
  BY DEF Init, Limiter
<1>7. Shapes
  BY <1>3, <1>4, <1>5, <1>6 DEF Shapes, Init
<1>8. \A e \in Entry : \A q \in Places : In(e, q) <=> q = "free"
  <2> SUFFICES ASSUME NEW e \in Entry, NEW q \in Places PROVE In(e, q) <=> q = "free"
    OBVIOUS
  <2>1. Owner(e) \in Users /\ e \in ToSet(free[Owner(e)])
    BY <1>2, OwnerIsUser DEF Entry, Owner
  <2>2. /\ ready[Owner(e)] = <<>> /\ bottleneck[Owner(e)] = <<>> /\ done[Owner(e)] = <<>>
        /\ cleanup[Owner(e)] = <<>> /\ Ring[Owner(e)] = <<>> /\ ToSet(<<>>) = {}
        /\ reading = {} /\ fetching = {} /\ held = {} /\ lost = {}
    BY <1>5, <2>1 DEF Init, ToSet
  <2> QED BY <2>1, <2>2 DEF In, Places
<1>9. "free" \in Places /\ StatusAt("free") = "free"
  BY DEF Places, StatusAt
<1>10. \A e \in Entry : InOnePlace(e) /\ StatusOf(e) = "free"
  BY <1>8, <1>9, StatusOfPlace DEF InOnePlace
<1>11. Service!Init
  BY <1>10 DEF Service!Init, Init
<1> QED BY <1>1, <1>7, <1>10, <1>11 DEF NodeInv

\* Every step of the node is one of the service, or none, and keeps the invariant.
LEMMA StepService ==
    ASSUME NodeInv, [Next]_vars
    PROVE  ServiceStep
<1>1. CacheInv'
  BY NextCacheInv DEF NodeInv
<1>2. /\ StatusAt("free") = "free" /\ StatusAt("done") = "completed"
      /\ \A p \in {"held", "lost", "cleanup"} : StatusAt(p) = "held"
      /\ \A p \in {"ready", "bottleneck", "reading", "cq", "fetching"} : StatusAt(p) = "requested"
      /\ Places = {"free", "done", "held", "lost", "cleanup"}
                    \union {"ready", "bottleneck", "reading", "cq", "fetching"}
  BY DEF StatusAt, Places
<1>3. ASSUME NEW u \in Users, NEW f \in Path, cache_get_submit(u, f) PROVE ServiceStep
  <2> DEFINE e == Head(free[u])
  <2>1. Shapes' /\ Moves(e, "free", "ready") /\ path' = [path EXCEPT ![e] = f]
    BY <1>3, SubmitStep DEF cache_get_submit
  <2> HIDE DEF e
  <2>2. /\ e \in Entry /\ Statuses[e] = "free"
        /\ Statuses' = [Statuses EXCEPT ![e] = "requested"]
    BY <1>2, <2>1, MoveStatus
  <2>3. Service!Request(e, f)
    BY <2>1, <2>2 DEF Service!Request, Service!Move, Statuses
  <2>4. NodeInv'
    BY <1>1, <1>2, <2>1, MoveKeepsOnePlace DEF NodeInv
  <2> QED BY <2>2, <2>3, <2>4 DEF ServiceStep, Service!Next
<1>4. ASSUME NEW u \in Users, cache_get_reap(u) \/ reap_fails(u) PROVE ServiceStep
  <2>1. path' = path
    BY <1>4 DEF cache_get_reap, reap_fails, request
  <2>2. PICK p \in {"held", "lost"} : Shapes' /\ Moves(Head(done[u]), "done", p)
    BY <1>4, ReapStep
  <2> QED BY <1>1, <1>2, <2>1, <2>2, MoveStep
<1>5. ASSUME NEW e \in held, cache_release(e) PROVE ServiceStep
  <2>1. path' = path
    BY <1>5 DEF cache_release
  <2> QED BY <1>1, <1>2, <1>5, <2>1, ReleaseStep, MoveStep
<1>6. CASE \/ manager_sync \/ check_nothing \/ check_done_ends
           \/ \E e \in Entry : remote_load_hangs(e)
           \/ \E p \in PeerFiles : peer_announces(p)
  <2>1. UNCHANGED <<queues, debug_limit, debug_count, reading, cq, fetching, user, path>>
    BY <1>6 DEF manager_sync, cache_sync, check_nothing, check_done_ends, remote_load_hangs, peer_announces,
                counts, request, io
  <2> QED BY <1>1, <2>1, StayStep
<1>7. ASSUME NEW e \in Entry,
             check_local(e) \/ check_remote(e) \/ check_submit(e) \/ check_submit_fails(e)
      PROVE  ServiceStep
  <2>1. path' = path
    BY <1>7 DEF check_local, check_remote, check_submit, check_submit_fails, request
  <2>2. PICK p \in {"ready", "bottleneck"}, q \in {"done", "fetching", "reading"} :
          Shapes' /\ Moves(e, p, q)
    BY <1>7, AtOnceStep, RemoteStep, StorageStep
  <2> QED BY <1>1, <1>2, <2>1, <2>2, MoveStep
<1>8. ASSUME NEW e \in Entry, check_bottleneck(e) PROVE ServiceStep
  <2>1. path' = path
    BY <1>8 DEF check_bottleneck, request
  <2> QED BY <1>1, <1>2, <1>8, <2>1, BottleneckStep, MoveStep
<1>9. CASE check_done
  <2>1. path' = path
    BY <1>9 DEF check_done
  <2> QED BY <1>1, <1>2, <1>9, <2>1, CompletionStep, MoveStep
<1>10. CASE check_cleanup
  <2> DEFINE e == Head(cleanup[turn])
  <2>1. Shapes' /\ Moves(e, "cleanup", "free") /\ path' = [path EXCEPT ![e] = None]
    BY <1>10, CleanupStep DEF check_cleanup
  <2> HIDE DEF e
  <2>2. /\ e \in Entry /\ Statuses[e] = "held"
        /\ Statuses' = [Statuses EXCEPT ![e] = "free"]
    BY <1>2, <2>1, MoveStatus
  <2>3. Service!Release(e)
    BY <2>1, <2>2 DEF Service!Release, Service!Move, Statuses
  <2>4. NodeInv'
    BY <1>1, <1>2, <2>1, MoveKeepsOnePlace DEF NodeInv
  <2> QED BY <2>2, <2>3, <2>4 DEF ServiceStep, Service!Next
<1>11. ASSUME NEW e \in Entry, kernel_read(e) PROVE ServiceStep
  <2>1. path' = path
    BY <1>11 DEF kernel_read, request
  <2> QED BY <1>1, <1>2, <1>11, <2>1, KernelStep, MoveStep
<1>12. ASSUME NEW e \in Entry, cache_remote_load(e) \/ remote_load_fails(e) PROVE ServiceStep
  <2>1. Fetched(e) /\ path' = path
    BY <1>12 DEF cache_remote_load, remote_load_fails, Fetched
  <2> QED BY <1>1, <1>2, <2>1, FetchedStep, MoveStep
<1>13. CASE UNCHANGED vars
  <2>1. UNCHANGED <<queues, debug_limit, debug_count, reading, cq, fetching, user, path>>
    BY <1>13 DEF vars, counts, request, io
  <2> QED BY <1>1, <2>1, StayStep
<1> QED BY <1>3, <1>4, <1>5, <1>6, <1>7, <1>8, <1>9, <1>10, <1>11, <1>12, <1>13
        DEF Next, User, Manager, check_ready

\* Users cannot tell a node from the abstract service: what they submit comes back once,
\* with its path, whichever of cache, peer and storage served it and whatever failed.
THEOREM NodeImplementsService == Spec => ImplementsService
<1>1. NodeInv /\ [Next]_vars => NodeInv' /\ [Service!Next]_(Service!vars)
  BY StepService DEF ServiceStep
<1> QED BY <1>1, InitService, PTL DEF Spec, ImplementsService, Service!Spec

\* The head of two queues in a row.
LEMMA HeadOfTwo ==
    ASSUME NEW S, NEW s \in Seq(S), NEW t \in Seq(S)
    PROVE  /\ s # <<>> => Head(s \o t) = Head(s)
           /\ s = <<>> => s \o t = t
<1>1. ASSUME s # <<>> PROVE Head(s \o t) = Head(s)
  <2>1. Len(s) \in Nat \ {0} /\ Len(t) \in Nat
    BY <1>1
  <2>2. /\ s \o t \in Seq(S) /\ Len(s \o t) = Len(s) + Len(t)
        /\ \A i \in 1 .. Len(s) : (s \o t)[i] = s[i]
    OBVIOUS
  <2>3. s \o t # <<>> /\ (s \o t)[1] = s[1]
    BY <2>1, <2>2
  <2> QED BY <1>1, <2>2, <2>3
<1>2. ASSUME s = <<>> PROVE s \o t = t
  <2>1. s \o t \in Seq(S) /\ Len(s \o t) = Len(t) /\ \A i \in 1 .. Len(t) : (s \o t)[i] = t[i]
    BY <1>2
  <2> QED BY <2>1, SameSeq
<1> QED BY <1>1, <1>2

\* A user's requests go to storage in the order in which he submitted them: what the
\* limiter put aside goes before what is ready, and without a limit nothing is aside.
THEOREM StorageKeepsOrder == Spec => StorageInOrder
<1>1. ASSUME NodeInv, NEW e \in Entry, check_submit(e)
      PROVE  e = Head(bottleneck[turn] \o ready[turn])
  <2>1. e = Candidate(turn) /\ ~(debug_limit # 0 /\ debug_count[turn] >= debug_limit)
    BY <1>1 DEF check_submit, Storage, AtLimit
  <2>2. /\ turn \in Users
        /\ bottleneck[turn] \in Seq(Entry) /\ ready[turn] \in Seq(Entry)
        /\ debug_limit \in Nat /\ debug_count[turn] \in Int
        /\ debug_limit = 0 => bottleneck[turn] = <<>>
    BY <1>1 DEF NodeInv, CacheInv, Shapes, Limiter, OwnQueues, Queues
  <2>3. \/ bottleneck[turn] # <<>> /\ e = Head(bottleneck[turn])
        \/ bottleneck[turn] = <<>> /\ ready[turn] # <<>> /\ e = Head(ready[turn])
    BY <1>1, <2>1, <2>2, CandidateFacts
  <2> QED BY <2>2, <2>3, HeadOfTwo
<1>2. NodeInv /\ [Next]_vars
        => NodeInv' /\ [\A e \in Entry :
                          check_submit(e) => e = Head(bottleneck[turn] \o ready[turn])]_vars
  BY <1>1, StepService DEF ServiceStep
<1> QED BY <1>2, InitService, PTL DEF Spec, StorageInOrder

-----------------------------------------------------------------------------
(* What the node's memory holds.                                           *)

\* The values of the fields, the names and the manager's variables.
ValuesTyped ==
    /\ status \in [Entry -> {"ok", "failed", "again"}]
    /\ skip_clean \in [Entry -> BOOLEAN]
    /\ ldata \in [Entry -> Object \union {None}]
    /\ udata \in [Entry -> Object \union {None}]
    /\ hung \subseteq fetching
    /\ mpc \in {"ready", "done", "cleanup", "dead"}
    /\ idle_iters \in 0 .. MaxIdleIters + 1

\* A name is that of an object of its file.
NamesOwn ==
    /\ shm \in [Path -> Object \union {None}] /\ full \subseteq Object
    /\ \A p \in Path : shm[p] # None => shm[p][1] = p

\* What is cached for a file are objects of it, no more than fit.
CacheOwn ==
    /\ ht \in [Path -> Seq(Object)]
    /\ \A p \in Path : \A o \in ToSet(ht[p]) : o[1] = p
    /\ used \in Nat /\ UsedIsCached

\* A request has a path, and a read an object of that path.
RequestsOwn ==
    \A e \in Entry : /\ ~In(e, "free") => path[e] \in Path
                     /\ In(e, "reading") \/ In(e, "cq") =>
                          ldata[e] # None /\ ldata[e][1] = path[e]

ObjectInv == ValuesTyped /\ NamesOwn /\ CacheOwn /\ RequestsOwn

Bytes == [p \in Path |-> Size[p] * Len(ht[p])]

\* There are finitely many files and requests.
LEMMA NodeSizes ==
    /\ IsFiniteSet(Path) /\ IsFiniteSet(Entry)
    /\ Cardinality(Entry) \in Nat /\ Cardinality(Entry) = NUsers * QueueDepth
    /\ Capacity \in Nat
    /\ Object = Path \X (1 .. (2 * Cardinality(Entry) + Capacity + 2))
<1> USE NodeAssumption
<1>1. IsFiniteSet(Users) /\ Cardinality(Users) = NUsers
  BY FS_Interval DEF Users
<1>2. IsFiniteSet(1 .. QueueDepth) /\ Cardinality(1 .. QueueDepth) = QueueDepth
  BY FS_Interval
<1>3. IsFiniteSet(Entry) /\ Cardinality(Entry) = NUsers * QueueDepth
  BY <1>1, <1>2, FS_Product DEF Entry
<1>4. 2 * NUsers * QueueDepth = 2 * (NUsers * QueueDepth)
  OBVIOUS
<1> QED BY <1>3, <1>4, FS_CardinalityType DEF Object

\* The bytes of a file that is cached are counted.
LEMMA BytesFit ==
    ASSUME CacheOwn
    PROVE  /\ \A p \in Path : Bytes[p] \in Nat /\ Len(ht[p]) \in Nat
           /\ SumOf(Bytes, Path) \in Nat /\ used = SumOf(Bytes, Path)
           /\ \A p \in Path : Len(ht[p]) <= Capacity
<1>1. \A p \in Path : Len(ht[p]) \in Nat /\ Size[p] \in Nat \ {0}
  BY NodeAssumption DEF CacheOwn
<1>2. \A a \in Nat \ {0}, b \in Nat : a * b \in Nat /\ b <= a * b
  OBVIOUS
<1>3. \A p \in Path : Bytes[p] \in Nat /\ Len(ht[p]) <= Bytes[p]
  BY <1>1, <1>2 DEF Bytes
<1>4. used = SumOf(Bytes, Path) /\ used <= Capacity
  BY DEF CacheOwn, UsedIsCached, SumOf, Bytes
<1>5. SumOf(Bytes, Path) \in Nat
  BY <1>3, NodeSizes, SumNat
<1>6. ASSUME NEW p \in Path PROVE Len(ht[p]) <= Capacity
  <2>1. SumOf(Bytes, Path) = Bytes[p] + SumOf(Bytes, Path \ {p})
    BY <1>3, NodeSizes, SumRemove
  <2>2. IsFiniteSet(Path \ {p})
    BY NodeSizes, FS_RemoveElement
  <2>3. SumOf(Bytes, Path \ {p}) \in Nat
    BY <1>3, <2>2, SumNat
  <2>4. Bytes[p] \in Nat /\ Len(ht[p]) \in Nat /\ Len(ht[p]) <= Bytes[p]
    BY <1>1, <1>3
  <2> QED BY <1>4, <2>1, <2>3, <2>4, NodeSizes
<1> QED BY <1>1, <1>3, <1>4, <1>5, <1>6

\* shm_alloc has an object: a file has fewer in use than there are.
LEMMA OpenedIsOwn ==
    ASSUME ObjectInv, NEW p \in Path
    PROVE  Opened(p) \in Object /\ Opened(p)[1] = p /\ Opened(p) # None
<1>1. CASE shm[p] # None
  BY <1>1, NodeAssumption DEF ObjectInv, NamesOwn, Opened
<1>2. CASE shm[p] = None
  <2> DEFINE N == 2 * Cardinality(Entry) + Capacity + 2
             all == {p} \X (1 .. N)
             A == {ldata[e] : e \in Entry}
             B == {udata[e] : e \in Entry}
             C == ToSet(ht[p])
  <2>1. IsFiniteSet(A) /\ Cardinality(A) <= Cardinality(Entry)
    BY NodeSizes, ValuesOf
  <2>2. IsFiniteSet(B) /\ Cardinality(B) <= Cardinality(Entry)
    BY NodeSizes, ValuesOf
  <2>3. IsFiniteSet(C) /\ Cardinality(C) <= Capacity
    <3>1. ht[p] \in Seq(Object) /\ Len(ht[p]) \in Nat /\ Len(ht[p]) <= Capacity
      BY BytesFit DEF ObjectInv, CacheOwn
    <3>2. IsFiniteSet(C) /\ Cardinality(C) <= Len(ht[p])
      BY <3>1, ElemsCount
    <3> QED BY <3>1, <3>2, FS_CardinalityType, NodeSizes
  <2>4. N \in Nat
    BY NodeSizes
  <2>5. IsFiniteSet(all) /\ Cardinality(all) = N
    <3> HIDE DEF N
    <3>1. IsFiniteSet(1 .. N) /\ Cardinality(1 .. N) = N
      BY <2>4, FS_Interval
    <3>2. IsFiniteSet({p}) /\ Cardinality({p}) = 1
      BY FS_Singleton
    <3>3. IsFiniteSet(all) /\ Cardinality(all) = Cardinality({p}) * Cardinality(1 .. N)
      BY <3>1, <3>2, FS_Product
    <3> QED BY <2>4, <3>1, <3>2, <3>3
  <2> HIDE DEF A, B, C, all
  <2>6. IsFiniteSet(A \cup B) /\ Cardinality(A \cup B) <= Cardinality(A) + Cardinality(B)
    BY <2>1, <2>2, UnionAtMost
  <2>7. /\ IsFiniteSet((A \cup B) \cup C)
        /\ Cardinality((A \cup B) \cup C) <= Cardinality(A \cup B) + Cardinality(C)
    BY <2>3, <2>6, UnionAtMost
  <2>8. /\ Cardinality(A) \in Nat /\ Cardinality(B) \in Nat /\ Cardinality(C) \in Nat
        /\ Cardinality(A \cup B) \in Nat /\ Cardinality((A \cup B) \cup C) \in Nat
    BY <2>1, <2>2, <2>3, <2>6, <2>7, FS_CardinalityType
  <2>9. Cardinality((A \cup B) \cup C) < Cardinality(all)
    BY <2>1, <2>2, <2>3, <2>5, <2>6, <2>7, <2>8, NodeSizes
  <2>10. ~(all \subseteq (A \cup B) \cup C)
    <3>1. SUFFICES ASSUME all \subseteq (A \cup B) \cup C PROVE FALSE
      OBVIOUS
    <3>2. Cardinality(all) <= Cardinality((A \cup B) \cup C)
      BY <2>7, <3>1, FS_Subset
    <3> QED BY <2>4, <2>5, <2>8, <2>9, <3>2
  <2>11. PICK o \in all : o \notin (A \cup B) \cup C
    BY <2>10
  <2>12. o \in Object /\ o[1] = p
    BY <2>11, NodeSizes DEF all
  <2>13. o \notin Live
    <3>1. \A q \in Path : shm[q] # o
      <4>1. ASSUME NEW q \in Path, shm[q] = o PROVE FALSE
        <5>1. shm[q] # None
          BY <2>12, <4>1, NodeAssumption
        <5>2. shm[q][1] = q
          BY <5>1 DEF ObjectInv, NamesOwn
        <5> QED BY <1>2, <2>12, <4>1, <5>1, <5>2
      <4> QED BY <4>1
    <3>2. \A q \in Path : o \notin ToSet(ht[q])
      BY <2>11, <2>12 DEF ObjectInv, CacheOwn, C
    <3> QED BY <2>11, <3>1, <3>2 DEF Live, A, B
  <2>14. Opened(p) = CHOOSE x \in Object : x[1] = p /\ x \notin Live
    BY <1>2 DEF Opened
  <2> QED BY <2>12, <2>13, <2>14, NodeAssumption
<1> QED BY <1>1, <1>2

-----------------------------------------------------------------------------
(* The objects through the steps.                                          *)

\* A request moves: it and what it maps, the others keep theirs.
LEMMA MoveRequests ==
    ASSUME RequestsOwn, NEW e, NEW p \in Places, NEW q \in Places, Moves(e, p, q),
           \A x \in Entry \ {e} : path'[x] = path[x] /\ ldata'[x] = ldata[x],
           q # "free" => path'[e] \in Path,
           q \in {"reading", "cq"} => ldata'[e] # None /\ ldata'[e][1] = path'[e]
    PROVE  RequestsOwn'
<1> SUFFICES ASSUME NEW x \in Entry
             PROVE  /\ ~In(x, "free")' => path'[x] \in Path
                    /\ In(x, "reading")' \/ In(x, "cq")' =>
                         ldata'[x] # None /\ ldata'[x][1] = path'[x]
  BY DEF RequestsOwn
<1>1. {"free", "reading", "cq"} \subseteq Places
  BY DEF Places
<1>2. CASE x = e
  BY <1>1, <1>2 DEF Moves
<1>3. CASE x # e
  BY <1>1, <1>3 DEF Moves, RequestsOwn
<1> QED BY <1>2, <1>3

\* A request that has a path keeps it.
LEMMA MoverHasPath ==
    ASSUME NodeInv, RequestsOwn, NEW e, NEW p \in Places, p # "free",
           NEW q, Moves(e, p, q)
    PROVE  e \in Entry /\ path[e] \in Path /\ \A r \in Places : In(e, r) <=> r = p
<1>1. e \in Entry /\ \A r \in Places : In(e, r) <=> r = p
  BY OnlyPlace DEF Moves, NodeInv
<1>2. ~In(e, "free")
  BY <1>1 DEF Places
<1> QED BY <1>1, <1>2 DEF RequestsOwn

\* Steps that move no request and touch no object.
Stays ==
    /\ UNCHANGED <<free, ready, bottleneck, done, cleanup, reading, cq, fetching, held, lost>>
    /\ UNCHANGED <<debug_limit, debug_count, path, status, skip_clean, ldata, udata>>
    /\ UNCHANGED <<ht, used, shm, full, overlap>>

\* The other steps move no request and touch no object.
LEMMA StaySteps ==
    ASSUME \/ manager_sync \/ check_nothing \/ check_done_ends
           \/ \E e \in Entry : remote_load_hangs(e)
           \/ \E p \in PeerFiles : peer_announces(p)
           \/ UNCHANGED vars
    PROVE  Stays
BY DEF Stays, manager_sync, cache_sync, check_nothing, check_done_ends, remote_load_hangs, peer_announces,
       vars, queues, counts, request, io, user, cache, manager, memory, history

\* What stays where it is keeps its place.
LEMMA StayPlaces == ASSUME Stays PROVE \A x \in Entry : \A p : In(x, p)' <=> In(x, p)
<1>1. Ring' = Ring
  BY DEF Stays, Ring
<1> QED BY <1>1 DEF Stays, In

\* Such a step keeps what the memory holds.
LEMMA StayObjects ==
    ASSUME ObjectInv, 
           \/ manager_sync \/ check_nothing \/ check_done_ends
           \/ \E e \in Entry : remote_load_hangs(e)
           \/ \E p \in PeerFiles : peer_announces(p)
           \/ UNCHANGED vars
    PROVE  ObjectInv'
<1>1. Stays
  BY StaySteps
<1>2. mpc' \in {mpc, "ready", "done", "cleanup"} /\ idle_iters' \in {idle_iters, 0}
  BY DEF manager_sync, cache_sync, check_nothing, check_done_ends, remote_load_hangs, peer_announces,
         vars, manager, Goto
<1>3. hung' \subseteq fetching'
  BY DEF manager_sync, cache_sync, check_nothing, check_done_ends, remote_load_hangs, peer_announces,
         vars, io, ObjectInv, ValuesTyped
<1>4. ValuesTyped'
  BY <1>1, <1>2, <1>3, NodeAssumption DEF ObjectInv, ValuesTyped, Stays
<1>5. NamesOwn'
  BY <1>1 DEF ObjectInv, NamesOwn, Stays
<1>6. CacheOwn'
  BY <1>1 DEF ObjectInv, CacheOwn, UsedIsCached, Stays
<1>7. RequestsOwn'
  BY <1>1, StayPlaces DEF ObjectInv, RequestsOwn, Stays
<1> QED BY <1>4, <1>5, <1>6, <1>7 DEF ObjectInv

\* A submission fills in the path and the outcome.
LEMMA SubmitObjects ==
    ASSUME NodeInv, ObjectInv, NEW u \in Users, NEW f \in Path, cache_get_submit(u, f)
    PROVE  ObjectInv'
<1> PICK e : e = Head(free[u])
  OBVIOUS
<1>1. Moves(e, "free", "ready")
  BY SubmitStep
<1>2. /\ path' = [path EXCEPT ![e] = f]
      /\ UNCHANGED <<status, skip_clean, ldata, udata, hung, fetching, mpc, idle_iters, ht, used,
                     shm, full>>
  BY DEF cache_get_submit, io, cache, manager, memory
<1>3. /\ path'[e] = f /\ \A x \in Entry \ {e} : path'[x] = path[x]
      /\ "free" \in Places /\ "ready" \in Places
  BY <1>1, <1>2 DEF NodeInv, CacheInv, Moves, Places
<1>4. RequestsOwn'
  BY <1>1, <1>2, <1>3, MoveRequests DEF ObjectInv
<1> QED BY <1>2, <1>4 DEF ObjectInv, ValuesTyped, NamesOwn, CacheOwn, UsedIsCached

\* A reaped request's object is mapped.
LEMMA ReapObjects ==
    ASSUME NodeInv, ObjectInv, NEW u \in Users, cache_get_reap(u) \/ reap_fails(u)
    PROVE  ObjectInv'
<1> PICK e : e = Head(done[u])
  OBVIOUS
<1>1. PICK p \in {"held", "lost"} : Moves(e, "done", p)
  BY ReapStep
<1>2. /\ udata' = [udata EXCEPT ![e] = shm[path[e]]] \/ udata' = udata
      /\ UNCHANGED <<path, status, skip_clean, ldata, hung, fetching, mpc, idle_iters, ht, used,
                     shm, full>>
  BY DEF cache_get_reap, reap_fails, io, cache, manager, memory, request
<1>3. "done" \in Places /\ p \in Places /\ p \notin {"free", "reading", "cq"}
  BY DEF Places
<1>4. path[e] \in Path
  BY <1>1, <1>3, MoverHasPath DEF ObjectInv
<1>5. udata' \in [Entry -> Object \union {None}]
  BY <1>2, <1>4 DEF ObjectInv, ValuesTyped, NamesOwn
<1>6. RequestsOwn'
  BY <1>1, <1>2, <1>3, <1>4, MoveRequests DEF ObjectInv
<1> QED BY <1>2, <1>5, <1>6 DEF ObjectInv, ValuesTyped, NamesOwn, CacheOwn, UsedIsCached

\* A release unmaps it, and what nothing links or maps is gone.
LEMMA ReleaseObjects ==
    ASSUME NodeInv, ObjectInv, NEW e \in held, cache_release(e)
    PROVE  ObjectInv'
<1>1. Moves(e, "held", "cleanup")
  BY ReleaseStep
<1>2. /\ udata' = [udata EXCEPT ![e] = None]
      /\ full' \subseteq full
      /\ UNCHANGED <<path, status, skip_clean, ldata, hung, fetching, mpc, idle_iters, ht, used,
                     shm>>
  BY DEF cache_release, FullKept, io, cache, manager
<1>3. "held" \in Places /\ "cleanup" \in Places
  BY DEF Places
<1>4. path[e] \in Path
  BY <1>1, <1>3, MoverHasPath DEF ObjectInv
<1>5. udata' \in [Entry -> Object \union {None}] /\ full' \subseteq Object
  BY <1>2 DEF ObjectInv, ValuesTyped, NamesOwn
<1>6. RequestsOwn'
  BY <1>1, <1>2, <1>3, <1>4, MoveRequests DEF ObjectInv
<1> QED BY <1>2, <1>5, <1>6 DEF ObjectInv, ValuesTyped, NamesOwn, CacheOwn, UsedIsCached

\* A request for a cached file takes the object at the head.
LEMMA LocalObjects ==
    ASSUME NodeInv, ObjectInv, NEW e \in Entry, check_local(e)
    PROVE  ObjectInv'
<1>1. PICK p \in {"ready", "bottleneck"} : Moves(e, p, "done")
  BY AtOnceStep
<1>2. /\ ht[path[e]] # <<>>
      /\ ldata' = [ldata EXCEPT ![e] = Head(ht[path[e]])]
      /\ skip_clean' = [skip_clean EXCEPT ![e] = TRUE]
      /\ mpc' = "done"
      /\ UNCHANGED <<path, status, udata, hung, fetching, idle_iters, ht, used, shm, full>>
  BY DEF check_local, io, cache, memory, Goto
<1>3. "done" \in Places /\ p \in Places /\ p # "free"
  BY DEF Places
<1>4. path[e] \in Path
  BY <1>1, <1>3, MoverHasPath DEF ObjectInv
<1>5. Head(ht[path[e]]) \in Object
  BY <1>2, <1>4 DEF ObjectInv, CacheOwn
<1>6. /\ ldata' \in [Entry -> Object \union {None}] /\ skip_clean' \in [Entry -> BOOLEAN]
      /\ \A x \in Entry \ {e} : ldata'[x] = ldata[x]
  BY <1>2, <1>5 DEF ObjectInv, ValuesTyped
<1>7. RequestsOwn'
  BY <1>1, <1>2, <1>3, <1>4, <1>6, MoveRequests DEF ObjectInv
<1> QED BY <1>2, <1>6, <1>7 DEF ObjectInv, ValuesTyped, NamesOwn, CacheOwn, UsedIsCached

\* A request set aside keeps its fields.
LEMMA AsideObjects ==
    ASSUME NodeInv, ObjectInv, NEW e \in Entry, check_remote(e) \/ check_bottleneck(e)
    PROVE  ObjectInv'
<1>1. PICK p \in {"ready", "bottleneck"}, q \in {"fetching", "bottleneck"} : Moves(e, p, q)
  BY RemoteStep, BottleneckStep
<1>2. /\ fetching \subseteq fetching' /\ mpc' = "done"
      /\ UNCHANGED <<path, status, skip_clean, ldata, udata, hung, idle_iters, ht, used, shm, full>>
  BY DEF check_remote, check_bottleneck, request, io, cache, memory, Goto
<1>3. q \in Places /\ p \in Places /\ p # "free" /\ q \notin {"free", "reading", "cq"}
  BY DEF Places
<1>4. path[e] \in Path
  BY <1>1, <1>3, MoverHasPath DEF ObjectInv
<1>5. RequestsOwn'
  BY <1>1, <1>2, <1>3, <1>4, MoveRequests DEF ObjectInv
<1> QED BY <1>2, <1>5 DEF ObjectInv, ValuesTyped, NamesOwn, CacheOwn, UsedIsCached

\* Linking the name of a file to what shm_alloc opened.
LEMMA OpenNames ==
    ASSUME ObjectInv, NEW p \in Path, shm' = [shm EXCEPT ![p] = Opened(p)],
           full' \subseteq full \union {Opened(p)}
    PROVE  NamesOwn'
<1>1. Opened(p) \in Object /\ Opened(p)[1] = p
  BY OpenedIsOwn
<1> QED BY <1>1 DEF ObjectInv, NamesOwn

\* A read creates the object of its name.
LEMMA StorageObjects ==
    ASSUME NodeInv, ObjectInv, NEW e \in Entry, check_submit(e)
    PROVE  ObjectInv'
<1>1. PICK p \in {"ready", "bottleneck"} : Moves(e, p, "reading")
  BY StorageStep
<1> PICK o : o = Opened(path[e])
  OBVIOUS
<1>2. /\ ldata' = [ldata EXCEPT ![e] = o]
      /\ shm' = [shm EXCEPT ![path[e]] = o]
      /\ mpc' = "done"
      /\ UNCHANGED <<path, status, skip_clean, udata, hung, fetching, idle_iters, ht, used, full>>
  BY DEF check_submit, io, cache, memory, Goto
<1>3. "reading" \in Places /\ p \in Places /\ p # "free"
  BY DEF Places
<1>4. path[e] \in Path
  BY <1>1, <1>3, MoverHasPath DEF ObjectInv
<1>5. o \in Object /\ o[1] = path[e] /\ o # None
  BY <1>4, OpenedIsOwn
<1>6. NamesOwn'
  BY <1>2, <1>4, OpenNames
<1>7. /\ ldata' \in [Entry -> Object \union {None}] /\ ldata'[e] = o
      /\ \A x \in Entry \ {e} : ldata'[x] = ldata[x]
  BY <1>2, <1>5 DEF ObjectInv, ValuesTyped
<1>8. RequestsOwn'
  BY <1>1, <1>2, <1>3, <1>4, <1>5, <1>7, MoveRequests DEF ObjectInv
<1> QED BY <1>2, <1>6, <1>7, <1>8 DEF ObjectInv, ValuesTyped, CacheOwn, UsedIsCached

\* A read that could not start leaves the request failed.
LEMMA StorageFailsObjects ==
    ASSUME NodeInv, ObjectInv, NEW e \in Entry, check_submit_fails(e)
    PROVE  ObjectInv'
<1>1. PICK p \in {"ready", "bottleneck"} : Moves(e, p, "done")
  BY AtOnceStep
<1>2. /\ \E s \in {"again", "failed"} : status' = [status EXCEPT ![e] = s]
      /\ shm' = shm \/ shm' = [shm EXCEPT ![path[e]] = None]
      /\ full' \subseteq full
      /\ mpc' = "done"
      /\ UNCHANGED <<path, skip_clean, ldata, udata, hung, fetching, idle_iters, ht, used>>
  BY DEF check_submit_fails, FullKept, io, cache, Goto
<1>3. "done" \in Places /\ p \in Places /\ p # "free"
  BY DEF Places
<1>4. path[e] \in Path
  BY <1>1, <1>3, MoverHasPath DEF ObjectInv
<1>5. NamesOwn'
  BY <1>2, <1>4 DEF ObjectInv, NamesOwn
<1>6. status' \in [Entry -> {"ok", "failed", "again"}]
  BY <1>2 DEF ObjectInv, ValuesTyped
<1>7. RequestsOwn'
  BY <1>1, <1>2, <1>3, <1>4, MoveRequests DEF ObjectInv
<1> QED BY <1>2, <1>5, <1>6, <1>7 DEF ObjectInv, ValuesTyped, CacheOwn, UsedIsCached

\* A sequence with one more element in front.
LEMMA FrontElems ==
    ASSUME NEW S, NEW s \in Seq(S), NEW o \in S
    PROVE  /\ <<o>> \o s \in Seq(S) /\ Len(<<o>> \o s) = Len(s) + 1
           /\ <<o>> \o s # <<>> /\ Head(<<o>> \o s) = o
           /\ ToSet(<<o>> \o s) \subseteq ToSet(s) \union {o}
<1>1. /\ Len(s) \in Nat /\ <<o>> \o s \in Seq(S) /\ Len(<<o>> \o s) = Len(s) + 1
      /\ (<<o>> \o s)[1] = o
      /\ \A i \in 2 .. (Len(s) + 1) : (<<o>> \o s)[i] = s[i - 1]
  OBVIOUS
<1>2. ASSUME NEW x \in ToSet(<<o>> \o s), x # o PROVE x \in ToSet(s)
  <2> DEFINE t == <<o>> \o s
  <2>1. DOMAIN t = 1 .. (Len(s) + 1) /\ DOMAIN s = 1 .. Len(s)
    BY <1>1
  <2>2. PICK i \in DOMAIN t : t[i] = x
    BY <1>2 DEF ToSet
  <2> HIDE DEF t
  <2>3. i \in 2 .. (Len(s) + 1)
    BY <1>1, <1>2, <2>1, <2>2 DEF t
  <2>4. i - 1 \in DOMAIN s /\ s[i - 1] = x
    BY <1>1, <2>1, <2>2, <2>3 DEF t
  <2> QED BY <2>4 DEF ToSet
<1> QED BY <1>1, <1>2

\* A completed read enters the cache when its file fits, and the bytes are counted.
LEMMA CompletionObjects ==
    ASSUME NodeInv, ObjectInv, check_done
    PROVE  ObjectInv'
<1> PICK e : e = Head(cq[turn]).entry
  OBVIOUS
<1>1. Moves(e, "cq", "done")
  BY CompletionStep
<1>2. /\ status' = Outcome(e, Head(cq[turn]).ok)
      /\ UNCHANGED <<path, ldata, udata, hung, fetching, mpc, idle_iters, shm, full>>
      /\ \/ UNCHANGED <<ht, used, skip_clean>>
         \/ /\ Fits(path[e]) /\ ht' = Added(e) /\ used' = used + Size[path[e]]
            /\ skip_clean' = CleanupSkipped(e)
  BY DEF check_done, cache, manager, memory
<1>3. "cq" \in Places /\ "done" \in Places
  BY DEF Places
<1>4. e \in Entry /\ path[e] \in Path /\ In(e, "cq")
  BY <1>1, <1>3, MoverHasPath DEF ObjectInv
<1>5. ldata[e] \in Object /\ ldata[e][1] = path[e]
  BY <1>4 DEF ObjectInv, RequestsOwn, ValuesTyped
<1>6. status' \in [Entry -> {"ok", "failed", "again"}]
  BY <1>2, <1>4 DEF ObjectInv, ValuesTyped, Outcome
<1>7. skip_clean' \in [Entry -> BOOLEAN]
  BY <1>2 DEF ObjectInv, ValuesTyped, CleanupSkipped
<1>8. RequestsOwn'
  BY <1>1, <1>2, <1>3, <1>4, MoveRequests DEF ObjectInv
<1>9. CASE UNCHANGED <<ht, used>>
  <2>1. CacheOwn'
    BY <1>9 DEF ObjectInv, CacheOwn, UsedIsCached
  <2> QED BY <1>2, <1>6, <1>7, <1>8, <2>1 DEF ObjectInv, ValuesTyped, NamesOwn
<1>10. CASE Fits(path[e]) /\ ht' = Added(e) /\ used' = used + Size[path[e]]
  <2> DEFINE p == path[e]
             o == ldata[e]
  <2>1. /\ ht \in [Path -> Seq(Object)] /\ ht' = [ht EXCEPT ![p] = <<o>> \o @]
        /\ ht[p] \in Seq(Object) /\ o \in Object /\ o[1] = p
    BY <1>4, <1>5, <1>10 DEF ObjectInv, CacheOwn, Added
  <2>2. /\ <<o>> \o ht[p] \in Seq(Object) /\ Len(<<o>> \o ht[p]) = Len(ht[p]) + 1
        /\ ToSet(<<o>> \o ht[p]) \subseteq ToSet(ht[p]) \union {o}
    <3> HIDE DEF o, p
    <3> QED BY <2>1, FrontElems
  <2>3. /\ ht' \in [Path -> Seq(Object)] /\ ht'[p] = <<o>> \o ht[p]
        /\ \A q \in Path : q # p => ht'[q] = ht[q]
    BY <1>4, <2>1, <2>2
  <2>4. \A q \in Path : \A x \in ToSet(ht'[q]) : x[1] = q
    BY <1>5, <2>2, <2>3 DEF ObjectInv, CacheOwn
  <2>5. /\ used \in Nat /\ used = SumOf(Bytes, Path) /\ Size[p] \in Nat /\ p \in Path
        /\ \A q \in Path : Bytes[q] \in Nat
    BY <1>4, BytesFit, NodeAssumption DEF ObjectInv, CacheOwn
  <2> DEFINE B == [q \in Path |-> Size[q] * Len(ht'[q])]
  <2>6. B[p] = Bytes[p] + Size[p]
    <3>1. Len(ht'[p]) = Len(ht[p]) + 1 /\ Len(ht[p]) \in Nat
      <4>1. Len(ht[p]) \in Nat
        <5>1. ht[p] \in Seq(Object)
          BY <2>1
        <5> HIDE DEF p
        <5> QED BY <5>1
      <4> QED BY <2>2, <2>3, <4>1
    <3>2. \A a, b \in Nat : a * (b + 1) = a * b + a
      OBVIOUS
    <3>3. Size[p] * (Len(ht[p]) + 1) = Size[p] * Len(ht[p]) + Size[p]
      BY <2>5, <3>1, <3>2
    <3> QED BY <2>5, <3>1, <3>3 DEF Bytes
  <2>7. \A q \in Path \ {p} : B[q] = Bytes[q]
    BY <2>3 DEF Bytes
  <2> HIDE DEF B
  <2>8. \A q \in Path : B[q] \in Int /\ Bytes[q] \in Int
    BY <2>5, <2>6, <2>7
  <2>9. SumOf(B, Path) = SumOf(Bytes, Path) - Bytes[p] + B[p]
    BY <2>5, <2>7, <2>8, NodeSizes, SumChange
  <2>10. used' = SumOf(B, Path)
    <3>1. used' = used + Size[p]
      BY <1>10
    <3>2. SumOf(Bytes, Path) \in Int /\ B[p] \in Int /\ Bytes[p] \in Int
      BY <2>5, <2>8
    <3> HIDE DEF p
    <3> QED BY <2>5, <2>6, <2>9, <3>1, <3>2
  <2>11. UsedIsCached' /\ used' \in Nat
    <3>1. used' <= Capacity /\ used' \in Nat
      BY <1>10, <2>5 DEF Fits
    <3>2. UsedIsCached' = (used' <= Capacity /\ used' = SumOf(B, Path))
      BY DEF UsedIsCached, SumOf, B
    <3> QED BY <2>10, <3>1, <3>2
  <2>12. CacheOwn'
    BY <2>3, <2>4, <2>11 DEF CacheOwn
  <2> QED BY <1>2, <1>6, <1>7, <1>8, <2>12 DEF ObjectInv, ValuesTyped, NamesOwn
<1> QED BY <1>2, <1>9, <1>10

\* A cleaned request is as new.
LEMMA CleanupObjects ==
    ASSUME NodeInv, ObjectInv, check_cleanup
    PROVE  ObjectInv'
<1> PICK e : e = Head(cleanup[turn])
  OBVIOUS
<1>1. Moves(e, "cleanup", "free")
  BY CleanupStep
<1>2. /\ shm' = shm \/ shm' = [shm EXCEPT ![path[e]] = None]
      /\ path' = [path EXCEPT ![e] = None]
      /\ status' = [status EXCEPT ![e] = "ok"]
      /\ skip_clean' = [skip_clean EXCEPT ![e] = FALSE]
      /\ ldata' = [ldata EXCEPT ![e] = None]
      /\ full' \subseteq full
      /\ idle_iters' = IF n_unsynced > prev_length THEN 0
                       ELSE IF idle_iters > MaxIdleIters THEN idle_iters
                       ELSE idle_iters + 1
      /\ UNCHANGED <<udata, hung, fetching, mpc, ht, used>>
  BY DEF check_cleanup, MustClean, FullKept, io, cache
<1>3. "cleanup" \in Places /\ "free" \in Places
  BY DEF Places
<1>4. e \in Entry /\ path[e] \in Path
  BY <1>1, <1>3, MoverHasPath DEF ObjectInv
<1>5. NamesOwn'
  BY <1>2, <1>4 DEF ObjectInv, NamesOwn
<1>6. idle_iters' \in 0 .. MaxIdleIters + 1
  BY <1>2, NodeAssumption DEF ObjectInv, ValuesTyped
<1>7. /\ status' \in [Entry -> {"ok", "failed", "again"}] /\ skip_clean' \in [Entry -> BOOLEAN]
      /\ ldata' \in [Entry -> Object \union {None}]
  BY <1>2 DEF ObjectInv, ValuesTyped
<1>8. \A x \in Entry \ {e} : path'[x] = path[x] /\ ldata'[x] = ldata[x]
  BY <1>2 DEF ObjectInv, ValuesTyped, NodeInv, CacheInv
<1>9. RequestsOwn'
  BY <1>1, <1>3, <1>8, MoveRequests DEF ObjectInv
<1> QED BY <1>2, <1>5, <1>6, <1>7, <1>9 DEF ObjectInv, ValuesTyped, CacheOwn, UsedIsCached

\* The kernel fills the object or not.
LEMMA KernelObjects ==
    ASSUME NodeInv, ObjectInv, NEW e \in Entry, kernel_read(e)
    PROVE  ObjectInv'
<1>1. Moves(e, "reading", "cq")
  BY KernelStep
<1>2. /\ full' \subseteq full \union {ldata[e]}
      /\ UNCHANGED <<path, status, skip_clean, ldata, udata, hung, fetching, mpc, idle_iters, ht,
                     used, shm>>
  BY DEF kernel_read, request, cache, manager
<1>3. "cq" \in Places /\ "reading" \in Places
  BY DEF Places
<1>4. path[e] \in Path /\ In(e, "reading")
  BY <1>1, <1>3, MoverHasPath DEF ObjectInv
<1>5. ldata[e] # None /\ ldata[e] \in Object /\ ldata[e][1] = path[e]
  BY <1>4 DEF ObjectInv, RequestsOwn, ValuesTyped
<1>6. NamesOwn'
  BY <1>2, <1>5 DEF ObjectInv, NamesOwn
<1>7. RequestsOwn'
  BY <1>1, <1>2, <1>3, <1>4, <1>5, MoveRequests DEF ObjectInv
<1> QED BY <1>2, <1>6, <1>7 DEF ObjectInv, ValuesTyped, CacheOwn, UsedIsCached

\* A peer's file is an object of its name.
LEMMA FetchedObjects ==
    ASSUME NodeInv, ObjectInv, NEW e \in Entry, cache_remote_load(e) \/ remote_load_fails(e)
    PROVE  ObjectInv'
<1>1. Moves(e, "fetching", "done")
  BY FetchedStep DEF cache_remote_load, remote_load_fails
<1>2. /\ e \notin hung /\ hung' = hung /\ fetching' = fetching \ {e}
      /\ UNCHANGED <<path, skip_clean, udata, idle_iters, ht, used>>
  BY DEF cache_remote_load, remote_load_fails, Fetched, cache
<1>3. "fetching" \in Places /\ "done" \in Places
  BY DEF Places
<1>4. path[e] \in Path
  BY <1>1, <1>3, MoverHasPath DEF ObjectInv
<1>5. hung' \subseteq fetching'
  BY <1>2 DEF ObjectInv, ValuesTyped
<1>6. CASE cache_remote_load(e)
  <2> PICK o : o = Opened(path[e])
    OBVIOUS
  <2>1. /\ ldata' = [ldata EXCEPT ![e] = o]
        /\ shm' = [shm EXCEPT ![path[e]] = o]
        /\ full' = full \union {o}
        /\ UNCHANGED <<status, mpc>>
    BY <1>6 DEF cache_remote_load
  <2>2. o \in Object
    BY <1>4, OpenedIsOwn
  <2>3. NamesOwn'
    BY <1>4, <2>1, OpenNames
  <2>4. /\ ldata' \in [Entry -> Object \union {None}]
        /\ \A x \in Entry \ {e} : ldata'[x] = ldata[x]
    BY <2>1, <2>2 DEF ObjectInv, ValuesTyped
  <2>5. RequestsOwn'
    BY <1>1, <1>2, <1>3, <1>4, <2>4, MoveRequests DEF ObjectInv
  <2> QED BY <1>2, <1>5, <2>1, <2>3, <2>4, <2>5 DEF ObjectInv, ValuesTyped, CacheOwn, UsedIsCached
<1>7. CASE remote_load_fails(e)
  <2>1. /\ \E s \in {"failed", "ok"} : status' = [status EXCEPT ![e] = s]
        /\ mpc' \in {mpc, "dead"}
        /\ UNCHANGED <<ldata, shm, full>>
    BY <1>7 DEF remote_load_fails, memory
  <2>2. status' \in [Entry -> {"ok", "failed", "again"}]
    BY <2>1 DEF ObjectInv, ValuesTyped
  <2>3. RequestsOwn'
    BY <1>1, <1>2, <1>3, <1>4, <2>1, MoveRequests DEF ObjectInv
  <2> QED BY <1>2, <1>5, <2>1, <2>2, <2>3 DEF ObjectInv, ValuesTyped, NamesOwn, CacheOwn, UsedIsCached
<1> QED BY <1>6, <1>7

\* A new node holds nothing.
LEMMA InitObjects == Init => ObjectInv
<1> SUFFICES ASSUME Init PROVE ObjectInv
  OBVIOUS
<1>1. ValuesTyped /\ NamesOwn
  BY NodeAssumption DEF Init, ValuesTyped, NamesOwn
<1>2. CacheOwn
  <2>1. /\ ht \in [Path -> Seq(Object)] /\ \A p \in Path : ht[p] = <<>> /\ Len(ht[p]) = 0
        /\ used = 0
    BY DEF Init
  <2>2. \A p \in Path : ToSet(ht[p]) = {}
    BY <2>1 DEF ToSet
  <2>3. \A a \in Nat : a * 0 = 0
    OBVIOUS
  <2>4. \A p \in Path : Bytes[p] = 0
    BY <2>1, <2>3, NodeAssumption DEF Bytes
  <2>5. SumOf(Bytes, Path) = 0
    <3> DEFINE Good == {T \in SUBSET Path : SumOf(Bytes, T) = 0}
    <3>1. ASSUME NEW T \in SUBSET Path, \A U \in SUBSET T : U # T => U \in Good
          PROVE  T \in Good
      <4>1. IsFiniteSet(T)
        BY NodeSizes, FS_Subset
      <4>2. CASE T = {}
        BY <4>1, <4>2, SumFirst
      <4>3. CASE T # {}
        <5>1. First(T) \in T /\ Rest(T) \in Good
          BY <3>1, <4>3, FirstAndRest
        <5>2. SumOf(Bytes, T) = Bytes[First(T)] + SumOf(Bytes, Rest(T))
          BY <4>1, <4>3, SumFirst
        <5> QED BY <2>4, <5>1, <5>2
      <4> QED BY <4>2, <4>3
    <3>2. \A T \in SUBSET Path : T \in Good
      <4> HIDE DEF Good
      <4> QED BY <3>1, NodeSizes, SubsetInduction
    <3> QED BY <3>2
  <2>6. UsedIsCached
    <3>1. used <= Capacity /\ used = SumOf(Bytes, Path)
      BY <2>1, <2>5, NodeSizes
    <3> QED BY <3>1 DEF UsedIsCached, SumOf, Bytes
  <2> QED BY <2>1, <2>2, <2>6 DEF CacheOwn
<1>3. RequestsOwn
  <2> SUFFICES ASSUME NEW e \in Entry
               PROVE  In(e, "free") /\ ~In(e, "reading") /\ ~In(e, "cq")
    BY DEF RequestsOwn
  <2>1. NodeInv
    BY InitService
  <2>2. In(e, "free")
    <3>1. \E i \in 1 .. QueueDepth : e = <<Owner(e), i>> /\ Owner(e) \in Users
      BY DEF Entry, Owner
    <3>2. /\ DOMAIN free[Owner(e)] = 1 .. QueueDepth
          /\ \A i \in 1 .. QueueDepth : free[Owner(e)][i] = <<Owner(e), i>>
      BY <3>1 DEF Init
    <3>3. e \in ToSet(free[Owner(e)])
      BY <3>1, <3>2 DEF ToSet
    <3> QED BY <3>3 DEF In
  <2>3. \A q \in Places : In(e, q) <=> q = "free"
    BY <2>1, <2>2, OnlyPlace DEF NodeInv, Places
  <2> QED BY <2>2, <2>3 DEF Places
<1> QED BY <1>1, <1>2, <1>3 DEF ObjectInv

\* Every step keeps what the memory holds.
LEMMA NextObjects == ASSUME NodeInv, ObjectInv, [Next]_vars PROVE ObjectInv'
BY SubmitObjects, ReapObjects, ReleaseObjects, LocalObjects, AsideObjects, StorageObjects,
   StorageFailsObjects, CompletionObjects, CleanupObjects, KernelObjects, FetchedObjects,
   StayObjects DEF Next, User, Manager, check_ready

-----------------------------------------------------------------------------
(* The reads under way.                                                    *)

\* The requests of user u that are with the kernel, and all of his.
Mine(u) == {e \in Entry : Owner(e) = u /\ (In(e, "reading") \/ In(e, "cq"))}
All(u) == {e \in Entry : Owner(e) = u}

CountInv ==
    \A u \in Users : /\ Cardinality(Mine(u)) = debug_count[u]
                     /\ debug_limit # 0 => debug_count[u] <= debug_limit

\* A user has as many requests as his queue is deep.
LEMMA AllOfUser ==
    ASSUME NEW u \in Users
    PROVE  IsFiniteSet(All(u)) /\ Cardinality(All(u)) = QueueDepth
<1>1. IsFiniteSet(1 .. QueueDepth) /\ Cardinality(1 .. QueueDepth) = QueueDepth
  BY NodeAssumption, FS_Interval
<1>2. IsFiniteSet({u}) /\ Cardinality({u}) = 1
  BY FS_Singleton
<1>3. All(u) = {u} \X (1 .. QueueDepth)
  BY DEF All, Entry, Owner
<1>4. /\ IsFiniteSet({u} \X (1 .. QueueDepth))
      /\ Cardinality({u} \X (1 .. QueueDepth)) = Cardinality({u}) * Cardinality(1 .. QueueDepth)
  BY <1>1, <1>2, FS_Product
<1> QED BY <1>1, <1>2, <1>3, <1>4, NodeAssumption

\* The entries of completions.
LEMMA EntsElems ==
    ASSUME NEW s \in Seq(Completion)
    PROVE  ToSet(Ents(s)) = {c.entry : c \in ToSet(s)}
BY DEF ToSet, Ents

\* InRing has the requests in its two halves.
LEMMA InRingIsMine ==
    ASSUME NodeInv, NEW u \in Users
    PROVE  {e \in InRing : Owner(e) = u} = Mine(u)
<1>1. \A v \in Users : ToSet(Ring[v]) = {c.entry : c \in ToSet(cq[v])}
  BY EntsElems DEF NodeInv, CacheInv, Ring
<1>2. \A v \in Users : \A e \in ToSet(Ring[v]) : Owner(e) = v /\ e \in Entry
  <2>1. \A v \in Users : Ring[v] \in Seq(Entry)
    BY DEF NodeInv, Shapes, OwnQueues, Queues
  <2>2. \A v \in Users : \A e \in ToSet(Ring[v]) : e \in Entry
    BY <2>1 DEF ToSet
  <2> QED BY <2>2 DEF NodeInv, Shapes, OwnQueues
<1>3. \A e : e \in InRing <=> e \in reading \/ \E v \in Users : e \in ToSet(Ring[v])
  BY <1>1 DEF InRing
<1>4. reading \subseteq Entry
  BY DEF NodeInv, CacheInv
<1>5. \A e \in Entry : In(e, "reading") <=> e \in reading
  BY DEF In
<1>6. \A e \in Entry : In(e, "cq") <=> e \in ToSet(Ring[Owner(e)])
  BY DEF In
<1> HIDE DEF Ring
<1> QED BY <1>2, <1>3, <1>4, <1>5, <1>6 DEF Mine

\* A move that neither enters nor leaves the ring.
LEMMA MineStays ==
    ASSUME NEW e, NEW p \in Places, NEW q \in Places, Moves(e, p, q), \A x \in Entry : InOnePlace(x),
           p \in {"reading", "cq"} <=> q \in {"reading", "cq"}, NEW u
    PROVE  Mine(u)' = Mine(u)
<1>1. {"reading", "cq"} \subseteq Places
  BY DEF Places
<1>2. e \in Entry /\ \A r \in Places : In(e, r) <=> r = p
  BY OnlyPlace DEF Moves
<1>3. \A x \in Entry : (In(x, "reading")' \/ In(x, "cq")') <=> (In(x, "reading") \/ In(x, "cq"))
  BY <1>1, <1>2 DEF Moves
<1> QED BY <1>3 DEF Mine

\* A request that goes to the kernel, and one that comes back.
LEMMA MineGrows ==
    ASSUME NEW e, NEW p \in Places, Moves(e, p, "reading"), \A x \in Entry : InOnePlace(x),
           p \notin {"reading", "cq"}
    PROVE  /\ e \notin Mine(Owner(e)) /\ Mine(Owner(e))' = Mine(Owner(e)) \union {e}
           /\ \A u : u # Owner(e) => Mine(u)' = Mine(u)
<1>1. {"reading", "cq"} \subseteq Places
  BY DEF Places
<1>2. e \in Entry /\ \A r \in Places : In(e, r) <=> r = p
  BY OnlyPlace DEF Moves
<1>3. \A x \in Entry : (In(x, "reading")' \/ In(x, "cq")')
                          <=> (In(x, "reading") \/ In(x, "cq") \/ x = e)
  BY <1>1, <1>2 DEF Moves
<1>4. ~In(e, "reading") /\ ~In(e, "cq")
  BY <1>1, <1>2
<1> QED BY <1>2, <1>3, <1>4 DEF Mine

\* A read that completes is one fewer.
LEMMA MineShrinks ==
    ASSUME NEW e, Moves(e, "cq", "done"), \A x \in Entry : InOnePlace(x)
    PROVE  /\ e \in Mine(Owner(e)) /\ Mine(Owner(e))' = Mine(Owner(e)) \ {e}
           /\ \A u : u # Owner(e) => Mine(u)' = Mine(u)
<1>1. {"reading", "cq", "done"} \subseteq Places
  BY DEF Places
<1>2. e \in Entry /\ \A r \in Places : In(e, r) <=> r = "cq"
  BY <1>1, OnlyPlace DEF Moves
<1>3. \A x \in Entry : (In(x, "reading")' \/ In(x, "cq")')
                          <=> (In(x, "reading") \/ In(x, "cq")) /\ x # e
  BY <1>1, <1>2 DEF Moves
<1>4. In(e, "cq")
  BY <1>1, <1>2
<1> QED BY <1>2, <1>3, <1>4 DEF Mine

\* A user's reads are finitely many.
LEMMA MineFinite ==
    ASSUME NEW u
    PROVE  IsFiniteSet(Mine(u)) /\ Cardinality(Mine(u)) \in Nat
<1>1. Mine(u) \in SUBSET Entry
  BY DEF Mine
<1> QED BY <1>1, NodeSizes, FS_Subset, FS_CardinalityType

\* A new node reads nothing.
LEMMA InitCount == Init => CountInv
<1> SUFFICES ASSUME Init, NEW u \in Users
             PROVE  Cardinality(Mine(u)) = 0 /\ debug_count[u] = 0 /\ debug_limit \in Nat
  BY NodeAssumption DEF CountInv
<1>1. debug_count[u] = 0 /\ debug_limit \in Nat /\ reading = {} /\ cq = [v \in Users |-> <<>>]
  BY NodeAssumption DEF Init
<1>2. Mine(u) = {}
  <2> SUFFICES ASSUME NEW e \in Entry PROVE ~In(e, "reading") /\ ~In(e, "cq")
    BY DEF Mine
  <2>1. Ring[Owner(e)] = <<>>
    BY <1>1, OwnerIsUser DEF Ring, Ents
  <2> QED BY <1>1, <2>1 DEF In, ToSet
<1> QED BY <1>1, <1>2, FS_EmptySet

\* A move that does not touch the count.
LEMMA MoveCount ==
    ASSUME NodeInv, CountInv, NEW e, NEW p \in Places, NEW q \in Places, Moves(e, p, q),
           p \in {"reading", "cq"} <=> q \in {"reading", "cq"},
           UNCHANGED <<debug_limit, debug_count>>
    PROVE  CountInv'
<1>1. \A u : Mine(u)' = Mine(u)
  BY MineStays DEF NodeInv
<1> QED BY <1>1 DEF CountInv

\* Every step keeps the count of the reads.
LEMMA NextCount ==
    ASSUME NodeInv, CountInv, [Next]_vars
    PROVE  CountInv'
<1> DEFINE Out == {"free", "ready", "bottleneck", "fetching", "done", "held", "lost", "cleanup"}
<1>0. Places = Out \union {"reading", "cq"} /\ "reading" \notin Out /\ "cq" \notin Out
  BY DEF Places
<1>1. /\ debug_limit \in Nat /\ debug_count \in [Users -> Int]
      /\ \A x \in Entry : InOnePlace(x)
  BY DEF NodeInv, Shapes, Limiter
<1>2. ASSUME NEW u \in Users, NEW f \in Path, cache_get_submit(u, f) PROVE CountInv'
  <2>1. UNCHANGED <<debug_limit, debug_count>>
    BY <1>2 DEF cache_get_submit, counts
  <2> QED BY <1>0, <1>2, <2>1, SubmitStep, MoveCount
<1>3. ASSUME NEW u \in Users, cache_get_reap(u) \/ reap_fails(u) PROVE CountInv'
  <2>1. UNCHANGED <<debug_limit, debug_count>>
    BY <1>3 DEF cache_get_reap, reap_fails, counts
  <2>2. PICK p \in {"held", "lost"} : Moves(Head(done[u]), "done", p)
    BY <1>3, ReapStep
  <2> QED BY <1>0, <2>1, <2>2, MoveCount
<1>4. ASSUME NEW e \in held, cache_release(e) PROVE CountInv'
  <2>1. UNCHANGED <<debug_limit, debug_count>>
    BY <1>4 DEF cache_release, counts
  <2> QED BY <1>0, <1>4, <2>1, ReleaseStep, MoveCount
<1>5. ASSUME NEW e \in Entry,
             check_local(e) \/ check_submit_fails(e) \/ check_remote(e) \/ check_bottleneck(e)
      PROVE  CountInv'
  <2>1. UNCHANGED <<debug_limit, debug_count>>
    BY <1>5 DEF check_local, check_submit_fails, check_remote, check_bottleneck, counts
  <2>2. PICK p \in {"ready", "bottleneck"}, q \in {"done", "fetching", "bottleneck"} : Moves(e, p, q)
    BY <1>5, AtOnceStep, RemoteStep, BottleneckStep
  <2> QED BY <1>0, <2>1, <2>2, MoveCount
<1>6. ASSUME NEW e \in Entry, check_submit(e) PROVE CountInv'
  <2>1. /\ debug_count' = [debug_count EXCEPT ![turn] = @ + 1] /\ debug_limit' = debug_limit
        /\ ~(debug_limit # 0 /\ debug_count[turn] >= debug_limit) /\ e = Candidate(turn)
    BY <1>6 DEF check_submit, Storage, AtLimit
  <2>2. PICK p \in {"ready", "bottleneck"} : Moves(e, p, "reading")
    BY <1>6, StorageStep
  <2> PICK u : u = turn
    OBVIOUS
  <2>3. u \in Users /\ Owner(e) = u
    BY <2>1, CandidateFacts
  <2>4. /\ e \notin Mine(u) /\ Mine(u)' = Mine(u) \union {e}
        /\ \A v : v # u => Mine(v)' = Mine(v)
    BY <1>0, <1>1, <2>2, <2>3, MineGrows
  <2>5. Cardinality(Mine(u)') = Cardinality(Mine(u)) + 1
    BY <2>4, MineFinite, FS_AddElement
  <2>6. debug_count'[u] = debug_count[u] + 1 /\ debug_count[u] \in Int
        /\ \A v \in Users : v # u => debug_count'[v] = debug_count[v]
    BY <1>1, <2>1, <2>3
  <2>7. debug_limit # 0 => debug_count'[u] <= debug_limit
    BY <1>1, <2>1, <2>6
  <2> QED BY <2>1, <2>3, <2>4, <2>5, <2>6, <2>7 DEF CountInv
<1>7. CASE check_done
  <2> PICK e : e = Head(cq[turn]).entry
    OBVIOUS
  <2> PICK u : u = turn
    OBVIOUS
  <2>1. /\ debug_count' = [debug_count EXCEPT ![u] = @ - 1] /\ debug_limit' = debug_limit
        /\ cq[u] # <<>>
    BY <1>7 DEF check_done
  <2>2. Moves(e, "cq", "done")
    BY <1>7, CompletionStep
  <2>3. u \in Users /\ Owner(e) = u
    <3>1. u \in Users /\ Ring[u] # <<>> /\ Head(Ring[u]) = e
      BY <2>1, EntsOf DEF NodeInv, CacheInv, Ring
    <3> QED BY <3>1, PopOwn DEF NodeInv, Shapes
  <2>4. /\ e \in Mine(u) /\ Mine(u)' = Mine(u) \ {e}
        /\ \A v : v # u => Mine(v)' = Mine(v)
    BY <1>1, <2>2, <2>3, MineShrinks
  <2>5. Cardinality(Mine(u)') = Cardinality(Mine(u)) - 1
    <3>1. IsFiniteSet(Mine(u)) /\ e \in Mine(u)
      BY <2>4, MineFinite
    <3>2. Cardinality(Mine(u) \ {e}) = Cardinality(Mine(u)) - 1
      BY <3>1, FS_RemoveElement
    <3> QED BY <2>4, <3>2
  <2>6. debug_count'[u] = debug_count[u] - 1 /\ debug_count[u] \in Int
        /\ \A v \in Users : v # u => debug_count'[v] = debug_count[v]
    BY <1>1, <2>1, <2>3
  <2>7. debug_limit # 0 => debug_count'[u] <= debug_limit
    BY <1>1, <2>3, <2>6 DEF CountInv
  <2> QED BY <2>1, <2>3, <2>4, <2>5, <2>6, <2>7 DEF CountInv
<1>8. CASE check_cleanup
  <2>1. UNCHANGED <<debug_limit, debug_count>>
    BY <1>8 DEF check_cleanup, counts
  <2> QED BY <1>0, <1>8, <2>1, CleanupStep, MoveCount
<1>9. ASSUME NEW e \in Entry, kernel_read(e) PROVE CountInv'
  <2>1. UNCHANGED <<debug_limit, debug_count>>
    BY <1>9 DEF kernel_read, counts
  <2> QED BY <1>0, <1>9, <2>1, KernelStep, MoveCount
<1>10. ASSUME NEW e \in Entry, cache_remote_load(e) \/ remote_load_fails(e) PROVE CountInv'
  <2>1. Fetched(e) /\ UNCHANGED <<debug_limit, debug_count>>
    BY <1>10 DEF cache_remote_load, remote_load_fails, Fetched, counts
  <2> QED BY <1>0, <2>1, FetchedStep, MoveCount
<1>11. CASE Stays
  <2>1. \A u : Mine(u)' = Mine(u)
    BY <1>11, StayPlaces DEF Mine
  <2> QED BY <1>11, <2>1 DEF CountInv, Stays
<1> QED BY <1>2, <1>3, <1>4, <1>5, <1>6, <1>7, <1>8, <1>9, <1>10, <1>11, StaySteps
        DEF Next, User, Manager, check_ready

\* A user's requests are all somewhere.
LEMMA PlacesAddUp ==
    ASSUME NodeInv, NEW u \in Users
    PROVE  Len(free[u]) + Len(ready[u]) + Len(bottleneck[u]) + Len(done[u]) + Len(cleanup[u])
             + Cardinality(Mine(u))
             + Cardinality({e \in fetching \union held \union lost : Owner(e) = u})
           = QueueDepth
<1> DEFINE O == {e \in fetching \union held \union lost : Owner(e) = u}
           M == Mine(u)
           F == ToSet(free[u])
           R == ToSet(ready[u])
           B == ToSet(bottleneck[u])
           D == ToSet(done[u])
           C == ToSet(cleanup[u])
<1>1. ASSUME NEW q, OwnQueues(q)
      PROVE  /\ IsFiniteSet(ToSet(q[u])) /\ Cardinality(ToSet(q[u])) = Len(q[u])
             /\ ToSet(q[u]) \subseteq All(u)
  <2>1. q[u] \in Seq(Entry) /\ IsInjective(q[u])
    BY <1>1 DEF OwnQueues, Queues
  <2>2. ToSet(q[u]) \subseteq Entry
    BY <2>1 DEF ToSet
  <2> QED BY <1>1, <2>1, <2>2, ElemsCount DEF OwnQueues, All
<1>2. /\ IsFiniteSet(F) /\ Cardinality(F) = Len(free[u]) /\ F \subseteq All(u)
      /\ IsFiniteSet(R) /\ Cardinality(R) = Len(ready[u]) /\ R \subseteq All(u)
      /\ IsFiniteSet(B) /\ Cardinality(B) = Len(bottleneck[u]) /\ B \subseteq All(u)
      /\ IsFiniteSet(D) /\ Cardinality(D) = Len(done[u]) /\ D \subseteq All(u)
      /\ IsFiniteSet(C) /\ Cardinality(C) = Len(cleanup[u]) /\ C \subseteq All(u)
  BY <1>1 DEF NodeInv, Shapes
<1>3. O \subseteq All(u) /\ M \subseteq All(u)
  BY DEF NodeInv, Shapes, All, Mine
<1>4. IsFiniteSet(O) /\ IsFiniteSet(M)
  BY <1>3, AllOfUser, FS_Subset
<1>5. \A e \in All(u) : /\ e \in F <=> In(e, "free")
                        /\ e \in R <=> In(e, "ready")
                        /\ e \in B <=> In(e, "bottleneck")
                        /\ e \in D <=> In(e, "done")
                        /\ e \in C <=> In(e, "cleanup")
                        /\ e \in M <=> In(e, "reading") \/ In(e, "cq")
                        /\ e \in O <=> In(e, "fetching") \/ In(e, "held") \/ In(e, "lost")
  BY DEF In, All, Mine
<1>6. \A e \in All(u) : InOnePlace(e)
  BY DEF NodeInv, All
<1> HIDE DEF F, R, B, D, C, M, O
<1>7. \A e \in All(u) : \E p \in Places : /\ e \in F <=> p = "free"
                                          /\ e \in R <=> p = "ready"
                                          /\ e \in B <=> p = "bottleneck"
                                          /\ e \in D <=> p = "done"
                                          /\ e \in C <=> p = "cleanup"
                                          /\ e \in M <=> p \in {"reading", "cq"}
                                          /\ e \in O <=> p \in {"fetching", "held", "lost"}
  <2> SUFFICES ASSUME NEW e \in All(u)
               PROVE  \E p \in Places : /\ e \in F <=> p = "free"
                                        /\ e \in R <=> p = "ready"
                                        /\ e \in B <=> p = "bottleneck"
                                        /\ e \in D <=> p = "done"
                                        /\ e \in C <=> p = "cleanup"
                                        /\ e \in M <=> p \in {"reading", "cq"}
                                        /\ e \in O <=> p \in {"fetching", "held", "lost"}
    OBVIOUS
  <2>1. PICK p \in Places : \A q \in Places : In(e, q) <=> q = p
    BY <1>6 DEF InOnePlace
  <2>2. {"free", "ready", "bottleneck", "done", "cleanup", "reading", "cq", "fetching", "held", "lost"}
          \subseteq Places
    BY DEF Places
  <2> QED BY <1>5, <2>1, <2>2
<1>8. All(u) = (((((F \cup R) \cup B) \cup D) \cup C) \cup M) \cup O
  <2>1. \A e \in All(u) : e \in F \/ e \in R \/ e \in B \/ e \in D \/ e \in C \/ e \in M \/ e \in O
    BY <1>7 DEF Places
  <2> QED BY <1>2, <1>3, <2>1
<1>9. /\ F \cap R = {} /\ (F \cup R) \cap B = {} /\ ((F \cup R) \cup B) \cap D = {}
      /\ (((F \cup R) \cup B) \cup D) \cap C = {}
      /\ ((((F \cup R) \cup B) \cup D) \cup C) \cap M = {}
      /\ (((((F \cup R) \cup B) \cup D) \cup C) \cup M) \cap O = {}
  <2>1. \A e \in All(u) : /\ e \in R => e \notin F
                          /\ e \in B => e \notin F /\ e \notin R
                          /\ e \in D => e \notin F /\ e \notin R /\ e \notin B
                          /\ e \in C => e \notin F /\ e \notin R /\ e \notin B /\ e \notin D
                          /\ e \in M => e \notin F /\ e \notin R /\ e \notin B /\ e \notin D /\ e \notin C
                          /\ e \in O => /\ e \notin F /\ e \notin R /\ e \notin B /\ e \notin D
                                        /\ e \notin C /\ e \notin M
    BY <1>7
  <2> QED BY <1>2, <1>3, <2>1
<1>10. /\ IsFiniteSet(F \cup R)
       /\ Cardinality(F \cup R) = Cardinality(F) + Cardinality(R)
  BY <1>2, <1>9, DisjointCount
<1>11. /\ IsFiniteSet((F \cup R) \cup B)
       /\ Cardinality((F \cup R) \cup B) = Cardinality(F \cup R) + Cardinality(B)
  BY <1>2, <1>9, <1>10, DisjointCount
<1>12. /\ IsFiniteSet(((F \cup R) \cup B) \cup D)
       /\ Cardinality(((F \cup R) \cup B) \cup D) = Cardinality((F \cup R) \cup B) + Cardinality(D)
  BY <1>2, <1>9, <1>11, DisjointCount
<1>13. /\ IsFiniteSet((((F \cup R) \cup B) \cup D) \cup C)
       /\ Cardinality((((F \cup R) \cup B) \cup D) \cup C)
            = Cardinality(((F \cup R) \cup B) \cup D) + Cardinality(C)
  BY <1>2, <1>9, <1>12, DisjointCount
<1>14. /\ IsFiniteSet(((((F \cup R) \cup B) \cup D) \cup C) \cup M)
       /\ Cardinality(((((F \cup R) \cup B) \cup D) \cup C) \cup M)
            = Cardinality((((F \cup R) \cup B) \cup D) \cup C) + Cardinality(M)
  BY <1>4, <1>9, <1>13, DisjointCount
<1>15. Cardinality(All(u)) = Cardinality(((((F \cup R) \cup B) \cup D) \cup C) \cup M) + Cardinality(O)
  BY <1>4, <1>8, <1>9, <1>14, DisjointCount
<1>16. Cardinality(All(u)) = QueueDepth
  BY AllOfUser
<1> QED BY <1>2, <1>10, <1>11, <1>12, <1>13, <1>14, <1>15, <1>16 DEF M, O

AccountInv == NodeInv /\ ObjectInv /\ CountInv

\* For any number of users, requests and files, whatever fails: the types, the limiter's
\* count of reads under way, the places of a user's requests, and the bytes in the cache.
THEOREM BooksAreRight == Spec => []Accounting
<1>1. ASSUME AccountInv PROVE Accounting
  <2>1. TypeOK
    <3>1. ASSUME NEW u \in Users, NEW q \in {free[u], ready[u], bottleneck[u], done[u], cleanup[u]}
          PROVE  ToSet(q) \subseteq {e \in Entry : Owner(e) = u}
      <4>1. ASSUME NEW s, OwnQueues(s) PROVE ToSet(s[u]) \subseteq {e \in Entry : Owner(e) = u}
        <5>1. s[u] \in Seq(Entry)
          BY <4>1 DEF OwnQueues, Queues
        <5>2. ToSet(s[u]) \subseteq Entry
          BY <5>1 DEF ToSet
        <5> QED BY <4>1, <5>2 DEF OwnQueues
      <4> QED BY <1>1, <4>1 DEF AccountInv, NodeInv, Shapes
    <3>2. used \in 0 .. Capacity
      BY <1>1, NodeSizes DEF AccountInv, ObjectInv, CacheOwn, UsedIsCached
    <3> QED BY <1>1, <3>1, <3>2
            DEF TypeOK, AccountInv, NodeInv, CacheInv, Shapes, ObjectInv, ValuesTyped, NamesOwn
  <2>2. ReadsAreCounted
    <3> SUFFICES ASSUME NEW u \in Users
                 PROVE  LET mine == {e \in InRing : Owner(e) = u} IN
                        /\ Cardinality(mine) = debug_count[u]
                        /\ debug_limit # 0 => debug_count[u] <= debug_limit
                        /\ Len(free[u]) + Len(ready[u]) + Len(bottleneck[u]) + Len(done[u])
                             + Len(cleanup[u]) + Cardinality(mine)
                             + Cardinality({e \in fetching \union held \union lost : Owner(e) = u})
                           = QueueDepth
      BY DEF ReadsAreCounted
    <3>1. {e \in InRing : Owner(e) = u} = Mine(u)
      BY <1>1, InRingIsMine DEF AccountInv
    <3>2. /\ Cardinality(Mine(u)) = debug_count[u]
          /\ debug_limit # 0 => debug_count[u] <= debug_limit
      BY <1>1 DEF AccountInv, CountInv
    <3>3. Len(free[u]) + Len(ready[u]) + Len(bottleneck[u]) + Len(done[u]) + Len(cleanup[u])
            + Cardinality(Mine(u))
            + Cardinality({e \in fetching \union held \union lost : Owner(e) = u})
          = QueueDepth
      BY <1>1, PlacesAddUp DEF AccountInv
    <3> QED BY <3>1, <3>2, <3>3
  <2>3. UsedIsCached
    BY <1>1 DEF AccountInv, ObjectInv, CacheOwn
  <2> QED BY <2>1, <2>2, <2>3 DEF Accounting
<1>2. Init => AccountInv
  BY InitService, InitObjects, InitCount DEF AccountInv
<1>3. AccountInv /\ [Next]_vars => AccountInv'
  BY StepService, NextObjects, NextCount DEF AccountInv, ServiceStep
<1> QED BY <1>1, <1>2, <1>3, PTL DEF Spec

-----------------------------------------------------------------------------
(* The data of the files.                                                  *)

\* What a request for p finds: once p is cached it waits in a queue or will not unlink the
\* name; what it reads goes into the object of the name; what it completed with is whole.
Sound(e, p) ==
    /\ ht[p] # <<>> =>
         \/ In(e, "ready") \/ In(e, "bottleneck")
         \/ skip_clean[e] /\ (In(e, "done") \/ In(e, "held") \/ In(e, "cleanup"))
    /\ In(e, "reading") \/ In(e, "cq") => ldata[e] = shm[p]
    /\ In(e, "cq") =>
         \A c \in ToSet(cq[Owner(e)]) : c.entry = e /\ c.ok => ldata[e] \in full
    /\ In(e, "done") /\ status[e] = "ok" /\ ldata[e] # None =>
         ldata[e] = shm[p] /\ ldata[e] \in full
    /\ In(e, "held") /\ ldata[e] # None => udata[e] \in full

\* A file that is not cached has one request at most; one that is has its object's name.
SoundPath(p) ==
    /\ ht[p] = <<>> => \A d, e \in Pending(p) : d = e
    /\ ht[p] # <<>> => shm[p] = Head(ht[p]) /\ shm[p] \in full
    /\ \A e \in Pending(p) : Sound(e, p)

DataInv ==
    /\ \A e \in Entry :
         In(e, "free") \/ In(e, "ready") \/ In(e, "bottleneck") \/ In(e, "fetching") =>
           ldata[e] = None
    /\ \A p \in Path : Undisturbed(p) => SoundPath(p)

\* Contents that are linked or mapped stay.
KeepsFull ==
    \A o \in full :
      \/ \E p \in Path : shm'[p] = o
      \/ \E x \in Entry : ldata'[x] = o \/ udata'[x] = o
      => o \in full'

\* A step touches the fields of request e and the name and the cache of path p only.
Touches(e, p) ==
    /\ \A x \in Entry \ {e} :
         /\ path'[x] = path[x] /\ status'[x] = status[x] /\ skip_clean'[x] = skip_clean[x]
         /\ ldata'[x] = ldata[x] /\ udata'[x] = udata[x]
         /\ \A c \in ToSet(cq'[Owner(x)]) : c.entry = x => c \in ToSet(cq[Owner(x)])
    /\ \A q \in Path \ {p} : shm'[q] = shm[q] /\ ht'[q] = ht[q]
    /\ overlap \subseteq overlap'
    /\ KeepsFull

\* A request waits or is served.
LEMMA PendingPlaces ==
    \A e \in Entry : \A p : e \in Pending(p) <=> path[e] = p /\ ~In(e, "free") /\ ~In(e, "lost")
BY DEF Pending, In

\* Another request's data stays.
LEMMA KeepSound ==
    ASSUME NEW e, NEW p, NEW x \in Entry \ {e}, NEW q \in Path, Touches(e, p),
           \A r \in Places : In(x, r)' <=> In(x, r),
           shm'[q] = shm[q], ht'[q] = ht[q], Sound(x, q)
    PROVE  Sound(x, q)'
<1>1. Places = {"free", "ready", "bottleneck", "reading", "cq", "fetching", "done", "held",
                "lost", "cleanup"}
  BY DEF Places
<1>2. /\ In(x, "ready")' <=> In(x, "ready")
      /\ In(x, "bottleneck")' <=> In(x, "bottleneck")
      /\ In(x, "reading")' <=> In(x, "reading")
      /\ In(x, "cq")' <=> In(x, "cq")
      /\ In(x, "done")' <=> In(x, "done")
      /\ In(x, "held")' <=> In(x, "held")
      /\ In(x, "cleanup")' <=> In(x, "cleanup")
  BY <1>1
<1>3. /\ status'[x] = status[x] /\ skip_clean'[x] = skip_clean[x]
      /\ ldata'[x] = ldata[x] /\ udata'[x] = udata[x]
      /\ \A c \in ToSet(cq'[Owner(x)]) : c.entry = x => c \in ToSet(cq[Owner(x)])
      /\ ldata[x] \in full => ldata'[x] \in full'
      /\ udata[x] \in full => udata'[x] \in full'
  BY DEF Touches, KeepsFull
<1> QED BY <1>2, <1>3 DEF Sound

\* A request that waits or is served moves on.
LEMMA MoveData ==
    ASSUME NodeInv, DataInv, NEW e, NEW a \in Places, NEW b \in Places, Moves(e, a, b),
           a \notin {"free", "lost"}, NEW p \in Path, p = path[e], Touches(e, p),
           path'[e] \in {p, None},
           b \in {"free", "ready", "bottleneck", "fetching"} => ldata'[e] = None,
           ht[p] # <<>> /\ Undisturbed(p) => shm'[p] = shm[p] /\ ht'[p] = ht[p],
           ht[p] = <<>> /\ ht'[p] # <<>> /\ Undisturbed(p) =>
             shm'[p] = Head(ht'[p]) /\ shm'[p] \in full',
           SoundPath(p) /\ e \in Pending(p) /\ b \notin {"free", "lost"} => Sound(e, p)'
    PROVE  DataInv'
<1>1. /\ e \in Entry /\ \A r \in Places : (In(e, r) <=> r = a) /\ (In(e, r)' <=> r = b)
      /\ \A x \in Entry \ {e} : \A r \in Places : In(x, r)' <=> In(x, r)
  BY OnlyPlace DEF Moves, NodeInv
<1>2. {"free", "lost", "ready", "bottleneck", "fetching"} \subseteq Places
  BY DEF Places
<1>3. e \in Pending(p)
  BY <1>1, <1>2, PendingPlaces
<1>4. \A x \in Entry : \A q : x \in Pending(q)' <=> path'[x] = q /\ ~In(x, "free")' /\ ~In(x, "lost")'
  <2>1. PendingPlaces'
    BY PendingPlaces, PTL
  <2> QED BY <2>1
<1>5. \A x \in Entry \ {e}, q \in Path : x \in Pending(q)' <=> x \in Pending(q)
  BY <1>1, <1>2, <1>4, PendingPlaces DEF Touches
<1>6. \A q \in Path : q # p => e \notin Pending(q)' /\ e \notin Pending(q)
  BY <1>1, <1>4, NodeAssumption, PendingPlaces
<1>7. \A q \in Path : Pending(q)' \subseteq Entry /\ Pending(q) \subseteq Entry
  BY DEF Pending
<1>8. ASSUME NEW q \in Path, Undisturbed(q)' PROVE SoundPath(q) /\ Undisturbed(q)
  BY <1>8 DEF DataInv, Undisturbed, Touches
<1>9. ASSUME NEW q \in Path, Undisturbed(q)' PROVE SoundPath(q)'
  <2>1. SoundPath(q) /\ Undisturbed(q)
    BY <1>8, <1>9
  <2>2. CASE q # p
    <3>1. shm'[q] = shm[q] /\ ht'[q] = ht[q] /\ (shm[q] \in full => shm'[q] \in full')
      BY <2>2 DEF Touches, KeepsFull
    <3>2. Pending(q)' = Pending(q)
      BY <1>5, <1>6, <1>7, <2>2
    <3>3. ASSUME NEW x \in Pending(q)' PROVE Sound(x, q)'
      <4>1. x \in Entry \ {e} /\ Sound(x, q)
        BY <1>6, <1>7, <2>1, <2>2, <3>2, <3>3 DEF SoundPath
      <4> QED BY <1>1, <3>1, <4>1, KeepSound
    <3> QED BY <2>1, <3>1, <3>2, <3>3 DEF SoundPath
  <2>3. CASE q = p
    <3>1. Pending(p)' \subseteq Pending(p)
      BY <1>3, <1>5, <1>7
    <3>2. shm[p] \in full /\ shm'[p] = shm[p] => shm'[p] \in full'
      BY DEF Touches, KeepsFull
    <3>3. ASSUME NEW x \in Pending(p)' PROVE Sound(x, p)'
      <4>1. CASE x = e
        <5>1. b \notin {"free", "lost"}
          BY <1>1, <1>2, <1>4, <3>3, <4>1
        <5> QED BY <1>3, <2>1, <2>3, <4>1, <5>1
      <4>2. CASE x # e
        <5>1. x \in Entry \ {e} /\ x \in Pending(p) /\ Sound(x, p)
          BY <1>7, <2>1, <2>3, <3>1, <3>3, <4>2 DEF SoundPath
        <5>2. ht[p] # <<>>
          BY <1>3, <2>1, <2>3, <4>2, <5>1 DEF SoundPath
        <5>3. shm'[p] = shm[p] /\ ht'[p] = ht[p]
          BY <2>1, <2>3, <5>2
        <5> QED BY <1>1, <5>1, <5>3, KeepSound
      <4> QED BY <4>1, <4>2
    <3>4. CASE ht[p] # <<>>
      <4>1. shm'[p] = shm[p] /\ ht'[p] = ht[p] /\ shm[p] = Head(ht[p]) /\ shm[p] \in full
        BY <2>1, <2>3, <3>4 DEF SoundPath
      <4> QED BY <2>3, <3>2, <3>3, <3>4, <4>1 DEF SoundPath
    <3>5. CASE ht[p] = <<>>
      <4>1. \A d, x \in Pending(p)' : d = x
        BY <2>1, <2>3, <3>1, <3>5 DEF SoundPath
      <4>2. ht'[p] # <<>> => shm'[p] = Head(ht'[p]) /\ shm'[p] \in full'
        BY <2>1, <2>3, <3>5
      <4> QED BY <2>3, <3>3, <4>1, <4>2 DEF SoundPath
    <3> QED BY <3>4, <3>5
  <2> QED BY <2>2, <2>3
<1>10. ASSUME NEW x \in Entry,
              In(x, "free")' \/ In(x, "ready")' \/ In(x, "bottleneck")' \/ In(x, "fetching")'
       PROVE  ldata'[x] = None
  <2>1. CASE x = e
    BY <1>1, <1>2, <1>10, <2>1
  <2>2. CASE x # e
    BY <1>1, <1>2, <1>10, <2>2 DEF DataInv, Touches
  <2> QED BY <2>1, <2>2
<1> QED BY <1>9, <1>10 DEF DataInv

\* Contents are kept when a step drops only what nothing links or maps.
LEMMA KeepsFullWhen ==
    ASSUME full \subseteq full' \/ FullKept
    PROVE  KeepsFull
BY DEF KeepsFull, FullKept

\* Where a request is after it moved to b.
LEMMA Arrives ==
    ASSUME NodeInv, NEW e, NEW a \in Places, NEW b \in Places, Moves(e, a, b)
    PROVE  /\ e \in Entry
           /\ \A r \in Places : (In(e, r) <=> r = a) /\ (In(e, r)' <=> r = b)
BY OnlyPlace DEF Moves, NodeInv

\* A submission: another request for a file that is not cached is an overlap.
LEMMA SubmitData ==
    ASSUME NodeInv, DataInv, NEW u \in Users, NEW f \in Path, cache_get_submit(u, f)
    PROVE  DataInv'
<1> PICK e : e = Head(free[u])
  OBVIOUS
<1>1. Moves(e, "free", "ready")
  BY SubmitStep
<1>2. /\ path' = [path EXCEPT ![e] = f]
      /\ overlap' = IF Pending(f) # {} /\ ht[f] = <<>> THEN overlap \union {f} ELSE overlap
      /\ UNCHANGED <<status, skip_clean, ldata, udata, cq, ht, shm, full>>
  BY DEF cache_get_submit, io, cache, memory
<1>3. {"free", "ready", "bottleneck", "fetching", "lost", "reading", "cq", "done", "held"} \subseteq Places
  BY DEF Places
<1>4. /\ e \in Entry /\ \A r \in Places : (In(e, r) <=> r = "free") /\ (In(e, r)' <=> r = "ready")
      /\ \A x \in Entry \ {e} : \A r \in Places : In(x, r)' <=> In(x, r)
  BY <1>1, <1>3, Arrives DEF Moves
<1>5. path'[e] = f /\ \A x \in Entry \ {e} : path'[x] = path[x]
  BY <1>2, <1>4 DEF NodeInv, CacheInv
<1>6. \A x \in Entry : \A q : x \in Pending(q)' <=> path'[x] = q /\ ~In(x, "free")' /\ ~In(x, "lost")'
  <2>1. PendingPlaces'
    BY PendingPlaces, PTL
  <2> QED BY <2>1
<1>7. \A x \in Entry \ {e}, q \in Path : x \in Pending(q)' <=> x \in Pending(q)
  BY <1>3, <1>4, <1>5, <1>6, PendingPlaces
<1>8. \A q \in Path : e \notin Pending(q) /\ (e \in Pending(q)' <=> q = f)
  BY <1>3, <1>4, <1>5, <1>6, PendingPlaces
<1>9. \A q \in Path : Pending(q)' \subseteq Entry /\ Pending(q) \subseteq Entry
  BY DEF Pending
<1>10. Touches(e, f)
  BY <1>2, <1>5, KeepsFullWhen DEF Touches
<1>11. ASSUME NEW q \in Path, Undisturbed(q)' PROVE SoundPath(q)'
  <2>1. SoundPath(q) /\ Undisturbed(q)
    BY <1>2, <1>11 DEF DataInv, Undisturbed
  <2>2. ASSUME NEW x \in Pending(q)' PROVE Sound(x, q)'
    <3>1. CASE x = e
      <4>1. /\ In(e, "ready")' /\ ~In(e, "reading")' /\ ~In(e, "cq")' /\ ~In(e, "done")'
            /\ ~In(e, "held")'
        BY <1>3, <1>4
      <4> QED BY <3>1, <4>1 DEF Sound
    <3>2. CASE x # e
      <4>1. x \in Entry \ {e} /\ Sound(x, q)
        BY <1>7, <1>9, <2>1, <2>2, <3>2 DEF SoundPath
      <4> QED BY <1>2, <1>4, <1>10, <4>1, KeepSound
    <3> QED BY <3>1, <3>2
  <2>3. ht'[q] = <<>> => \A d, x \in Pending(q)' : d = x
    <3>1. CASE q = f /\ ht[q] = <<>>
      <4>1. Pending(q) = {}
        BY <1>2, <1>11, <3>1 DEF Undisturbed
      <4> QED BY <1>7, <1>9, <4>1
    <3>2. CASE q # f
      <4>1. Pending(q)' = Pending(q)
        BY <1>7, <1>8, <1>9, <3>2
      <4> QED BY <1>2, <2>1, <4>1 DEF SoundPath
    <3> QED BY <1>2, <3>1, <3>2
  <2> QED BY <1>2, <2>1, <2>2, <2>3 DEF SoundPath
<1>12. ASSUME NEW x \in Entry,
              In(x, "free")' \/ In(x, "ready")' \/ In(x, "bottleneck")' \/ In(x, "fetching")'
       PROVE  ldata'[x] = None
  BY <1>2, <1>3, <1>4, <1>12 DEF DataInv
<1> QED BY <1>11, <1>12 DEF DataInv

\* What a user reaps is whole.
LEMMA ReapData ==
    ASSUME NodeInv, ObjectInv, DataInv, NEW u \in Users, cache_get_reap(u) \/ reap_fails(u)
    PROVE  DataInv'
<1> PICK e : e = Head(done[u])
  OBVIOUS
<1>1. PICK b \in {"held", "lost"} : Moves(e, "done", b)
  BY ReapStep
<1>2. {"done", "held", "lost", "free", "ready", "bottleneck", "fetching", "reading", "cq", "cleanup"} \subseteq Places
  BY DEF Places
<1>3. e \in Entry /\ \A r \in Places : (In(e, r) <=> r = "done") /\ (In(e, r)' <=> r = b)
  <2>1. "done" \in Places /\ b \in Places
    BY <1>2
  <2> QED BY <1>1, <2>1, Arrives
<1> PICK p : p = path[e]
  OBVIOUS
<1>4. p \in Path
  BY <1>1, <1>2, MoverHasPath DEF ObjectInv
<1>5. /\ UNCHANGED <<path, status, skip_clean, ldata, cq, ht, shm, full, overlap>>
      /\ \/ status[e] = "ok" /\ udata' = [udata EXCEPT ![e] = shm[p]]
         \/ udata' = udata /\ lost' = lost \union {e}
  BY DEF cache_get_reap, reap_fails, Readable, io, cache, memory, history, request
<1>6. Touches(e, p)
  BY <1>5, KeepsFullWhen DEF Touches, ObjectInv, ValuesTyped
<1>7. ASSUME SoundPath(p), e \in Pending(p), b \notin {"free", "lost"} PROVE Sound(e, p)'
  <2>1. /\ In(e, "done") /\ ~In(e, "ready") /\ ~In(e, "bottleneck")
        /\ In(e, "held")' /\ ~In(e, "reading")' /\ ~In(e, "cq")' /\ ~In(e, "done")'
    BY <1>2, <1>3, <1>7
  <2>2. Sound(e, p)
    BY <1>7 DEF SoundPath
  <2>3. ~In(e, "lost")'
    BY <1>2, <1>3, <1>7
  <2>4. status[e] = "ok" /\ udata'[e] = shm[p]
    BY <1>3, <1>5, <2>3 DEF In, ObjectInv, ValuesTyped
  <2> QED BY <1>5, <2>1, <2>2, <2>4 DEF Sound
<1>8. b \in Places /\ "done" \notin {"free", "lost"} /\ b \notin {"free", "ready", "bottleneck", "fetching"}
  BY <1>2
<1> QED BY <1>1, <1>2, <1>4, <1>5, <1>6, <1>7, <1>8, MoveData

\* A release unmaps only what the user mapped.
LEMMA ReleaseData ==
    ASSUME NodeInv, ObjectInv, DataInv, NEW e \in held, cache_release(e)
    PROVE  DataInv'
<1>1. Moves(e, "held", "cleanup")
  BY ReleaseStep
<1>2. {"done", "held", "lost", "free", "ready", "bottleneck", "fetching", "reading", "cq", "cleanup"} \subseteq Places
  BY DEF Places
<1>3. e \in Entry /\ \A r \in Places : (In(e, r) <=> r = "held") /\ (In(e, r)' <=> r = "cleanup")
  BY <1>1, <1>2, Arrives
<1> PICK p : p = path[e]
  OBVIOUS
<1>4. p \in Path
  BY <1>1, <1>2, MoverHasPath DEF ObjectInv
<1>5. /\ UNCHANGED <<path, status, skip_clean, ldata, cq, ht, shm, overlap>>
      /\ udata' = [udata EXCEPT ![e] = None]
      /\ FullKept
  BY DEF cache_release, io, cache, history
<1>6. Touches(e, p)
  BY <1>5, KeepsFullWhen DEF Touches, ObjectInv, ValuesTyped
<1>7. ASSUME SoundPath(p), e \in Pending(p) PROVE Sound(e, p)'
  <2>1. /\ In(e, "held") /\ ~In(e, "ready") /\ ~In(e, "bottleneck")
        /\ In(e, "cleanup")' /\ ~In(e, "reading")' /\ ~In(e, "cq")' /\ ~In(e, "done")' /\ ~In(e, "held")'
    BY <1>2, <1>3
  <2>2. Sound(e, p)
    BY <1>7 DEF SoundPath
  <2> QED BY <1>5, <2>1, <2>2 DEF Sound
<1> QED BY <1>1, <1>2, <1>4, <1>5, <1>6, <1>7, MoveData

\* A local hit completes with the object that has the name.
LEMMA LocalData ==
    ASSUME NodeInv, ObjectInv, DataInv, NEW e \in Entry, check_local(e)
    PROVE  DataInv'
<1>1. PICK a \in {"ready", "bottleneck"} : Moves(e, a, "done")
  BY AtOnceStep
<1>2. {"done", "held", "lost", "free", "ready", "bottleneck", "fetching", "reading", "cq", "cleanup"} \subseteq Places
  BY DEF Places
<1>3. \A r \in Places : (In(e, r) <=> r = a) /\ (In(e, r)' <=> r = "done")
  BY <1>1, <1>2, Arrives
<1> PICK p : p = path[e]
  OBVIOUS
<1>4. p \in Path
  BY <1>1, <1>2, MoverHasPath DEF ObjectInv
<1>5. /\ UNCHANGED <<path, status, udata, cq, ht, shm, full, overlap>>
      /\ ldata' = [ldata EXCEPT ![e] = Head(ht[p])]
      /\ skip_clean' = [skip_clean EXCEPT ![e] = TRUE]
      /\ ht[p] # <<>>
  BY DEF check_local, io, cache, memory, history
<1>6. Touches(e, p)
  BY <1>5, KeepsFullWhen DEF Touches, ObjectInv, ValuesTyped
<1>7. ASSUME SoundPath(p) PROVE Sound(e, p)'
  <2>1. In(e, "done")' /\ ~In(e, "reading")' /\ ~In(e, "cq")' /\ ~In(e, "held")'
    BY <1>2, <1>3
  <2>2. ldata'[e] = Head(ht[p]) /\ skip_clean'[e]
    BY <1>5 DEF ObjectInv, ValuesTyped
  <2>3. shm[p] = Head(ht[p]) /\ shm[p] \in full
    BY <1>5, <1>7 DEF SoundPath
  <2> QED BY <1>5, <2>1, <2>2, <2>3 DEF Sound
<1> QED BY <1>1, <1>2, <1>4, <1>5, <1>6, <1>7, MoveData

\* A request that is put aside or goes to a peer maps nothing yet.
LEMMA AsideData ==
    ASSUME NodeInv, ObjectInv, DataInv, NEW e \in Entry, check_remote(e) \/ check_bottleneck(e)
    PROVE  DataInv'
<1>1. PICK a \in {"ready", "bottleneck"}, b \in {"fetching", "bottleneck"} : Moves(e, a, b)
  BY RemoteStep, BottleneckStep
<1>2. {"done", "held", "lost", "free", "ready", "bottleneck", "fetching", "reading", "cq", "cleanup"} \subseteq Places
  BY DEF Places
<1>3. \A r \in Places : (In(e, r) <=> r = a) /\ (In(e, r)' <=> r = b)
  BY <1>1, <1>2, Arrives
<1> PICK p : p = path[e]
  OBVIOUS
<1>4. p \in Path
  BY <1>1, <1>2, MoverHasPath DEF ObjectInv
<1>5. /\ UNCHANGED <<path, status, skip_clean, ldata, udata, cq, ht, shm, full, overlap>>
      /\ ht[p] = <<>>
  BY DEF check_remote, check_bottleneck, Storage, request, io, cache, memory, history
<1>6. Touches(e, p)
  BY <1>5, KeepsFullWhen DEF Touches, ObjectInv, ValuesTyped
<1>7. Sound(e, p)'
  <2>1. ~In(e, "done")' /\ ~In(e, "reading")' /\ ~In(e, "cq")' /\ ~In(e, "held")'
    BY <1>2, <1>3
  <2> QED BY <1>5, <2>1 DEF Sound
<1>8. ldata'[e] = None
  BY <1>2, <1>3, <1>5 DEF DataInv
<1> QED BY <1>1, <1>2, <1>4, <1>5, <1>6, <1>7, <1>8, MoveData

\* A read goes into the object of the name.
LEMMA StorageData ==
    ASSUME NodeInv, ObjectInv, DataInv, NEW e \in Entry, check_submit(e)
    PROVE  DataInv'
<1>1. PICK a \in {"ready", "bottleneck"} : Moves(e, a, "reading")
  BY StorageStep
<1>2. {"done", "held", "lost", "free", "ready", "bottleneck", "fetching", "reading", "cq", "cleanup"} \subseteq Places
  BY DEF Places
<1>3. \A r \in Places : (In(e, r) <=> r = a) /\ (In(e, r)' <=> r = "reading")
  BY <1>1, <1>2, Arrives
<1> PICK p : p = path[e]
  OBVIOUS
<1> PICK o : o = Opened(p)
  OBVIOUS
<1>4. p \in Path
  BY <1>1, <1>2, MoverHasPath DEF ObjectInv
<1>5. /\ UNCHANGED <<path, status, skip_clean, udata, cq, ht, full, overlap>>
      /\ ldata' = [ldata EXCEPT ![e] = o] /\ shm' = [shm EXCEPT ![p] = o]
      /\ ht[p] = <<>>
  BY DEF check_submit, Storage, io, cache, memory, history
<1>6. Touches(e, p)
  BY <1>5, KeepsFullWhen DEF Touches, ObjectInv, ValuesTyped, NamesOwn
<1>7. Sound(e, p)'
  <2>1. ~In(e, "done")' /\ In(e, "reading")' /\ ~In(e, "cq")' /\ ~In(e, "held")'
    BY <1>2, <1>3
  <2>2. ldata'[e] = shm'[p]
    BY <1>4, <1>5 DEF ObjectInv, ValuesTyped, NamesOwn
  <2> QED BY <1>5, <2>1, <2>2 DEF Sound
<1> QED BY <1>1, <1>2, <1>4, <1>5, <1>6, <1>7, MoveData

\* A read that cannot be issued unlinks the name of a file that nobody else wants.
LEMMA StorageFailsData ==
    ASSUME NodeInv, ObjectInv, DataInv, NEW e \in Entry, check_submit_fails(e)
    PROVE  DataInv'
<1>1. PICK a \in {"ready", "bottleneck"} : Moves(e, a, "done")
  BY AtOnceStep
<1>2. {"done", "held", "lost", "free", "ready", "bottleneck", "fetching", "reading", "cq", "cleanup"} \subseteq Places
  BY DEF Places
<1>3. \A r \in Places : (In(e, r) <=> r = a) /\ (In(e, r)' <=> r = "done")
  BY <1>1, <1>2, Arrives
<1> PICK p : p = path[e]
  OBVIOUS
<1>4. p \in Path
  BY <1>1, <1>2, MoverHasPath DEF ObjectInv
<1>5. /\ UNCHANGED <<path, skip_clean, ldata, udata, cq, ht, overlap>>
      /\ \E f \in {"again", "failed"} : status' = [status EXCEPT ![e] = f]
      /\ shm' = shm \/ shm' = [shm EXCEPT ![p] = None]
      /\ ht[p] = <<>> /\ FullKept
  BY DEF check_submit_fails, Storage, io, cache, history
<1>6. Touches(e, p)
  BY <1>5, KeepsFullWhen DEF Touches, ObjectInv, ValuesTyped, NamesOwn
<1>7. Sound(e, p)'
  <2>1. ~In(e, "reading")' /\ ~In(e, "cq")' /\ ~In(e, "held")'
    BY <1>2, <1>3
  <2>2. status'[e] # "ok"
    BY <1>5 DEF ObjectInv, ValuesTyped
  <2> QED BY <1>5, <2>1, <2>2 DEF Sound
<1> QED BY <1>1, <1>2, <1>4, <1>5, <1>6, <1>7, MoveData

\* A read that is cached was complete, and its object has the name.
LEMMA CompletionData ==
    ASSUME NodeInv, ObjectInv, DataInv, check_done
    PROVE  DataInv'
<1> PICK c : c = Head(cq[turn])
  OBVIOUS
<1> PICK e : e = c.entry
  OBVIOUS
<1>1. Moves(e, "cq", "done")
  BY CompletionStep
<1>2. {"done", "held", "lost", "free", "ready", "bottleneck", "fetching", "reading", "cq", "cleanup"} \subseteq Places
  BY DEF Places
<1>3. e \in Entry /\ \A r \in Places : (In(e, r) <=> r = "cq") /\ (In(e, r)' <=> r = "done")
  BY <1>1, <1>2, Arrives
<1> PICK p : p = path[e]
  OBVIOUS
<1>4. p \in Path
  BY <1>1, <1>2, MoverHasPath DEF ObjectInv
<1>5. /\ UNCHANGED <<path, ldata, udata, shm, full, overlap>>
      /\ cq[turn] # <<>> /\ cq' = [cq EXCEPT ![turn] = Tail(@)]
      /\ status' = Outcome(e, c.ok)
      /\ \/ UNCHANGED <<ht, skip_clean>>
         \/ c.ok /\ ht' = Added(e) /\ skip_clean' = CleanupSkipped(e)
  BY DEF check_done, cache, memory, history
<1>6. /\ turn \in Users /\ cq \in [Users -> Seq(Completion)] /\ Owner(e) = turn
      /\ c \in ToSet(cq[turn])
  <2>1. turn \in Users /\ cq \in [Users -> Seq(Completion)] /\ cq[turn] \in Seq(Completion)
    BY DEF NodeInv, CacheInv
  <2>2. Ring[turn] # <<>> /\ Head(Ring[turn]) = e
    BY <1>5, <2>1, EntsOf DEF Ring
  <2>3. Owner(e) = turn
    BY <2>1, <2>2, PopOwn DEF NodeInv, Shapes
  <2>4. 1 \in DOMAIN cq[turn] /\ c = cq[turn][1]
    BY <1>5, <2>1
  <2> QED BY <2>1, <2>3, <2>4 DEF ToSet
<1>7. \A u \in Users : ToSet(cq'[u]) \subseteq ToSet(cq[u])
  <2> SUFFICES ASSUME NEW u \in Users, NEW x \in ToSet(cq'[u]) PROVE x \in ToSet(cq[u])
    OBVIOUS
  <2>1. CASE u # turn
    BY <1>5, <1>6, <2>1
  <2>2. CASE u = turn
    <3>1. /\ cq[u] \in Seq(Completion) /\ cq[u] # <<>> /\ cq'[u] = Tail(cq[u])
      BY <1>5, <1>6, <2>2
    <3>2. /\ Len(cq[u]) \in Nat \ {0} /\ DOMAIN Tail(cq[u]) = 1 .. (Len(cq[u]) - 1)
          /\ \A i \in 1 .. (Len(cq[u]) - 1) : Tail(cq[u])[i] = cq[u][i + 1]
          /\ DOMAIN cq[u] = 1 .. Len(cq[u])
      BY <3>1
    <3>3. PICK i \in 1 .. (Len(cq[u]) - 1) : x = cq[u][i + 1]
      BY <3>1, <3>2 DEF ToSet
    <3>4. i + 1 \in DOMAIN cq[u]
      BY <3>2, <3>3
    <3> QED BY <3>3, <3>4 DEF ToSet
  <2> QED BY <2>1, <2>2
<1>8. /\ \A x \in Entry \ {e} : status'[x] = status[x] /\ skip_clean'[x] = skip_clean[x]
      /\ \A q \in Path \ {p} : ht'[q] = ht[q]
      /\ status'[e] = "ok" => c.ok
      /\ \/ UNCHANGED <<ht, skip_clean>>
         \/ c.ok /\ ht'[p] = <<ldata[e]>> \o ht[p] /\ skip_clean'[e]
  <2>1. /\ status \in [Entry -> {"ok", "failed", "again"}] /\ skip_clean \in [Entry -> BOOLEAN]
        /\ ht \in [Path -> Seq(Object)]
    BY DEF ObjectInv, ValuesTyped, CacheOwn
  <2>2. /\ \A x \in Entry \ {e} : status'[x] = status[x]
        /\ status'[e] = "ok" => c.ok
    BY <1>3, <1>5, <2>1 DEF Outcome
  <2>3. CASE UNCHANGED <<ht, skip_clean>>
    BY <2>2, <2>3
  <2>4. CASE c.ok /\ ht' = Added(e) /\ skip_clean' = CleanupSkipped(e)
    <3>1. ht'[p] = <<ldata[e]>> \o ht[p] /\ \A q \in Path \ {p} : ht'[q] = ht[q]
      BY <1>4, <2>1, <2>4 DEF Added
    <3>2. skip_clean'[e] = TRUE /\ \A x \in Entry \ {e} : skip_clean'[x] = skip_clean[x]
      BY <1>3, <2>1, <2>4 DEF CleanupSkipped
    <3> QED BY <2>2, <2>4, <3>1, <3>2
  <2> QED BY <1>5, <2>3, <2>4
<1>9. Touches(e, p)
  BY <1>5, <1>7, <1>8, OwnerIsUser, KeepsFullWhen DEF Touches
<1>10. e \in Pending(p)
  BY <1>2, <1>3, PendingPlaces
<1>11. ASSUME SoundPath(p)
       PROVE  ht[p] = <<>> /\ ldata[e] = shm[p] /\ (c.ok => ldata[e] \in full)
  <2>1. Sound(e, p)
    BY <1>10, <1>11 DEF SoundPath
  <2>2. /\ In(e, "cq") /\ ~In(e, "ready") /\ ~In(e, "bottleneck") /\ ~In(e, "done")
        /\ ~In(e, "held") /\ ~In(e, "cleanup")
    BY <1>2, <1>3
  <2> QED BY <1>6, <2>1, <2>2 DEF Sound
<1>12. c.ok => /\ <<ldata[e]>> \o ht[p] # <<>> /\ Head(<<ldata[e]>> \o ht[p]) = ldata[e]
  <2>1. ldata[e] \in Object
    BY <1>2, <1>3 DEF ObjectInv, RequestsOwn, ValuesTyped
  <2>2. ht[p] \in Seq(Object)
    BY <1>4 DEF ObjectInv, CacheOwn
  <2> QED BY <2>1, <2>2, FrontElems
<1>13. ASSUME SoundPath(p) PROVE Sound(e, p)'
  <2>1. In(e, "done")' /\ ~In(e, "reading")' /\ ~In(e, "cq")' /\ ~In(e, "held")'
    BY <1>2, <1>3
  <2>2. ht'[p] # <<>> => skip_clean'[e]
    BY <1>8, <1>11, <1>13
  <2>3. status'[e] = "ok" => ldata'[e] = shm'[p] /\ ldata'[e] \in full'
    BY <1>5, <1>8, <1>11, <1>13
  <2> QED BY <2>1, <2>2, <2>3 DEF Sound
<1>14. ASSUME Undisturbed(p)
       PROVE  /\ ht[p] = <<>>
              /\ ht'[p] # <<>> => shm'[p] = Head(ht'[p]) /\ shm'[p] \in full'
  <2>1. SoundPath(p)
    BY <1>4, <1>14 DEF DataInv
  <2> QED BY <1>5, <1>8, <1>11, <1>12, <2>1
<1>15. /\ "cq" \in Places /\ "done" \in Places /\ path'[e] = p
       /\ "done" \notin {"free", "ready", "bottleneck", "fetching"} /\ "cq" \notin {"free", "lost"}
  BY <1>2, <1>5
<1>16. /\ ht[p] # <<>> /\ Undisturbed(p) => shm'[p] = shm[p] /\ ht'[p] = ht[p]
       /\ ht[p] = <<>> /\ ht'[p] # <<>> /\ Undisturbed(p) => shm'[p] = Head(ht'[p]) /\ shm'[p] \in full'
       /\ SoundPath(p) => Sound(e, p)'
  BY <1>13, <1>14
<1> QED BY <1>1, <1>4, <1>9, <1>15, <1>16, MoveData

\* A request is cleaned without its name when the file is cached.
LEMMA CleanupData ==
    ASSUME NodeInv, ObjectInv, DataInv, check_cleanup
    PROVE  DataInv'
<1> PICK e : e = Head(cleanup[turn])
  OBVIOUS
<1>1. Moves(e, "cleanup", "free")
  BY CleanupStep
<1>2. {"done", "held", "lost", "free", "ready", "bottleneck", "fetching", "reading", "cq", "cleanup"} \subseteq Places
  BY DEF Places
<1>3. e \in Entry /\ \A r \in Places : (In(e, r) <=> r = "cleanup") /\ (In(e, r)' <=> r = "free")
  BY <1>1, <1>2, Arrives
<1> PICK p : p = path[e]
  OBVIOUS
<1>4. p \in Path
  BY <1>1, <1>2, MoverHasPath DEF ObjectInv
<1>5. /\ UNCHANGED <<udata, cq, ht, overlap>>
      /\ path' = [path EXCEPT ![e] = None] /\ status' = [status EXCEPT ![e] = "ok"]
      /\ skip_clean' = [skip_clean EXCEPT ![e] = FALSE] /\ ldata' = [ldata EXCEPT ![e] = None]
      /\ shm' = IF ~skip_clean[e] /\ status[e] = "ok" THEN [shm EXCEPT ![p] = None] ELSE shm
      /\ FullKept
  BY DEF check_cleanup, MustClean, io, cache, history
<1>6. Touches(e, p)
  BY <1>5, KeepsFullWhen DEF Touches, ObjectInv, ValuesTyped, NamesOwn, NodeInv, CacheInv
<1>7. ASSUME ht[p] # <<>>, Undisturbed(p) PROVE shm'[p] = shm[p]
  <2>1. e \in Pending(p)
    BY <1>2, <1>3, PendingPlaces
  <2>2. Sound(e, p)
    BY <1>4, <1>7, <2>1 DEF DataInv, SoundPath
  <2>3. ~In(e, "ready") /\ ~In(e, "bottleneck")
    BY <1>2, <1>3
  <2> QED BY <1>5, <1>7, <2>2, <2>3 DEF Sound
<1>8. path'[e] = None /\ ldata'[e] = None
  BY <1>3, <1>5 DEF ObjectInv, ValuesTyped, NodeInv, CacheInv
<1> QED BY <1>1, <1>2, <1>4, <1>5, <1>6, <1>7, <1>8, MoveData

\* A read that succeeded filled its object.
LEMMA KernelData ==
    ASSUME NodeInv, ObjectInv, DataInv, NEW e \in Entry, kernel_read(e)
    PROVE  DataInv'
<1>1. Moves(e, "reading", "cq")
  BY KernelStep
<1>2. {"done", "held", "lost", "free", "ready", "bottleneck", "fetching", "reading", "cq", "cleanup"} \subseteq Places
  BY DEF Places
<1>3. \A r \in Places : (In(e, r) <=> r = "reading") /\ (In(e, r)' <=> r = "cq")
  BY <1>1, <1>2, Arrives
<1> PICK p : p = path[e]
  OBVIOUS
<1>4. p \in Path
  BY <1>1, <1>2, MoverHasPath DEF ObjectInv
<1>5. PICK ok \in BOOLEAN :
        /\ cq' = [cq EXCEPT ![Owner(e)] = Append(@, [entry |-> e, ok |-> ok])]
        /\ full' = IF ok THEN full \union {ldata[e]} ELSE full
  BY DEF kernel_read
<1>6. UNCHANGED <<path, status, skip_clean, ldata, udata, ht, shm, overlap>>
  BY DEF kernel_read, request, cache, history
<1> PICK d : d = [entry |-> e, ok |-> ok]
  OBVIOUS
<1>7. \A u \in Users : \A c \in ToSet(cq'[u]) : c \in ToSet(cq[u]) \/ c = d
  <2>1. /\ cq \in [Users -> Seq(Completion)] /\ d \in Completion /\ Owner(e) \in Users
    BY OwnerIsUser DEF NodeInv, CacheInv, Completion
  <2>2. cq[Owner(e)] \in Seq(Completion) /\ cq' = [cq EXCEPT ![Owner(e)] = Append(@, d)]
    BY <1>5, <2>1
  <2>3. ToSet(Append(cq[Owner(e)], d)) = ToSet(cq[Owner(e)]) \union {d}
    BY <2>1, <2>2, AppendElems
  <2> QED BY <2>1, <2>2, <2>3
<1>8. full \subseteq full' /\ d.entry = e /\ d.ok = ok
  BY <1>5
<1>9. Touches(e, p)
  BY <1>6, <1>7, <1>8, OwnerIsUser, KeepsFullWhen DEF Touches
<1>10. ASSUME SoundPath(p), e \in Pending(p) PROVE Sound(e, p)'
  <2>1. Sound(e, p)
    BY <1>10 DEF SoundPath
  <2>2. /\ In(e, "reading") /\ ~In(e, "ready") /\ ~In(e, "bottleneck") /\ ~In(e, "done")
        /\ ~In(e, "held") /\ ~In(e, "cleanup") /\ ~In(e, "cq")
        /\ ~In(e, "done")' /\ ~In(e, "held")'
    BY <1>2, <1>3
  <2>3. ht[p] = <<>> /\ ldata[e] = shm[p]
    BY <2>1, <2>2 DEF Sound
  <2>4. \A c \in ToSet(cq[Owner(e)]) : c.entry # e
    <3>1. cq[Owner(e)] \in Seq(Completion) /\ Owner(e) \in Users
      BY OwnerIsUser DEF NodeInv, CacheInv
    <3>2. ToSet(Ring[Owner(e)]) = {c.entry : c \in ToSet(cq[Owner(e)])}
      BY <3>1, EntsElems DEF Ring
    <3>3. e \notin ToSet(Ring[Owner(e)])
      BY <2>2 DEF In
    <3> QED BY <3>2, <3>3
  <2>5. \A c \in ToSet(cq'[Owner(e)]) : c.entry = e /\ c.ok => ldata'[e] \in full'
    BY <1>5, <1>6, <1>7, <1>8, <2>4, OwnerIsUser
  <2> QED BY <1>6, <2>2, <2>3, <2>5 DEF Sound
<1> QED BY <1>1, <1>2, <1>4, <1>6, <1>9, <1>10, MoveData

\* A file that a peer sent is whole; one that was refused maps nothing.
LEMMA FetchedData ==
    ASSUME NodeInv, ObjectInv, DataInv, NEW e \in Entry, cache_remote_load(e) \/ remote_load_fails(e)
    PROVE  DataInv'
<1>1. Moves(e, "fetching", "done")
  BY FetchedStep DEF cache_remote_load, remote_load_fails
<1>2. {"done", "held", "lost", "free", "ready", "bottleneck", "fetching", "reading", "cq", "cleanup"} \subseteq Places
  BY DEF Places
<1>3. \A r \in Places : (In(e, r) <=> r = "fetching") /\ (In(e, r)' <=> r = "done")
  BY <1>1, <1>2, Arrives
<1> PICK p : p = path[e]
  OBVIOUS
<1> PICK o : o = Opened(p)
  OBVIOUS
<1>4. p \in Path
  BY <1>1, <1>2, MoverHasPath DEF ObjectInv
<1>5. UNCHANGED <<path, skip_clean, udata, cq, ht, overlap>>
  BY DEF cache_remote_load, remote_load_fails, Fetched, cache, history
<1>6. \/ /\ ldata' = [ldata EXCEPT ![e] = o] /\ shm' = [shm EXCEPT ![p] = o]
         /\ full' = full \union {o} /\ status' = status
      \/ /\ UNCHANGED <<ldata, shm, full>>
         /\ \E f \in {"failed", "ok"} : status' = [status EXCEPT ![e] = f]
  BY DEF cache_remote_load, remote_load_fails, memory
<1>7. /\ \A x \in Entry \ {e} : ldata'[x] = ldata[x] /\ status'[x] = status[x]
      /\ \A q \in Path \ {p} : shm'[q] = shm[q]
      /\ full \subseteq full'
  BY <1>6 DEF ObjectInv, ValuesTyped, NamesOwn
<1>8. Touches(e, p)
  BY <1>5, <1>7, KeepsFullWhen DEF Touches
<1>9. e \in Pending(p)
  BY <1>2, <1>3, PendingPlaces
<1>10. ASSUME SoundPath(p) PROVE ht[p] = <<>>
  <2>1. Sound(e, p)
    BY <1>9, <1>10 DEF SoundPath
  <2>2. /\ ~In(e, "ready") /\ ~In(e, "bottleneck") /\ ~In(e, "done")
        /\ ~In(e, "held") /\ ~In(e, "cleanup")
    BY <1>2, <1>3
  <2> QED BY <2>1, <2>2 DEF Sound
<1>11. ldata[e] = None
  BY <1>2, <1>3 DEF DataInv
<1>12. ldata'[e] # None => ldata'[e] = shm'[p] /\ ldata'[e] \in full'
  BY <1>4, <1>6, <1>11 DEF ObjectInv, ValuesTyped, NamesOwn
<1>13. ASSUME SoundPath(p) PROVE Sound(e, p)'
  <2>1. ~In(e, "reading")' /\ ~In(e, "cq")' /\ ~In(e, "held")'
    BY <1>2, <1>3
  <2>2. ht'[p] = <<>>
    BY <1>5, <1>10, <1>13
  <2> QED BY <1>12, <2>1, <2>2 DEF Sound
<1>14. Undisturbed(p) => ht[p] = <<>>
  BY <1>4, <1>10 DEF DataInv
<1> QED BY <1>1, <1>2, <1>4, <1>5, <1>8, <1>13, <1>14, MoveData

\* Steps that touch no object.
LEMMA StayData ==
    ASSUME DataInv, Stays, UNCHANGED cq
    PROVE  DataInv'
<1>1. \A x \in Entry : \A r : In(x, r)' <=> In(x, r)
  BY StayPlaces
<1>2. \A q : Pending(q)' = Pending(q)
  BY DEF Stays, Pending
<1>3. \A x \in Entry : \A q : Sound(x, q)' <=> Sound(x, q)
  BY <1>1 DEF Stays, Sound
<1>4. \A q \in Path : SoundPath(q)' <=> SoundPath(q)
  <2>1. \A q : Pending(q) \subseteq Entry
    BY DEF Pending
  <2> QED BY <1>2, <1>3, <2>1 DEF Stays, SoundPath
<1> QED BY <1>1, <1>4 DEF DataInv, Stays, Undisturbed

\* No file of a new node is cached or asked for.
LEMMA InitData == Init => DataInv
<1> SUFFICES ASSUME Init PROVE DataInv
  OBVIOUS
<1>1. \A e \in Entry : path[e] = None /\ ldata[e] = None
  BY DEF Init
<1>2. \A p \in Path : Pending(p) = {} /\ ht[p] = <<>>
  BY <1>1, NodeAssumption DEF Pending, Init
<1> QED BY <1>1, <1>2 DEF DataInv, SoundPath

\* Every step keeps the files whole.
LEMMA NextData == ASSUME NodeInv, ObjectInv, DataInv, [Next]_vars PROVE DataInv'
<1>1. Stays => UNCHANGED cq
  BY DEF Stays
<1> QED BY <1>1, SubmitData, ReapData, ReleaseData, LocalData, AsideData, StorageData,
           StorageFailsData, CompletionData, CleanupData, KernelData, FetchedData, StaySteps, StayData
        DEF Next, User, Manager, check_ready

\* For any number of users, requests and files, whatever fails: what is cached keeps its name
\* and is whole, a completed request finds its file, and what a user holds stays whole, for
\* every file that was not asked for twice at once before it was cached.
THEOREM DataStaysWhole == Spec => []DataIsWhole
<1>1. ASSUME NodeInv, ObjectInv, DataInv PROVE DataIsWhole
  <2>1. CachedIsReadable
    BY <1>1 DEF CachedIsReadable, DataInv, SoundPath
  <2>2. ASSUME NEW e \in Entry, Undisturbed(path[e]), In(e, "done") \/ In(e, "held")
        PROVE  path[e] \in Path /\ Sound(e, path[e])
    <3>1. InOnePlace(e) /\ {"done", "held", "free", "lost"} \subseteq Places
      BY <1>1 DEF NodeInv, Places
    <3>2. ~In(e, "free") /\ ~In(e, "lost")
      BY <2>2, <3>1 DEF InOnePlace
    <3>3. path[e] \in Path /\ e \in Pending(path[e])
      BY <1>1, <3>2, PendingPlaces DEF ObjectInv, RequestsOwn
    <3> QED BY <1>1, <2>2, <3>3 DEF DataInv, SoundPath
  <2>3. CompletedIsReadable
    <3> SUFFICES ASSUME NEW u \in Users, NEW e \in ToSet(done[u]),
                        status[e] = "ok", ldata[e] # None, Undisturbed(path[e])
                 PROVE  shm[path[e]] = ldata[e] /\ shm[path[e]] \in full
      BY DEF CompletedIsReadable
    <3>1. e \in Entry /\ Owner(e) = u
      <4>1. done[u] \in Seq(Entry) /\ \A x \in ToSet(done[u]) : Owner(x) = u
        BY <1>1 DEF NodeInv, Shapes, OwnQueues, Queues
      <4> QED BY <4>1 DEF ToSet
    <3>2. In(e, "done")
      BY <3>1 DEF In
    <3>3. Sound(e, path[e])
      BY <2>2, <3>1, <3>2
    <3> QED BY <3>2, <3>3 DEF Sound
  <2>4. HeldIsWhole
    <3> SUFFICES ASSUME NEW e \in held, ldata[e] # None, Undisturbed(path[e])
                 PROVE  udata[e] \in full
      BY DEF HeldIsWhole
    <3>1. e \in Entry /\ In(e, "held")
      BY <1>1 DEF NodeInv, Shapes, In
    <3>2. Sound(e, path[e])
      BY <2>2, <3>1
    <3> QED BY <3>1, <3>2 DEF Sound
  <2> QED BY <2>1, <2>3, <2>4 DEF DataIsWhole
<1>2. Init => NodeInv /\ ObjectInv /\ DataInv
  BY InitService, InitObjects, InitData
<1>3. NodeInv /\ ObjectInv /\ DataInv /\ [Next]_vars => (NodeInv /\ ObjectInv /\ DataInv)'
  BY StepService, NextObjects, NextData DEF ServiceStep
<1> QED BY <1>1, <1>2, <1>3, PTL DEF Spec
=============================================================================
