-------------------------- MODULE AsyncListsProofs --------------------------
(***************************************************************************)
(* Proofs about the two data structures under the async loader: the status *)
(* lists of AsyncFifo are FIFO queues, and the sort of LbaSort sorts.      *)
(***************************************************************************)
EXTENDS AsyncFifo, LbaSort, DataLemmas

-----------------------------------------------------------------------------
(* The status lists.                                                       *)

\* The ring async_init builds is closed: 2^64 is a multiple of the queue
\* depth, so that (0 - 1) % queue_depth is the last entry.
RingCloses == PowerOfTwoMod[64] = 0

Pointers ==
    /\ next \in [Entry -> Entry]
    /\ prev \in [Entry -> Entry]
    /\ head \in [Lists -> Entry \union {NULL}]
    /\ taken \in [Lists -> SUBSET Entry]

\* What the pointers of a list with contents s are.  The tail's next and the
\* prev of all but the head are of no account, unless the list has one entry.
Ring(h, nxt, prv, s) ==
    IF s = <<>> THEN h = NULL
    ELSE /\ h = s[1]
         /\ prv[h] = s[Len(s)]
         /\ \A i \in 1 .. (Len(s) - 1) : nxt[s[i]] = s[i + 1]
         /\ Len(s) = 1 => nxt[h] = h

\* No entry is twice in a list or in two, nor in one and in somebody's hands,
\* nor in two hands.
Apart(q, t) ==
    /\ \A l \in Lists : IsInjective(q[l])
    /\ \A l, k \in Lists : l # k => ToSet(q[l]) \cap ToSet(q[k]) = {}
    /\ \A l, k \in Lists : ToSet(q[l]) \cap t[k] = {}
    /\ \A l, k \in Lists : l # k => t[l] \cap t[k] = {}

RingsOf(q, hd, nxt, prv) == \A l \in Lists : Ring(hd[l], nxt, prv, q[l])

\* The lists hold the queues q.
Holds(q) ==
    /\ q \in [Lists -> Seq(Entry)]
    /\ Apart(q, taken)
    /\ RingsOf(q, head, next, prev)

FifoInv == Pointers /\ \E q \in [Lists -> Seq(Entry)] : Holds(q)

\* There are as many entries as the queue is deep.
LEMMA EntriesCount == IsFiniteSet(Entry) /\ Cardinality(Entry) = QueueDepth
<1>1. QueueDepth \in Nat /\ QueueDepth - 1 \in Int /\ QueueDepth >= 1
  BY QueueDepthAssumption
<1>2. IsFiniteSet(0 .. (QueueDepth - 1))
      /\ Cardinality(0 .. (QueueDepth - 1)) = (QueueDepth - 1) - 0 + 1
  BY <1>1, FS_Interval
<1> QED BY <1>1, <1>2 DEF Entry

\* A list has no more entries than there are.
LEMMA ListFits ==
    ASSUME NEW s \in Seq(Entry), IsInjective(s)
    PROVE  Len(s) \in 0 .. QueueDepth
<1>1. Cardinality(ToSet(s)) = Len(s)
  BY ElemsCount
<1>2. ToSet(s) \subseteq Entry
  BY ElementsIn DEF ToSet
<1>3. Cardinality(ToSet(s)) <= QueueDepth
  BY <1>2, EntriesCount, FS_Subset
<1> QED BY <1>1, <1>3, QueueDepthAssumption

IsWalk(h, walk) ==
    walk = [i \in 1 .. QueueDepth |-> IF i = 1 THEN h ELSE next[walk[i - 1]]]

\* Walk is defined as the walk there is.
LEMMA WalkIs == \A l : Walk(l) = CHOOSE walk : IsWalk(head[l], walk)
BY DEF Walk, IsWalk

\* The walk along next from the head exists, and is of entries.
LEMMA WalkExists ==
    ASSUME Pointers, NEW l \in Lists, head[l] # NULL
    PROVE  /\ Walk(l) \in [1 .. QueueDepth -> Entry]
           /\ Walk(l)[1] = head[l]
           /\ \A i \in 2 .. QueueDepth : Walk(l)[i] = next[Walk(l)[i - 1]]
<1>1. head[l] \in Entry /\ QueueDepth \in Nat /\ QueueDepth >= 1
  BY QueueDepthAssumption DEF Pointers
<1> DEFINE G == [p \in Int \X Entry |-> next[p[2]]]
<1>2. G \in [Int \X Entry -> Entry]
  BY DEF Pointers
<1>3. PICK f \in [1 .. QueueDepth -> Entry] : IsLoop(f, 1, QueueDepth, head[l], G)
  <2>1. 1 \in Int /\ QueueDepth \in Int
    BY <1>1
  <2> DEFINE h == head[l]
  <2>2. h \in Entry
    BY <1>1
  <2> HIDE DEF G, h
  <2>3. \E f \in [1 .. QueueDepth -> Entry] : IsLoop(f, 1, QueueDepth, h, G)
    BY <1>2, <2>1, <2>2, LoopExists
  <2> QED BY <2>3 DEF h
<1>4. ASSUME NEW i \in 1 .. QueueDepth
      PROVE  f[i] = IF i = 1 THEN head[l] ELSE next[f[i - 1]]
  <2>1. CASE i = 1
    BY <1>3, <2>1 DEF IsLoop
  <2>2. CASE i # 1
    <3>1. i \in Int /\ i - 1 \in 1 .. QueueDepth /\ f[i - 1] \in Entry
      BY <1>1, <2>2
    <3>2. G[<<i, f[i - 1]>>] = next[f[i - 1]]
      BY <3>1
    <3>3. f[i] = G[<<i, f[i - 1]>>]
      BY <1>3, <2>2 DEF IsLoop
    <3> QED BY <2>2, <3>2, <3>3
  <2> QED BY <2>1, <2>2
<1>5. IsWalk(head[l], f)
  BY <1>4 DEF IsWalk
<1>6. IsWalk(head[l], Walk(l))
  BY <1>5, WalkIs
<1> DEFINE walk == Walk(l)
<1> HIDE DEF walk
<1>7. \A i \in 1 .. QueueDepth : walk[i] = IF i = 1 THEN head[l] ELSE next[walk[i - 1]]
  BY <1>6 DEF IsWalk, walk
<1>8. DOMAIN walk = 1 .. QueueDepth /\ walk = [i \in 1 .. QueueDepth |-> walk[i]]
  BY <1>6 DEF IsWalk, walk
<1>9. \A i \in 1 .. QueueDepth : walk[i] \in Entry
  <2> DEFINE Good == {j \in 1 .. QueueDepth : walk[j] \in Entry}
  <2>1. 1 \in Good
    BY <1>1, <1>7
  <2>2. \A i \in (1 + 1) .. QueueDepth : i - 1 \in Good => i \in Good
    BY <1>1, <1>7 DEF Pointers
  <2>3. 1 \in Int /\ QueueDepth \in Int
    BY <1>1
  <2>4. \A i \in 1 .. QueueDepth : i \in Good
    <3> HIDE DEF Good
    <3> QED BY <2>1, <2>2, <2>3, RangeInduction
  <2> QED BY <2>4
<1>10. walk \in [1 .. QueueDepth -> Entry]
  BY <1>8, <1>9
<1>11. walk[1] = head[l] /\ \A i \in 2 .. QueueDepth : walk[i] = next[walk[i - 1]]
  BY <1>1, <1>7
<1> QED BY <1>10, <1>11 DEF walk

\* The contents of a list that holds s are s.
LEMMA ContentsAre ==
    ASSUME Pointers, NEW l \in Lists, NEW s \in Seq(Entry), IsInjective(s),
           Ring(head[l], next, prev, s)
    PROVE  Contents(l) = s
<1>1. CASE s = <<>>
  BY <1>1 DEF Contents, Ring
<1>2. CASE s # <<>>
  <2> DEFINE walk == Walk(l)
             n == Len(s)
  <2>1. n \in 1 .. QueueDepth /\ DOMAIN s = 1 .. n /\ \A i \in 1 .. n : s[i] \in Entry
    BY <1>2, ListFits, QueueDepthAssumption
  <2>2. head[l] = s[1] /\ head[l] \in Entry /\ head[l] # NULL /\ prev[head[l]] = s[n]
    BY <1>2, <2>1, NullAssumption DEF Ring
  <2>3. /\ walk \in [1 .. QueueDepth -> Entry]
        /\ walk[1] = head[l]
        /\ \A i \in 2 .. QueueDepth : walk[i] = next[walk[i - 1]]
    BY <2>2, WalkExists
  <2> HIDE DEF walk
  <2>4. \A i \in 1 .. n : walk[i] = s[i]
    <3> DEFINE Good == {j \in 1 .. n : walk[j] = s[j]}
    <3>1. 1 \in Good
      BY <2>1, <2>2, <2>3
    <3>2. ASSUME NEW i \in (1 + 1) .. n, i - 1 \in Good
          PROVE  i \in Good
      <4>1. n \in Int /\ QueueDepth \in Int /\ n <= QueueDepth
        BY <2>1, QueueDepthAssumption
      <4>2. i \in 2 .. QueueDepth /\ i - 1 \in 1 .. (n - 1) /\ i \in 1 .. n
        <5> HIDE DEF n
        <5> QED BY <4>1
      <4>3. next[s[i - 1]] = s[(i - 1) + 1]
        BY <1>2, <4>2 DEF Ring
      <4> QED BY <2>3, <3>2, <4>2, <4>3
    <3>3. 1 \in Int /\ n \in Int
      BY <2>1
    <3>4. \A i \in 1 .. n : i \in Good
      <4> HIDE DEF n, Good
      <4> QED BY <3>1, <3>2, <3>3, RangeInduction
    <3> QED BY <3>4
  <2> DEFINE tails == {i \in 1 .. QueueDepth : walk[i] = prev[head[l]]}
  <2>5. n \in tails
    BY <2>1, <2>2, <2>4
  <2>6. \A i \in 1 .. (n - 1) : i \notin tails
    BY <2>1, <2>2, <2>4 DEF IsInjective
  <2>7. \A j \in tails : n <= j
    BY <2>1, <2>6
  <2>8. (CHOOSE i \in tails : \A j \in tails : i <= j) = n
    <3>1. \A i \in tails : i \in Int
      OBVIOUS
    <3>2. n \in Int
      BY <2>1
    <3> HIDE DEF tails, n
    <3>3. \A i \in tails : (\A j \in tails : i <= j) => i = n
      BY <2>5, <2>7, <3>1, <3>2
    <3> QED BY <2>5, <2>7, <3>3
  <2>9. Contents(l) = SubSeq(walk, 1, n)
    <3>1. tails # {}
      BY <2>5
    <3> QED BY <2>2, <2>8, <3>1 DEF Contents, walk
  <2>10. SubSeq(walk, 1, n) = s
    <3>1. walk \in Seq(Entry) /\ Len(walk) = QueueDepth
      BY <2>3, QueueDepthAssumption
    <3>2. /\ SubSeq(walk, 1, n) \in Seq(Entry)
          /\ Len(SubSeq(walk, 1, n)) = n
          /\ \A i \in 1 .. n : SubSeq(walk, 1, n)[i] = walk[i]
      BY <3>1, <2>1
    <3> QED BY <2>4, <3>2, SameSeq
  <2> QED BY <2>9, <2>10
<1> QED BY <1>1, <1>2

\* Only the queues Contents gives are held.
LEMMA HeldAre ==
    ASSUME Pointers, NEW q, Holds(q)
    PROVE  \A l \in Lists : Contents(l) = q[l]
BY ContentsAre DEF Holds, Apart, RingsOf

\* An element of a queue, by its place.
LEMMA ElementOf ==
    ASSUME NEW S, NEW s \in Seq(S)
    PROVE  /\ DOMAIN s = 1 .. Len(s)
           /\ \A i \in 1 .. Len(s) : s[i] \in ToSet(s) /\ s[i] \in S
BY DEF ToSet

\* A ring is not touched by a change of pointers of other entries.
LEMMA RingKept ==
    ASSUME NEW s \in Seq(Entry), NEW h, NEW nxt, NEW prv, Ring(h, nxt, prv, s),
           NEW nxt1, NEW prv1,
           \A e \in ToSet(s) : nxt1[e] = nxt[e] /\ prv1[e] = prv[e]
    PROVE  Ring(h, nxt1, prv1, s)
<1>1. CASE s = <<>>
  BY <1>1 DEF Ring
<1>2. CASE s # <<>>
  <2>1. /\ 1 \in 1 .. Len(s)
        /\ \A i \in 1 .. (Len(s) - 1) : i \in 1 .. Len(s)
    BY <1>2
  <2>2. \A i \in 1 .. Len(s) : s[i] \in ToSet(s)
    BY ElementOf
  <2> QED BY <1>2, <2>1, <2>2 DEF Ring
<1> QED BY <1>1, <1>2

\* A list that a pop leaves with one element had two.
LEMMA TailLength ==
    ASSUME NEW S, NEW s \in Seq(S), s # <<>>
    PROVE  Len(Tail(s)) = 1 => Len(s) = 2
OBVIOUS

\* The pointers after fifo_push of e behind the tail of the list of h, and after
\* fifo_pop of h.
Linked(h, e, nxt, prv, nxt1, prv1) ==
    LET back == [prv EXCEPT ![e] = prv[h]]
    IN  /\ nxt1 = [[nxt EXCEPT ![e] = nxt[h]] EXCEPT ![back[h]] = e]
        /\ prv1 = [back EXCEPT ![h] = e]

Unlinked(h, nxt, prv, nxt1, prv1) ==
    /\ prv1 = [prv EXCEPT ![nxt[h]] = prv[h]]
    /\ nxt1 = [nxt EXCEPT ![prv1[h]] = nxt[h]]

AreFields(nxt, prv) == nxt \in [Entry -> Entry] /\ prv \in [Entry -> Entry]

\* The pointers of the entries that are not in D are as they were.
SameBut(D, nxt, prv, nxt1, prv1) ==
    \A d \in Entry \ D : nxt1[d] = nxt[d] /\ prv1[d] = prv[d]

\* fifo_push to an empty list.
LEMMA RingOfOne ==
    ASSUME NEW e \in Entry, NEW nxt, NEW prv, nxt[e] = e, prv[e] = e
    PROVE  Ring(e, nxt, prv, <<e>>)
BY DEF Ring

\* fifo_push to a list that is not empty.
LEMMA RingPushed ==
    ASSUME NEW s \in Seq(Entry), s # <<>>, IsInjective(s),
           NEW nxt, NEW prv, AreFields(nxt, prv),
           NEW h, Ring(h, nxt, prv, s),
           NEW e \in Entry, e \notin ToSet(s),
           NEW nxt1, NEW prv1, Linked(h, e, nxt, prv, nxt1, prv1)
    PROVE  /\ Ring(h, nxt1, prv1, Append(s, e))
           /\ AreFields(nxt1, prv1)
           /\ SameBut(ToSet(s) \union {e}, nxt, prv, nxt1, prv1)
<1> USE DEF AreFields, SameBut
<1> DEFINE n == Len(s)
           r == Append(s, e)
<1>1. n \in Nat \ {0} /\ DOMAIN s = 1 .. n /\ 1 \in 1 .. n /\ n \in 1 .. n
  OBVIOUS
<1>2. \A i \in 1 .. n : s[i] \in ToSet(s) /\ s[i] \in Entry /\ s[i] # e
  BY <1>1, ElementOf
<1>3. h = s[1] /\ prv[h] = s[n] /\ \A i \in 1 .. (n - 1) : nxt[s[i]] = s[i + 1]
  BY DEF Ring
<1>4. h \in Entry /\ h # e /\ h \in ToSet(s) /\ s[n] \in Entry /\ s[n] \in ToSet(s)
  BY <1>1, <1>2, <1>3
<1> DEFINE back == [prv EXCEPT ![e] = prv[h]]
<1>5. back \in [Entry -> Entry] /\ back[h] = s[n]
  BY <1>3, <1>4
<1>51. /\ nxt1 = [[nxt EXCEPT ![e] = nxt[h]] EXCEPT ![back[h]] = e]
       /\ prv1 = [back EXCEPT ![h] = e]
  BY DEF Linked
<1>6. nxt1 \in [Entry -> Entry] /\ prv1 \in [Entry -> Entry]
  BY <1>3, <1>4, <1>5, <1>51
<1>7. /\ nxt1[s[n]] = e
      /\ prv1[h] = e
      /\ \A d \in Entry : d # e /\ d # s[n] => nxt1[d] = nxt[d]
      /\ \A d \in Entry : d # e /\ d # h => prv1[d] = prv[d]
  BY <1>4, <1>5, <1>51
<1>8. /\ r \in Seq(Entry) /\ r # <<>> /\ Len(r) = n + 1 /\ r[n + 1] = e
      /\ \A i \in 1 .. n : r[i] = s[i]
  BY <1>1
<1>9. ASSUME NEW i \in 1 .. n PROVE nxt1[r[i]] = r[i + 1]
  <2>1. CASE i = n
    BY <1>1, <1>7, <1>8, <2>1
  <2>2. CASE i # n
    <3>1. i \in 1 .. (n - 1) /\ i + 1 \in 1 .. n
      <4> HIDE DEF n
      <4> QED BY <1>1, <2>2
    <3>2. s[i] # s[n]
      BY <1>1, <2>2 DEF IsInjective
    <3>3. nxt1[s[i]] = s[i + 1]
      BY <1>2, <1>3, <1>7, <3>1, <3>2
    <3> QED BY <1>8, <3>1, <3>3
  <2> QED BY <2>1, <2>2
<1>10. Ring(h, nxt1, prv1, r)
  <2>1. Len(r) - 1 = n /\ Len(r) # 1
    BY <1>1, <1>8
  <2>2. h = r[1] /\ prv1[h] = r[Len(r)]
    BY <1>1, <1>3, <1>7, <1>8
  <2> HIDE DEF r, n
  <2> QED BY <1>8, <1>9, <2>1, <2>2 DEF Ring
<1>11. \A d \in Entry \ (ToSet(s) \union {e}) : nxt1[d] = nxt[d] /\ prv1[d] = prv[d]
  BY <1>4, <1>7
<1> QED BY <1>6, <1>10, <1>11

\* fifo_pop.
LEMMA RingPopped ==
    ASSUME NEW s \in Seq(Entry), s # <<>>, IsInjective(s),
           NEW nxt, NEW prv, AreFields(nxt, prv),
           NEW h, Ring(h, nxt, prv, s),
           NEW nxt1, NEW prv1, Unlinked(h, nxt, prv, nxt1, prv1)
    PROVE  /\ h = Head(s) /\ h \in Entry
           /\ Ring(NewHead(h, nxt1[h]), nxt1, prv1, Tail(s))
           /\ NewHead(h, nxt1[h]) \in Entry \union {NULL}
           /\ AreFields(nxt1, prv1)
           /\ SameBut(ToSet(s), nxt, prv, nxt1, prv1)
<1> USE DEF AreFields, SameBut
<1> DEFINE n == Len(s)
           r == Tail(s)
<1>1. n \in Nat \ {0} /\ DOMAIN s = 1 .. n /\ 1 \in 1 .. n /\ n \in 1 .. n
  OBVIOUS
<1>2. \A i \in 1 .. n : s[i] \in ToSet(s) /\ s[i] \in Entry
  BY <1>1, ElementOf
<1>3. h = s[1] /\ prv[h] = s[n] /\ \A i \in 1 .. (n - 1) : nxt[s[i]] = s[i + 1]
  BY DEF Ring
<1>4. h \in Entry /\ h = Head(s) /\ h \in ToSet(s) /\ s[n] \in Entry /\ s[n] \in ToSet(s)
  BY <1>1, <1>2, <1>3
<1>5. r \in Seq(Entry) /\ Len(r) = n - 1 /\ \A i \in 1 .. (n - 1) : r[i] = s[i + 1]
  BY <1>1
<1>6. CASE n = 1
  <2>1. nxt[h] = h /\ prv[h] = h
    BY <1>3, <1>6 DEF Ring
  <2>2. prv1 = prv /\ nxt1 = nxt
    BY <1>4, <2>1 DEF Unlinked
  <2>3. r = <<>>
    <3>1. r \in Seq(Entry) /\ Len(r) = 0
      BY <1>5, <1>6
    <3> HIDE DEF r
    <3> QED BY <3>1
  <2>4. NewHead(h, nxt1[h]) = NULL
    BY <2>1, <2>2 DEF NewHead
  <2> QED BY <1>4, <2>2, <2>3, <2>4 DEF Ring
<1>7. CASE n # 1
  <2>1. 1 \in 1 .. (n - 1) /\ 2 \in 1 .. n /\ n - 1 \in 1 .. (n - 1)
    BY <1>1, <1>7
  <2>2. nxt[h] = s[2] /\ s[2] \in Entry /\ s[2] \in ToSet(s)
    BY <1>2, <1>3, <2>1
  <2>3. s[2] # h /\ s[n] # h
    BY <1>1, <1>3, <1>7, <2>1 DEF IsInjective
  <2>4. /\ prv1 \in [Entry -> Entry]
        /\ prv1[s[2]] = s[n]
        /\ \A d \in Entry : d # s[2] => prv1[d] = prv[d]
    BY <1>3, <1>4, <2>2 DEF Unlinked
  <2>5. /\ nxt1 \in [Entry -> Entry]
        /\ nxt1[s[n]] = s[2]
        /\ \A d \in Entry : d # s[n] => nxt1[d] = nxt[d]
    BY <1>3, <1>4, <2>2, <2>3, <2>4 DEF Unlinked
  <2>6. NewHead(h, nxt1[h]) = s[2]
    BY <1>4, <2>2, <2>3, <2>5 DEF NewHead
  <2>7. ASSUME NEW i \in 1 .. (Len(r) - 1) PROVE nxt1[r[i]] = r[i + 1]
    <3>1. /\ i \in 1 .. (n - 1) /\ i + 1 \in 1 .. (n - 1) /\ i + 1 \in 1 .. n
          /\ i + 1 # n /\ (i + 1) + 1 \in 1 .. n
      <4> HIDE DEF n, r
      <4> QED BY <1>1, <1>5
    <3>2. s[i + 1] # s[n]
      BY <1>1, <3>1 DEF IsInjective
    <3>3. nxt1[s[i + 1]] = s[(i + 1) + 1]
      BY <1>2, <1>3, <2>5, <3>1, <3>2
    <3> QED BY <1>5, <3>1, <3>3
  <2>8. Ring(s[2], nxt1, prv1, r)
    <3>1. r # <<>> /\ r[1] = s[2] /\ r[Len(r)] = s[n]
      <4> HIDE DEF n, r
      <4>1. Len(r) = n - 1 /\ n - 1 # 0 /\ 1 + 1 = 2 /\ (n - 1) + 1 = n
        BY <1>1, <1>5, <1>7
      <4> QED BY <1>5, <2>1, <4>1
    <3>2. Len(r) = 1 => nxt1[s[2]] = s[2]
      <4>1. SUFFICES ASSUME Len(r) = 1 PROVE n = 2
        BY <2>5
      <4> QED BY <4>1, TailLength
    <3> HIDE DEF r
    <3> QED BY <2>4, <2>7, <3>1, <3>2 DEF Ring
  <2> QED BY <1>4, <2>2, <2>4, <2>5, <2>6, <2>8
<1> QED BY <1>6, <1>7

-----------------------------------------------------------------------------
(* FifoInv is inductive, and each step is one of FifoQueues.               *)

\* The queue the free list is built as.
FirstQueues == [l \in Lists |-> IF l = "free" THEN [i \in 1 .. QueueDepth |-> i - 1] ELSE <<>>]

\* async_init's pointers form a ring of all entries, if it closes.
LEMMA FirstRing ==
    ASSUME Init, RingCloses
    PROVE  Pointers /\ Holds(FirstQueues)
<1> DEFINE s == [i \in 1 .. QueueDepth |-> i - 1]
           D == QueueDepth
<1>1. D \in Nat /\ D >= 1 /\ Entry = 0 .. (D - 1)
  BY QueueDepthAssumption DEF Entry
<1>2. /\ s \in Seq(Entry) /\ Len(s) = D /\ s # <<>> /\ s[1] = 0
      /\ \A i \in 1 .. D : s[i] = i - 1
  <2>1. s \in [1 .. D -> Entry]
    BY <1>1
  <2>2. s \in Seq(Entry) /\ Len(s) = D
    BY <1>1, <2>1
  <2> HIDE DEF s
  <2>3. s # <<>>
    BY <1>1, <2>2
  <2> QED BY <1>1, <2>2, <2>3 DEF s
<1>3. \A j \in Entry : /\ InitNext(j) \in Entry
                       /\ j # D - 1 => InitNext(j) = j + 1
                       /\ j = D - 1 => InitNext(j) = 0
  BY <1>1 DEF InitNext
<1>4. \A j \in Entry : InitPrev(j) \in Entry
  BY <1>1 DEF InitPrev, RingCloses
<1>5. InitPrev(0) = D - 1
  BY <1>1 DEF InitPrev, RingCloses
<1>6. Pointers
  <2>1. 0 \in Entry
    BY <1>1
  <2>2. head \in [Lists -> Entry \union {NULL}] /\ taken \in [Lists -> SUBSET Entry]
    BY <2>1 DEF Init
  <2>3. next \in [Entry -> Entry] /\ prev \in [Entry -> Entry]
    BY <1>3, <1>4 DEF Init
  <2> QED BY <2>2, <2>3 DEF Pointers
<1>7. IsInjective(s)
  <2>1. DOMAIN s = 1 .. D
    OBVIOUS
  <2>2. \A i, j \in 1 .. D : s[i] = s[j] => i = j
    BY <1>1
  <2> HIDE DEF s
  <2> QED BY <2>1, <2>2 DEF IsInjective
<1>8. Ring(head["free"], next, prev, s)
  <2>1. 0 \in Entry /\ head["free"] = 0 /\ prev[0] = D - 1 /\ next[0] = InitNext(0)
    BY <1>1, <1>5 DEF Init, Lists
  <2>2. ASSUME NEW i \in 1 .. (D - 1) PROVE next[s[i]] = s[i + 1]
    <3>1. i \in 1 .. D /\ i + 1 \in 1 .. D /\ i - 1 \in Entry /\ i - 1 # D - 1
      BY <1>1
    <3>2. next[i - 1] = (i - 1) + 1
      BY <1>3, <3>1 DEF Init
    <3>3. (i - 1) + 1 = (i + 1) - 1
      OBVIOUS
    <3> QED BY <1>2, <3>1, <3>2, <3>3
  <2>3. D = 1 => next[0] = 0
    BY <1>1, <1>3, <2>1
  <2>4. s[D] = D - 1
    BY <1>1
  <2> HIDE DEF s
  <2> QED BY <1>2, <2>1, <2>2, <2>3, <2>4 DEF Ring
<1>9. \A l \in Lists : l # "free" => head[l] = NULL /\ FirstQueues[l] = <<>>
  BY DEF Init, FirstQueues
<1>10. FirstQueues["free"] = s /\ FirstQueues \in [Lists -> Seq(Entry)]
  <2>1. s \in Seq(Entry)
    BY <1>2
  <2> QED BY <2>1 DEF FirstQueues, Lists
<1>11. RingsOf(FirstQueues, head, next, prev)
  <2>1. \A l \in Lists : l # "free" => Ring(head[l], next, prev, FirstQueues[l])
    BY <1>9 DEF Ring
  <2> HIDE DEF s
  <2> QED BY <1>8, <1>10, <2>1 DEF RingsOf
<1>12. Apart(FirstQueues, taken)
  <2>1. ToSet(<<>>) = {} /\ IsInjective(<<>>)
    BY DEF ToSet, IsInjective
  <2>2. \A l \in Lists : taken[l] = {}
    BY DEF Init
  <2> HIDE DEF s
  <2> QED BY <1>7, <1>9, <1>10, <2>1, <2>2 DEF Apart
<1> QED BY <1>6, <1>10, <1>11, <1>12 DEF Holds

\* Who holds what after a pop from l, and after a push of what was popped from k.
TakenFrom(l, e, t, u) == \A k \in Lists : u[k] = IF k = l THEN t[k] \union {e} ELSE t[k]
GivenBack(k, e, t, u) == \A m \in Lists : u[m] = IF m = k THEN t[m] \ {e} ELSE t[m]

\* What a pop and a push do to the places of the entries.
LEMMA ApartPopped ==
    ASSUME NEW q, NEW t, NEW r, NEW u, NEW l \in Lists, NEW e, Apart(q, t),
           Queues(Lists, Entry, r), Loses(Lists, q, l, e, r),
           TakenFrom(l, e, t, u)
    PROVE  Apart(r, u)
<1>1. \A k \in Lists : IsInjective(r[k])
  BY DEF Queues
<1>2. /\ \A k \in Lists : k # l => ToSet(r[k]) = ToSet(q[k])
      /\ e \in ToSet(q[l])
      /\ ToSet(r[l]) = ToSet(q[l]) \ {e}
  BY DEF Loses
<1>3. /\ \A k, j \in Lists : k # j => ToSet(q[k]) \cap ToSet(q[j]) = {}
      /\ \A k, j \in Lists : ToSet(q[k]) \cap t[j] = {}
      /\ \A k, j \in Lists : k # j => t[k] \cap t[j] = {}
  BY DEF Apart
<1>4. \A k \in Lists : \A x \in ToSet(r[k]) : x \in ToSet(q[k]) /\ x # e
  BY <1>2, <1>3
<1>5. \A k \in Lists : \A x \in u[k] : x \in t[k] \/ (x = e /\ k = l)
  BY DEF TakenFrom
<1>6. \A k \in Lists : e \notin t[k]
  BY <1>2, <1>3
<1>7. \A k, j \in Lists : k # j => ToSet(r[k]) \cap ToSet(r[j]) = {}
  BY <1>3, <1>4
<1>8. \A k, j \in Lists : ToSet(r[k]) \cap u[j] = {}
  BY <1>3, <1>4, <1>5
<1>9. \A k, j \in Lists : k # j => u[k] \cap u[j] = {}
  BY <1>3, <1>5, <1>6
<1> QED BY <1>1, <1>7, <1>8, <1>9 DEF Apart

\* Pushing an entry in hand keeps the queues and the hands apart.
LEMMA ApartPushed ==
    ASSUME NEW q, NEW t, NEW r, NEW u, NEW k \in Lists, NEW l \in Lists, NEW e, Apart(q, t),
           Queues(Lists, Entry, r), Gains(Lists, q, l, e, r), e \in t[k],
           GivenBack(k, e, t, u)
    PROVE  Apart(r, u)
<1>1. \A m \in Lists : IsInjective(r[m])
  BY DEF Queues
<1>2. /\ \A m \in Lists : m # l => ToSet(r[m]) = ToSet(q[m])
      /\ ToSet(r[l]) = ToSet(q[l]) \union {e}
  BY DEF Gains
<1>3. /\ \A m, j \in Lists : m # j => ToSet(q[m]) \cap ToSet(q[j]) = {}
      /\ \A m, j \in Lists : ToSet(q[m]) \cap t[j] = {}
      /\ \A m, j \in Lists : m # j => t[m] \cap t[j] = {}
  BY DEF Apart
<1>4. \A m \in Lists : \A x \in ToSet(r[m]) : x \in ToSet(q[m]) \/ (x = e /\ m = l)
  BY <1>2
<1>5. \A m \in Lists : \A x \in u[m] : x \in t[m] /\ x # e
  BY <1>3 DEF GivenBack
<1>6. \A m \in Lists : e \notin ToSet(q[m])
  BY <1>3
<1>7. \A m, j \in Lists : m # j => ToSet(r[m]) \cap ToSet(r[j]) = {}
  BY <1>3, <1>4, <1>6
<1>8. \A m, j \in Lists : ToSet(r[m]) \cap u[j] = {}
  BY <1>3, <1>4, <1>5
<1>9. \A m, j \in Lists : m # j => u[m] \cap u[j] = {}
  BY <1>3, <1>5
<1> QED BY <1>1, <1>7, <1>8, <1>9 DEF Apart

\* A pop takes the oldest entry of the queue.
LEMMA PopStep ==
    ASSUME Pointers, NEW q, Holds(q), NEW l \in Lists, fifo_pop(l)
    PROVE  /\ q[l] # <<>>
           /\ Head(q[l]) = head[l]
           /\ Pointers'
           /\ Holds([q EXCEPT ![l] = Tail(@)])'
<1> DEFINE h == head[l]
           s == q[l]
           r == [q EXCEPT ![l] = Tail(@)]
           prv1 == [prev EXCEPT ![next[h]] = prev[h]]
           nxt1 == [next EXCEPT ![prv1[h]] = next[h]]
<1>1. /\ h # NULL
      /\ prev' = prv1 /\ next' = nxt1
      /\ head' = [head EXCEPT ![l] = NewHead(h, nxt1[h])]
      /\ taken' = [taken EXCEPT ![l] = @ \union {h}]
  BY DEF fifo_pop
<1>2. /\ q \in [Lists -> Seq(Entry)] /\ s \in Seq(Entry) /\ IsInjective(s)
      /\ Ring(h, next, prev, s)
  BY DEF Holds, Apart, RingsOf
<1>3. s # <<>>
  BY <1>1, <1>2 DEF Ring
<1>4. /\ h = Head(s) /\ h \in Entry
      /\ Ring(NewHead(h, nxt1[h]), nxt1, prv1, Tail(s))
      /\ NewHead(h, nxt1[h]) \in Entry \union {NULL}
      /\ nxt1 \in [Entry -> Entry] /\ prv1 \in [Entry -> Entry]
      /\ \A d \in Entry \ ToSet(s) : nxt1[d] = next[d] /\ prv1[d] = prev[d]
  <2>1. AreFields(next, prev)
    BY DEF Pointers, AreFields
  <2>2. Unlinked(h, next, prev, nxt1, prv1)
    BY DEF Unlinked
  <2>3. /\ h = Head(s) /\ h \in Entry
        /\ Ring(NewHead(h, nxt1[h]), nxt1, prv1, Tail(s))
        /\ NewHead(h, nxt1[h]) \in Entry \union {NULL}
        /\ AreFields(nxt1, prv1)
        /\ SameBut(ToSet(s), next, prev, nxt1, prv1)
    <3> HIDE DEF h, s, prv1, nxt1
    <3> QED BY <1>2, <1>3, <2>1, <2>2, RingPopped
  <2> HIDE DEF h, s, prv1, nxt1
  <2> QED BY <2>3 DEF AreFields, SameBut
<1> HIDE DEF prv1, nxt1
<1>5. Pointers'
  BY <1>1, <1>4 DEF Pointers
<1>6. Queues(Lists, Entry, q)
  BY <1>2 DEF Holds, Apart, Queues
<1>7. Queues(Lists, Entry, r) /\ Loses(Lists, q, l, h, r)
  BY <1>3, <1>4, <1>6, PopOne
<1>8. RingsOf(r, head', next', prev')
  <2>1. SUFFICES ASSUME NEW k \in Lists PROVE Ring(head'[k], nxt1, prv1, r[k])
    BY <1>1 DEF RingsOf
  <2>2. CASE k = l
    <3>1. head'[l] = NewHead(h, nxt1[h]) /\ r[l] = Tail(s)
      BY <1>1, <1>2 DEF Pointers
    <3> QED BY <1>4, <2>2, <3>1
  <2>3. CASE k # l
    <3>1. head'[k] = head[k] /\ r[k] = q[k] /\ q[k] \in Seq(Entry)
      BY <1>1, <1>2, <2>3 DEF Pointers
    <3>2. Ring(head[k], next, prev, q[k])
      BY DEF Holds, RingsOf
    <3>3. \A d \in ToSet(q[k]) : d \in Entry \ ToSet(s)
      <4>1. ToSet(q[k]) \cap ToSet(s) = {}
        BY <2>3 DEF Holds, Apart
      <4>2. ToSet(q[k]) \subseteq Entry
        BY <3>1, ElementsIn, ElementOf DEF ToSet
      <4> QED BY <4>1, <4>2
    <3>4. \A d \in ToSet(q[k]) : nxt1[d] = next[d] /\ prv1[d] = prev[d]
      BY <1>4, <3>3
    <3>5. Ring(head[k], nxt1, prv1, q[k])
      BY <3>1, <3>2, <3>4, RingKept
    <3> QED BY <3>1, <3>5
  <2> QED BY <2>2, <2>3
<1>9. Apart(r, taken')
  <2>1. TakenFrom(l, h, taken, taken')
    BY <1>1 DEF Pointers, TakenFrom
  <2>2. Apart(q, taken)
    BY DEF Holds
  <2> HIDE DEF r, h
  <2> QED BY <1>7, <2>1, <2>2, ApartPopped
<1>10. Holds(r)'
  BY <1>7, <1>8, <1>9 DEF Holds, Queues
<1> QED BY <1>3, <1>4, <1>5, <1>10

\* A push makes the entry the youngest of the queue.
LEMMA PushStep ==
    ASSUME Pointers, NEW q, Holds(q), NEW k \in Lists, NEW l \in Lists, NEW e \in taken[k],
           fifo_push(k, l, e)
    PROVE  /\ l \in MayMoveTo[k]
           /\ taken' = [taken EXCEPT ![k] = @ \ {e}]
           /\ Pointers'
           /\ Holds([q EXCEPT ![l] = Append(@, e)])'
<1> DEFINE h == head[l]
           s == q[l]
           r == [q EXCEPT ![l] = Append(@, e)]
<1>1. l \in MayMoveTo[k] /\ taken' = [taken EXCEPT ![k] = @ \ {e}]
  BY DEF fifo_push
<1>2. /\ q \in [Lists -> Seq(Entry)] /\ s \in Seq(Entry) /\ IsInjective(s)
      /\ Ring(h, next, prev, s)
  BY DEF Holds, Apart, RingsOf
<1>3. e \in Entry /\ \A m \in Lists : e \notin ToSet(q[m])
  BY DEF Pointers, Holds, Apart
<1>4. /\ head' \in [Lists -> Entry \union {NULL}]
      /\ \A m \in Lists : m # l => head'[m] = head[m]
      /\ next' \in [Entry -> Entry] /\ prev' \in [Entry -> Entry]
      /\ Ring(head'[l], next', prev', Append(s, e))
      /\ \A d \in Entry \ (ToSet(s) \union {e}) : next'[d] = next[d] /\ prev'[d] = prev[d]
  <2>1. CASE h = NULL
    <3>1. LinkSole(l, e)
      BY <2>1 DEF fifo_push
    <3>2. s = <<>>
      <4>1. ASSUME s # <<>> PROVE FALSE
        <5>1. 1 \in 1 .. Len(s)
          BY <1>2, <4>1
        <5>2. s[1] \in Entry
          BY <1>2, <5>1, ElementsIn
        <5> QED BY <1>2, <2>1, <4>1, <5>2, NullAssumption DEF Ring
      <4> QED BY <4>1
    <3>3. Append(s, e) = <<e>>
      BY <3>2
    <3>4. next'[e] = e /\ prev'[e] = e /\ head'[l] = e
      BY <1>3, <3>1 DEF LinkSole, Pointers
    <3>5. Ring(e, next', prev', <<e>>)
      BY <1>3, <3>4, RingOfOne
    <3> QED BY <1>3, <3>1, <3>3, <3>4, <3>5 DEF LinkSole, Pointers
  <2>2. CASE h # NULL
    <3>1. Linked(h, e, next, prev, next', prev') /\ head' = head
      BY <2>2 DEF fifo_push, LinkBehindTail, Linked
    <3>2. s # <<>>
      BY <1>2, <2>2 DEF Ring
    <3>3. /\ Ring(h, next', prev', Append(s, e))
          /\ next' \in [Entry -> Entry] /\ prev' \in [Entry -> Entry]
          /\ \A d \in Entry \ (ToSet(s) \union {e}) : next'[d] = next[d] /\ prev'[d] = prev[d]
      <4>1. AreFields(next, prev) /\ e \notin ToSet(s)
        BY <1>3 DEF Pointers, AreFields
      <4> HIDE DEF h, s
      <4>2. /\ Ring(h, next', prev', Append(s, e))
            /\ AreFields(next', prev')
            /\ SameBut(ToSet(s) \union {e}, next, prev, next', prev')
        BY <1>2, <1>3, <3>1, <3>2, <4>1, RingPushed
      <4> QED BY <4>2 DEF AreFields, SameBut
    <3> QED BY <3>1, <3>3 DEF Pointers
  <2> QED BY <2>1, <2>2
<1>5. Pointers'
  BY <1>1, <1>4 DEF Pointers
<1>6. Queues(Lists, Entry, q)
  BY <1>2 DEF Holds, Apart, Queues
<1>7. Queues(Lists, Entry, r) /\ Gains(Lists, q, l, e, r)
  BY <1>3, <1>6, PushOne
<1>8. RingsOf(r, head', next', prev')
  <2>1. SUFFICES ASSUME NEW m \in Lists PROVE Ring(head'[m], next', prev', r[m])
    BY DEF RingsOf
  <2>2. CASE m = l
    <3>1. r[l] = Append(s, e)
      BY <1>2
    <3> QED BY <1>4, <2>2, <3>1
  <2>3. CASE m # l
    <3>1. head'[m] = head[m] /\ r[m] = q[m] /\ q[m] \in Seq(Entry)
      BY <1>2, <1>4, <2>3
    <3>2. Ring(head[m], next, prev, q[m])
      BY DEF Holds, RingsOf
    <3>3. \A d \in ToSet(q[m]) : d \in Entry \ (ToSet(s) \union {e})
      <4>1. ToSet(q[m]) \cap ToSet(s) = {}
        BY <2>3 DEF Holds, Apart
      <4>2. ToSet(q[m]) \subseteq Entry
        BY <3>1, ElementsIn, ElementOf DEF ToSet
      <4> QED BY <1>3, <4>1, <4>2
    <3>4. \A d \in ToSet(q[m]) : next'[d] = next[d] /\ prev'[d] = prev[d]
      BY <1>4, <3>3
    <3>5. Ring(head[m], next', prev', q[m])
      BY <3>1, <3>2, <3>4, RingKept
    <3> QED BY <3>1, <3>5
  <2> QED BY <2>2, <2>3
<1>9. Apart(r, taken')
  <2>1. GivenBack(k, e, taken, taken')
    BY <1>1 DEF Pointers, GivenBack
  <2>2. Apart(q, taken)
    BY DEF Holds
  <2> HIDE DEF r
  <2> QED BY <1>7, <2>1, <2>2, ApartPushed
<1>10. Holds(r)'
  BY <1>7, <1>8, <1>9 DEF Holds, Queues
<1> QED BY <1>1, <1>5, <1>10

\* FifoInv is inductive.
LEMMA ListsOfInit == Init /\ RingCloses => FifoInv
BY FirstRing DEF FifoInv, Holds

LEMMA ListsOfStep == FifoInv /\ [Next]_vars => FifoInv'
<1> SUFFICES ASSUME FifoInv, [Next]_vars PROVE FifoInv'
  OBVIOUS
<1>1. PICK q \in [Lists -> Seq(Entry)] : Holds(q)
  BY DEF FifoInv
<1>2. Pointers
  BY DEF FifoInv
<1>3. ASSUME NEW l \in Lists, fifo_pop(l) PROVE FifoInv'
  <2> DEFINE r == [q EXCEPT ![l] = Tail(@)]
  <2>1. Pointers' /\ Holds(r)'
    BY <1>1, <1>2, <1>3, PopStep
  <2> HIDE DEF r
  <2> QED BY <2>1 DEF FifoInv, Holds
<1>4. ASSUME NEW k \in Lists, NEW l \in Lists, NEW e \in taken[k], fifo_push(k, l, e)
      PROVE  FifoInv'
  <2> DEFINE r == [q EXCEPT ![l] = Append(@, e)]
  <2>1. Pointers' /\ Holds(r)'
    BY <1>1, <1>2, <1>4, PushStep
  <2> HIDE DEF r
  <2> QED BY <2>1 DEF FifoInv, Holds
<1>5. CASE UNCHANGED vars
  BY <1>1, <1>2, <1>5 DEF FifoInv, Holds, Pointers, vars
<1> QED BY <1>3, <1>4, <1>5 DEF Next

\* The abstract queues.
Shown == [l \in Lists |-> Contents(l)]

\* What the refinement reads off the pointers is the queues they hold.
LEMMA ShownAre ==
    ASSUME Pointers, NEW q, Holds(q)
    PROVE  Shown = q
<1>1. q \in [Lists -> Seq(Entry)]
  BY DEF Holds
<1>2. \A l \in Lists : Contents(l) = q[l]
  BY HeldAre
<1> QED BY <1>1, <1>2 DEF Shown

\* So it is in the next state.
ShownIsHeld == \A q : Pointers /\ Holds(q) => Shown = q

\* The same in a state and in the next.
LEMMA ShownNow == ShownIsHeld
BY ShownAre DEF ShownIsHeld

LEMMA ShownNext == ShownIsHeld'
BY ShownNow, PTL

\* The initial state is an initial state of FifoQueues.
LEMMA FifoInitial == Init /\ RingCloses => Fifo!Init
<1> SUFFICES ASSUME Init, RingCloses PROVE Fifo!Init
  OBVIOUS
<1>1. Shown = FirstQueues
  BY FirstRing, ShownAre
<1>2. taken = [l \in Lists |-> {}]
  BY DEF Init
<1> QED BY <1>1, <1>2 DEF Fifo!Init, Shown, FirstQueues, Lists, Fifo!Lists

\* Every step is a step of FifoQueues.
LEMMA FifoSteps == FifoInv /\ FifoInv' /\ [Next]_vars => [Fifo!Next]_Fifo!vars
<1> SUFFICES ASSUME FifoInv, [Next]_vars PROVE [Fifo!Next]_Fifo!vars
  OBVIOUS
<1>1. PICK q \in [Lists -> Seq(Entry)] : Holds(q)
  BY DEF FifoInv
<1>2. Pointers
  BY DEF FifoInv
<1>3. Shown = q
  BY <1>1, <1>2, ShownAre
<1>4. ASSUME NEW l \in Lists, fifo_pop(l) PROVE Fifo!Next
  <2> DEFINE r == [q EXCEPT ![l] = Tail(@)]
  <2>1. /\ q[l] # <<>> /\ Head(q[l]) = head[l]
        /\ Pointers' /\ Holds(r)'
    BY <1>1, <1>2, <1>4, PopStep
  <2>2. Shown' = r
    <3> HIDE DEF r
    <3> QED BY <2>1, ShownNext DEF ShownIsHeld
  <2>3. taken' = [taken EXCEPT ![l] = @ \union {Head(q[l])}]
    BY <1>4, <2>1 DEF fifo_pop
  <2>4. Fifo!Pop(l)
    BY <1>3, <2>1, <2>2, <2>3 DEF Fifo!Pop, Shown
  <2> QED BY <2>4 DEF Fifo!Next, Fifo!Lists, Lists
<1>5. ASSUME NEW k \in Lists, NEW l \in Lists, NEW e \in taken[k], fifo_push(k, l, e)
      PROVE  Fifo!Next
  <2> DEFINE r == [q EXCEPT ![l] = Append(@, e)]
  <2>1. /\ l \in MayMoveTo[k] /\ taken' = [taken EXCEPT ![k] = @ \ {e}]
        /\ Pointers' /\ Holds(r)'
    BY <1>1, <1>2, <1>5, PushStep
  <2>2. Shown' = r
    <3> HIDE DEF r
    <3> QED BY <2>1, ShownNext DEF ShownIsHeld
  <2>3. Fifo!Push(k, l, e)
    BY <1>3, <1>5, <2>1, <2>2 DEF Fifo!Push, Shown, Fifo!MayMoveTo, MayMoveTo
  <2> QED BY <1>5, <2>3 DEF Fifo!Next, Fifo!Lists, Lists
<1>6. CASE UNCHANGED vars
  <2>1. Holds(q)' /\ Pointers'
    BY <1>1, <1>2, <1>6 DEF Holds, Pointers, vars
  <2>2. Shown' = q
    BY <2>1, ShownNext DEF ShownIsHeld
  <2> QED BY <1>3, <1>6, <2>2 DEF Fifo!vars, Shown, vars
<1> QED BY <1>4, <1>5, <1>6 DEF Next

\* With a queue depth that divides 2^64, the linked lists are FIFO queues over
\* the entries, in whatever order the three that share the pointer fields are
\* pushed to and popped from.
THEOREM ListsAreFifo == RingCloses => (Spec => ImplementsFifo)
<1>1. RingCloses /\ Spec => []FifoInv
  BY ListsOfInit, ListsOfStep, PTL DEF Spec
<1>2. RingCloses /\ Spec => Fifo!Spec
  BY <1>1, FifoInitial, FifoSteps, PTL DEF Spec, Fifo!Spec
<1> QED BY <1>2 DEF ImplementsFifo

\* With such a depth no entry is handed out while somebody has it, nor by two lists.
THEOREM HandedOutOnce == RingCloses => (Spec => []NoDoubleHandout)
<1>1. FifoInv => NoDoubleHandout
  <2> SUFFICES ASSUME FifoInv, NEW l \in Lists, head[l] # NULL, NEW k \in Lists
               PROVE  head[l] \notin taken[k] /\ (k # l => head[k] # head[l])
    BY DEF NoDoubleHandout
  <2>1. PICK q \in [Lists -> Seq(Entry)] : Holds(q)
    BY DEF FifoInv
  <2>2. \A m \in Lists : head[m] # NULL => head[m] \in ToSet(q[m])
    <3> SUFFICES ASSUME NEW m \in Lists, head[m] # NULL PROVE head[m] \in ToSet(q[m])
      OBVIOUS
    <3>1. Ring(head[m], next, prev, q[m]) /\ q[m] \in Seq(Entry)
      BY <2>1 DEF Holds, RingsOf
    <3>2. q[m] # <<>> /\ head[m] = q[m][1]
      BY <3>1 DEF Ring
    <3>3. 1 \in 1 .. Len(q[m])
      BY <3>1, <3>2
    <3> QED BY <3>1, <3>2, <3>3, ElementOf
  <2>3. head[l] \in ToSet(q[l]) /\ head[l] \notin taken[k]
    BY <2>1, <2>2 DEF Holds, Apart
  <2>4. k # l => head[k] # head[l]
    BY <2>1, <2>2, <2>3 DEF Holds, Apart
  <2> QED BY <2>3, <2>4
<1> QED BY <1>1, ListsOfInit, ListsOfStep, PTL DEF Spec

\* The powers of two that a size_t holds, and 2^64.
PowerOfTwo[n \in 0 .. 64] == IF n = 0 THEN 1 ELSE 2 * PowerOfTwo[n - 1]

\* The recursion of PowerOfTwo has its solution.
LEMMA PowersExist ==
    /\ PowerOfTwo[0] = 1
    /\ \A n \in 1 .. 64 : PowerOfTwo[n] = 2 * PowerOfTwo[n - 1]
<1> DEFINE G == [p \in Int \X Nat |-> 2 * p[2]]
           IsIt(f) == f = [n \in 0 .. 64 |-> IF n = 0 THEN 1 ELSE 2 * f[n - 1]]
<1>1. PICK f \in [0 .. 64 -> Nat] : IsLoop(f, 0, 64, 1, G)
  <2>1. G \in [Int \X Nat -> Nat] /\ 0 \in Int /\ 64 \in Int /\ 1 \in Nat
    OBVIOUS
  <2> HIDE DEF G
  <2> QED BY <2>1, LoopExists
<1>2. \A n \in 0 .. 64 : f[n] = IF n = 0 THEN 1 ELSE 2 * f[n - 1]
  <2>1. f[0] = 1
    BY <1>1 DEF IsLoop
  <2>2. ASSUME NEW n \in 1 .. 64 PROVE f[n] = 2 * f[n - 1]
    <3>1. n \in 0 .. 64 /\ n # 0 /\ n - 1 \in 0 .. 64 /\ n \in Int
      OBVIOUS
    <3>2. f[n] = G[<<n, f[n - 1]>>]
      BY <1>1, <3>1 DEF IsLoop
    <3> QED BY <3>1, <3>2
  <2>3. \A n \in 0 .. 64 : n = 0 \/ n \in 1 .. 64
    OBVIOUS
  <2> QED BY <2>1, <2>2, <2>3
<1>3. IsIt(f)
  BY <1>2
<1>4. PowerOfTwo = CHOOSE g : IsIt(g)
  BY DEF PowerOfTwo
<1>5. IsIt(PowerOfTwo)
  <2> HIDE DEF IsIt
  <2> QED BY <1>3, <1>4
<1>6. \A n \in 0 .. 64 : PowerOfTwo[n] = IF n = 0 THEN 1 ELSE 2 * PowerOfTwo[n - 1]
  <2> DEFINE g == PowerOfTwo
  <2>1. IsIt(g)
    BY <1>5
  <2> HIDE DEF g
  <2>2. \A n \in 0 .. 64 : g[n] = IF n = 0 THEN 1 ELSE 2 * g[n - 1]
    BY <2>1
  <2> QED BY <2>2 DEF g
<1> HIDE DEF IsIt, G
<1>7. 0 \in 0 .. 64 /\ \A n \in 1 .. 64 : n \in 0 .. 64 /\ n # 0
  OBVIOUS
<1> QED BY <1>6, <1>7

\* The same of PowerOfTwoMod, 2^n % queue_depth.
LEMMA RemaindersExist ==
    /\ PowerOfTwoMod[0] = 1 % QueueDepth
    /\ \A n \in 1 .. 64 : PowerOfTwoMod[n] = (2 * PowerOfTwoMod[n - 1]) % QueueDepth
<1> DEFINE G == [p \in Int \X Nat |-> (2 * p[2]) % QueueDepth]
           IsIt(f) == f = [n \in 0 .. 64 |-> IF n = 0 THEN 1 % QueueDepth
                                             ELSE (2 * f[n - 1]) % QueueDepth]
<1>1. PICK f \in [0 .. 64 -> Nat] : IsLoop(f, 0, 64, 1 % QueueDepth, G)
  <2>1. \A m \in Nat : m % QueueDepth \in Nat
    BY QueueDepthAssumption
  <2>2. /\ G \in [Int \X Nat -> Nat] /\ 0 \in Int /\ 64 \in Int
        /\ 1 % QueueDepth \in Nat
    BY <2>1
  <2> HIDE DEF G
  <2> QED BY <2>2, LoopExists
<1>2. \A n \in 0 .. 64 : f[n] = IF n = 0 THEN 1 % QueueDepth ELSE (2 * f[n - 1]) % QueueDepth
  <2>1. f[0] = 1 % QueueDepth
    <3>1. 0 \in Int /\ 64 \in Int /\ 0 <= 64
      OBVIOUS
    <3> HIDE DEF G
    <3> QED BY <1>1, <3>1, LoopSteps
  <2>2. ASSUME NEW n \in 1 .. 64 PROVE f[n] = (2 * f[n - 1]) % QueueDepth
    <3>1. n \in 0 .. 64 /\ n # 0 /\ n - 1 \in 0 .. 64 /\ n \in Int
      OBVIOUS
    <3>2. f[n] = G[<<n, f[n - 1]>>]
      BY <1>1, <3>1 DEF IsLoop
    <3> QED BY <3>1, <3>2
  <2>3. \A n \in 0 .. 64 : n = 0 \/ n \in 1 .. 64
    OBVIOUS
  <2> QED BY <2>1, <2>2, <2>3
<1>3. IsIt(f)
  BY <1>2
<1>4. PowerOfTwoMod = CHOOSE g : IsIt(g)
  BY DEF PowerOfTwoMod
<1>5. IsIt(PowerOfTwoMod)
  <2> HIDE DEF IsIt
  <2> QED BY <1>3, <1>4
<1>6. \A n \in 0 .. 64 : PowerOfTwoMod[n] = IF n = 0 THEN 1 % QueueDepth
                                            ELSE (2 * PowerOfTwoMod[n - 1]) % QueueDepth
  <2> DEFINE g == PowerOfTwoMod
  <2>1. IsIt(g)
    BY <1>5
  <2> HIDE DEF g
  <2>2. \A n \in 0 .. 64 : g[n] = IF n = 0 THEN 1 % QueueDepth ELSE (2 * g[n - 1]) % QueueDepth
    BY <2>1
  <2> QED BY <2>2 DEF g
<1> HIDE DEF IsIt, G
<1>7. 0 \in 0 .. 64 /\ \A n \in 1 .. 64 : n \in 0 .. 64 /\ n # 0
  OBVIOUS
<1> QED BY <1>6, <1>7

\* The powers grow.
LEMMA PowersGrow ==
    /\ \A n \in 0 .. 64 : PowerOfTwo[n] \in Nat \ {0}
    /\ \A i, k \in 0 .. 64 : i < k => PowerOfTwo[i] < PowerOfTwo[k]
<1> DEFINE P(n) == PowerOfTwo[n]
<1>1. ASSUME NEW n \in 0 .. 64 PROVE P(n) \in Nat \ {0}
  <2> DEFINE Good == {m \in 0 .. 64 : P(m) \in Nat \ {0}}
  <2>1. 0 \in Good
    BY PowersExist
  <2>2. ASSUME NEW m \in (0 + 1) .. 64, m - 1 \in Good PROVE m \in Good
    <3>1. P(m) = 2 * P(m - 1)
      BY PowersExist
    <3> HIDE DEF P
    <3> QED BY <2>2, <3>1
  <2>3. \A m \in 0 .. 64 : m \in Good
    <3> HIDE DEF Good
    <3> QED BY <2>1, <2>2, RangeInduction
  <2> QED BY <2>3
<1>2. ASSUME NEW i \in 0 .. 64, NEW k \in 0 .. 64, i < k PROVE P(i) < P(k)
  <2> DEFINE Good == {m \in 0 .. 64 : P(i) < P(m)}
  <2>1. ASSUME NEW m \in (i + 1) .. k PROVE P(m) = 2 * P(m - 1) /\ P(m - 1) \in Nat \ {0}
    <3>1. m \in 1 .. 64 /\ m - 1 \in 0 .. 64
      OBVIOUS
    <3> QED BY <1>1, <3>1, PowersExist
  <2> HIDE DEF P
  <2>2. i + 1 \in Good
    <3>1. i + 1 \in (i + 1) .. k /\ i + 1 \in 0 .. 64 /\ (i + 1) - 1 = i
      BY <1>2
    <3>2. P(i + 1) = 2 * P(i) /\ P(i) \in Nat \ {0}
      BY <2>1, <3>1
    <3> QED BY <3>1, <3>2
  <2>3. ASSUME NEW m \in ((i + 1) + 1) .. k, m - 1 \in Good PROVE m \in Good
    <3>1. m \in (i + 1) .. k /\ m \in 0 .. 64
      OBVIOUS
    <3>2. P(m) = 2 * P(m - 1) /\ P(m - 1) \in Nat \ {0} /\ P(i) < P(m - 1) /\ P(i) \in Nat
      BY <1>1, <2>1, <2>3, <3>1
    <3>3. P(i) < P(m)
      BY <3>2
    <3> QED BY <3>1, <3>3
  <2>4. \A m \in (i + 1) .. k : m \in Good
    <3> HIDE DEF Good
    <3> QED BY <2>2, <2>3, RangeInduction
  <2>5. k \in (i + 1) .. k
    BY <1>2
  <2> QED BY <2>4, <2>5
<1> QED BY <1>1, <1>2

\* A depth that is a power of two divides 2^64, and the ring closes.
LEMMA PowersClose ==
    ASSUME NEW k \in 0 .. 64, QueueDepth = PowerOfTwo[k]
    PROVE  RingCloses
<1> DEFINE P(n) == PowerOfTwo[n]
           R(n) == PowerOfTwoMod[n]
           D == QueueDepth
<1>1. D \in Nat \ {0} /\ D = P(k)
  BY QueueDepthAssumption
<1>2. \A n \in 0 .. 64 : P(n) \in Nat \ {0} /\ (n < k => P(n) < D)
  BY <1>1, PowersGrow
<1>3. /\ P(0) = 1 /\ \A n \in 1 .. 64 : P(n) = 2 * P(n - 1)
      /\ R(0) = 1 % D /\ \A n \in 1 .. 64 : R(n) = (2 * R(n - 1)) % D
  BY PowersExist, RemaindersExist
<1> HIDE DEF P, R, D
<1>4. \A m \in Nat : m < D => m % D = m
  BY <1>1
<1>5. D % D = 0 /\ (2 * 0) % D = 0
  BY <1>1
<1>6. \A n \in 0 .. (k - 1) : R(n) = P(n)
  <2> DEFINE Good == {n \in 0 .. (k - 1) : R(n) = P(n)}
  <2>1. CASE k = 0
    BY <2>1
  <2>2. CASE k # 0
    <3>1. 0 \in Good
      BY <1>2, <1>3, <1>4, <2>2
    <3>2. ASSUME NEW n \in (0 + 1) .. (k - 1), n - 1 \in Good PROVE n \in Good
      <4>1. n \in 1 .. 64 /\ n \in 0 .. (k - 1) /\ n \in 0 .. 64 /\ n < k
        OBVIOUS
      <4>2. R(n) = P(n) % D
        BY <1>3, <3>2, <4>1
      <4>3. P(n) \in Nat /\ P(n) < D
        BY <1>2, <4>1
      <4> QED BY <1>4, <4>1, <4>2, <4>3
    <3>3. \A n \in 0 .. (k - 1) : n \in Good
      <4> HIDE DEF Good
      <4> QED BY <3>1, <3>2, RangeInduction
    <3> QED BY <3>3
  <2> QED BY <2>1, <2>2
<1>7. R(k) = 0
  <2>1. CASE k = 0
    BY <1>1, <1>3, <1>5, <2>1
  <2>2. CASE k # 0
    <3>1. k \in 1 .. 64 /\ k - 1 \in 0 .. (k - 1)
      BY <2>2
    <3>2. R(k) = P(k) % D
      BY <1>3, <1>6, <3>1
    <3> QED BY <1>1, <1>5, <3>2
  <2> QED BY <2>1, <2>2
<1>8. \A n \in k .. 64 : R(n) = 0
  <2> DEFINE Good == {n \in k .. 64 : R(n) = 0}
  <2>1. k \in Good
    BY <1>7
  <2>2. ASSUME NEW n \in (k + 1) .. 64, n - 1 \in Good PROVE n \in Good
    <3>1. n \in 1 .. 64 /\ n \in k .. 64
      OBVIOUS
    <3>2. R(n) = (2 * 0) % D
      BY <1>3, <2>2, <3>1
    <3> QED BY <1>5, <3>1, <3>2
  <2>3. \A n \in k .. 64 : n \in Good
    <3> HIDE DEF Good
    <3> QED BY <2>1, <2>2, RangeInduction
  <2> QED BY <2>3
<1>9. R(64) = 0
  BY <1>8
<1> QED BY <1>9 DEF R, RingCloses

\* The queue depths that are a power of two do: with each of them the lists are FIFO.
THEOREM PowersOfTwoAreFifo ==
    (\E k \in 0 .. 64 : QueueDepth = PowerOfTwo[k]) => (Spec => ImplementsFifo)
BY PowersClose, ListsAreFifo

-----------------------------------------------------------------------------
(* The sort.                                                               *)

\* r has the elements of s, as many, in ascending order of their keys.
Rearranges(s, r) == r \in Seq(Wrapper) /\ Len(r) = Len(s) /\ ToSet(r) = ToSet(s)
Sorts(s, r) == Rearranges(s, r) /\ InOrder(r)

\* LBAs are numbers.
LEMMA KeysAreNumbers == \A x \in Wrapper : x.key \in Nat
BY SortAssumption DEF Wrapper

\* In an ordered sequence an earlier key is not greater.
LEMMA OrderedPairs ==
    ASSUME NEW s \in Seq(Wrapper), NEW n \in 0 .. Len(s),
           \A i \in 1 .. (n - 1) : s[i].key <= s[i + 1].key
    PROVE  \A i, j \in 1 .. n : i <= j => s[i].key <= s[j].key
<1> SUFFICES ASSUME NEW i \in 1 .. n, NEW j \in 1 .. n, i <= j
             PROVE  s[i].key <= s[j].key
  OBVIOUS
<1> DEFINE Good == {k \in i .. n : s[i].key <= s[k].key}
<1>1. \A k \in 1 .. n : s[k].key \in Nat
  BY KeysAreNumbers, ElementsIn
<1>2. i \in Good
  BY <1>1
<1>3. ASSUME NEW k \in (i + 1) .. n, k - 1 \in Good PROVE k \in Good
  <2>1. k - 1 \in 1 .. (n - 1) /\ k - 1 \in 1 .. n /\ k \in 1 .. n /\ (k - 1) + 1 = k
    OBVIOUS
  <2>2. s[k - 1].key <= s[k].key
    BY <2>1
  <2>3. s[i].key \in Nat /\ s[k - 1].key \in Nat /\ s[k].key \in Nat
    BY <1>1, <2>1
  <2>4. s[i].key <= s[k].key
    BY <1>3, <2>2, <2>3
  <2> QED BY <2>4
<1>4. \A k \in i .. n : k \in Good
  <2>1. i \in Int /\ n \in Int
    OBVIOUS
  <2> HIDE DEF Good
  <2> QED BY <1>2, <1>3, <2>1, RangeInduction
<1>5. j \in i .. n
  OBVIOUS
<1> QED BY <1>4, <1>5

-----------------------------------------------------------------------------
(* merge.                                                                  *)

IsPointer(left, right, f) ==
    f = [i \in 0 .. (Len(left) + Len(right)) |->
           IF i = 0 THEN 0
           ELSE LET l == f[i - 1]
                IN  IF TakesLeft(left, right, l, (i - 1) - l) THEN l + 1 ELSE l]

\* lptr is defined as the pointer there is.
LEMMA PointerIs ==
    \A left, right : lptr(left, right) = CHOOSE f : IsPointer(left, right, f)
BY DEF lptr, IsPointer

\* lptr starts at 0 and goes on by one when the left is taken.
LEMMA PointerMoves ==
    ASSUME NEW left \in Seq(Wrapper), NEW right \in Seq(Wrapper),
           NEW p, p = lptr(left, right), NEW n, n = Len(left) + Len(right)
    PROVE  /\ p[0] = 0
           /\ \A i \in 1 .. n :
                p[i] = IF TakesLeft(left, right, p[i - 1], (i - 1) - p[i - 1])
                       THEN p[i - 1] + 1 ELSE p[i - 1]
<1> DEFINE G == [x \in Int \X Nat |->
                   IF TakesLeft(left, right, x[2], (x[1] - 1) - x[2]) THEN x[2] + 1 ELSE x[2]]
<1>1. n \in Nat
  OBVIOUS
<1>2. PICK f \in [0 .. n -> Nat] : IsLoop(f, 0, n, 0, G)
  <2>1. G \in [Int \X Nat -> Nat] /\ 0 \in Int /\ 0 \in Nat /\ n \in Int
    BY <1>1
  <2> HIDE DEF G
  <2> QED BY <2>1, LoopExists
<1>3. \A i \in 0 .. n : f[i] = IF i = 0 THEN 0
                               ELSE LET l == f[i - 1]
                                    IN  IF TakesLeft(left, right, l, (i - 1) - l) THEN l + 1 ELSE l
  <2>1. f[0] = 0
    <3>1. 0 \in Int /\ n \in Int /\ 0 <= n
      BY <1>1
    <3> HIDE DEF G
    <3> QED BY <1>2, <3>1, LoopSteps
  <2>2. ASSUME NEW i \in 1 .. n
        PROVE  f[i] = IF TakesLeft(left, right, f[i - 1], (i - 1) - f[i - 1])
                      THEN f[i - 1] + 1 ELSE f[i - 1]
    <3>1. i \in 0 .. n /\ i # 0 /\ i - 1 \in 0 .. n /\ i \in Int
      BY <1>1
    <3>2. f[i] = G[<<i, f[i - 1]>>]
      BY <1>2, <3>1 DEF IsLoop
    <3> QED BY <3>1, <3>2
  <2>3. \A i \in 0 .. n : i = 0 \/ i \in 1 .. n
    BY <1>1
  <2> QED BY <2>1, <2>2, <2>3
<1>4. IsPointer(left, right, f)
  BY <1>3 DEF IsPointer
<1>5. IsPointer(left, right, p)
  BY <1>4, PointerIs
<1>6. \A i \in 0 .. n : p[i] = IF i = 0 THEN 0
                               ELSE LET l == p[i - 1]
                                    IN  IF TakesLeft(left, right, l, (i - 1) - l) THEN l + 1 ELSE l
  BY <1>5 DEF IsPointer
<1>7. 0 \in 0 .. n /\ \A i \in 1 .. n : i \in 0 .. n /\ i # 0
  BY <1>1
<1> QED BY <1>6, <1>7

\* Neither pointer leaves its side, so that the loop ends with both exhausted.
LEMMA PointerInside ==
    ASSUME NEW left \in Seq(Wrapper), NEW right \in Seq(Wrapper),
           NEW p, p = lptr(left, right), NEW n, n = Len(left) + Len(right)
    PROVE  /\ \A i \in 0 .. n : p[i] \in 0 .. Len(left) /\ i - p[i] \in 0 .. Len(right)
           /\ p[n] = Len(left)
<1> DEFINE a == Len(left)
           b == Len(right)
           Good == {i \in 0 .. n : p[i] \in 0 .. a /\ i - p[i] \in 0 .. b}
<1>1. a \in Nat /\ b \in Nat /\ n = a + b
  OBVIOUS
<1>2. /\ p[0] = 0
      /\ \A i \in 1 .. n :
           p[i] = IF TakesLeft(left, right, p[i - 1], (i - 1) - p[i - 1])
                  THEN p[i - 1] + 1 ELSE p[i - 1]
  BY PointerMoves
<1>3. \A l, r : TakesLeft(left, right, l, r) => l < a
  BY DEF TakesLeft
<1>4. \A l, r : ~ TakesLeft(left, right, l, r) => ~ (l < a) \/ r # b
  BY DEF TakesLeft
<1> HIDE DEF a, b
<1>5. 0 \in Good
  BY <1>1, <1>2
<1>6. ASSUME NEW i \in (0 + 1) .. n, i - 1 \in Good PROVE i \in Good
  <2> DEFINE l == p[i - 1]
             r == (i - 1) - l
  <2>1. i \in 1 .. n /\ i \in 0 .. n /\ l \in 0 .. a /\ r \in 0 .. b
    BY <1>1, <1>6
  <2>2. CASE TakesLeft(left, right, l, r)
    <3>1. p[i] = l + 1 /\ l < a
      BY <1>2, <1>3, <2>1, <2>2
    <3>2. i - p[i] = r
      BY <2>1, <3>1
    <3> HIDE DEF l, r
    <3>3. l + 1 \in 0 .. a
      BY <1>1, <2>1, <3>1
    <3> QED BY <2>1, <3>1, <3>2, <3>3
  <2>3. CASE ~ TakesLeft(left, right, l, r)
    <3>1. p[i] = l /\ (~ (l < a) \/ r # b)
      BY <1>2, <1>4, <2>1, <2>3
    <3>2. i - p[i] = r + 1 /\ l + r = i - 1
      BY <2>1, <3>1
    <3> HIDE DEF l, r
    <3>3. r + 1 \in 0 .. b
      BY <1>1, <2>1, <3>1, <3>2
    <3> QED BY <2>1, <3>1, <3>2, <3>3
  <2> QED BY <2>2, <2>3
<1>7. \A i \in 0 .. n : i \in Good
  <2>1. 0 \in Int /\ n \in Int
    BY <1>1
  <2> HIDE DEF Good
  <2> QED BY <1>5, <1>6, <2>1, RangeInduction
<1>8. p[n] = a
  <2>1. n \in 0 .. n
    BY <1>1
  <2>2. p[n] \in 0 .. a /\ n - p[n] \in 0 .. b
    BY <1>7, <2>1
  <2> QED BY <1>1, <2>2
<1> QED BY <1>7, <1>8 DEF a, b

\* Iteration i of merge takes one element, of the left or of the right.
TookLeft(left, right, p, m, i) ==
    /\ TakesLeft(left, right, p[i - 1], (i - 1) - p[i - 1])
    /\ p[i] = p[i - 1] + 1
    /\ p[i - 1] < Len(left)
    /\ m[i] = left[p[i - 1] + 1]

TookRight(left, right, p, m, i) ==
    /\ ~ TakesLeft(left, right, p[i - 1], (i - 1) - p[i - 1])
    /\ p[i] = p[i - 1]
    /\ (i - 1) - p[i - 1] < Len(right)
    /\ m[i] = right[i - p[i - 1]]

\* Each element of what is merged was taken from one side, where its pointer stood.
LEMMA MergeTakes ==
    ASSUME NEW left \in Seq(Wrapper), NEW right \in Seq(Wrapper),
           NEW p, p = lptr(left, right), NEW n, n = Len(left) + Len(right),
           NEW m, m = merge(left, right)
    PROVE  /\ m \in [1 .. n -> Wrapper]
           /\ \A i \in 1 .. n : TookLeft(left, right, p, m, i) \/ TookRight(left, right, p, m, i)
<1> DEFINE a == Len(left)
           b == Len(right)
<1>1. a \in Nat /\ b \in Nat /\ n = a + b
  OBVIOUS
<1>2. m = [i \in 1 .. n |-> IF p[i] > p[i - 1] THEN left[p[i]] ELSE right[i - p[i]]]
  BY DEF merge, Merged
<1>3. \A i \in 1 .. n :
        p[i] = IF TakesLeft(left, right, p[i - 1], (i - 1) - p[i - 1])
               THEN p[i - 1] + 1 ELSE p[i - 1]
  BY PointerMoves
<1>4. \A i \in 0 .. n : p[i] \in 0 .. a /\ i - p[i] \in 0 .. b
  BY PointerInside
<1> HIDE DEF a, b
<1>5. ASSUME NEW i \in 1 .. n
      PROVE  /\ TookLeft(left, right, p, m, i) \/ TookRight(left, right, p, m, i)
             /\ m[i] \in Wrapper
  <2>1. i \in 0 .. n /\ i - 1 \in 0 .. n
    BY <1>1
  <2>2. /\ p[i - 1] \in 0 .. a /\ (i - 1) - p[i - 1] \in 0 .. b
        /\ p[i] \in 0 .. a /\ i - p[i] \in 0 .. b
    BY <1>4, <2>1
  <2>3. m[i] = IF p[i] > p[i - 1] THEN left[p[i]] ELSE right[i - p[i]]
    BY <1>2
  <2>4. CASE TakesLeft(left, right, p[i - 1], (i - 1) - p[i - 1])
    <3>1. p[i] = p[i - 1] + 1
      BY <1>3, <2>4
    <3>2. p[i] > p[i - 1] /\ p[i - 1] < a /\ p[i - 1] + 1 \in 1 .. a
      <4> DEFINE l == p[i - 1]
      <4>1. l \in Nat /\ l + 1 \in 0 .. a /\ p[i] = l + 1
        BY <1>1, <2>2, <3>1
      <4> HIDE DEF l
      <4>2. p[i] > l /\ l < a /\ l + 1 \in 1 .. a
        BY <1>1, <4>1
      <4> QED BY <4>2 DEF l
    <3>3. m[i] = left[p[i - 1] + 1]
      BY <2>3, <3>1, <3>2
    <3>4. left[p[i - 1] + 1] \in Wrapper
      BY <3>2, ElementsIn DEF a
    <3> QED BY <2>4, <3>1, <3>2, <3>3, <3>4 DEF TookLeft, a
  <2>5. CASE ~ TakesLeft(left, right, p[i - 1], (i - 1) - p[i - 1])
    <3>1. p[i] = p[i - 1]
      BY <1>3, <2>5
    <3>2. ~ (p[i] > p[i - 1]) /\ (i - 1) - p[i - 1] < b /\ i - p[i - 1] \in 1 .. b
      BY <1>1, <2>2, <3>1
    <3>3. m[i] = right[i - p[i - 1]]
      BY <2>3, <3>1, <3>2
    <3>4. right[i - p[i - 1]] \in Wrapper
      BY <3>2, ElementsIn DEF b
    <3> QED BY <2>5, <3>1, <3>2, <3>3, <3>4 DEF TookRight, b
  <2> QED BY <2>4, <2>5
<1>6. m \in [1 .. n -> Wrapper]
  BY <1>2, <1>5
<1> QED BY <1>5, <1>6

\* Whatever the order, merge keeps every element of both sides.
LEMMA MergeKeeps ==
    ASSUME NEW left \in Seq(Wrapper), NEW right \in Seq(Wrapper),
           NEW m, m = merge(left, right)
    PROVE  /\ m \in Seq(Wrapper)
           /\ Len(m) = Len(left) + Len(right)
           /\ ToSet(m) = ToSet(left) \union ToSet(right)
<1> DEFINE a == Len(left)
           b == Len(right)
           n == Len(left) + Len(right)
           p == lptr(left, right)
<1>1. a \in Nat /\ b \in Nat /\ n = a + b /\ DOMAIN left = 1 .. a /\ DOMAIN right = 1 .. b
  OBVIOUS
<1>2. /\ m \in [1 .. n -> Wrapper]
      /\ \A i \in 1 .. n : TookLeft(left, right, p, m, i) \/ TookRight(left, right, p, m, i)
  BY MergeTakes
<1>3. /\ \A i \in 0 .. n : p[i] \in 0 .. a /\ i - p[i] \in 0 .. b
      /\ p[n] = a
      /\ p[0] = 0
  BY PointerInside, PointerMoves
<1>4. \A i \in 1 .. n :
        \/ p[i - 1] < a /\ p[i] = p[i - 1] + 1 /\ m[i] = left[p[i - 1] + 1]
        \/ (i - 1) - p[i - 1] < b /\ p[i] = p[i - 1] /\ m[i] = right[i - p[i - 1]]
  BY <1>2 DEF TookLeft, TookRight
<1> HIDE DEF a, b, n, p
<1>5. m \in Seq(Wrapper) /\ Len(m) = n /\ DOMAIN m = 1 .. n
  BY <1>1, <1>2
<1>6. ASSUME NEW x \in ToSet(m) PROVE x \in ToSet(left) \union ToSet(right)
  <2>1. PICK i \in 1 .. n : x = m[i]
    BY <1>5, <1>6 DEF ToSet
  <2>2. i - 1 \in 0 .. n /\ p[i - 1] \in 0 .. a /\ (i - 1) - p[i - 1] \in 0 .. b
    BY <1>1, <1>3
  <2>3. CASE p[i - 1] < a /\ m[i] = left[p[i - 1] + 1]
    <3>1. p[i - 1] + 1 \in 1 .. a
      BY <1>1, <2>2, <2>3
    <3> QED BY <1>1, <2>1, <2>3, <3>1 DEF ToSet
  <2>4. CASE (i - 1) - p[i - 1] < b /\ m[i] = right[i - p[i - 1]]
    <3>1. i - p[i - 1] \in 1 .. b
      BY <1>1, <2>2, <2>4
    <3> QED BY <1>1, <2>1, <2>4, <3>1 DEF ToSet
  <2> QED BY <1>4, <2>3, <2>4
<1>7. ASSUME NEW x \in ToSet(left) PROVE x \in ToSet(m)
  <2>1. PICK j \in 1 .. a : x = left[j]
    BY <1>1, <1>7 DEF ToSet
  <2> DEFINE Past == {i \in 0 .. n : j <= p[i]}
  <2>2. n \in Past /\ Past \subseteq Nat
    BY <1>1, <1>3
  <2>3. PICK i \in Past : \A k \in Past : i <= k
    <3> HIDE DEF Past
    <3> QED BY <2>2, LeastNatural
  <2>4. i \in 1 .. n /\ i - 1 \in 0 .. n
    BY <1>1, <1>3, <2>3
  <2>5. i - 1 \notin Past
    BY <2>3, <2>4
  <2>6. p[i - 1] \in 0 .. a /\ p[i] \in 0 .. a /\ p[i - 1] < j /\ j <= p[i]
    BY <1>1, <1>3, <2>3, <2>4, <2>5
  <2>7. p[i] = p[i - 1] + 1 /\ m[i] = left[p[i - 1] + 1]
    BY <1>4, <2>4, <2>6
  <2>8. m[i] = left[j]
    BY <1>1, <2>6, <2>7
  <2> QED BY <1>5, <2>1, <2>4, <2>8 DEF ToSet
<1>8. ASSUME NEW x \in ToSet(right) PROVE x \in ToSet(m)
  <2>1. PICK j \in 1 .. b : x = right[j]
    BY <1>1, <1>8 DEF ToSet
  <2> DEFINE Past == {i \in 0 .. n : j <= i - p[i]}
  <2>2. n \in Past /\ Past \subseteq Nat
    BY <1>1, <1>3
  <2>3. PICK i \in Past : \A k \in Past : i <= k
    <3> HIDE DEF Past
    <3> QED BY <2>2, LeastNatural
  <2>4. i \in 1 .. n /\ i - 1 \in 0 .. n
    BY <1>1, <1>3, <2>3
  <2>5. i - 1 \notin Past
    BY <2>3, <2>4
  <2>6. /\ p[i - 1] \in 0 .. a /\ p[i] \in 0 .. a
        /\ (i - 1) - p[i - 1] < j /\ j <= i - p[i]
    BY <1>1, <1>3, <2>3, <2>4, <2>5
  <2>7. p[i] = p[i - 1] /\ m[i] = right[i - p[i - 1]]
    BY <1>4, <2>4, <2>6
  <2>8. i - p[i - 1] = j
    <3> DEFINE q == p[i - 1]
    <3>1. i \in Int /\ j \in Int /\ q \in Int
      BY <1>1, <2>4, <2>6
    <3>2. (i - 1) - q < j /\ j <= i - q
      BY <2>6, <2>7
    <3> HIDE DEF q
    <3>3. i - q = j
      BY <3>1, <3>2
    <3> QED BY <3>3 DEF q
  <2> QED BY <1>5, <2>1, <2>4, <2>7, <2>8 DEF ToSet
<1>9. ToSet(m) = ToSet(left) \union ToSet(right)
  BY <1>6, <1>7, <1>8
<1> QED BY <1>5, <1>9 DEF n

\* Merging two ordered sequences gives an ordered one: no element merge has left is
\* smaller than the one it takes.
LEMMA MergeOrders ==
    ASSUME NEW left \in Seq(Wrapper), NEW right \in Seq(Wrapper),
           InOrder(left), InOrder(right),
           NEW m, m = merge(left, right)
    PROVE  InOrder(m)
<1> DEFINE a == Len(left)
           b == Len(right)
           n == Len(left) + Len(right)
           p == lptr(left, right)
<1>1. a \in Nat /\ b \in Nat /\ n = a + b
  OBVIOUS
<1>2. /\ m \in [1 .. n -> Wrapper]
      /\ \A i \in 1 .. n : TookLeft(left, right, p, m, i) \/ TookRight(left, right, p, m, i)
  BY MergeTakes
<1>3. \A i \in 0 .. n : p[i] \in 0 .. a /\ i - p[i] \in 0 .. b
  BY PointerInside
<1>4. Len(m) = n
  BY MergeKeeps
<1>5. /\ \A i \in 1 .. (a - 1) : left[i].key <= left[i + 1].key
      /\ \A i \in 1 .. (b - 1) : right[i].key <= right[i + 1].key
  BY DEF InOrder
<1>6. /\ \A i \in 1 .. a : left[i].key \in Nat
      /\ \A i \in 1 .. b : right[i].key \in Nat
  BY KeysAreNumbers, ElementsIn
<1>7. \A l, r : /\ TakesLeft(left, right, l, r) => (r = b \/ left[l + 1].key <= right[r + 1].key)
                /\ ~ TakesLeft(left, right, l, r) => ~ (l < a) \/ ~ (left[l + 1].key <= right[r + 1].key)
  BY DEF TakesLeft
<1> HIDE DEF n, p, a, b
\* What is next on either side after iteration i is not smaller.
<1>8. ASSUME NEW i \in 1 .. n
      PROVE  /\ p[i] < a => m[i].key <= left[p[i] + 1].key
             /\ i - p[i] < b => m[i].key <= right[(i - p[i]) + 1].key
  <2>1. i - 1 \in 0 .. n /\ i \in 0 .. n
    BY <1>1
  <2> DEFINE l == p[i - 1]
             r == (i - 1) - p[i - 1]
  <2>2. l \in 0 .. a /\ r \in 0 .. b
    BY <1>3, <2>1
  <2>3. CASE TookLeft(left, right, p, m, i)
    <3>1. /\ p[i] = l + 1 /\ l < a /\ m[i] = left[l + 1]
          /\ r = b \/ left[l + 1].key <= right[r + 1].key
      BY <1>7, <2>3 DEF TookLeft, a
    <3>2. i - p[i] = r
      BY <2>1, <2>2, <3>1
    <3> HIDE DEF l, r
    <3>3. p[i] < a => left[l + 1].key <= left[(l + 1) + 1].key
      <4>1. p[i] < a => l + 1 \in 1 .. (a - 1)
        BY <1>1, <2>2, <3>1
      <4> QED BY <1>5, <4>1
    <3>4. r < b => r # b
      BY <1>1, <2>2
    <3> QED BY <3>1, <3>2, <3>3, <3>4
  <2>4. CASE TookRight(left, right, p, m, i)
    <3>1. /\ p[i] = l /\ r < b /\ m[i] = right[i - l]
          /\ ~ (l < a) \/ ~ (left[l + 1].key <= right[r + 1].key)
      BY <1>7, <2>4 DEF TookRight, b
    <3>2. i - l = r + 1
      BY <2>1, <2>2
    <3> HIDE DEF l, r
    <3>3. i - p[i] < b => right[r + 1].key <= right[(r + 1) + 1].key
      <4>1. i - p[i] < b => r + 1 \in 1 .. (b - 1)
        BY <1>1, <2>2, <3>1, <3>2
      <4> QED BY <1>5, <4>1
    <3>4. l < a => right[r + 1].key <= left[l + 1].key
      <4>1. l < a => l + 1 \in 1 .. a /\ r + 1 \in 1 .. b
        BY <1>1, <2>2, <3>1
      <4> QED BY <1>6, <3>1, <4>1
    <3> QED BY <3>1, <3>2, <3>3, <3>4
  <2> QED BY <1>2, <2>3, <2>4
<1>9. ASSUME NEW i \in 1 .. (n - 1) PROVE m[i].key <= m[i + 1].key
  <2>1. i \in 1 .. n /\ i + 1 \in 1 .. n /\ i \in 0 .. n /\ (i + 1) - 1 = i
    BY <1>1
  <2>2. p[i] \in 0 .. a /\ i - p[i] \in 0 .. b
    BY <1>3, <2>1
  <2>3. CASE TookLeft(left, right, p, m, i + 1)
    <3>1. p[i] < a /\ m[i + 1] = left[p[i] + 1]
      BY <2>1, <2>3 DEF TookLeft, a
    <3> QED BY <1>8, <2>1, <3>1
  <2>4. CASE TookRight(left, right, p, m, i + 1)
    <3>1. i - p[i] < b /\ m[i + 1] = right[(i + 1) - p[i]]
      BY <2>1, <2>4 DEF TookRight, b
    <3>2. (i + 1) - p[i] = (i - p[i]) + 1
      <4>1. i \in Int /\ p[i] \in Int
        BY <1>1, <2>2
      <4> QED BY <4>1
    <3> QED BY <1>8, <2>1, <3>1, <3>2
  <2> QED BY <1>2, <2>1, <2>3, <2>4
<1> QED BY <1>4, <1>9 DEF InOrder

-----------------------------------------------------------------------------
(* sort_small.                                                             *)

\* Where the elements of a part of a sequence are.
LEMMA SubSeqAt ==
    ASSUME NEW S, NEW s \in Seq(S), NEW a \in Nat, NEW b \in Nat,
           1 <= a, a <= b + 1, b <= Len(s)
    PROVE  /\ SubSeq(s, a, b) \in Seq(S) /\ Len(SubSeq(s, a, b)) = b - (a - 1)
           /\ \A k \in 1 .. (b - (a - 1)) : SubSeq(s, a, b)[k] = s[k + (a - 1)]
<1>1. \A k \in a .. b : s[k] \in S
  OBVIOUS
<1> QED BY <1>1

\* r is s, then t.
Glues(S, s, t, r) ==
    /\ r \in Seq(S) /\ Len(r) = Len(s) + Len(t)
    /\ \A k \in 1 .. Len(s) : r[k] = s[k]
    /\ \A k \in (Len(s) + 1) .. (Len(s) + Len(t)) : r[k] = t[k - Len(s)]

\* Where the elements of a concatenation are.
LEMMA ConcatAt ==
    ASSUME NEW S, NEW s \in Seq(S), NEW t \in Seq(S), NEW r, r = s \o t
    PROVE  Glues(S, s, t, r)
BY DEF Glues

\* r is s with element i moved to place j: those from j on are moved up by one.
IsMoved(s, i, j, r) ==
    /\ r \in Seq(Wrapper) /\ Len(r) = Len(s)
    /\ \A k \in 1 .. (j - 1) : r[k] = s[k]
    /\ r[j] = s[i]
    /\ \A k \in (j + 1) .. i : r[k] = s[k - 1]
    /\ \A k \in (i + 1) .. Len(s) : r[k] = s[k]

\* sort_small's insertion moves an element.
LEMMA MovedTo ==
    ASSUME NEW s \in Seq(Wrapper), NEW i \in 1 .. Len(s), NEW j \in 1 .. (i - 1),
           NEW r, r = InsertAt(RemoveAt(s, i), j, s[i])
    PROVE  IsMoved(s, i, j, r)
<1> DEFINE n == Len(s)
           u == RemoveAt(s, i)
           front == SubSeq(s, 1, i - 1)
           back == SubSeq(s, i + 1, n)
           low == SubSeq(u, 1, j - 1)
           high == SubSeq(u, j, Len(u))
           e == s[i]
<1>1. n \in Nat /\ i \in 1 .. n /\ j \in 1 .. (i - 1) /\ e \in Wrapper
  BY ElementsIn
<1>2. /\ front \in Seq(Wrapper) /\ Len(front) = i - 1
      /\ \A k \in 1 .. (i - 1) : front[k] = s[k]
  OBVIOUS
<1>3. /\ back \in Seq(Wrapper) /\ Len(back) = n - i
      /\ \A k \in 1 .. (n - i) : back[k] = s[k + i]
  OBVIOUS
<1>4. u = front \o back
  BY DEF RemoveAt
<1> HIDE DEF n, u, front, back, e
<1>5. /\ u \in Seq(Wrapper) /\ Len(u) = n - 1
      /\ \A k \in 1 .. (i - 1) : u[k] = front[k]
      /\ \A k \in i .. (n - 1) : u[k] = back[k - (i - 1)]
  <2>1. /\ u \in Seq(Wrapper) /\ Len(u) = (i - 1) + (n - i)
        /\ \A k \in 1 .. (i - 1) : u[k] = front[k]
        /\ \A k \in ((i - 1) + 1) .. ((i - 1) + (n - i)) : u[k] = back[k - (i - 1)]
    <3>1. Glues(Wrapper, front, back, u)
      BY <1>2, <1>3, <1>4, ConcatAt
    <3> QED BY <1>2, <1>3, <3>1 DEF Glues
  <2>2. (i - 1) + (n - i) = n - 1 /\ (i - 1) + 1 = i
    BY <1>1
  <2> QED BY <2>1, <2>2
<1>6. /\ \A k \in 1 .. (i - 1) : u[k] = s[k]
      /\ \A k \in i .. (n - 1) : u[k] = s[k + 1]
  <2>1. ASSUME NEW k \in i .. (n - 1) PROVE u[k] = s[k + 1]
    <3>1. k - (i - 1) \in 1 .. (n - i) /\ (k - (i - 1)) + i = k + 1
      BY <1>1
    <3> QED BY <1>3, <1>5, <3>1
  <2> QED BY <1>2, <1>5, <2>1
<1>7. /\ low \in Seq(Wrapper) /\ Len(low) = j - 1
      /\ \A k \in 1 .. (j - 1) : low[k] = u[k]
  BY <1>1, <1>5
<1>8. /\ high \in Seq(Wrapper) /\ Len(high) = n - j
      /\ \A k \in 1 .. (n - j) : high[k] = u[k + (j - 1)]
  <2>1. j \in Nat /\ 1 <= j /\ n - 1 \in Nat /\ j <= (n - 1) + 1
        /\ n - 1 <= Len(u) /\ (n - 1) - (j - 1) = n - j /\ high = SubSeq(u, j, n - 1)
    BY <1>1, <1>5
  <2> HIDE DEF high
  <2> QED BY <1>5, <2>1, SubSeqAt
<1>9. r = (low \o <<e>>) \o high
  BY DEF InsertAt, e, u
<1> HIDE DEF low, high
<1> DEFINE v == low \o <<e>>
<1>10. /\ v \in Seq(Wrapper) /\ Len(v) = j
       /\ \A k \in 1 .. (j - 1) : v[k] = low[k]
       /\ v[j] = e
  <2>1. <<e>> \in Seq(Wrapper) /\ Len(<<e>>) = 1 /\ <<e>>[1] = e
    BY <1>1
  <2>2. Len(low) + 1 = j /\ 1 .. Len(low) = 1 .. (j - 1)
        /\ j \in (Len(low) + 1) .. (Len(low) + 1) /\ j - Len(low) = 1
    BY <1>1, <1>7
  <2> DEFINE one == <<e>>
  <2> HIDE DEF one
  <2>3. /\ v \in Seq(Wrapper) /\ Len(v) = Len(low) + Len(one)
        /\ \A k \in 1 .. Len(low) : v[k] = low[k]
        /\ \A k \in (Len(low) + 1) .. (Len(low) + Len(one)) : v[k] = one[k - Len(low)]
    <3>1. one \in Seq(Wrapper) /\ v = low \o one
      BY <2>1 DEF one
    <3> HIDE DEF v
    <3>2. Glues(Wrapper, low, one, v)
      BY <1>7, <3>1, ConcatAt
    <3> QED BY <3>2 DEF Glues
  <2> HIDE DEF v
  <2> QED BY <2>1, <2>2, <2>3 DEF one
<1> HIDE DEF v
<1>11. /\ r \in Seq(Wrapper) /\ Len(r) = n
       /\ \A k \in 1 .. j : r[k] = v[k]
       /\ \A k \in (j + 1) .. n : r[k] = high[k - j]
  <2>1. r = v \o high
    BY <1>9 DEF v
  <2>2. /\ r \in Seq(Wrapper) /\ Len(r) = j + (n - j)
        /\ \A k \in 1 .. j : r[k] = v[k]
        /\ \A k \in (j + 1) .. (j + (n - j)) : r[k] = high[k - j]
    <3>1. Glues(Wrapper, v, high, r)
      BY <1>8, <1>10, <2>1, ConcatAt
    <3> QED BY <1>8, <1>10, <3>1 DEF Glues
  <2>3. j + (n - j) = n
    BY <1>1
  <2> QED BY <2>2, <2>3
<1>12. \A k \in (j + 1) .. n : r[k] = u[k - 1]
  <2>1. ASSUME NEW k \in (j + 1) .. n PROVE r[k] = u[k - 1]
    <3>1. k - j \in 1 .. (n - j) /\ (k - j) + (j - 1) = k - 1
      BY <1>1
    <3> QED BY <1>8, <1>11, <3>1
  <2> QED BY <2>1
<1>13. \A k \in 1 .. (j - 1) : r[k] = s[k]
  <2>1. ASSUME NEW k \in 1 .. (j - 1) PROVE r[k] = s[k]
    <3>1. k \in 1 .. j /\ k \in 1 .. (i - 1)
      BY <1>1
    <3>2. r[k] = v[k] /\ v[k] = low[k] /\ low[k] = u[k] /\ u[k] = s[k]
      BY <1>6, <1>7, <1>10, <1>11, <3>1
    <3> QED BY <3>2
  <2> QED BY <2>1
<1>14. r[j] = e
  BY <1>1, <1>10, <1>11
<1>15. \A k \in (j + 1) .. i : r[k] = s[k - 1]
  <2>1. \A k \in (j + 1) .. i : k \in (j + 1) .. n /\ k - 1 \in 1 .. (i - 1)
    BY <1>1
  <2> QED BY <1>6, <1>12, <2>1
<1>16. \A k \in (i + 1) .. n : r[k] = s[k]
  <2>1. \A k \in (i + 1) .. n :
          k \in (j + 1) .. n /\ k - 1 \in i .. (n - 1) /\ (k - 1) + 1 = k
    BY <1>1
  <2> QED BY <1>6, <1>12, <2>1
<1> QED BY <1>11, <1>13, <1>14, <1>15, <1>16 DEF n, e, IsMoved

\* The first n elements are in order.
OrderedTo(s, n) == \A i \in 1 .. (n - 1) : s[i].key <= s[i + 1].key

\* An iteration of sort_small puts element i in its place among those before it.
LEMMA InsertOrders ==
    ASSUME NEW s \in Seq(Wrapper), NEW i \in 1 .. Len(s), OrderedTo(s, i - 1),
           NEW r, r = InsertElement(s, i)
    PROVE  Rearranges(s, r) /\ OrderedTo(r, i)
<1> DEFINE places == {j \in 1 .. (i - 1) : TakesPlaceOf(s, i, j)}
           n == Len(s)
<1>1. n \in Nat /\ i \in 1 .. n /\ DOMAIN s = 1 .. n
  OBVIOUS
<1>2. \A k \in 1 .. n : s[k] \in Wrapper /\ s[k].key \in Nat
  BY KeysAreNumbers, ElementsIn
<1>3. \A j, k \in 1 .. (i - 1) : j <= k => s[j].key <= s[k].key
  <2>1. i - 1 \in 0 .. Len(s) /\ \A k \in 1 .. ((i - 1) - 1) : s[k].key <= s[k + 1].key
    BY <1>1 DEF OrderedTo
  <2> QED BY <2>1, OrderedPairs
<1>4. CASE places = {}
  <2>1. r = s
    BY <1>4 DEF InsertElement
  <2>2. \A j \in 1 .. (i - 1) : s[j].key < s[i].key
    <3> DEFINE Larger == {j \in 1 .. (i - 1) : s[i].key <= s[j].key}
    <3>1. SUFFICES ASSUME Larger # {} PROVE FALSE
      BY <1>2
    <3>2. Larger \subseteq Nat
      OBVIOUS
    <3>3. PICK j \in Larger : \A k \in Larger : j <= k
      <4> HIDE DEF Larger
      <4> QED BY <3>1, <3>2, LeastNatural
    <3>4. j # 1 => s[i].key > s[j - 1].key
      <4>1. j # 1 => j - 1 \in 1 .. (i - 1) /\ j - 1 \in 1 .. n /\ j - 1 \notin Larger
        BY <1>1, <3>3
      <4> QED BY <1>2, <4>1
    <3>5. j \in places
      BY <3>3, <3>4 DEF TakesPlaceOf
    <3> QED BY <1>4, <3>5
  <2>3. OrderedTo(s, i)
    <3>1. SUFFICES ASSUME NEW k \in 1 .. (i - 1) PROVE s[k].key <= s[k + 1].key
      BY DEF OrderedTo
    <3>2. CASE k = i - 1
      <4>1. k + 1 = i /\ k \in 1 .. n
        BY <1>1, <3>2
      <4> QED BY <1>1, <1>2, <2>2, <4>1
    <3>3. CASE k # i - 1
      <4>1. k + 1 \in 1 .. (i - 1) /\ k <= k + 1
        BY <3>3
      <4> QED BY <1>3, <4>1
    <3> QED BY <3>2, <3>3
  <2> QED BY <2>1, <2>3 DEF Rearranges
<1>5. CASE places # {}
  <2>1. \E j \in places : \A k \in places : k <= j
    <3> DEFINE top == i - 1
    <3>1. places \subseteq Int /\ top \in Int /\ \A k \in places : k <= top
      OBVIOUS
    <3> HIDE DEF places, top
    <3> QED BY <1>5, <3>1, GreatestBelow
  <2> DEFINE j == CHOOSE j \in places : \A k \in places : k <= j
  <2>2. j \in places
    <3> HIDE DEF places
    <3> QED BY <2>1
  <2>3. r = InsertAt(RemoveAt(s, i), j, s[i])
    BY <1>5 DEF InsertElement
  <2> HIDE DEF j
  <2>4. /\ j \in 1 .. (i - 1) /\ s[i].key <= s[j].key
        /\ j = 1 \/ s[i].key > s[j - 1].key
    BY <2>2 DEF TakesPlaceOf
  <2>5. /\ r \in Seq(Wrapper) /\ Len(r) = n
        /\ \A k \in 1 .. (j - 1) : r[k] = s[k]
        /\ r[j] = s[i]
        /\ \A k \in (j + 1) .. i : r[k] = s[k - 1]
        /\ \A k \in (i + 1) .. n : r[k] = s[k]
    <3>1. IsMoved(s, i, j, r)
      BY <2>3, <2>4, MovedTo
    <3> QED BY <3>1 DEF IsMoved
  <2> HIDE DEF places, n
  <2>6. OrderedTo(r, i)
    <3>1. SUFFICES ASSUME NEW k \in 1 .. (i - 1) PROVE r[k].key <= r[k + 1].key
      BY DEF OrderedTo
    <3>2. CASE k + 1 < j
      <4>1. k \in 1 .. (j - 1) /\ k + 1 \in 1 .. (j - 1) /\ k + 1 \in 1 .. (i - 1) /\ k <= k + 1
        BY <2>4, <3>2
      <4> QED BY <1>3, <2>5, <4>1
    <3>3. CASE k + 1 = j
      <4>1. k \in 1 .. (j - 1) /\ j # 1 /\ k = j - 1 /\ k \in 1 .. n
        BY <1>1, <2>4, <3>3
      <4>2. r[k] = s[j - 1] /\ r[k + 1] = s[i]
        BY <2>5, <3>3, <4>1
      <4> QED BY <1>1, <1>2, <2>4, <4>1, <4>2
    <3>4. CASE k = j
      <4>1. k + 1 \in (j + 1) .. i /\ (k + 1) - 1 = j
        BY <2>4, <3>4
      <4>2. r[k + 1] = s[j] /\ r[k] = s[i]
        BY <2>5, <3>4, <4>1
      <4> QED BY <2>4, <4>2
    <3>5. CASE k > j
      <4>1. /\ k \in (j + 1) .. i /\ k + 1 \in (j + 1) .. i /\ (k + 1) - 1 = k
            /\ k - 1 \in 1 .. (i - 1) /\ k - 1 <= k
        BY <1>1, <2>4, <3>5
      <4>2. r[k] = s[k - 1] /\ r[k + 1] = s[k]
        BY <2>5, <4>1
      <4> QED BY <1>3, <4>1, <4>2
    <3> QED BY <2>4, <3>2, <3>3, <3>4, <3>5
  <2>7. ToSet(r) = ToSet(s)
    <3>1. DOMAIN r = 1 .. n
      BY <2>5
    <3>2. ASSUME NEW k \in 1 .. n PROVE r[k] \in ToSet(s)
      <4>1. \/ k \in 1 .. (j - 1) \/ k = j \/ k \in (j + 1) .. i \/ k \in (i + 1) .. n
        BY <1>1, <2>4
      <4>2. k \in (j + 1) .. i => k - 1 \in 1 .. n
        BY <1>1, <2>4
      <4> QED BY <1>1, <2>5, <4>1, <4>2 DEF ToSet
    <3>3. ASSUME NEW k \in 1 .. n PROVE s[k] \in ToSet(r)
      <4>1. CASE k < j
        <5>1. k \in 1 .. (j - 1)
          BY <2>4, <4>1
        <5> QED BY <2>5, <3>1, <5>1 DEF ToSet
      <4>2. CASE j <= k /\ k < i
        <5>1. k + 1 \in (j + 1) .. i /\ (k + 1) - 1 = k /\ k + 1 \in 1 .. n
          BY <1>1, <2>4, <4>2
        <5>2. r[k + 1] = s[k]
          BY <2>5, <5>1
        <5> QED BY <3>1, <5>1, <5>2 DEF ToSet
      <4>3. CASE k = i
        <5>1. j \in 1 .. n
          BY <1>1, <2>4
        <5> QED BY <2>5, <3>1, <4>3, <5>1 DEF ToSet
      <4>4. CASE i < k
        <5>1. k \in (i + 1) .. n
          BY <4>4
        <5> QED BY <2>5, <3>1, <5>1 DEF ToSet
      <4> QED BY <1>1, <2>4, <4>1, <4>2, <4>3, <4>4
    <3> QED BY <1>1, <3>1, <3>2, <3>3 DEF ToSet
  <2> QED BY <2>5, <2>6, <2>7 DEF Rearranges, n
<1> QED BY <1>4, <1>5

IsArray(s, f) == f = [i \in 0 .. Len(s) |-> IF i = 0 THEN s ELSE InsertElement(f[i - 1], i)]

\* sort_small is what its array of states ends in.
LEMMA ArrayIs ==
    ASSUME NEW s
    PROVE  sort_small(s) = (CHOOSE f : IsArray(s, f))[Len(s)]
BY DEF sort_small, IsArray

\* sort_small sorts.
LEMMA SmallSorts ==
    ASSUME NEW s \in Seq(Wrapper)
    PROVE  Sorts(s, sort_small(s))
<1> DEFINE n == Len(s)
           Same == {t \in Seq(Wrapper) : Len(t) = n}
           G == [x \in Int \X Same |-> IF x[1] \in 1 .. n /\ OrderedTo(x[2], x[1] - 1)
                                       THEN InsertElement(x[2], x[1]) ELSE x[2]]
           f == CHOOSE f : IsArray(s, f)
<1>1. n \in Nat
  OBVIOUS
<1>2. ASSUME NEW i \in 1 .. n, NEW t \in Same, OrderedTo(t, i - 1)
      PROVE  /\ InsertElement(t, i) \in Same
             /\ Rearranges(t, InsertElement(t, i))
             /\ OrderedTo(InsertElement(t, i), i)
  <2>1. t \in Seq(Wrapper) /\ i \in 1 .. Len(t)
    BY <1>2
  <2>2. Rearranges(t, InsertElement(t, i)) /\ OrderedTo(InsertElement(t, i), i)
    BY <1>2, <2>1, InsertOrders
  <2> QED BY <2>2 DEF Rearranges
<1>3. PICK g \in [0 .. n -> Same] : IsLoop(g, 0, n, s, G)
  <2>1. G \in [Int \X Same -> Same]
    <3> HIDE DEF Same
    <3> QED BY <1>2
  <2>2. s \in Same /\ 0 \in Int /\ n \in Int
    BY <1>1
  <2> HIDE DEF G, Same, n
  <2> QED BY <2>1, <2>2, LoopExists
<1> DEFINE Done == {i \in 0 .. n : Rearranges(s, g[i]) /\ OrderedTo(g[i], i)}
<1> HIDE DEF n, Same
<1>4. ASSUME NEW i \in 1 .. n, i - 1 \in Done
      PROVE  g[i] = InsertElement(g[i - 1], i) /\ i \in Done
  <2>1. i \in 0 .. n /\ i # 0 /\ i - 1 \in 0 .. n /\ i \in Int /\ g[i - 1] \in Same
    BY <1>1
  <2>2. g[i] = G[<<i, g[i - 1]>>]
    BY <1>3, <2>1 DEF IsLoop
  <2>3. g[i] = InsertElement(g[i - 1], i)
    BY <1>4, <2>1, <2>2
  <2>4. Rearranges(g[i - 1], g[i]) /\ OrderedTo(g[i], i)
    BY <1>2, <1>4, <2>1, <2>3
  <2>5. Rearranges(s, g[i])
    BY <1>4, <2>4 DEF Rearranges
  <2> QED BY <2>1, <2>3, <2>4, <2>5
<1>5. 0 \in Done /\ g[0] = s
  <2>1. 0 \in 0 .. n /\ 0 \in Int /\ n \in Int /\ 0 <= n
    BY <1>1
  <2>2. g[0] = s
    <3> HIDE DEF G, Done
    <3> QED BY <1>3, <2>1, LoopSteps
  <2>3. OrderedTo(s, 0)
    BY DEF OrderedTo
  <2> QED BY <2>1, <2>2, <2>3 DEF Rearranges
<1>6. \A i \in 0 .. n : i \in Done
  <2>1. \A i \in (0 + 1) .. n : i - 1 \in Done => i \in Done
    BY <1>4
  <2>2. 0 \in Int /\ n \in Int
    BY <1>1
  <2> HIDE DEF Done
  <2> QED BY <1>5, <2>1, <2>2, RangeInduction
<1>7. IsArray(s, g)
  <2>1. \A i \in 0 .. n : g[i] = IF i = 0 THEN s ELSE InsertElement(g[i - 1], i)
    <3>1. \A i \in 0 .. n : i # 0 => i \in 1 .. n /\ i - 1 \in 0 .. n
      BY <1>1
    <3> HIDE DEF Done
    <3> QED BY <1>4, <1>5, <1>6, <3>1
  <2>2. g = [i \in 0 .. n |-> g[i]]
    OBVIOUS
  <2> QED BY <2>1, <2>2 DEF IsArray, n
<1>8. IsArray(s, f)
  BY <1>7
<1>9. \A i \in 0 .. n : f[i] = IF i = 0 THEN s ELSE InsertElement(f[i - 1], i)
  <2> HIDE DEF f
  <2> QED BY <1>8 DEF IsArray, n
<1> HIDE DEF f
<1>10. \A i \in 0 .. n : f[i] = g[i]
  <2> DEFINE Good == {i \in 0 .. n : f[i] = g[i]}
  <2>1. 0 \in Good
    BY <1>1, <1>5, <1>9
  <2>2. ASSUME NEW i \in (0 + 1) .. n, i - 1 \in Good PROVE i \in Good
    <3>1. i \in 1 .. n /\ i \in 0 .. n /\ i # 0 /\ i - 1 \in 0 .. n
      BY <1>1
    <3>2. f[i] = InsertElement(f[i - 1], i)
      BY <1>9, <3>1
    <3>3. g[i] = InsertElement(g[i - 1], i)
      BY <1>4, <1>6, <3>1
    <3> QED BY <2>2, <3>1, <3>2, <3>3
  <2>3. 0 \in Int /\ n \in Int
    BY <1>1
  <2>4. \A i \in 0 .. n : i \in Good
    <3> HIDE DEF Good
    <3> QED BY <2>1, <2>2, <2>3, RangeInduction
  <2> QED BY <2>4
<1>11. sort_small(s) = g[n]
  <2>1. n \in 0 .. n
    BY <1>1
  <2>2. sort_small(s) = f[n]
    BY ArrayIs DEF f, n
  <2> QED BY <1>10, <2>1, <2>2
<1>12. Rearranges(s, g[n]) /\ OrderedTo(g[n], n)
  <2>1. n \in 0 .. n
    BY <1>1
  <2> QED BY <1>6, <2>1
<1> QED BY <1>11, <1>12 DEF Sorts, Rearranges, InOrder, OrderedTo, n

(***************************************************************************)
(* sort, which splits what is not small.                                   *)
(***************************************************************************)

LeftHalf(s) == SubSeq(s, 1, Len(s) \div 2)
RightHalf(s) == SubSeq(s, (Len(s) \div 2) + 1, Len(s))

\* One call of sort, on s, when the calls it makes return what f says.
Call(f, s) ==
    IF Len(s) < SmallN THEN sort_small(s) ELSE merge(f[LeftHalf(s)], f[RightHalf(s)])

\* The queues of at most n requests, and a sort of them.
Shorter(n) == {s \in Wrappers : Len(s) <= n}
IsSort(f, n) == f = [s \in Shorter(n) |-> Call(f, s)]

\* The halves of a queue that is not small are shorter, and make it up.
LEMMA HalvesOf ==
    ASSUME NEW s \in Wrappers, ~(Len(s) < SmallN)
    PROVE  /\ LeftHalf(s) \in Wrappers /\ RightHalf(s) \in Wrappers
           /\ Len(LeftHalf(s)) \in Nat /\ Len(RightHalf(s)) \in Nat
           /\ Len(LeftHalf(s)) < Len(s) /\ Len(RightHalf(s)) < Len(s)
           /\ Len(LeftHalf(s)) + Len(RightHalf(s)) = Len(s)
           /\ ToSet(s) = ToSet(LeftHalf(s)) \union ToSet(RightHalf(s))
<1> DEFINE n == Len(s)
           h == n \div 2
           l == LeftHalf(s)
           r == RightHalf(s)
<1>1. s \in Seq(Wrapper) /\ n \in Nat /\ n <= MaxLen /\ MaxLen \in Nat
  BY SortAssumption DEF Wrappers
<1>2. n >= 2
  BY <1>1, SortAssumption
<1>3. h \in Nat /\ 1 <= h /\ h < n
  BY <1>1, <1>2
<1>4. DOMAIN s = 1 .. n
  BY <1>1
<1> HIDE DEF h, n
<1>5. l \in Seq(Wrapper) /\ Len(l) = h /\ \A i \in 1 .. h : l[i] = s[i]
  <2>1. l = SubSeq(s, 1, h)
    BY DEF LeftHalf, h, n
  <2> HIDE DEF l
  <2> QED BY <1>1, <1>3, <2>1 DEF n
<1>6. r \in Seq(Wrapper) /\ Len(r) = n - h /\ \A i \in 1 .. (n - h) : r[i] = s[h + i]
  <2>1. r = SubSeq(s, h + 1, n)
    BY DEF RightHalf, h, n
  <2> HIDE DEF r
  <2>2. \A i \in (h + 1) .. n : s[i] \in Wrapper
    BY <1>1, <1>3 DEF n
  <2> QED BY <1>1, <1>3, <2>1, <2>2 DEF n
<1> HIDE DEF l, r
<1>7. DOMAIN l = 1 .. h /\ DOMAIN r = 1 .. (n - h)
  BY <1>5, <1>6
<1>8. ToSet(s) = ToSet(l) \union ToSet(r)
  <2>1. ASSUME NEW i \in 1 .. n PROVE s[i] \in ToSet(l) \union ToSet(r)
    <3>1. CASE i <= h
      <4>1. i \in 1 .. h
        BY <1>3, <3>1
      <4> QED BY <1>5, <1>7, <4>1 DEF ToSet
    <3>2. CASE i > h
      <4>1. i - h \in 1 .. (n - h) /\ h + (i - h) = i
        BY <1>1, <1>3, <3>2
      <4>2. r[i - h] = s[i]
        BY <1>6, <4>1
      <4> QED BY <1>7, <4>1, <4>2 DEF ToSet
    <3> QED BY <1>3, <3>1, <3>2
  <2>2. ASSUME NEW i \in 1 .. h PROVE l[i] \in ToSet(s)
    <3>1. i \in 1 .. n
      BY <1>1, <1>3
    <3> QED BY <1>4, <1>5, <3>1 DEF ToSet
  <2>3. ASSUME NEW i \in 1 .. (n - h) PROVE r[i] \in ToSet(s)
    <3>1. h + i \in 1 .. n
      BY <1>1, <1>3
    <3> QED BY <1>4, <1>6, <3>1 DEF ToSet
  <2> QED BY <1>4, <1>7, <2>1, <2>2, <2>3 DEF ToSet
<1>9. l \in Wrappers /\ r \in Wrappers
  BY <1>1, <1>3, <1>5, <1>6 DEF Wrappers
<1> QED BY <1>1, <1>3, <1>5, <1>6, <1>8, <1>9 DEF l, r, n

\* A call sorts when the calls it makes do.
LEMMA CallSorts ==
    ASSUME NEW s \in Wrappers, NEW f,
           \A t \in Wrappers : Len(t) < Len(s) => Sorts(t, f[t])
    PROVE  Sorts(s, Call(f, s))
<1>1. CASE Len(s) < SmallN
  <2>1. s \in Seq(Wrapper)
    BY DEF Wrappers
  <2> QED BY <1>1, <2>1, SmallSorts DEF Call
<1>2. CASE ~(Len(s) < SmallN)
  <2> DEFINE l == f[LeftHalf(s)]
             r == f[RightHalf(s)]
             m == merge(l, r)
  <2>1. Sorts(LeftHalf(s), l) /\ Sorts(RightHalf(s), r)
    BY <1>2, HalvesOf
  <2>2. /\ l \in Seq(Wrapper) /\ InOrder(l)
        /\ r \in Seq(Wrapper) /\ InOrder(r)
        /\ Len(l) = Len(LeftHalf(s)) /\ ToSet(l) = ToSet(LeftHalf(s))
        /\ Len(r) = Len(RightHalf(s)) /\ ToSet(r) = ToSet(RightHalf(s))
    BY <2>1 DEF Sorts, Rearranges
  <2> HIDE DEF l, r
  <2>3. /\ m \in Seq(Wrapper) /\ InOrder(m)
        /\ Len(m) = Len(l) + Len(r)
        /\ ToSet(m) = ToSet(l) \union ToSet(r)
    BY <2>2, MergeKeeps, MergeOrders
  <2>4. /\ Len(LeftHalf(s)) + Len(RightHalf(s)) = Len(s)
        /\ ToSet(s) = ToSet(LeftHalf(s)) \union ToSet(RightHalf(s))
    BY <1>2, HalvesOf
  <2>5. Call(f, s) = m
    BY <1>2 DEF Call, l, r
  <2> HIDE DEF m
  <2> QED BY <2>2, <2>3, <2>4, <2>5 DEF Sorts, Rearranges
<1> QED BY <1>1, <1>2

\* Two functions that agree on the halves of s make the same call.
LEMMA SameCall ==
    ASSUME NEW s \in Wrappers, NEW f, NEW g,
           \A t \in Wrappers : Len(t) < Len(s) => f[t] = g[t]
    PROVE  Call(f, s) = Call(g, s)
<1>1. CASE Len(s) < SmallN
  BY <1>1 DEF Call
<1>2. CASE ~(Len(s) < SmallN)
  <2>1. f[LeftHalf(s)] = g[LeftHalf(s)] /\ f[RightHalf(s)] = g[RightHalf(s)]
    BY <1>2, HalvesOf
  <2> QED BY <1>2, <2>1 DEF Call
<1> QED BY <1>1, <1>2

\* The recursion has a solution, on queues of at most n requests for every n.
LEMMA SortExists == \E f : IsSort(f, MaxLen)
<1> DEFINE Good == {n \in Int : \E f : IsSort(f, n)}
<1>1. MaxLen \in Nat
  BY SortAssumption
<1>2. \A s \in Wrappers : Len(s) \in Nat
  BY DEF Wrappers
<1>3. -1 \in Good
  <2>1. Shorter(-1) = {}
    BY <1>2 DEF Shorter
  <2> DEFINE f == [s \in Shorter(-1) |-> Call(<<>>, s)]
  <2>2. f = [s \in Shorter(-1) |-> Call(f, s)]
    BY <2>1
  <2> HIDE DEF f
  <2>3. IsSort(f, -1)
    BY <2>2 DEF IsSort
  <2>4. -1 \in Int
    OBVIOUS
  <2> QED BY <2>3, <2>4
<1>4. ASSUME NEW n \in ((-1) + 1) .. MaxLen, n - 1 \in Good PROVE n \in Good
  <2>1. PICK f : IsSort(f, n - 1)
    BY <1>4
  <2>2. n \in Int
    BY <1>1
  <2> DEFINE g == [s \in Shorter(n) |-> IF Len(s) <= n - 1 THEN f[s] ELSE Call(f, s)]
  <2>3. \A s \in Shorter(n - 1) : f[s] = Call(f, s)
    BY <2>1 DEF IsSort
  <2>4. \A s \in Shorter(n) : g[s] = Call(f, s)
    BY <2>3 DEF Shorter
  <2>5. ASSUME NEW s \in Shorter(n) PROVE Call(f, s) = Call(g, s)
    <3>1. s \in Wrappers /\ Len(s) <= n
      BY DEF Shorter
    <3>2. ASSUME NEW t \in Wrappers, Len(t) < Len(s) PROVE f[t] = g[t]
      <4>1. Len(t) <= n - 1 /\ Len(t) <= n
        BY <1>2, <2>2, <3>1, <3>2
      <4>2. t \in Shorter(n)
        BY <4>1 DEF Shorter
      <4> QED BY <4>1, <4>2
    <3> HIDE DEF g
    <3> QED BY <3>1, <3>2, SameCall
  <2>6. g = [s \in Shorter(n) |-> g[s]]
    OBVIOUS
  <2> HIDE DEF g
  <2>7. IsSort(g, n)
    BY <2>4, <2>5, <2>6 DEF IsSort
  <2> QED BY <2>2, <2>7
<1>5. MaxLen \in (-1) .. MaxLen /\ -1 \in Int /\ MaxLen \in Int
  BY <1>1
<1>6. MaxLen \in Good
  <2> HIDE DEF Good
  <2> QED BY <1>3, <1>4, <1>5, RangeInduction
<1> QED BY <1>6

\* sort is defined as the solution of its recursion.
LEMMA SortIs == sort = CHOOSE f : f = [s \in Wrappers |-> Call(f, s)]
BY DEF sort, Call, LeftHalf, RightHalf

\* What sort returns is one call of it.
LEMMA SortCalls == \A s \in Wrappers : sort[s] = Call(sort, s)
<1>1. Shorter(MaxLen) = Wrappers
  BY DEF Shorter, Wrappers
<1>2. \E f : f = [s \in Wrappers |-> Call(f, s)]
  BY <1>1, SortExists DEF IsSort
<1>3. sort = [s \in Wrappers |-> Call(sort, s)]
  BY <1>2, SortIs
<1> QED BY <1>3

\* sort returns the queue's requests in ascending order of their keys, for every
\* SMALL_N of at least 2 and every length.
THEOREM SortSorts == \A s \in Wrappers : Sorts(s, sort[s])
<1> DEFINE Good == {n \in Nat : \A s \in Wrappers : Len(s) = n => Sorts(s, sort[s])}
<1>1. \A s \in Wrappers : Len(s) \in Nat
  BY DEF Wrappers
<1>2. ASSUME NEW n \in Nat, \A m \in Nat : m < n => m \in Good PROVE n \in Good
  <2>1. ASSUME NEW s \in Wrappers, Len(s) = n PROVE Sorts(s, sort[s])
    <3>1. \A t \in Wrappers : Len(t) < Len(s) => Sorts(t, sort[t])
      BY <1>1, <1>2, <2>1
    <3>2. Sorts(s, Call(sort, s))
      BY <3>1, CallSorts
    <3> QED BY <3>2, SortCalls
  <2> QED BY <2>1
<1>3. \A n \in Nat : n \in Good
  <2> HIDE DEF Good
  <2> QED BY <1>2, StrongInduction
<1> QED BY <1>1, <1>3

(***************************************************************************)
(* The queue before and after the reader sorts it.                         *)
(***************************************************************************)

SortInv ==
    /\ arrived \in Wrappers
    /\ Rearranges(arrived, queue)
    /\ Ascending

\* SortInv is inductive.
LEMMA SortInitial == SortInit => SortInv
<1> SUFFICES ASSUME SortInit PROVE SortInv
  OBVIOUS
<1>1. PICK n \in 0 .. MaxLen : arrived \in Arrivals(n)
  BY DEF SortInit
<1>2. PICK k \in [1 .. n -> Keys] : arrived = [i \in 1 .. n |-> [key |-> k[i], data |-> i]]
  BY <1>1 DEF Arrivals
<1>3. n \in Nat /\ n <= MaxLen /\ MaxLen \in Nat
  BY SortAssumption
<1>4. \A i \in 1 .. n : [key |-> k[i], data |-> i] \in Wrapper
  BY <1>3 DEF Wrapper
<1>5. arrived \in [1 .. n -> Wrapper]
  BY <1>2, <1>4
<1>6. arrived \in Seq(Wrapper) /\ Len(arrived) = n
  BY <1>3, <1>5
<1>7. arrived \in Wrappers
  BY <1>3, <1>6 DEF Wrappers
<1> QED BY <1>6, <1>7 DEF SortInv, Rearranges, Ascending, SortInit

LEMMA SortStep == SortInv /\ [Sort]_SortVars => SortInv'
<1> SUFFICES ASSUME SortInv, [Sort]_SortVars PROVE SortInv'
  OBVIOUS
<1>1. CASE UNCHANGED SortVars
  BY <1>1 DEF SortInv, SortVars, Rearranges, Ascending, InOrder, ToSet
<1>2. CASE Sort
  <2>1. /\ queue \in Seq(Wrapper) /\ Len(queue) = Len(arrived)
        /\ ToSet(queue) = ToSet(arrived) /\ arrived \in Wrappers
    BY DEF SortInv, Rearranges
  <2>2. queue \in Wrappers
    BY <2>1 DEF Wrappers
  <2>3. Sorts(queue, queue')
    BY <1>2, <2>2, SortSorts DEF Sort
  <2>4. arrived' = arrived
    BY <1>2 DEF Sort
  <2>5. Rearranges(arrived, queue')
    BY <2>1, <2>3 DEF Sorts, Rearranges
  <2>6. InOrder(queue')
    BY <2>3 DEF Sorts
  <2> QED BY <2>1, <2>4, <2>5, <2>6 DEF SortInv, Rearranges, Ascending, InOrder
<1> QED BY <1>1, <1>2

\* Once the reader has sorted its queue, it holds every request that was queued,
\* each once, by ascending LBA.
THEOREM QueueIsSorted == SortSpec => []AscendingPermutation
<1>1. SortInv => AscendingPermutation
  BY DEF SortInv, AscendingPermutation, KeepsEveryRequest, Rearranges
<1> QED BY <1>1, SortInitial, SortStep, PTL DEF SortSpec
\* A rearrangement of different elements has different elements.
LEMMA AllDifferent ==
    ASSUME NEW s \in Seq(Wrapper), NEW r, Rearranges(s, r), IsInjective(s)
    PROVE  IsInjective(r)
<1> DEFINE n == Len(r)
<1>1. n \in Nat /\ DOMAIN r = 1 .. n /\ r \in Seq(Wrapper)
  BY DEF Rearranges
<1>2. Cardinality(ToSet(r)) = n
  BY ElemsCount DEF Rearranges
<1> HIDE DEF n
<1>3. IsFiniteSet(1 .. n) /\ Cardinality(1 .. n) = n
  <2>1. CASE n = 0
    <3>1. 1 .. n = {}
      BY <2>1
    <3> QED BY <2>1, <3>1, FS_EmptySet
  <2>2. CASE n # 0
    <3>1. 1 <= n /\ n - 1 + 1 = n /\ 1 \in Int /\ n \in Int
      BY <1>1, <2>2
    <3>2. IsFiniteSet(1 .. n) /\ Cardinality(1 .. n) = n - 1 + 1
      BY <3>1, FS_Interval
    <3> QED BY <3>1, <3>2
  <2> QED BY <2>1, <2>2
<1>4. r \in Surjection(1 .. n, ToSet(r))
  BY <1>1 DEF Surjection, ToSet
<1>5. r \in Injection(1 .. n, ToSet(r))
  BY <1>2, <1>3, <1>4, FS_SurjSameCardinalityImpliesInj
<1> QED BY <1>5 DEF Injection

\* No request is in the queue twice, before the sort or after it: each is issued once.
THEOREM EachIssuedOnce == SortSpec => []IsInjective(queue)
<1> DEFINE Once == SortInv /\ IsInjective(arrived)
<1>1. SortInit => Once
  <2> SUFFICES ASSUME SortInit PROVE IsInjective(arrived)
    BY SortInitial
  <2>1. PICK n \in 0 .. MaxLen : arrived \in Arrivals(n)
    BY DEF SortInit
  <2>2. PICK k \in [1 .. n -> Keys] : arrived = [i \in 1 .. n |-> [key |-> k[i], data |-> i]]
    BY <2>1 DEF Arrivals
  <2> QED BY <2>2 DEF IsInjective
<1>2. Once /\ [Sort]_SortVars => Once'
  <2> SUFFICES ASSUME Once, [Sort]_SortVars PROVE IsInjective(arrived)'
    BY SortStep
  <2>1. arrived' = arrived
    BY DEF Sort, SortVars
  <2> QED BY <2>1 DEF IsInjective
<1>3. Once => IsInjective(queue)
  BY AllDifferent DEF SortInv, Wrappers
<1> QED BY <1>1, <1>2, <1>3, PTL DEF SortSpec

=============================================================================
