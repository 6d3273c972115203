---------------------------- MODULE GlideProofs ----------------------------
(***************************************************************************)
(* GlideEngine, for every set of requests, batch size, timeout, profile,    *)
(* batcher and scheduler: no request is lost or served twice, none ends     *)
(* later than one submitted after it, HASP counts each starved request      *)
(* once, and the engine implements BatchService.                            *)
(***************************************************************************)
EXTENDS GlideEngine, SequenceTheorems, FiniteSetTheorems, TLAPS

(***************************************************************************)
(* Sequences without repetition and their elements.                         *)
(***************************************************************************)

\* What the elements of a sequence are.
LEMMA ElementsType ==
  ASSUME NEW S, NEW s \in Seq(S)
  PROVE  /\ Elements(s) \subseteq S
         /\ IsFiniteSet(Elements(s))
         /\ \A x : x \in Elements(s) <=> \E i \in 1 .. Len(s) : s[i] = x
         /\ s = << >> <=> Elements(s) = {}
<1>1. Len(s) \in Nat /\ s \in [1 .. Len(s) -> S]
  BY LenProperties
<1>2. \A x : x \in Elements(s) <=> \E i \in 1 .. Len(s) : s[i] = x
  BY DEF Elements
<1>3. Elements(s) \subseteq S
  BY <1>1, <1>2
<1>4. IsFiniteSet(Elements(s))
  <2>1. s \in Surjection(1 .. Len(s), Elements(s))
    BY <1>1, <1>2 DEF Surjection
  <2> QED BY <1>1, <2>1, FS_Interval, FS_Surjection
<1>5. s = << >> <=> Elements(s) = {}
  <2>1. s # << >> => Len(s) \in Nat \ {0}
    BY EmptySeq
  <2>2. s # << >> => 1 \in 1 .. Len(s)
    BY <2>1
  <2>3. s = << >> => Len(s) = 0
    BY EmptySeq
  <2> QED BY <1>2, <2>2, <2>3
<1> QED BY <1>2, <1>3, <1>4, <1>5

\* A sequence after an append.
LEMMA AppendDistinct ==
  ASSUME NEW S, NEW s \in Seq(S), NEW e \in S
  PROVE  /\ Append(s, e) \in Seq(S)
         /\ Elements(Append(s, e)) = Elements(s) \cup {e}
         /\ Distinct(s) /\ e \notin Elements(s) => Distinct(Append(s, e))
<1> DEFINE t == Append(s, e)
<1>1. /\ t \in Seq(S) /\ Len(s) \in Nat /\ Len(t) = Len(s) + 1
      /\ \A i \in 1 .. Len(s) : t[i] = s[i]
      /\ t[Len(s) + 1] = e
  BY AppendProperties, LenProperties
<1> HIDE DEF t
<1>2. Elements(t) = Elements(s) \cup {e}
  BY <1>1 DEF Elements
<1>3. ASSUME Distinct(s), e \notin Elements(s) PROVE Distinct(t)
  <2>1. \A i \in 1 .. Len(s) : s[i] # e
    BY <1>3 DEF Elements
  <2>2. \A i \in 1 .. Len(t) : i \in 1 .. Len(s) \/ i = Len(s) + 1
    BY <1>1
  <2> QED BY <1>1, <1>3, <2>1, <2>2 DEF Distinct
<1> QED BY <1>1, <1>2, <1>3 DEF t

\* A sequence without its element i.
LEMMA WithoutDistinct ==
  ASSUME NEW S, NEW s \in Seq(S), NEW i \in 1 .. Len(s), Distinct(s)
  PROVE  /\ Without(s, i) \in Seq(S)
         /\ Len(Without(s, i)) = Len(s) - 1
         /\ \A j \in 1 .. Len(s) - 1 :
              Without(s, i)[j] = IF j < i THEN s[j] ELSE s[j + 1]
         /\ Elements(Without(s, i)) = Elements(s) \ {s[i]}
         /\ Distinct(Without(s, i))
<1> DEFINE a == SubSeq(s, 1, i - 1)
           b == SubSeq(s, i + 1, Len(s))
           t == Without(s, i)
<1>1. Len(s) \in Nat /\ \A j \in 1 .. Len(s) : s[j] \in S
  BY LenProperties, ElementOfSeq
<1>2. /\ a \in Seq(S) /\ Len(a) = i - 1
      /\ \A j \in 1 .. i - 1 : a[j] = s[j]
  <2>1. \A j \in 1 .. i - 1 : s[j] \in S
    BY <1>1
  <2> HIDE DEF a
  <2>2. /\ a \in Seq(S) /\ Len(a) = IF 1 <= i - 1 THEN i - 1 - 1 + 1 ELSE 0
        /\ \A j \in 1 .. i - 1 - 1 + 1 : a[j] = s[1 + j - 1]
    BY <1>1, <2>1, SubSeqProperties, 1 \in Int, i - 1 \in Int DEF a
  <2> QED BY <2>2
<1>3. /\ b \in Seq(S) /\ Len(b) = Len(s) - i
      /\ \A j \in 1 .. Len(s) - i : b[j] = s[i + j]
  <2>1. \A j \in i + 1 .. Len(s) : s[j] \in S
    BY <1>1
  <2> HIDE DEF b
  <2>2. /\ b \in Seq(S) /\ Len(b) = IF i + 1 <= Len(s) THEN Len(s) - (i + 1) + 1 ELSE 0
        /\ \A j \in 1 .. Len(s) - (i + 1) + 1 : b[j] = s[i + 1 + j - 1]
    BY <1>1, <2>1, SubSeqProperties, i + 1 \in Int, Len(s) \in Int DEF b
  <2> QED BY <1>1, <2>2
<1>4. t = a \o b
  BY DEF Without
<1> HIDE DEF a, b, t
<1>5. /\ t \in Seq(S) /\ Len(t) = Len(s) - 1
      /\ \A j \in 1 .. Len(s) - 1 : t[j] = IF j < i THEN s[j] ELSE s[j + 1]
  <2>1. /\ t \in Seq(S) /\ Len(t) = Len(a) + Len(b)
        /\ \A j \in 1 .. Len(a) + Len(b) :
              t[j] = IF j <= Len(a) THEN a[j] ELSE b[j - Len(a)]
    BY <1>2, <1>3, <1>4, ConcatProperties
  <2>2. Len(t) = Len(s) - 1
    BY <1>1, <1>2, <1>3, <2>1
  <2>3. ASSUME NEW j \in 1 .. Len(s) - 1
        PROVE  t[j] = IF j < i THEN s[j] ELSE s[j + 1]
    <3>1. CASE j < i
      <4>1. Len(a) = i - 1 /\ j <= Len(a) /\ j \in 1 .. (i - 1) /\ j \in 1 .. Len(a) + Len(b)
        BY <1>1, <1>2, <1>3, <3>1
      <4> QED BY <1>2, <2>1, <3>1, <4>1
    <3>2. CASE j >= i
      <4>1. j - Len(a) \in 1 .. Len(s) - i /\ i + (j - Len(a)) = j + 1
        BY <1>1, <1>2, <3>2
      <4>2. t[j] = b[j - Len(a)]
        <5>1. j \in 1 .. Len(a) + Len(b) /\ ~(j <= Len(a))
          BY <1>1, <1>2, <1>3, <3>2
        <5> QED BY <2>1, <5>1
      <4>3. b[j - Len(a)] = s[j + 1]
        BY <1>3, <4>1
      <4> QED BY <3>2, <4>2, <4>3
    <3> QED BY <1>1, <3>1, <3>2
  <2> QED BY <2>1, <2>2, <2>3
<1>6. Elements(t) = Elements(s) \ {s[i]}
  <2>1. ASSUME NEW x \in Elements(t) PROVE x \in Elements(s) \ {s[i]}
    <3>1. PICK j \in 1 .. Len(s) - 1 : x = t[j]
      BY <1>5, <2>1 DEF Elements
    <3>2. PICK k \in 1 .. Len(s) : k # i /\ x = s[k]
      BY <1>1, <1>5, <3>1
    <3> QED BY <3>2, Distinct(s) DEF Elements, Distinct
  <2>2. ASSUME NEW x \in Elements(s) \ {s[i]} PROVE x \in Elements(t)
    <3>1. PICK k \in 1 .. Len(s) : k # i /\ x = s[k]
      BY <2>2 DEF Elements
    <3>2. CASE k < i
      <4>1. k \in 1 .. Len(s) - 1 /\ t[k] = x
        BY <1>1, <1>5, <3>1, <3>2
      <4> QED BY <1>5, <4>1 DEF Elements
    <3>3. CASE k > i
      <4>1. k - 1 \in 1 .. Len(s) - 1 /\ t[k - 1] = x
        BY <1>1, <1>5, <3>1, <3>3
      <4> QED BY <1>5, <4>1 DEF Elements
    <3> QED BY <1>1, <3>1, <3>2, <3>3
  <2> QED BY <2>1, <2>2
<1>7. Distinct(t)
  <2>1. SUFFICES ASSUME NEW j \in 1 .. Len(s) - 1, NEW k \in 1 .. Len(s) - 1, t[j] = t[k]
                 PROVE  j = k
    BY <1>5 DEF Distinct
  <2> DEFINE old(n) == IF n < i THEN n ELSE n + 1
  <2>2. old(j) \in 1 .. Len(s) /\ old(k) \in 1 .. Len(s)
    BY <1>1
  <2>3. t[j] = s[old(j)] /\ t[k] = s[old(k)]
    BY <1>5
  <2>4. old(j) = old(k)
    BY <2>1, <2>2, <2>3, Distinct(s) DEF Distinct
  <2> QED BY <1>1, <2>4
<1> QED BY <1>5, <1>6, <1>7 DEF t

\* Two sequences put together.
LEMMA ConcatDistinct ==
  ASSUME NEW S, NEW s \in Seq(S), NEW t \in Seq(S)
  PROVE  /\ s \o t \in Seq(S)
         /\ Elements(s \o t) = Elements(s) \cup Elements(t)
         /\ Distinct(s) /\ Distinct(t) /\ Elements(s) \cap Elements(t) = {}
              => Distinct(s \o t)
<1> DEFINE u == s \o t
<1>1. /\ u \in Seq(S) /\ Len(s) \in Nat /\ Len(t) \in Nat
      /\ Len(u) = Len(s) + Len(t)
      /\ \A i \in 1 .. Len(u) : u[i] = IF i <= Len(s) THEN s[i] ELSE t[i - Len(s)]
  BY ConcatProperties, LenProperties
<1> HIDE DEF u
<1>2. \A i \in 1 .. Len(s) : i \in 1 .. Len(u) /\ u[i] = s[i]
  BY <1>1
<1>3. ASSUME NEW i \in 1 .. Len(t)
      PROVE  Len(s) + i \in 1 .. Len(u) /\ u[Len(s) + i] = t[i]
  <2>1. Len(s) + i \in 1 .. Len(u) /\ ~(Len(s) + i <= Len(s)) /\ Len(s) + i - Len(s) = i
    BY <1>1
  <2>2. u[Len(s) + i] = t[Len(s) + i - Len(s)]
    BY <1>1, <2>1
  <2> QED BY <2>1, <2>2
<1>4. \A i \in 1 .. Len(u) : \/ i \in 1 .. Len(s)
                             \/ i - Len(s) \in 1 .. Len(t) /\ u[i] = t[i - Len(s)]
  BY <1>1
<1>5. Elements(u) = Elements(s) \cup Elements(t)
  <2>1. Elements(u) \subseteq Elements(s) \cup Elements(t)
    BY <1>2, <1>4 DEF Elements
  <2>2. Elements(s) \subseteq Elements(u)
    BY <1>2 DEF Elements
  <2>3. Elements(t) \subseteq Elements(u)
    BY <1>3 DEF Elements
  <2> QED BY <2>1, <2>2, <2>3
<1>6. ASSUME Distinct(s), Distinct(t), Elements(s) \cap Elements(t) = {}
      PROVE  Distinct(u)
  <2>1. SUFFICES ASSUME NEW i \in 1 .. Len(u), NEW j \in 1 .. Len(u), u[i] = u[j]
                 PROVE  i = j
    BY DEF Distinct
  <2> DEFINE InS(k) == k \in 1 .. Len(s) /\ u[k] \in Elements(s)
             InT(k) == k \notin 1 .. Len(s) /\ u[k] \in Elements(t)
  <2>0. \A k \in 1 .. Len(u) : InS(k) \/ InT(k)
    BY <1>2, <1>4 DEF Elements
  <2>2. CASE i \in 1 .. Len(s) /\ j \in 1 .. Len(s)
    BY <1>2, <1>6, <2>1, <2>2 DEF Distinct
  <2>3. CASE i \notin 1 .. Len(s) /\ j \notin 1 .. Len(s)
    <3>1. i - Len(s) = j - Len(s)
      BY <1>4, <1>6, <2>1, <2>3 DEF Distinct
    <3> QED BY <1>1, <3>1
  <2>4. CASE i \in 1 .. Len(s) /\ j \notin 1 .. Len(s)
    BY <1>6, <2>0, <2>1, <2>4
  <2>5. CASE i \notin 1 .. Len(s) /\ j \in 1 .. Len(s)
    BY <1>6, <2>0, <2>1, <2>5
  <2> QED BY <2>2, <2>3, <2>4, <2>5
<1> QED BY <1>1, <1>5, <1>6 DEF u

(***************************************************************************)
(* The inductive invariant.  A request is in the queue, ordered, completed  *)
(* or forgotten (Places); what the batcher selected is the front of the     *)
(* queue (Selection), which is in the order of submission, and whatever     *)
(* left it did so before those behind (InOrder).                            *)
(***************************************************************************)

\* r was submitted before s.
Before(r, s) == \E i, j \in 1 .. Len(submitted) :
                  i < j /\ submitted[i] = r /\ submitted[j] = s

Places ==
  /\ Distinct(submitted) /\ Distinct(queue) /\ Distinct(ordered) /\ Distinct(completed)
  /\ Elements(queue) \cap Elements(ordered) = {}
  /\ Elements(queue) \cap Elements(completed) = {}
  /\ Elements(ordered) \cap Elements(completed) = {}
  /\ Elements(submitted) = Elements(queue) \cup Elements(ordered)
                             \cup Elements(completed) \cup forgotten
  /\ forgotten \cap (Elements(queue) \cup Elements(ordered)
                       \cup Elements(completed)) = {}

Selection ==
  /\ Len(selected) <= Len(queue)
  /\ \A i \in 1 .. Len(selected) : selected[i] = queue[i]
  /\ batch = << >> => selected = << >> /\ ordered = << >>
  /\ Elements(batch) = Elements(selected) \cup Elements(ordered)
  /\ Len(batch) <= BatchSize

InOrder ==
  /\ \A i, j \in 1 .. Len(queue) : Before(queue[i], queue[j]) => i < j
  /\ \A r, s \in Requests : Before(r, s) =>
       /\ s \in Elements(ordered) => r \notin Elements(queue) \ Elements(selected)
       /\ s \in Elements(completed) => r \notin Elements(queue) \cup Elements(ordered)
       /\ s \in Elements(completed) /\ r \in Elements(completed) => ended[r] <= ended[s]
  /\ \A r \in Elements(completed) : ended[r] <= now

Inv == TypeOK /\ Places /\ Selection /\ InOrder

\* What is selected is in the queue, once.
LEMMA SelectedQueued ==
  ASSUME TypeOK, Distinct(queue), Selection
  PROVE  Distinct(selected) /\ Elements(selected) \subseteq Elements(queue)
<1>1. Len(selected) \in Nat /\ Len(queue) \in Nat
  BY LenProperties DEF TypeOK
<1>2. \A i \in 1 .. Len(selected) : i \in 1 .. Len(queue) /\ selected[i] = queue[i]
  BY <1>1 DEF Selection
<1> QED BY <1>2 DEF Distinct, Elements

\* Whatever the batcher, its batch is the front of the queue and not too long.
LEMMA SelectBatchIsFront ==
  ASSUME TypeOK, NEW flush \in BOOLEAN
  PROVE  /\ SelectBatch(flush) \in Seq(Requests)
         /\ Len(SelectBatch(flush)) <= Least(BatchSize, Len(queue))
         /\ \A i \in 1 .. Len(SelectBatch(flush)) : SelectBatch(flush)[i] = queue[i]
<1> DEFINE n == Least(BatchSize, Len(queue))
<1>1. /\ Len(queue) \in Nat /\ \A i \in 1 .. Len(queue) : queue[i] \in Requests
      /\ queue \in Seq(Requests)
  BY LenProperties, ElementOfSeq DEF TypeOK
<1>2. n \in Nat /\ n <= Len(queue) /\ n <= BatchSize /\ (Len(queue) < BatchSize => n = Len(queue))
  BY <1>1, BatchSizeAssumption DEF Least
<1> HIDE DEF n
<1>3. /\ Front \in Seq(Requests) /\ Len(Front) = n
      /\ \A i \in 1 .. n : Front[i] = queue[i]
  <2>1. \A i \in 1 .. n : queue[i] \in Requests
    BY <1>1, <1>2
  <2>2. /\ SubSeq(queue, 1, n) \in Seq(Requests)
        /\ Len(SubSeq(queue, 1, n)) = IF 1 <= n THEN n - 1 + 1 ELSE 0
        /\ \A i \in 1 .. n - 1 + 1 : SubSeq(queue, 1, n)[i] = queue[1 + i - 1]
    BY <1>2, <2>1, SubSeqProperties, 1 \in Int, n \in Int
  <2> QED BY <1>2, <2>2 DEF Front, n
<1> DEFINE t == SelectBatch(flush)
<1>4. /\ << >> \in Seq(Requests) /\ Len(<< >>) = 0
  BY EmptySeq
<1>5. t = Front \/ t = << >> \/ (t = queue /\ Len(queue) < BatchSize)
  <2>1. batcher \in {"static", "dynamic", "continuous"}
    BY BatchersAssumption DEF TypeOK
  <2>2. CASE batcher = "static"
    BY <1>1, <2>2, BatchSizeAssumption DEF SelectBatch, StaticBatch
  <2>3. CASE batcher = "dynamic"
    BY <1>1, <2>3, BatchSizeAssumption DEF SelectBatch, DynamicBatch
  <2>4. CASE batcher = "continuous"
    BY <2>4 DEF SelectBatch
  <2> QED BY <2>1, <2>2, <2>3, <2>4
<1> HIDE DEF t
<1>6. CASE t = Front
  BY <1>2, <1>3, <1>6 DEF t, n
<1>7. CASE t = << >>
  BY <1>2, <1>4, <1>7 DEF t, n
<1>8. CASE t = queue /\ Len(queue) < BatchSize
  BY <1>1, <1>2, <1>8 DEF t, n
<1> QED BY <1>5, <1>6, <1>7, <1>8

\* The invariant holds in a new engine.
LEMMA InitInv == Init => Inv
<1> SUFFICES ASSUME Init PROVE Inv
  OBVIOUS
<1>1. << >> \in Seq(Requests) /\ Len(<< >>) = 0 /\ Elements(<< >>) = {} /\ Distinct(<< >>)
  BY EmptySeq DEF Elements, Distinct
<1>2. TypeOK
  BY <1>1 DEF Init, TypeOK
<1>3. Places
  BY <1>1 DEF Init, Places
<1>4. Selection
  BY <1>1, BatchSizeAssumption DEF Init, Selection
<1>5. InOrder
  BY <1>1 DEF Init, InOrder, Before
<1> QED BY <1>2, <1>3, <1>4, <1>5 DEF Inv

\* Nothing to show for a step that leaves requests and batches alone.
LEMMA IdleStep ==
  ASSUME Inv, UNCHANGED <<policy, batcher, engine, times, history>>,
         now' \in Nat, now' >= now, starved' \subseteq Requests,
         starvation' \in Nat, is_running' \in BOOLEAN
  PROVE  Inv'
<1> USE DEF engine, times, history
<1>1. TypeOK'
  BY DEF Inv, TypeOK
<1>2. Places'
  BY DEF Inv, Places
<1>3. Selection'
  BY DEF Inv, Selection
<1>4. InOrder'
  <2>1. \A r \in Elements(completed) : r \in Requests /\ ended[r] \in Nat
    BY ElementsType DEF Inv, TypeOK
  <2>2. \A r \in Elements(completed)' : ended'[r] <= now'
    BY <2>1 DEF Inv, InOrder, TypeOK
  <2>3. \A r, s : Before(r, s)' <=> Before(r, s)
    BY DEF Before
  <2> QED BY <2>2, <2>3 DEF Inv, InOrder
<1> QED BY <1>1, <1>2, <1>3, <1>4 DEF Inv

\* What a submission adds to the order of submission.
LEMMA SubmittedLater ==
  ASSUME TypeOK, NEW r \in Requests, r \notin Elements(submitted),
         submitted' = Append(submitted, r)
  PROVE  \A x, y : Before(x, y)' => \/ Before(x, y)
                                    \/ x \in Elements(submitted) /\ y = r
<1>1. /\ Len(submitted) \in Nat /\ Len(submitted') = Len(submitted) + 1
      /\ \A i \in 1 .. Len(submitted) : submitted'[i] = submitted[i]
      /\ submitted'[Len(submitted) + 1] = r
  BY AppendProperties, LenProperties DEF TypeOK
<1>2. SUFFICES ASSUME NEW x, NEW y, Before(x, y)'
               PROVE  Before(x, y) \/ (x \in Elements(submitted) /\ y = r)
  OBVIOUS
<1>3. PICK i \in 1 .. Len(submitted'), j \in 1 .. Len(submitted') :
        i < j /\ submitted'[i] = x /\ submitted'[j] = y
  BY <1>2 DEF Before
<1>4. i \in 1 .. Len(submitted) /\ submitted[i] = x /\ x \in Elements(submitted)
  BY <1>1, <1>3 DEF Elements
<1>5. CASE j \in 1 .. Len(submitted)
  <2>1. submitted[j] = y
    BY <1>1, <1>3, <1>5
  <2> QED BY <1>3, <1>4, <1>5, <2>1 DEF Before
<1>6. CASE j = Len(submitted) + 1
  BY <1>1, <1>3, <1>4, <1>6
<1> QED BY <1>1, <1>5, <1>6

\* A new request goes to the end of the queue.
LEMMA SubmitInv ==
  ASSUME Inv, NEW r \in Requests, Submit(r)
  PROVE  Inv'
<1>1. /\ batch = << >> /\ selected = << >> /\ ordered = << >>
      /\ r \notin Elements(submitted)
      /\ queue' = Append(queue, r) /\ submitted' = Append(submitted, r)
      /\ UNCHANGED <<now, policy, batcher, selected, ordered, completed, begun,
                     ended, starved, starvation, is_running, forgotten, batch>>
  BY DEF Submit, IdleEngine, Inv, Selection
<1>2. /\ queue' \in Seq(Requests) /\ Elements(queue') = Elements(queue) \cup {r}
      /\ r \notin Elements(queue) /\ Distinct(queue')
  BY <1>1, AppendDistinct DEF Inv, TypeOK, Places
<1>3. /\ submitted' \in Seq(Requests) /\ Distinct(submitted')
      /\ Elements(submitted') = Elements(submitted) \cup {r}
  BY <1>1, AppendDistinct DEF Inv, TypeOK, Places
<1>4. TypeOK'
  <2>1. arrival' \in [Requests -> Nat]
    <3>1. PICK t \in 0 .. now : arrival' = [arrival EXCEPT ![r] = t]
      BY DEF Submit
    <3> QED BY <3>1 DEF Inv, TypeOK
  <2> QED BY <1>1, <1>2, <1>3, <2>1 DEF Inv, TypeOK
<1>5. Places'
  BY <1>1, <1>2, <1>3 DEF Inv, Places
<1>6. Selection'
  <2>1. /\ Len(queue') = Len(queue) + 1 /\ Len(queue) \in Nat /\ Len(selected) = 0
    BY <1>1, AppendProperties, LenProperties, EmptySeq DEF Inv, TypeOK
  <2> QED BY <1>1, <2>1 DEF Inv, Selection
<1>7. InOrder'
  <2>1. \A x, y : Before(x, y)' => \/ Before(x, y)
                                   \/ x \in Elements(submitted) /\ y = r
    BY <1>1, SubmittedLater DEF Inv
  <2>2. ASSUME NEW i \in 1 .. Len(queue'), NEW j \in 1 .. Len(queue'),
               Before(queue[i], queue[j])'
        PROVE  i < j
    <3>1. /\ Len(queue) \in Nat /\ Len(queue') = Len(queue) + 1
          /\ \A k \in 1 .. Len(queue) : queue'[k] = queue[k]
          /\ queue'[Len(queue) + 1] = r
      BY <1>1, AppendProperties, LenProperties DEF Inv, TypeOK
    <3>2. \/ Before(queue'[i], queue'[j])
          \/ queue'[i] \in Elements(submitted) /\ queue'[j] = r
      BY <2>1, <2>2
    <3>3. i \in 1 .. Len(queue) /\ queue'[i] = queue[i]
      <4>1. queue'[i] \in Elements(submitted)
        BY <3>2 DEF Before, Elements
      <4> QED BY <1>1, <3>1, <4>1
    <3>4. CASE j \in 1 .. Len(queue)
      <4>1. queue'[j] # r
        BY <1>2, <3>1, <3>4 DEF Elements
      <4> QED BY <3>1, <3>2, <3>3, <3>4, <4>1 DEF Inv, InOrder
    <3>5. CASE j = Len(queue) + 1
      BY <3>1, <3>3, <3>5
    <3> QED BY <3>1, <3>4, <3>5
  <2>3. r \notin Elements(completed)
    BY <1>1 DEF Inv, Places
  <2>4. Elements(ordered) = {}
    BY <1>1, ElementsType DEF Inv, TypeOK
  <2>5. ASSUME NEW x \in Requests, NEW y \in Requests, Before(x, y)',
               y \in Elements(completed)
        PROVE  /\ x \notin Elements(queue')
               /\ x \in Elements(completed) => ended[x] <= ended[y]
    <3>1. Before(x, y)
      BY <2>1, <2>3, <2>5
    <3>2. x # r
      BY <1>1, <3>1 DEF Before, Elements
    <3> QED BY <1>2, <2>5, <3>1, <3>2 DEF Inv, InOrder
  <2> QED BY <1>1, <2>2, <2>4, <2>5 DEF Inv, InOrder
<1> QED BY <1>4, <1>5, <1>6, <1>7 DEF Inv

\* The batcher's choice is the front of the queue.
LEMMA BeginBatchInv ==
  ASSUME Inv, NEW flush \in BOOLEAN, BeginBatch(flush)
  PROVE  Inv'
<1>1. /\ batch = << >> /\ selected = << >> /\ ordered = << >>
      /\ SelectBatch(flush) # << >>
      /\ selected' = SelectBatch(flush) /\ batch' = SelectBatch(flush)
      /\ UNCHANGED <<now, policy, batcher, queue, ordered, completed, arrival, begun,
                     ended, starved, starvation, is_running, submitted, forgotten>>
  BY DEF BeginBatch, IdleEngine, times, Inv, Selection
<1>2. /\ selected' \in Seq(Requests)
      /\ Len(selected') <= Least(BatchSize, Len(queue))
      /\ \A i \in 1 .. Len(selected') : selected'[i] = queue[i]
  BY <1>1, SelectBatchIsFront DEF Inv
<1>3. Len(selected') <= Len(queue) /\ Len(selected') <= BatchSize
  <2>1. Len(queue) \in Nat /\ Len(selected') \in Nat
    BY <1>2, LenProperties DEF Inv, TypeOK
  <2> QED BY <1>2, <2>1, BatchSizeAssumption DEF Least
<1>4. Elements(ordered) = {}
  BY <1>1, ElementsType DEF Inv, TypeOK
<1>5. TypeOK'
  BY <1>1, <1>2 DEF Inv, TypeOK
<1>6. Places'
  BY <1>1 DEF Inv, Places
<1>7. Selection'
  BY <1>1, <1>2, <1>3, <1>4 DEF Selection
<1>8. InOrder'
  BY <1>1, <1>4 DEF Inv, InOrder, Before
<1> QED BY <1>5, <1>6, <1>7, <1>8 DEF Inv

\* All of the queue and of what is completed is forgotten.
LEMMA ResetInv ==
  ASSUME Inv, Reset
  PROVE  Inv'
<1>1. /\ batch = << >> /\ selected = << >> /\ ordered = << >>
      /\ queue' = << >> /\ completed' = << >>
      /\ forgotten' = forgotten \cup Elements(queue) \cup Elements(completed)
      /\ UNCHANGED <<now, policy, batcher, selected, ordered, arrival, begun, ended,
                     starved, starvation, is_running, submitted, batch>>
  BY DEF Reset, IdleEngine, times, Inv, Selection
<1>2. /\ << >> \in Seq(Requests) /\ Len(<< >>) = 0
      /\ Elements(<< >>) = {} /\ Distinct(<< >>)
  BY EmptySeq DEF Elements, Distinct
<1>3. Elements(queue) \subseteq Requests /\ Elements(completed) \subseteq Requests
  BY ElementsType DEF Inv, TypeOK
<1>4. TypeOK'
  BY <1>1, <1>2, <1>3 DEF Inv, TypeOK
<1>5. Places'
  BY <1>1, <1>2 DEF Inv, Places
<1>6. Selection'
  BY <1>1, <1>2 DEF Inv, Selection
<1>7. InOrder'
  BY <1>1, <1>2 DEF InOrder
<1> QED BY <1>4, <1>5, <1>6, <1>7 DEF Inv

\* One turn of the loop takes the same request out of the choice and the queue.
LEMMA PickedOne ==
  ASSUME Inv, Pick
  PROVE  \E i \in 1 .. Len(selected) :
           /\ i \in 1 .. Len(queue) /\ queue[i] = selected[i]
           /\ selected' = Without(selected, i)
           /\ queue' = Without(queue, i)
           /\ ordered' = Append(ordered, queue[i])
<1>1. PICK i \in 1 .. Len(selected) :
        /\ selected' = Without(selected, i)
        /\ queue' = Dequeued(selected[i])
        /\ ordered' = Append(ordered, selected[i])
  BY DEF Pick
<1>2. i \in 1 .. Len(queue) /\ queue[i] = selected[i]
  <2>1. Len(queue) \in Nat /\ Len(selected) \in Nat
    BY LenProperties DEF Inv, TypeOK
  <2> QED BY <2>1 DEF Inv, Selection
<1>3. queue' = Without(queue, i)
  <2> DEFINE k == CHOOSE k \in 1 .. Len(queue) : queue[k] = selected[i]
  <2>1. k \in 1 .. Len(queue) /\ queue[k] = selected[i]
    BY <1>2
  <2>2. queue' = Without(queue, k)
    BY <1>1 DEF Dequeued
  <2> HIDE DEF k
  <2>3. k = i
    BY <1>2, <2>1 DEF Inv, Places, Distinct
  <2> QED BY <2>2, <2>3
<1> QED BY <1>1, <1>2, <1>3

LEMMA PickInv ==
  ASSUME Inv, Pick
  PROVE  Inv'
<1>1. PICK i \in 1 .. Len(selected) :
        /\ i \in 1 .. Len(queue) /\ queue[i] = selected[i]
        /\ selected' = Without(selected, i)
        /\ queue' = Without(queue, i)
        /\ ordered' = Append(ordered, queue[i])
  BY PickedOne
<1>2. UNCHANGED <<now, policy, batcher, completed, arrival, begun, ended,
                  is_running, submitted, forgotten, batch>>
  BY DEF Pick, times, history
<1> DEFINE x == queue[i]
<1>3. /\ Distinct(selected) /\ Elements(selected) \subseteq Elements(queue)
      /\ x \in Requests /\ x \in Elements(queue) /\ x \in Elements(selected)
      /\ Len(queue) \in Nat /\ Len(selected) \in Nat /\ Len(selected) <= Len(queue)
      /\ selected # << >>
  <2>1. Distinct(selected) /\ Elements(selected) \subseteq Elements(queue)
    BY SelectedQueued DEF Inv, Places
  <2>2. Len(queue) \in Nat /\ Len(selected) \in Nat /\ Len(selected) <= Len(queue)
    BY LenProperties DEF Inv, TypeOK, Selection
  <2>3. queue[i] \in Requests
    BY <1>1, ElementOfSeq DEF Inv, TypeOK
  <2>4. queue[i] \in Elements(queue) /\ queue[i] \in Elements(selected)
    BY <1>1 DEF Elements
  <2>5. selected # << >>
    BY DEF Pick
  <2> QED BY <2>1, <2>2, <2>3, <2>4, <2>5
<1>4. /\ queue' \in Seq(Requests) /\ Distinct(queue')
      /\ Elements(queue') = Elements(queue) \ {x}
      /\ Len(queue') = Len(queue) - 1
      /\ \A j \in 1 .. Len(queue) - 1 : queue'[j] = IF j < i THEN queue[j] ELSE queue[j + 1]
  <2>1. queue \in Seq(Requests) /\ Distinct(queue)
    BY DEF Inv, TypeOK, Places
  <2> DEFINE t == Without(queue, i)
  <2>2. /\ t \in Seq(Requests) /\ Distinct(t)
        /\ Elements(t) = Elements(queue) \ {queue[i]}
        /\ Len(t) = Len(queue) - 1
        /\ \A j \in 1 .. Len(queue) - 1 : t[j] = IF j < i THEN queue[j] ELSE queue[j + 1]
    <3>1. i \in 1 .. Len(queue)
      BY <1>1
    <3> QED BY <2>1, <3>1, WithoutDistinct
  <2>3. queue' = t
    BY <1>1
  <2> HIDE DEF t
  <2> QED BY <2>2, <2>3
<1>5. /\ selected' \in Seq(Requests)
      /\ Elements(selected') = Elements(selected) \ {x}
      /\ Len(selected') = Len(selected) - 1
      /\ \A j \in 1 .. Len(selected) - 1 :
           selected'[j] = IF j < i THEN selected[j] ELSE selected[j + 1]
  <2>1. selected \in Seq(Requests)
    BY DEF Inv, TypeOK
  <2> DEFINE t == Without(selected, i)
  <2>2. /\ t \in Seq(Requests) /\ Len(t) = Len(selected) - 1
        /\ \A j \in 1 .. Len(selected) - 1 :
             t[j] = IF j < i THEN selected[j] ELSE selected[j + 1]
        /\ Elements(t) = Elements(selected) \ {selected[i]}
    BY <1>3, <2>1, WithoutDistinct
  <2> QED BY <1>1, <2>2
<1>6. /\ ordered' \in Seq(Requests) /\ Distinct(ordered')
      /\ Elements(ordered') = Elements(ordered) \cup {x}
  <2>1. x \notin Elements(ordered) /\ Distinct(ordered) /\ ordered \in Seq(Requests)
    BY <1>3 DEF Inv, TypeOK, Places
  <2> QED BY <1>1, <1>3, <2>1, AppendDistinct
<1>7. TypeOK'
  <2>1. Starving \subseteq Requests /\ IsFiniteSet(Starving)
    <3>1. Elements(selected) \subseteq Requests /\ IsFiniteSet(Elements(selected))
      BY ElementsType DEF Inv, TypeOK
    <3>2. Starving \subseteq Elements(selected)
      BY DEF Starving
    <3> QED BY <3>1, <3>2, FS_Subset
  <2>2. starved' \subseteq Requests
    BY <2>1 DEF Pick, Inv, TypeOK
  <2>3. starvation' \in Nat
    <3>1. IsFiniteSet(NewlyStarved)
      BY <2>1, FS_Subset DEF NewlyStarved
    <3>2. Cardinality(NewlyStarved) \in Nat
      BY <3>1, FS_CardinalityType
    <3>3. starvation' = starvation + Cardinality(NewlyStarved) /\ starvation \in Nat
      BY DEF Pick, Inv, TypeOK
    <3> QED BY <3>2, <3>3
  <2> QED BY <1>2, <1>4, <1>5, <1>6, <2>2, <2>3 DEF Inv, TypeOK
<1>8. Places'
  BY <1>2, <1>3, <1>4, <1>6 DEF Inv, Places
<1>9. Selection'
  <2>1. ASSUME NEW j \in 1 .. Len(selected) - 1
        PROVE  selected'[j] = queue'[j]
    <3>1. /\ j \in 1 .. Len(queue) - 1
          /\ j \in 1 .. Len(selected) /\ j + 1 \in 1 .. Len(selected)
      BY <1>3
    <3>2. selected[j] = queue[j] /\ selected[j + 1] = queue[j + 1]
      BY <3>1 DEF Inv, Selection
    <3> QED BY <1>4, <1>5, <3>1, <3>2
  <2>2. batch # << >>
    BY <1>3 DEF Inv, Selection
  <2>3. Len(selected') <= Len(queue')
    BY <1>3, <1>4, <1>5
  <2>4. Elements(batch') = Elements(selected') \cup Elements(ordered')
    BY <1>2, <1>3, <1>5, <1>6 DEF Inv, Selection
  <2> QED BY <1>2, <1>5, <2>1, <2>2, <2>3, <2>4 DEF Inv, Selection
<1>10. InOrder'
  <2>1. \A r, s : Before(r, s)' <=> Before(r, s)
    BY <1>2 DEF Before
  <2>2. ASSUME NEW j \in 1 .. Len(queue'), NEW k \in 1 .. Len(queue'),
               Before(queue'[j], queue'[k])
        PROVE  j < k
    <3> DEFINE old(n) == IF n < i THEN n ELSE n + 1
    <3>1. /\ old(j) \in 1 .. Len(queue) /\ old(k) \in 1 .. Len(queue)
          /\ queue'[j] = queue[old(j)] /\ queue'[k] = queue[old(k)]
      BY <1>3, <1>4
    <3> HIDE DEF old
    <3>2. old(j) < old(k)
      BY <2>2, <3>1 DEF Inv, InOrder
    <3> QED BY <1>3, <1>4, <3>2 DEF old
  <2>3. ASSUME NEW r \in Requests, NEW s \in Requests, Before(r, s),
               s \in Elements(ordered')
        PROVE  r \notin Elements(queue') \ Elements(selected')
    <3>1. Elements(queue') \ Elements(selected') = Elements(queue) \ Elements(selected)
      BY <1>3, <1>4, <1>5
    <3>2. CASE s \in Elements(ordered)
      BY <2>3, <3>1, <3>2 DEF Inv, InOrder
    <3>3. CASE s = x /\ r \in Elements(queue) \ Elements(selected)
      <4>1. PICK p \in 1 .. Len(queue) : queue[p] = r
        BY <3>3 DEF Elements
      <4>2. p \notin 1 .. Len(selected)
        BY <3>3, <4>1 DEF Inv, Selection, Elements
      <4>3. p < i
        BY <1>1, <2>3, <3>3, <4>1 DEF Inv, InOrder
      <4> QED BY <1>3, <4>2, <4>3
    <3> QED BY <1>6, <2>3, <3>1, <3>2, <3>3
  <2>4. ASSUME NEW r \in Requests, NEW s \in Requests, Before(r, s),
               s \in Elements(completed)
        PROVE  /\ r \notin Elements(queue') \cup Elements(ordered')
               /\ r \in Elements(completed) => ended[r] <= ended[s]
    BY <1>3, <1>4, <1>6, <2>4 DEF Inv, InOrder
  <2>5. \A r \in Elements(completed) : ended[r] <= now
    BY DEF Inv, InOrder
  <2> QED BY <1>2, <2>1, <2>2, <2>3, <2>4, <2>5 DEF InOrder
<1> QED BY <1>7, <1>8, <1>9, <1>10 DEF Inv

\* The batch ends as a whole, and later than all that is completed.
LEMMA FinishInv ==
  ASSUME Inv, Finish
  PROVE  Inv'
<1>1. /\ selected = << >>
      /\ completed' = completed \o ordered /\ ordered' = << >> /\ batch' = << >>
      /\ UNCHANGED <<policy, batcher, queue, selected, arrival, starved, starvation,
                     is_running, submitted, forgotten>>
  BY DEF Finish, Served
<1>2. now' \in Nat /\ now' >= now /\ now \in Nat
  <2>1. PICK r \in Elements(ordered), d \in 0 .. MaxDelay : now' = now + Work[r] + d
    BY DEF Finish
  <2>2. r \in Requests
    BY ElementsType DEF Inv, TypeOK
  <2>3. Work[r] \in Nat /\ d \in Nat
    BY <2>1, <2>2, WorkAssumption, TimesAssumption
  <2>4. now \in Nat
    BY DEF Inv, TypeOK
  <2> QED BY <2>1, <2>3, <2>4
<1>3. /\ begun' \in [Requests -> Nat] /\ ended' \in [Requests -> Nat]
      /\ \A r \in Requests : ended'[r] = IF r \in Elements(ordered) THEN now' ELSE ended[r]
  BY <1>2 DEF Finish, Inv, TypeOK
<1>4. /\ completed' \in Seq(Requests) /\ Distinct(completed')
      /\ Elements(completed') = Elements(completed) \cup Elements(ordered)
  BY <1>1, ConcatDistinct DEF Inv, TypeOK, Places
<1>5. << >> \in Seq(Requests) /\ Len(<< >>) = 0 /\ Elements(<< >>) = {} /\ Distinct(<< >>)
  BY EmptySeq DEF Elements, Distinct
<1>6. TypeOK'
  BY <1>1, <1>2, <1>3, <1>4, <1>5 DEF Inv, TypeOK
<1>7. Places'
  BY <1>1, <1>4, <1>5 DEF Inv, Places
<1>8. Selection'
  BY <1>1, <1>5, BatchSizeAssumption DEF Inv, Selection
<1>9. InOrder'
  <2>1. \A r, s : Before(r, s)' <=> Before(r, s)
    BY <1>1 DEF Before
  <2>2. ASSUME NEW r \in Elements(completed')
        PROVE  r \in Requests /\ ended'[r] <= now'
               /\ (r \in Elements(completed) => ended'[r] = ended[r] /\ ended[r] <= now)
    <3>1. r \in Requests
      BY <1>4, <2>2, ElementsType DEF Inv, TypeOK
    <3>2. CASE r \in Elements(ordered)
      BY <1>2, <1>3, <3>1, <3>2 DEF Inv, Places
    <3>3. CASE r \in Elements(completed) /\ r \notin Elements(ordered)
      <4>1. ended'[r] = ended[r] /\ ended[r] <= now /\ ended[r] \in Nat
        BY <1>3, <3>1, <3>3 DEF Inv, TypeOK, InOrder
      <4> QED BY <1>2, <3>1, <4>1
    <3> QED BY <1>4, <2>2, <3>2, <3>3
  <2>3. ASSUME NEW r \in Requests, NEW s \in Requests, Before(r, s),
               s \in Elements(completed')
        PROVE  /\ r \notin Elements(queue)
               /\ r \in Elements(completed') => ended'[r] <= ended'[s]
    <3>1. CASE s \in Elements(ordered)
      <4>1. r \notin Elements(queue)
        BY <1>1, <1>5, <2>3, <3>1 DEF Inv, InOrder
      <4>2. ended'[s] = now'
        BY <1>3, <3>1
      <4> QED BY <2>2, <4>1, <4>2
    <3>2. CASE s \in Elements(completed)
      <4>1. r \notin Elements(queue) \cup Elements(ordered)
        BY <2>3, <3>2 DEF Inv, InOrder
      <4>2. r \in Elements(completed) => ended[r] <= ended[s]
        BY <2>3, <3>2 DEF Inv, InOrder
      <4>3. r \in Elements(completed') => r \in Elements(completed)
        BY <1>4, <4>1
      <4> QED BY <1>4, <2>2, <3>2, <4>1, <4>2, <4>3
    <3> QED BY <1>4, <2>3, <3>1, <3>2
  <2>4. \A j, k \in 1 .. Len(queue) : Before(queue[j], queue[k]) => j < k
    BY DEF Inv, InOrder
  <2> QED BY <1>1, <1>5, <2>1, <2>2, <2>3, <2>4 DEF InOrder
<1> QED BY <1>6, <1>7, <1>8, <1>9 DEF Inv

\* Every step of the engine keeps the invariant.
LEMMA NextInv == Inv /\ [Next]_vars => Inv'
<1> SUFFICES ASSUME Inv, [Next]_vars PROVE Inv'
  OBVIOUS
<1>0. /\ now \in Nat /\ starved \subseteq Requests /\ starvation \in Nat
      /\ is_running \in BOOLEAN
  BY DEF Inv, TypeOK
<1>1. CASE Tick
  BY <1>0, <1>1, IdleStep DEF Tick
<1>2. ASSUME NEW r \in Requests, Submit(r) PROVE Inv'
  BY <1>2, SubmitInv
<1>3. CASE ProcessBatch \/ ProcessNext \/ RunStep
  BY <1>3, BeginBatchInv DEF ProcessBatch, ProcessNext, RunStep
<1>4. ASSUME RunQueue \/ RunDone PROVE Inv'
  <2>1. /\ UNCHANGED <<now, policy, batcher, engine, times, starved, starvation, history>>
        /\ is_running' \in BOOLEAN
    BY <1>4 DEF RunQueue, RunDone
  <2> QED BY <1>0, <2>1, IdleStep
<1>5. CASE Pick
  BY <1>5, PickInv
<1>6. CASE Finish
  BY <1>6, FinishInv
<1>7. CASE Reset
  BY <1>7, ResetInv
<1>8. CASE UNCHANGED vars
  BY <1>0, <1>8, IdleStep DEF vars
<1> QED BY <1>1, <1>2, <1>3, <1>4, <1>5, <1>6, <1>7, <1>8 DEF Next

\* The invariant holds throughout.
LEMMA InvHolds == Spec => []Inv
<1> QED BY InitInv, NextInv, PTL DEF Spec

\* Type correctness of the engine: the counts stay natural numbers, the queues
\* sequences of requests.
THEOREM EngineTypeCorrect == Spec => []TypeOK
<1>1. Inv => TypeOK
  BY DEF Inv
<1> QED BY <1>1, InvHolds, PTL

\* For any requests, batcher and scheduler, and whatever is reset: no request is
\* lost and none is served twice.
THEOREM NoneLostNoneTwice == Spec => []EachRequestInOnePlace
<1>1. Inv => EachRequestInOnePlace
  <2> SUFFICES ASSUME Inv PROVE EachRequestInOnePlace
    OBVIOUS
  <2>1. /\ queue \o ordered \in Seq(Requests) /\ Distinct(queue \o ordered)
        /\ Elements(queue \o ordered) = Elements(queue) \cup Elements(ordered)
    BY ConcatDistinct DEF Inv, TypeOK, Places
  <2>2. (Elements(queue) \cup Elements(ordered)) \cap Elements(completed) = {}
    BY DEF Inv, Places
  <2>3. Distinct((queue \o ordered) \o completed)
    BY <2>1, <2>2, ConcatDistinct DEF Inv, TypeOK, Places
  <2> QED BY <2>3 DEF EachRequestInOnePlace, Inv, Places
<1> QED BY <1>1, InvHolds, PTL

\* For any requests, batcher and scheduler: a request ends no later than those
\* submitted after it, so no scheduler of scheduler.py lets one overtake another.
THEOREM NeverOvertaken == Spec => []NoOvertaking
<1>1. Inv => NoOvertaking
  <2> SUFFICES ASSUME Inv, NEW i \in 1 .. Len(submitted), NEW j \in 1 .. Len(submitted),
                      i < j, submitted[j] \in Elements(completed),
                      submitted[i] \notin forgotten
               PROVE  /\ submitted[i] \in Elements(completed)
                      /\ ended[submitted[i]] <= ended[submitted[j]]
    BY DEF NoOvertaking
  <2>1. /\ submitted[i] \in Requests /\ submitted[j] \in Requests
        /\ submitted[i] \in Elements(submitted)
        /\ Before(submitted[i], submitted[j])
    BY ElementOfSeq DEF Before, Elements, Inv, TypeOK
  <2>2. submitted[i] \in Elements(completed)
    BY <2>1 DEF Inv, Places, InOrder
  <2> QED BY <2>1, <2>2 DEF Inv, InOrder
<1> QED BY <1>1, InvHolds, PTL

(***************************************************************************)
(* HASP's starvation count.  The first select_next of a batch looks at all  *)
(* of it, and time stands still until the batch is ordered: from then on    *)
(* every request of the batch that starves has been counted, and what the   *)
(* later calls look at is a part of it.                                     *)
(***************************************************************************)
Limit == 2 * Aging
CountedInBatch == IF ordered = << >> THEN {} ELSE {r \in Elements(batch) : Wait(r) > Limit}
CountedBefore == {r \in Elements(completed) \cup forgotten : begun[r] > arrival[r] + Limit}

Counted ==
  /\ IsFiniteSet(starved) /\ starvation = Cardinality(starved)
  /\ policy.name = "hasp" => starved = CountedInBatch \cup CountedBefore
  /\ \A r \in Requests \ (Elements(completed) \cup forgotten) : begun[r] = 0

CountInv == Inv /\ Counted

\* The sets of the invariant are finite sets of requests.
LEMMA CountedSets ==
  ASSUME Inv
  PROVE  /\ Elements(queue) \subseteq Requests /\ Elements(completed) \subseteq Requests
         /\ Elements(ordered) \subseteq Requests /\ Elements(selected) \subseteq Requests
         /\ IsFiniteSet(Elements(selected))
         /\ (ordered = << >> <=> Elements(ordered) = {})
         /\ arrival \in [Requests -> Nat] /\ begun \in [Requests -> Nat] /\ now \in Nat
         /\ Limit \in Nat
<1>1. /\ queue \in Seq(Requests) /\ completed \in Seq(Requests) /\ ordered \in Seq(Requests)
      /\ selected \in Seq(Requests) /\ submitted \in Seq(Requests)
  BY DEF Inv, TypeOK
<1>2. /\ Elements(queue) \subseteq Requests /\ Elements(completed) \subseteq Requests
      /\ Elements(ordered) \subseteq Requests /\ Elements(selected) \subseteq Requests
      /\ IsFiniteSet(Elements(selected)) /\ (ordered = << >> <=> Elements(ordered) = {})
  BY <1>1, ElementsType
<1>3. arrival \in [Requests -> Nat] /\ begun \in [Requests -> Nat] /\ now \in Nat
  BY DEF Inv, TypeOK
<1>4. Limit \in Nat
  BY TimesAssumption DEF Limit
<1> QED BY <1>2, <1>3, <1>4

\* A new engine has counted nobody.
LEMMA InitCountInv == Init => CountInv
<1> SUFFICES ASSUME Init PROVE CountInv
  OBVIOUS
<1>1. Elements(<< >>) = {} /\ Cardinality({}) = 0
  BY EmptySeq, FS_EmptySet DEF Elements
<1>2. Counted
  BY <1>1, FS_EmptySet DEF Init, Counted, CountedInBatch, CountedBefore
<1> QED BY <1>2, InitInv DEF CountInv

\* Steps between batches count nobody: a request is submitted, forgotten, chosen, or
\* time goes on.
LEMMA UncountedStep ==
  ASSUME CountInv, Tick \/ (\E r \in Requests : Submit(r)) \/ ProcessBatch \/ ProcessNext
                     \/ RunQueue \/ RunStep \/ RunDone \/ Reset
  PROVE  Counted'
<1>1. /\ ordered = << >> /\ UNCHANGED <<policy, ordered, begun, starved, starvation>>
      /\ Elements(completed) \cup forgotten \subseteq Elements(submitted)
      /\ Elements(queue) \cap (Elements(completed) \cup forgotten) = {}
  BY DEF CountInv, Inv, Selection, Places, Tick, Submit, ProcessBatch, ProcessNext, RunQueue,
         RunStep, RunDone, Reset, BeginBatch, IdleEngine, engine, times
<1>2. CASE \E r \in Requests : Submit(r)
  <2>1. PICK r \in Requests : Submit(r)
    BY <1>2
  <2>2. /\ UNCHANGED <<completed, forgotten>> /\ r \notin Elements(submitted)
        /\ \A s \in Requests : s # r => arrival'[s] = arrival[s]
    BY <2>1, CountedSets DEF Submit, CountInv
  <2>3. CountedBefore' = CountedBefore
    <3>1. forgotten \subseteq Requests /\ Elements(completed) \subseteq Requests
      BY CountedSets DEF CountInv, Inv, TypeOK
    <3> QED BY <1>1, <2>2, <3>1 DEF CountedBefore, Limit
  <2> QED BY <1>1, <2>2, <2>3 DEF CountInv, Counted, CountedInBatch
<1>3. CASE Reset
  <2>1. /\ forgotten' = forgotten \cup Elements(queue) \cup Elements(completed)
        /\ completed' = << >> /\ Elements(<< >>) = {} /\ UNCHANGED arrival
    BY <1>3, EmptySeq DEF Reset, times, Elements
  <2>2. \A r \in Elements(queue) : begun[r] = 0 /\ arrival[r] + Limit >= 0 /\ r \in Requests
    BY <1>1, CountedSets DEF CountInv, Counted
  <2>3. CountedBefore' = CountedBefore
    <3>1. \A r \in Elements(queue) : ~ (begun[r] > arrival[r] + Limit)
      BY <2>2, CountedSets DEF CountInv
    <3> QED BY <1>1, <2>1, <3>1 DEF CountedBefore, Limit
  <2> QED BY <1>1, <2>1, <2>3 DEF CountInv, Counted, CountedInBatch
<1>4. CASE Tick \/ ProcessBatch \/ ProcessNext \/ RunQueue \/ RunStep \/ RunDone
  <2>1. UNCHANGED <<completed, forgotten, arrival>>
    BY <1>4 DEF Tick, ProcessBatch, ProcessNext, RunQueue, RunStep, RunDone, BeginBatch,
                engine, times, history
  <2> QED BY <1>1, <2>1 DEF CountInv, Counted, CountedInBatch, CountedBefore, Limit
<1> QED BY <1>2, <1>3, <1>4

\* select_next counts those of what is left of the batch that it has not counted yet:
\* all of the batch the first time, nobody later.
LEMMA PickCounts ==
  ASSUME CountInv, Inv', Pick
  PROVE  Counted'
<1>1. /\ starved' = starved \cup Starving
      /\ starvation' = starvation + Cardinality(Starving \ starved)
      /\ UNCHANGED <<now, policy, completed, arrival, begun, forgotten, batch, submitted>>
  BY DEF Pick, NewlyStarved, times, history
<1>2. ordered' # << >>
  <2>1. PICK i \in 1 .. Len(selected) : ordered' = Append(ordered, selected[i])
    BY DEF Pick
  <2>2. selected[i] \in Requests /\ ordered \in Seq(Requests)
    BY ElementOfSeq DEF CountInv, Inv, TypeOK
  <2>3. Elements(ordered') # {}
    BY <2>1, <2>2, AppendDistinct
  <2> QED BY <2>3, EmptySeq DEF Elements
<1>3. IsFiniteSet(starved') /\ starvation' = Cardinality(starved')
  <2>1. IsFiniteSet(Starving) /\ IsFiniteSet(starved)
    <3>1. IsFiniteSet(Starving)
      <4>1. Starving \subseteq Elements(selected)
        BY DEF Starving
      <4> QED BY <4>1, CountedSets, FS_Subset DEF CountInv
    <3> QED BY <3>1 DEF CountInv, Counted
  <2> DEFINE New == Starving \ starved
  <2>2. IsFiniteSet(New) /\ starved \cap New = {} /\ starved' = starved \cup New
    BY <1>1, <2>1, FS_Subset
  <2> HIDE DEF New
  <2>3. /\ IsFiniteSet(starved \cup New)
        /\ Cardinality(starved \cup New)
             = Cardinality(starved) + Cardinality(New) - Cardinality(starved \cap New)
    BY <2>1, <2>2, FS_Union
  <2>4. Cardinality(starved \cap New) = 0 /\ Cardinality(starved) \in Nat
        /\ Cardinality(New) \in Nat
    BY <2>1, <2>2, FS_EmptySet, FS_CardinalityType
  <2>5. starvation = Cardinality(starved) /\ starvation' = starvation + Cardinality(New)
    BY <1>1 DEF CountInv, Counted, New
  <2> QED BY <2>2, <2>3, <2>4, <2>5
<1>4. ASSUME policy.name = "hasp" PROVE starved' = CountedInBatch' \cup CountedBefore'
  <2>1. starved = CountedInBatch \cup CountedBefore
    BY <1>4 DEF CountInv, Counted
  <2>2. Starving = {r \in Elements(selected) : Wait(r) > Limit}
    BY <1>4 DEF Starving, Limit
  <2>3. Elements(batch) = Elements(selected) \cup Elements(ordered)
    BY DEF CountInv, Inv, Selection
  <2>4. CountedBefore' = CountedBefore
    BY <1>1 DEF CountedBefore, Limit
  <2>5. CountedInBatch' = {r \in Elements(batch) : Wait(r) > Limit}
    BY <1>1, <1>2 DEF CountedInBatch, Wait, Limit
  <2>6. CASE ordered = << >>
    <3>1. Elements(ordered) = {}
      BY <2>6, CountedSets DEF CountInv
    <3> QED BY <1>1, <2>1, <2>2, <2>3, <2>4, <2>5, <2>6, <3>1 DEF CountedInBatch
  <2>7. CASE ordered # << >>
    BY <1>1, <2>1, <2>2, <2>3, <2>4, <2>5, <2>7 DEF CountedInBatch
  <2> QED BY <2>6, <2>7
<1> QED BY <1>1, <1>3, <1>4 DEF CountInv, Counted

\* Those counted in the batch are those counted once it is completed: it begins now.
LEMMA FinishCounts ==
  ASSUME CountInv, Finish
  PROVE  Counted'
<1>1. /\ selected = << >> /\ batch # << >> /\ completed' = completed \o ordered
      /\ ordered' = << >>
      /\ begun' = [r \in Requests |-> IF r \in Elements(ordered) THEN now ELSE begun[r]]
      /\ UNCHANGED <<policy, arrival, starved, starvation, forgotten>>
  BY DEF Finish, Served, IdleEngine
<1>2. /\ Elements(completed') = Elements(completed) \cup Elements(ordered)
      /\ Elements(ordered) \cap (Elements(completed) \cup forgotten) = {}
  BY <1>1, ConcatDistinct DEF CountInv, Inv, TypeOK, Places
<1>3. Elements(batch) = Elements(ordered) /\ ordered # << >>
  <2>1. Elements(selected) = {}
    BY <1>1, EmptySeq DEF Elements
  <2>2. Elements(batch) # {}
    BY <1>1, ElementsType DEF CountInv, Inv, TypeOK
  <2> QED BY <2>1, <2>2, CountedSets DEF CountInv, Inv, Selection
<1>4. ASSUME policy.name = "hasp" PROVE starved' = CountedInBatch' \cup CountedBefore'
  <2>1. starved = {r \in Elements(ordered) : Wait(r) > Limit} \cup CountedBefore
    BY <1>3, <1>4 DEF CountInv, Counted, CountedInBatch
  <2>2. \A r \in Elements(ordered) : begun'[r] = now
    BY <1>1, CountedSets DEF CountInv
  <2>3. \A r \in Elements(completed) \cup forgotten : begun'[r] = begun[r]
    <3>1. \A r \in Elements(completed) \cup forgotten : r \in Requests
      BY CountedSets DEF CountInv, Inv, TypeOK
    <3> QED BY <1>1, <1>2, <3>1
  <2>4. \A r \in Elements(ordered) : Wait(r) > Limit <=> now > arrival[r] + Limit
    <3>1. \A r \in Elements(ordered) : arrival[r] \in Nat
      BY CountedSets DEF CountInv
    <3> QED BY <3>1, CountedSets DEF CountInv, Wait
  <2>5. CountedBefore' = {r \in Elements(ordered) : Wait(r) > Limit} \cup CountedBefore
    BY <1>1, <1>2, <2>2, <2>3, <2>4 DEF CountedBefore, Limit
  <2>6. CountedInBatch' = {}
    BY <1>1 DEF CountedInBatch
  <2> QED BY <1>1, <2>1, <2>5, <2>6
<1>5. \A r \in Requests \ (Elements(completed') \cup forgotten') : begun'[r] = 0
  BY <1>1, <1>2 DEF CountInv, Counted
<1> QED BY <1>1, <1>4, <1>5 DEF CountInv, Counted

\* Every step keeps the count.
LEMMA NextCountInv == CountInv /\ [Next]_vars => CountInv'
<1> SUFFICES ASSUME CountInv, [Next]_vars PROVE CountInv'
  OBVIOUS
<1>1. Inv'
  BY NextInv DEF CountInv
<1>2. CASE Tick \/ (\E r \in Requests : Submit(r)) \/ ProcessBatch \/ ProcessNext
             \/ RunQueue \/ RunStep \/ RunDone \/ Reset
  BY <1>1, <1>2, UncountedStep DEF CountInv
<1>3. CASE Pick
  BY <1>1, <1>3, PickCounts DEF CountInv
<1>4. CASE Finish
  BY <1>1, <1>4, FinishCounts DEF CountInv
<1>5. CASE UNCHANGED vars
  BY <1>1, <1>5 DEF CountInv, Counted, CountedInBatch, CountedBefore, Wait, Limit, vars,
                    engine, times, history
<1> QED BY <1>2, <1>3, <1>4, <1>5 DEF Next

\* For any requests and any terms of the score: between two batches, and once a batch is
\* ordered, HASP's count is the number of requests that waited for more than twice the
\* threshold before their batch began, each of them once.
THEOREM StarvationCounted == Spec => []StarvationIsCounted
<1>1. CountInv => StarvationIsCounted
  <2> SUFFICES ASSUME CountInv, policy.name = "hasp", selected = << >>
               PROVE  starvation = Cardinality({r \in Elements(ordered) : Wait(r) > 2 * Aging}
                        \cup {r \in Elements(completed) \cup forgotten :
                                begun[r] > arrival[r] + 2 * Aging})
    BY DEF StarvationIsCounted
  <2>1. Elements(batch) = Elements(ordered)
    <3>1. Elements(selected) = {}
      BY EmptySeq DEF Elements
    <3> QED BY <3>1 DEF CountInv, Inv, Selection
  <2>2. CountedInBatch = {r \in Elements(ordered) : Wait(r) > Limit}
    BY <2>1, CountedSets DEF CountInv, CountedInBatch
  <2> QED BY <2>2 DEF CountInv, Counted, CountedBefore, Limit
<1> QED BY <1>1, InitCountInv, NextCountInv, PTL DEF Spec

(***************************************************************************)
(* The engine implements a service with one line and no scheduler.          *)
(***************************************************************************)
Line == batch \o SubSeq(queue, Len(selected) + 1, Len(queue))
Done == {<<r, ended[r]>> : r \in Elements(completed)}

\* A queue without its first k elements.
LEMMA RestOfQueue ==
  ASSUME NEW q \in Seq(Requests), NEW k \in 0 .. Len(q)
  PROVE  LET rest == SubSeq(q, k + 1, Len(q))
         IN  /\ rest \in Seq(Requests)
             /\ Len(rest) = Len(q) - k
             /\ \A i \in 1 .. Len(q) - k : rest[i] = q[k + i]
<1> DEFINE m == k + 1
           n == Len(q)
<1>1. Len(q) \in Nat /\ k \in Nat /\ k <= Len(q)
  BY LenProperties
<1>2. m \in Int /\ n \in Int /\ \A i \in m .. n : q[i] \in Requests
  BY <1>1, ElementOfSeq
<1> HIDE DEF m, n
<1>3. /\ SubSeq(q, m, n) \in Seq(Requests)
      /\ Len(SubSeq(q, m, n)) = IF m <= n THEN n - m + 1 ELSE 0
      /\ \A i \in 1 .. n - m + 1 : SubSeq(q, m, n)[i] = q[m + i - 1]
  BY <1>2, SubSeqProperties
<1>4. SubSeq(q, m, n) \in Seq(Requests) /\ Len(SubSeq(q, m, n)) = Len(q) - k
  BY <1>1, <1>3 DEF m, n
<1>5. ASSUME NEW i \in 1 .. Len(q) - k
      PROVE  SubSeq(q, m, n)[i] = q[k + i]
  <2>1. i \in 1 .. n - m + 1 /\ m + i - 1 = k + i
    BY <1>1 DEF m, n
  <2> QED BY <1>3, <2>1
<1> QED BY <1>4, <1>5 DEF m, n

\* Without a batch under way the line is the queue.
LEMMA IdleLine ==
  ASSUME Inv, batch = << >>
  PROVE  Line = queue
<1>1. selected = << >> /\ Len(selected) = 0 /\ queue \in Seq(Requests)
  BY EmptySeq DEF Inv, TypeOK, Selection
<1>2. SubSeq(queue, Len(selected) + 1, Len(queue)) = queue
  BY <1>1, SubSeqFull
<1> QED BY <1>1, <1>2, ConcatEmptySeq DEF Line

\* The batcher's choice takes the front of the line and leaves the line as it is.
LEMMA BeginKeepsLine ==
  ASSUME Inv, NEW flush \in BOOLEAN, BeginBatch(flush)
  PROVE  Line' = Line
<1>1. Inv'
  BY BeginBatchInv
<1>2. Line = queue
  BY IdleLine DEF BeginBatch, IdleEngine
<1>3. /\ batch' = selected' /\ queue' = queue
      /\ selected' \in Seq(Requests) /\ queue \in Seq(Requests)
  BY <1>1 DEF BeginBatch, Inv, TypeOK
<1> DEFINE t == selected'
           rest == SubSeq(queue, Len(t) + 1, Len(queue))
<1>4. /\ Len(t) \in Nat /\ Len(queue) \in Nat /\ Len(t) <= Len(queue)
      /\ \A i \in 1 .. Len(t) : t[i] = queue[i]
  BY <1>1, <1>3, LenProperties DEF Inv, Selection
<1>5. /\ rest \in Seq(Requests) /\ Len(rest) = Len(queue) - Len(t)
      /\ \A i \in 1 .. Len(queue) - Len(t) : rest[i] = queue[Len(t) + i]
  BY <1>3, <1>4, RestOfQueue
<1>6. Line' = t \o rest
  BY <1>3 DEF Line
<1>7. t \in Seq(Requests)
  BY <1>3
<1> HIDE DEF t, rest
<1>8. /\ t \o rest \in Seq(Requests) /\ Len(t \o rest) = Len(queue)
      /\ \A i \in 1 .. Len(queue) :
           (t \o rest)[i] = IF i <= Len(t) THEN t[i] ELSE rest[i - Len(t)]
  BY <1>4, <1>5, <1>7, ConcatProperties
<1>9. ASSUME NEW i \in 1 .. Len(queue) PROVE (t \o rest)[i] = queue[i]
  <2>1. CASE i <= Len(t)
    BY <1>4, <1>8, <2>1
  <2>2. CASE ~(i <= Len(t))
    <3>1. i - Len(t) \in 1 .. Len(queue) - Len(t) /\ Len(t) + (i - Len(t)) = i
      BY <1>4, <2>2
    <3> QED BY <1>5, <1>8, <2>2, <3>1
  <2> QED BY <2>1, <2>2
<1>10. t \o rest = queue
  BY <1>3, <1>8, <1>9, SeqEqual
<1> QED BY <1>2, <1>6, <1>10

\* A turn of the loop leaves the line as it is.
LEMMA PickKeepsLine ==
  ASSUME Inv, Pick
  PROVE  Line' = Line
<1> DEFINE old == SubSeq(queue, Len(selected) + 1, Len(queue))
           new == SubSeq(queue', Len(selected') + 1, Len(queue'))
<1>1. Inv'
  BY PickInv
<1>2. PICK i \in 1 .. Len(selected) :
        /\ i \in 1 .. Len(queue)
        /\ selected' = Without(selected, i)
        /\ queue' = Without(queue, i)
  BY PickedOne
<1>3. /\ Len(selected) \in Nat /\ Len(queue) \in Nat /\ Len(selected) <= Len(queue)
      /\ selected \in Seq(Requests) /\ Distinct(selected)
      /\ queue \in Seq(Requests) /\ Distinct(queue)
  BY LenProperties, SelectedQueued DEF Inv, TypeOK, Selection, Places
<1>4. Len(selected') = Len(selected) - 1
  BY <1>2, <1>3, WithoutDistinct
<1>5. /\ Len(queue') = Len(queue) - 1
      /\ \A j \in 1 .. Len(queue) - 1 : queue'[j] = IF j < i THEN queue[j] ELSE queue[j + 1]
  BY <1>2, <1>3, WithoutDistinct
<1>6. /\ old \in Seq(Requests) /\ Len(old) = Len(queue) - Len(selected)
      /\ \A j \in 1 .. Len(queue) - Len(selected) : old[j] = queue[Len(selected) + j]
  BY <1>3, RestOfQueue
<1>7. /\ new \in Seq(Requests) /\ Len(new) = Len(queue') - Len(selected')
      /\ \A j \in 1 .. Len(queue') - Len(selected') : new[j] = queue'[Len(selected') + j]
  <2>1. queue' \in Seq(Requests) /\ Len(selected') \in 0 .. Len(queue')
    BY <1>1, <1>3, <1>4, <1>5 DEF Inv, TypeOK
  <2> QED BY <2>1, RestOfQueue
<1> HIDE DEF old, new
<1>8. Len(new) = Len(old)
  BY <1>3, <1>4, <1>5, <1>6, <1>7
<1>9. ASSUME NEW j \in 1 .. Len(old) PROVE new[j] = old[j]
  <2> DEFINE k == Len(selected) - 1 + j
  <2>1. new[j] = queue'[k] /\ old[j] = queue[k + 1]
    <3>1. k + 1 = Len(selected) + j
      BY <1>3, <1>6
    <3> QED BY <1>4, <1>6, <1>7, <1>8, <3>1
  <2>2. k \in 1 .. Len(queue) - 1 /\ ~(k < i)
    BY <1>2, <1>3, <1>6
  <2> QED BY <1>5, <2>1, <2>2
<1>10. new = old
  BY <1>6, <1>7, <1>8, <1>9, SeqEqual
<1>11. batch' = batch
  BY DEF Pick, history
<1> QED BY <1>10, <1>11 DEF Line, old, new

\* The end of a batch serves the front of the line.
LEMMA FinishServes ==
  ASSUME Inv, Finish
  PROVE  \E n \in 1 .. BatchSize : n <= Len(Line) /\ Service!Serve(n)
<1>0. PICK n \in Nat : n = Len(batch)
  BY LenProperties DEF Inv, TypeOK
<1>1. /\ selected = << >> /\ Len(selected) = 0 /\ batch # << >>
      /\ queue' = queue /\ selected' = selected /\ batch' = << >>
      /\ completed' = completed \o ordered
      /\ queue \in Seq(Requests) /\ batch \in Seq(Requests)
      /\ Elements(batch) = Elements(ordered)
  <2>1. Elements(<< >>) = {} /\ Len(<< >>) = 0
    BY DEF Elements
  <2> QED BY <2>1 DEF Finish, Served, IdleEngine, Inv, TypeOK, Selection
<1>2. n \in 1 .. BatchSize
  <2>1. n \in Nat \ {0}
    BY <1>0, <1>1, EmptySeq
  <2> QED BY <1>0, <2>1, BatchSizeAssumption DEF Inv, Selection
<1>3. Line = batch \o queue
  <2>1. Len(selected) + 1 = 1 /\ SubSeq(queue, 1, Len(queue)) = queue
    BY <1>1, SubSeqFull
  <2> QED BY <2>1 DEF Line
<1>4. /\ Len(queue) \in Nat
      /\ Line \in Seq(Requests) /\ Len(Line) = n + Len(queue)
      /\ \A i \in 1 .. n + Len(queue) :
           Line[i] = IF i <= n THEN batch[i] ELSE queue[i - n]
  BY <1>0, <1>1, <1>3, ConcatProperties, LenProperties
<1>5. Line' = queue
  <2>1. batch' \o SubSeq(queue', 0 + 1, Len(queue')) = queue
    BY <1>1, SubSeqFull, ConcatEmptySeq
  <2> QED BY <1>1, <2>1 DEF Line
<1>6. Line' = SubSeq(Line, n + 1, Len(Line))
  <2> DEFINE rest == SubSeq(Line, n + 1, Len(Line))
  <2>1. n \in 0 .. Len(Line) /\ Len(Line) - n = Len(queue)
    BY <1>2, <1>4
  <2>2. /\ rest \in Seq(Requests) /\ Len(rest) = Len(queue)
        /\ \A i \in 1 .. Len(queue) : rest[i] = Line[n + i]
    BY <1>4, <2>1, RestOfQueue
  <2> HIDE DEF rest
  <2>3. ASSUME NEW i \in 1 .. Len(queue) PROVE rest[i] = queue[i]
    <3> DEFINE k == n + i
    <3>1. k \in 1 .. n + Len(queue) /\ ~(k <= n) /\ k - n = i
      BY <1>2, <1>4
    <3>2. rest[i] = Line[k]
      BY <2>2
    <3> HIDE DEF k
    <3>3. Line[k] = queue[k - n]
      BY <1>4, <3>1
    <3> QED BY <3>1, <3>2, <3>3
  <2>4. rest = queue
    BY <1>1, <2>2, <2>3, SeqEqual
  <2> QED BY <1>5, <2>4 DEF rest
<1>7. \A i \in 1 .. n : Line[i] = batch[i] /\ Line[i] \in Elements(ordered)
  <2>1. \A i \in 1 .. n : Line[i] = batch[i]
    BY <1>2, <1>4
  <2> QED BY <1>0, <1>1, <2>1 DEF Elements
<1>8. now' \in Nat /\ \A i \in 1 .. n : now' >= now + Work[Line[i]]
  <2>1. PICK longest \in {Work[r] : r \in Elements(ordered)}, d \in 0 .. MaxDelay :
          LongEnough(longest) /\ now' = now + longest + d
    BY DEF Finish
  <2>2. now \in Nat /\ Elements(ordered) \subseteq Requests
    BY ElementsType DEF Inv, TypeOK
  <2>3. longest \in Nat /\ \A r \in Elements(ordered) : Work[r] \in Nat
    BY <2>1, <2>2, WorkAssumption
  <2>4. \A r \in Elements(ordered) : Work[r] <= longest
    BY <2>1 DEF LongEnough
  <2> QED BY <1>7, <2>1, <2>2, <2>3, <2>4, TimesAssumption
<1>9. Done' = Done \cup {<<Line[i], now'>> : i \in 1 .. n}
  <2>1. /\ Elements(completed') = Elements(completed) \cup Elements(ordered)
        /\ Elements(completed) \subseteq Requests /\ Elements(ordered) \subseteq Requests
    <3>1. completed \in Seq(Requests) /\ ordered \in Seq(Requests)
      BY DEF Inv, TypeOK
    <3> QED BY <1>1, <3>1, ConcatDistinct, ElementsType
  <2>2. \A r \in Requests : ended'[r] = IF r \in Elements(ordered) THEN now' ELSE ended[r]
    BY DEF Finish
  <2>3. Elements(completed) \cap Elements(ordered) = {}
    BY DEF Inv, Places
  <2>4. {Line[i] : i \in 1 .. n} = Elements(ordered)
    <3>1. {Line[i] : i \in 1 .. n} = {batch[i] : i \in 1 .. n}
      BY <1>7
    <3> QED BY <1>0, <1>1, <3>1 DEF Elements
  <2>5. Done' = {<<r, ended'[r]>> : r \in Elements(completed')}
    BY DEF Done
  <2>6. {<<r, ended'[r]>> : r \in Elements(completed)} = Done
    BY <2>1, <2>2, <2>3 DEF Done
  <2>7. {<<r, ended'[r]>> : r \in Elements(ordered)} = {<<Line[i], now'>> : i \in 1 .. n}
    BY <2>1, <2>2, <2>4
  <2> QED BY <2>1, <2>5, <2>6, <2>7
<1>10. n <= Len(Line)
  BY <1>2, <1>4
<1>11. Service!Serve(n)
  BY <1>6, <1>8, <1>9 DEF Service!Serve, Line, Done
<1> QED BY <1>2, <1>10, <1>11

\* Every step of the engine is a step of the service, or none.
LEMMA StepSimulation == Inv /\ [Next]_vars => [Service!Next]_(Service!vars)
<1> SUFFICES ASSUME Inv, [Next]_vars
             PROVE  Service!Next \/ UNCHANGED <<now, Line, Done>>
  BY DEF Service!vars, Line, Done
<1>1. CASE Tick
  <2>1. now' > now /\ UNCHANGED <<Line, Done>>
    BY <1>1 DEF Tick, engine, times, history, Line, Done, Inv, TypeOK
  <2> QED BY <2>1 DEF Service!Next, Service!Tick, Line, Done
<1>2. ASSUME NEW r \in Requests, Submit(r) PROVE Service!Next
  <2>1. /\ batch = << >> /\ batch' = << >> /\ queue' = Append(queue, r)
        /\ UNCHANGED <<now, completed, ended>>
    BY <1>2 DEF Submit, IdleEngine
  <2>2. Line = queue
    BY <2>1, IdleLine
  <2>3. Line' = queue'
    <3>1. /\ queue' \in Seq(Requests)
          /\ selected' = << >>
      BY <1>2, SubmitInv, <2>1 DEF Inv, TypeOK, Selection
    <3>2. << >> \o SubSeq(queue', 0 + 1, Len(queue')) = queue'
      BY <3>1, SubSeqFull, ConcatEmptySeq
    <3> QED BY <2>1, <3>1, <3>2, EmptySeq DEF Line
  <2>4. Service!Submit(r)
    BY <2>1, <2>2, <2>3 DEF Service!Submit, Line, Done
  <2> QED BY <2>4 DEF Service!Next
<1>3. ASSUME NEW flush \in BOOLEAN, BeginBatch(flush)
      PROVE  UNCHANGED <<now, Line, Done>>
  BY <1>3, BeginKeepsLine DEF BeginBatch, times, Done
<1>4. CASE RunQueue \/ RunDone \/ UNCHANGED vars
  BY <1>4 DEF RunQueue, RunDone, vars, engine, times, history, Line, Done
<1>5. CASE Pick
  BY <1>5, PickKeepsLine DEF Pick, times, Done
<1>6. CASE Finish
  <2>1. PICK n \in 1 .. BatchSize : n <= Len(Line) /\ Service!Serve(n)
    BY <1>6, FinishServes
  <2> QED BY <2>1 DEF Service!Next, Line
<1>7. CASE Reset
  <2>1. /\ batch' = << >> /\ queue' = << >> /\ completed' = << >> /\ selected' = << >>
        /\ now' = now
    BY <1>7 DEF Reset, IdleEngine, Inv, Selection
  <2>2. Line' = << >>
    <3>1. << >> \o SubSeq(<< >>, 0 + 1, Len(<< >>)) = << >>
      BY SubSeqEmpty, EmptySeq, ConcatEmptySeq
    <3> QED BY <2>1, <3>1, EmptySeq DEF Line
  <2>3. Done' = {}
    BY <2>1 DEF Done, Elements
  <2>4. Service!Forget
    BY <2>1, <2>2, <2>3 DEF Service!Forget, Line, Done
  <2> QED BY <2>4 DEF Service!Next
<1> QED
  BY <1>1, <1>2, <1>3, <1>4, <1>5, <1>6, <1>7
  DEF Next, ProcessBatch, ProcessNext, RunStep

\* The engine, with any scheduler, is a service that has none: one line, served
\* from its front, in batches that end together.
THEOREM ServiceImplemented == Spec => ImplementsBatchService
<1>1. Init => Service!Init
  <2> SUFFICES ASSUME Init PROVE Service!Init
    OBVIOUS
  <2>1. Line = << >>
    <3>1. << >> \o SubSeq(<< >>, 0 + 1, Len(<< >>)) = << >>
      BY SubSeqEmpty, EmptySeq, ConcatEmptySeq
    <3> QED BY <3>1, EmptySeq DEF Init, Line
  <2>2. Done = {} /\ now = 0
    BY DEF Init, Done, Elements
  <2> QED BY <2>1, <2>2 DEF Service!Init, Line, Done
<1> QED BY <1>1, StepSimulation, InvHolds, PTL DEF Spec, ImplementsBatchService, Service!Spec
=============================================================================
