---------------------------- MODULE DataLemmas ----------------------------
(***************************************************************************)
(* What the models' data satisfy, used by the proofs about them: loops, the*)
(* queues among the variables, and sums over finite sets.                  *)
(*                                                                         *)
(* The library's rules of induction have an operator as a parameter, which *)
(* the provers do not instantiate.  Induction here is on the set of those  *)
(* values for which a fact holds, by the well-foundedness of < and of      *)
(* inclusion.                                                              *)
(***************************************************************************)
EXTENDS Integers, SequencesExt, FiniteSetTheorems, WellFoundedInduction, TLAPS

-----------------------------------------------------------------------------
(* Numbers and loops.                                                      *)

\* What holds of a, and of i whenever it holds of i - 1, holds from a to n.
LEMMA RangeInduction ==
    ASSUME NEW a \in Int, NEW n \in Int, NEW Good,
           a \in Good,
           \A i \in (a + 1) .. n : i - 1 \in Good => i \in Good
    PROVE  \A i \in a .. n : i \in Good
<1> DEFINE Bad == {k \in Nat : a + k <= n /\ a + k \notin Good}
<1>1. SUFFICES ASSUME NEW j \in a .. n, j \notin Good PROVE FALSE
  OBVIOUS
<1>2. j - a \in Bad
  BY <1>1
<1>3. IsWellFoundedOn(OpToRel(<, Nat), Nat)
  BY NatLessThanWellFounded
<1>4. \E k \in Bad : \A m \in Bad : ~ (<<m, k>> \in OpToRel(<, Nat))
  <2>1. Bad \subseteq Nat /\ Bad # {}
    BY <1>2
  <2> HIDE DEF Bad
  <2> QED BY <1>3, <2>1, WFMin
<1>5. PICK k \in Bad : \A m \in Bad : ~ (<<m, k>> \in OpToRel(<, Nat))
  BY <1>4
<1>6. \A m \in Nat : m < k => m \notin Bad
  BY <1>5 DEF OpToRel
<1>7. k \in Nat \ {0}
  OBVIOUS
<1>8. k - 1 \notin Bad
  BY <1>6, <1>7
<1>9. a + (k - 1) \in Good
  BY <1>7, <1>8
<1>10. a + k \in (a + 1) .. n /\ (a + k) - 1 = a + (k - 1)
  BY <1>7
<1>11. a + k \in Good
  BY <1>9, <1>10
<1> QED BY <1>11

\* What holds of n whenever it holds of all that is less holds of all.
LEMMA StrongInduction ==
    ASSUME NEW Good,
           \A n \in Nat : (\A m \in Nat : m < n => m \in Good) => n \in Good
    PROVE  \A n \in Nat : n \in Good
<1> DEFINE Below == {n \in Nat : \A m \in Nat : m <= n => m \in Good}
<1>1. 0 \in Below
  OBVIOUS
<1>2. ASSUME NEW n \in Nat PROVE n \in Below
  <2>1. \A i \in 1 .. n : i - 1 \in Below => i \in Below
    OBVIOUS
  <2>2. \A i \in (0 + 1) .. n : i - 1 \in Below => i \in Below
    BY <2>1
  <2>3. \A i \in 0 .. n : i \in Below
    <3>1. 0 \in Int /\ n \in Int
      OBVIOUS
    <3> HIDE DEF Below
    <3> QED BY <1>1, <2>2, <3>1, RangeInduction
  <2> QED BY <2>3
<1> QED BY <1>2

\* A set of naturals that is not empty has a least element.
LEMMA LeastNatural ==
    ASSUME NEW T, T \subseteq Nat, T # {}
    PROVE  \E n \in T : \A m \in T : n <= m
<1>1. IsWellFoundedOn(OpToRel(<, Nat), Nat)
  BY NatLessThanWellFounded
<1>2. PICK n \in T : \A m \in T : ~ (<<m, n>> \in OpToRel(<, Nat))
  BY <1>1, WFMin
<1>3. \A m \in T : m \in Nat /\ ~ (m < n)
  BY <1>2 DEF OpToRel
<1>4. n \in Nat
  BY <1>2
<1>5. \A m \in T : n <= m
  BY <1>3, <1>4
<1> QED BY <1>5

\* A bounded set of integers that is not empty has a greatest element.
LEMMA GreatestBelow ==
    ASSUME NEW T, NEW n \in Int, T \subseteq Int, T # {}, \A m \in T : m <= n
    PROVE  \E m \in T : \A k \in T : k <= m
<1> DEFINE Gaps == {n - m : m \in T}
<1>1. /\ Gaps \subseteq Nat
      /\ Gaps # {}
  <2>1. \A m \in T : m \in Int /\ n - m \in Nat
    OBVIOUS
  <2> QED BY <2>1
<1>2. PICK g \in Gaps : \A h \in Gaps : g <= h
  <2> HIDE DEF Gaps
  <2> QED BY <1>1, LeastNatural
<1>3. PICK m \in T : g = n - m
  BY <1>2
<1>4. \A k \in T : k <= m
  BY <1>2, <1>3
<1> QED BY <1>4

\* f[i] is the state of a loop after its iterations a + 1 .. i.
IsLoop(f, a, n, b, G) ==
    \A i \in a .. n : f[i] = IF i = a THEN b ELSE G[<<i, f[i - 1]>>]

\* The states of a loop, one by one.
LEMMA LoopSteps ==
    ASSUME NEW f, NEW a \in Int, NEW n \in Int, a <= n, NEW b, NEW G, IsLoop(f, a, n, b, G)
    PROVE  /\ f[a] = b
           /\ \A i \in (a + 1) .. n : f[i] = G[<<i, f[i - 1]>>]
<1>1. a \in a .. n
  OBVIOUS
<1>2. f[a] = b
  BY <1>1 DEF IsLoop
<1>3. ASSUME NEW i \in (a + 1) .. n PROVE f[i] = G[<<i, f[i - 1]>>]
  <2>1. i \in a .. n /\ i # a
    OBVIOUS
  <2> QED BY <2>1 DEF IsLoop
<1> QED BY <1>2, <1>3

\* The function of a loop's states exists when the step, G, takes states to states.
LEMMA LoopExists ==
    ASSUME NEW S, NEW a \in Int, NEW n \in Int, NEW b \in S, NEW G \in [Int \X S -> S]
    PROVE  \E f \in [a .. n -> S] : IsLoop(f, a, n, b, G)
<1> USE DEF IsLoop
<1> DEFINE Good == {m \in Int : \E f \in [a .. m -> S] : IsLoop(f, a, m, b, G)}
<1>1. a \in Good
  <2>1. [i \in a .. a |-> b] \in [a .. a -> S] /\ IsLoop([i \in a .. a |-> b], a, a, b, G)
    OBVIOUS
  <2> QED BY <2>1
<1>2. ASSUME NEW m \in (a + 1) .. n, m - 1 \in Good PROVE m \in Good
  <2>1. PICK f \in [a .. (m - 1) -> S] : IsLoop(f, a, m - 1, b, G)
    BY <1>2
  <2> DEFINE g == [i \in a .. m |-> IF i = m THEN G[<<m, f[m - 1]>>] ELSE f[i]]
  <2>2. m - 1 \in a .. (m - 1) /\ f[m - 1] \in S /\ G[<<m, f[m - 1]>>] \in S
    BY <1>2
  <2>3. g \in [a .. m -> S]
    BY <2>2
  <2>4. ASSUME NEW i \in a .. m PROVE g[i] = IF i = a THEN b ELSE G[<<i, g[i - 1]>>]
    <3>1. CASE i = m
      <4>1. i # a /\ i - 1 \in a .. m /\ i - 1 # m
        BY <3>1, <1>2
      <4>2. g[i] = G[<<m, f[m - 1]>>] /\ g[i - 1] = f[i - 1]
        BY <3>1, <4>1
      <4> QED BY <3>1, <4>1, <4>2
    <3>2. CASE i # m
      <4>1. i \in a .. (m - 1) /\ g[i] = f[i]
        BY <3>2
      <4>2. i # a => i - 1 \in a .. (m - 1) /\ g[i - 1] = f[i - 1]
        BY <4>1
      <4> QED BY <2>1, <4>1, <4>2
    <3> QED BY <3>1, <3>2
  <2>5. IsLoop(g, a, m, b, G)
    BY <2>4
  <2> HIDE DEF g
  <2> QED BY <2>3, <2>5
<1>3. CASE a <= n
  <2>1. \A i \in a .. n : i \in Good
    <3> HIDE DEF Good
    <3> QED BY <1>1, <1>2, RangeInduction
  <2>2. n \in Good
    BY <2>1, <1>3
  <2> QED BY <2>2
<1>4. CASE ~ (a <= n)
  <2>1. a .. n = {}
    BY <1>4
  <2>2. [i \in a .. n |-> b] \in [a .. n -> S]
    OBVIOUS
  <2> QED BY <2>1, <2>2
<1> QED BY <1>3, <1>4

-----------------------------------------------------------------------------
(* A FIFO queue as a sequence without repetition: what a push and a pop do *)
(* to the set of its elements, and how many there are.                     *)

\* The elements of a sequence are in its element set.
LEMMA ElementsIn ==
    ASSUME NEW S, NEW s \in Seq(S)
    PROVE  \A i \in 1 .. Len(s) : s[i] \in S
OBVIOUS

\* Sequences with the same elements in the same places are equal.
LEMMA SameSeq ==
    ASSUME NEW S, NEW s \in Seq(S), NEW t \in Seq(S), Len(s) = Len(t),
           \A i \in 1 .. Len(s) : s[i] = t[i]
    PROVE  s = t
<1>1. s = [i \in 1 .. Len(s) |-> s[i]] /\ t = [i \in 1 .. Len(t) |-> t[i]]
  OBVIOUS
<1> QED BY <1>1

\* The elements of a queue after a push.
LEMMA AppendElems ==
    ASSUME NEW S, NEW s \in Seq(S), NEW e \in S
    PROVE  /\ Append(s, e) \in Seq(S)
           /\ ToSet(Append(s, e)) = ToSet(s) \union {e}
           /\ IsInjective(s) /\ e \notin ToSet(s) => IsInjective(Append(s, e))
<1>1. /\ Append(s, e) \in Seq(S)
      /\ Len(Append(s, e)) = Len(s) + 1
      /\ \A i \in 1 .. Len(s) : Append(s, e)[i] = s[i]
      /\ Append(s, e)[Len(s) + 1] = e
  OBVIOUS
<1>2. /\ DOMAIN s = 1 .. Len(s)
      /\ DOMAIN Append(s, e) = 1 .. (Len(s) + 1)
      /\ Len(s) \in Nat
  BY <1>1
<1>3. ToSet(Append(s, e)) = ToSet(s) \union {e}
  <2>1. ASSUME NEW x \in ToSet(Append(s, e)) PROVE x \in ToSet(s) \union {e}
    <3>1. PICK i \in 1 .. (Len(s) + 1) : x = Append(s, e)[i]
      BY <1>2, <2>1 DEF ToSet
    <3>2. CASE i = Len(s) + 1
      BY <3>1, <3>2, <1>1
    <3>3. CASE i \in 1 .. Len(s)
      BY <3>1, <3>3, <1>1, <1>2 DEF ToSet
    <3> QED BY <3>1, <3>2, <3>3, <1>2
  <2>2. ASSUME NEW x \in ToSet(s) PROVE x \in ToSet(Append(s, e))
    <3>1. PICK i \in 1 .. Len(s) : x = s[i]
      BY <1>2, <2>2 DEF ToSet
    <3>2. i \in 1 .. (Len(s) + 1) /\ Append(s, e)[i] = x
      BY <3>1, <1>1, <1>2
    <3> QED BY <3>2, <1>2 DEF ToSet
  <2>3. e \in ToSet(Append(s, e))
    <3>1. Len(s) + 1 \in 1 .. (Len(s) + 1)
      BY <1>2
    <3> QED BY <3>1, <1>1, <1>2 DEF ToSet
  <2> QED BY <2>1, <2>2, <2>3
<1>4. ASSUME IsInjective(s), e \notin ToSet(s) PROVE IsInjective(Append(s, e))
  <2>1. \A i \in 1 .. Len(s) : s[i] # e
    BY <1>2, <1>4 DEF ToSet
  <2>2. SUFFICES ASSUME NEW i \in 1 .. (Len(s) + 1), NEW j \in 1 .. (Len(s) + 1),
                        Append(s, e)[i] = Append(s, e)[j]
                 PROVE  i = j
    BY <1>2 DEF IsInjective
  <2>3. CASE i \in 1 .. Len(s) /\ j \in 1 .. Len(s)
    BY <2>2, <2>3, <1>1, <1>2, <1>4 DEF IsInjective
  <2>4. CASE i = Len(s) + 1 /\ j = Len(s) + 1
    BY <2>4
  <2>5. CASE i = Len(s) + 1 /\ j \in 1 .. Len(s)
    BY <2>1, <2>2, <2>5, <1>1
  <2>6. CASE i \in 1 .. Len(s) /\ j = Len(s) + 1
    BY <2>1, <2>2, <2>6, <1>1
  <2> QED BY <2>3, <2>4, <2>5, <2>6, <1>2
<1> QED BY <1>1, <1>3, <1>4

\* The elements of a queue after a pop.
LEMMA TailElems ==
    ASSUME NEW S, NEW s \in Seq(S), s # <<>>, IsInjective(s)
    PROVE  /\ Head(s) \in S
           /\ Head(s) \in ToSet(s)
           /\ Tail(s) \in Seq(S)
           /\ ToSet(Tail(s)) = ToSet(s) \ {Head(s)}
           /\ IsInjective(Tail(s))
<1>1. /\ Len(s) \in Nat \ {0}
      /\ DOMAIN s = 1 .. Len(s)
      /\ Head(s) = s[1]
      /\ Tail(s) \in Seq(S)
      /\ Len(Tail(s)) = Len(s) - 1
      /\ \A i \in 1 .. (Len(s) - 1) : Tail(s)[i] = s[i + 1]
  OBVIOUS
<1>2. DOMAIN Tail(s) = 1 .. (Len(s) - 1)
  BY <1>1
<1>3. 1 \in DOMAIN s /\ Head(s) \in S /\ Head(s) \in ToSet(s)
  BY <1>1 DEF ToSet
<1>4. ASSUME NEW x \in ToSet(Tail(s)) PROVE x \in ToSet(s) /\ x # Head(s)
  <2>1. PICK i \in 1 .. (Len(s) - 1) : x = Tail(s)[i]
    BY <1>2, <1>4 DEF ToSet
  <2>2. i + 1 \in 1 .. Len(s) /\ i + 1 # 1 /\ x = s[i + 1]
    BY <2>1, <1>1
  <2> QED BY <2>2, <1>1, <1>3 DEF ToSet, IsInjective
<1>5. ASSUME NEW x \in ToSet(s), x # Head(s) PROVE x \in ToSet(Tail(s))
  <2>1. PICK i \in 1 .. Len(s) : x = s[i]
    BY <1>1, <1>5 DEF ToSet
  <2>2. i - 1 \in 1 .. (Len(s) - 1) /\ Tail(s)[i - 1] = x
    BY <2>1, <1>1, <1>5
  <2> QED BY <2>2, <1>2 DEF ToSet
<1>6. IsInjective(Tail(s))
  <2>1. SUFFICES ASSUME NEW i \in 1 .. (Len(s) - 1), NEW j \in 1 .. (Len(s) - 1),
                        Tail(s)[i] = Tail(s)[j]
                 PROVE  i = j
    BY <1>2 DEF IsInjective
  <2>2. /\ i + 1 \in 1 .. Len(s) /\ j + 1 \in 1 .. Len(s)
        /\ s[i + 1] = s[j + 1]
    BY <2>1, <1>1
  <2>3. i + 1 = j + 1
    BY <2>2, <1>1 DEF IsInjective
  <2> QED BY <2>3, <1>1
<1> QED BY <1>1, <1>3, <1>4, <1>5, <1>6

(***************************************************************************)
(* The same for one queue of a family of queues, in a form to be cited     *)
(* without expanding it.                                                   *)
(***************************************************************************)

\* q is a family of queues of elements of S, indexed by W.
Queues(W, S, q) ==
    /\ q \in [W -> Seq(S)]
    /\ \A v \in W : IsInjective(q[v])

\* r differs from q in that queue w has the additional element e.
Gains(W, q, w, e, r) ==
    /\ \A v \in W : v # w => ToSet(r[v]) = ToSet(q[v])
    /\ ToSet(r[w]) = ToSet(q[w]) \union {e}

\* r differs from q in that queue w no longer has its element e.
Loses(W, q, w, e, r) ==
    /\ \A v \in W : v # w => ToSet(r[v]) = ToSet(q[v])
    /\ e \in ToSet(q[w])
    /\ ToSet(r[w]) = ToSet(q[w]) \ {e}

\* Pushing e to queue w of the family.
LEMMA PushOne ==
    ASSUME NEW W, NEW S, NEW q, Queues(W, S, q), NEW w \in W, NEW e \in S,
           e \notin ToSet(q[w]), NEW r, r = [q EXCEPT ![w] = Append(@, e)]
    PROVE  Queues(W, S, r) /\ Gains(W, q, w, e, r)
<1> USE DEF Queues, Gains
<1>1. /\ Append(q[w], e) \in Seq(S)
      /\ ToSet(Append(q[w], e)) = ToSet(q[w]) \union {e}
      /\ IsInjective(Append(q[w], e))
  BY AppendElems
<1>2. r[w] = Append(q[w], e) /\ \A v \in W : v # w => r[v] = q[v]
  OBVIOUS
<1>3. r \in [W -> Seq(S)]
  BY <1>1
<1> QED BY <1>1, <1>2, <1>3

\* Popping from queue w of the family.
LEMMA PopOne ==
    ASSUME NEW W, NEW S, NEW q, Queues(W, S, q), NEW w \in W, q[w] # <<>>,
           NEW r, r = [q EXCEPT ![w] = Tail(@)]
    PROVE  /\ Queues(W, S, r)
           /\ Head(q[w]) \in S
           /\ Loses(W, q, w, Head(q[w]), r)
<1> USE DEF Queues, Loses
<1>1. /\ Head(q[w]) \in S
      /\ Head(q[w]) \in ToSet(q[w])
      /\ Tail(q[w]) \in Seq(S)
      /\ ToSet(Tail(q[w])) = ToSet(q[w]) \ {Head(q[w])}
      /\ IsInjective(Tail(q[w]))
  BY TailElems
<1>2. r[w] = Tail(q[w]) /\ \A v \in W : v # w => r[v] = q[v]
  OBVIOUS
<1>3. r \in [W -> Seq(S)]
  BY <1>1
<1> QED BY <1>1, <1>2, <1>3

(***************************************************************************)
(* Counting.                                                               *)
(***************************************************************************)

\* The values of a function on a finite set are not more than its elements.
LEMMA ValuesOf ==
    ASSUME NEW S, IsFiniteSet(S), NEW f
    PROVE  IsFiniteSet({f[x] : x \in S}) /\ Cardinality({f[x] : x \in S}) <= Cardinality(S)
<1> DEFINE T == {f[x] : x \in S}
           g == [x \in S |-> f[x]]
<1>1. g \in Surjection(S, T)
  BY DEF Surjection
<1> QED BY <1>1, FS_Surjection

\* A union has at most the elements of both sets.
LEMMA UnionAtMost ==
    ASSUME NEW S, IsFiniteSet(S), NEW T, IsFiniteSet(T)
    PROVE  /\ IsFiniteSet(S \cup T)
           /\ Cardinality(S \cup T) <= Cardinality(S) + Cardinality(T)
<1>1. /\ IsFiniteSet(S \cup T)
      /\ Cardinality(S \cup T) = Cardinality(S) + Cardinality(T) - Cardinality(S \cap T)
  BY FS_Union
<1>2. IsFiniteSet(S \cap T)
  BY FS_Intersection
<1>3. Cardinality(S \cap T) \in Nat /\ Cardinality(S) \in Nat /\ Cardinality(T) \in Nat
  BY <1>2, FS_CardinalityType
<1> QED BY <1>1, <1>3

\* A sequence has at most as many elements as it is long, and as many if none repeats.
LEMMA ElemsCount ==
    ASSUME NEW S, NEW s \in Seq(S)
    PROVE  /\ IsFiniteSet(ToSet(s)) /\ Cardinality(ToSet(s)) <= Len(s)
           /\ IsInjective(s) => Cardinality(ToSet(s)) = Len(s)
<1>1. Len(s) \in Nat /\ DOMAIN s = 1 .. Len(s)
  OBVIOUS
<1>2. IsFiniteSet(1 .. Len(s)) /\ Cardinality(1 .. Len(s)) = Len(s)
  <2>1. \A n \in Nat : IsFiniteSet(1 .. n) /\ Cardinality(1 .. n) = n
    BY FS_Interval
  <2> QED BY <1>1, <2>1
<1>3. ToSet(s) = {s[i] : i \in 1 .. Len(s)}
  BY <1>1 DEF ToSet
<1>4. IsFiniteSet(ToSet(s)) /\ Cardinality(ToSet(s)) <= Len(s)
  BY <1>2, <1>3, ValuesOf
<1>5. ASSUME IsInjective(s) PROVE Cardinality(ToSet(s)) = Len(s)
  <2>1. s \in [1 .. Len(s) -> ToSet(s)]
    BY <1>1, <1>3
  <2>2. s \in Bijection(1 .. Len(s), ToSet(s))
    BY <1>3, <1>5, <2>1 DEF Bijection, Injection, Surjection
  <2>3. ExistsBijection(1 .. Len(s), ToSet(s))
    BY <2>2 DEF ExistsBijection
  <2> QED BY <1>2, <2>3, FS_Bijection
<1> QED BY <1>4, <1>5

\* The elements of two sets that share none.
LEMMA DisjointCount ==
    ASSUME NEW S, IsFiniteSet(S), NEW T, IsFiniteSet(T), S \cap T = {}
    PROVE  /\ IsFiniteSet(S \cup T)
           /\ Cardinality(S \cup T) = Cardinality(S) + Cardinality(T)
<1>1. Cardinality(S) \in Nat /\ Cardinality(T) \in Nat /\ Cardinality({}) = 0
  BY FS_CardinalityType, FS_EmptySet
<1>2. Cardinality(S \cap T) = 0
  BY <1>1
<1>3. /\ IsFiniteSet(S \cup T)
      /\ Cardinality(S \cup T) = Cardinality(S) + Cardinality(T) - Cardinality(S \cap T)
  BY FS_Union
<1> QED BY <1>1, <1>2, <1>3

-----------------------------------------------------------------------------
(* What SumFunctionOnSet of the community modules sums: the fold that      *)
(* defines it exists for every finite set, and the sum does not depend on  *)
(* the order in which it takes the elements.                               *)

\* The sum of f over S, and the element it takes first.
SumOf(f, S) == SumFunctionOnSet(f, S)
First(s) == CHOOSE x \in s : TRUE
Rest(s) == s \ {First(s)}

\* g is the function that the definition of the fold over S chooses.
IsFold(f, S, g) == g = [s \in SUBSET S |-> IF s = {} THEN 0 ELSE f[First(s)] + g[Rest(s)]]
Fold(f, S) == CHOOSE g : IsFold(f, S, g)

\* The definition of the sum, with its parts named.
LEMMA SumIsFold ==
    ASSUME NEW f, NEW S
    PROVE  SumOf(f, S) = Fold(f, S)[S]
BY DEF SumOf, SumFunctionOnSet, FoldFunctionOnSet, MapThenFoldSet, Fold, IsFold, First, Rest

\* A set of subsets of a finite set that has each one all of whose proper subsets it
\* has, has them all.
LEMMA SubsetInduction ==
    ASSUME NEW S, IsFiniteSet(S), NEW Good,
           \A T \in SUBSET S :
             (\A U \in SUBSET T : U # T => U \in Good) => T \in Good
    PROVE  \A T \in SUBSET S : T \in Good
<1> DEFINE Bad == {T \in SUBSET S : T \notin Good}
<1>1. SUFFICES ASSUME Bad # {} PROVE FALSE
  OBVIOUS
<1>2. IsWellFoundedOn(StrictSubsetOrdering(S), SUBSET S)
  BY FS_StrictSubsetOrderingWellFounded, FS_FiniteSubsetsOfFinite
<1>3. Bad \subseteq SUBSET S
  OBVIOUS
<1>4. \E T \in Bad : \A U \in Bad : ~ (<<U, T>> \in StrictSubsetOrdering(S))
  <2> HIDE DEF Bad
  <2> QED BY <1>1, <1>2, <1>3, WFMin
<1>5. PICK T \in Bad : \A U \in Bad : ~ (<<U, T>> \in StrictSubsetOrdering(S))
  BY <1>4
<1>6. ASSUME NEW U \in SUBSET T, U # T PROVE U \in Good
  <2>1. <<U, T>> \in StrictSubsetOrdering(S)
    BY <1>5, <1>6 DEF StrictSubsetOrdering
  <2> QED BY <1>5, <1>6, <2>1
<1> QED BY <1>5, <1>6

\* The first element of a set that has one, and the rest.
LEMMA FirstAndRest ==
    ASSUME NEW s, s # {}
    PROVE  First(s) \in s /\ Rest(s) \subseteq s /\ Rest(s) # s
BY DEF First, Rest

\* Folds over two sets agree where both are defined.
LEMMA FoldUnique ==
    ASSUME NEW f, NEW S, IsFiniteSet(S), NEW T, NEW g, NEW h, IsFold(f, S, g), IsFold(f, T, h)
    PROVE  \A s \in SUBSET S : s \in SUBSET T => g[s] = h[s]
<1> DEFINE Good == {s \in SUBSET S : s \in SUBSET T => g[s] = h[s]}
<1>1. ASSUME NEW s \in SUBSET S, \A u \in SUBSET s : u # s => u \in Good
      PROVE  s \in Good
  <2>1. SUFFICES ASSUME s \in SUBSET T PROVE g[s] = h[s]
    OBVIOUS
  <2>2. /\ g[s] = IF s = {} THEN 0 ELSE f[First(s)] + g[Rest(s)]
        /\ h[s] = IF s = {} THEN 0 ELSE f[First(s)] + h[Rest(s)]
    BY <2>1 DEF IsFold
  <2>3. CASE s = {}
    BY <2>2, <2>3
  <2>4. CASE s # {}
    <3>1. Rest(s) \in Good /\ Rest(s) \in SUBSET T
      BY <1>1, <2>1, <2>4, FirstAndRest
    <3> QED BY <2>2, <2>4, <3>1
  <2> QED BY <2>3, <2>4
<1>2. \A s \in SUBSET S : s \in Good
  <2> HIDE DEF Good
  <2> QED BY <1>1, SubsetInduction
<1> QED BY <1>2

\* There is a fold over every finite set.
LEMMA FoldExists ==
    ASSUME NEW f, NEW S, IsFiniteSet(S)
    PROVE  \A T \in SUBSET S : IsFold(f, T, Fold(f, T))
<1> DEFINE Good == {T \in SUBSET S : IsFold(f, T, Fold(f, T))}
<1>1. ASSUME NEW T \in SUBSET S, \A U \in SUBSET T : U # T => U \in Good
      PROVE  T \in Good
  <2> DEFINE g == [s \in SUBSET T |->
                     IF s = {} THEN 0 ELSE f[First(s)] + Fold(f, Rest(s))[Rest(s)]]
  <2>1. ASSUME NEW s \in SUBSET T, s # T PROVE g[s] = Fold(f, s)[s]
    <3>1. IsFold(f, s, Fold(f, s)) /\ IsFiniteSet(s)
      BY <1>1, <2>1, FS_Subset
    <3>2. Fold(f, s)[s] = IF s = {} THEN 0 ELSE f[First(s)] + Fold(f, s)[Rest(s)]
      <4> HIDE DEF Good
      <4> DEFINE h == Fold(f, s)
      <4> HIDE DEF h
      <4>1. h = [u \in SUBSET s |-> IF u = {} THEN 0 ELSE f[First(u)] + h[Rest(u)]]
        BY <3>1 DEF IsFold, h
      <4>2. h[s] = IF s = {} THEN 0 ELSE f[First(s)] + h[Rest(s)]
        BY <4>1
      <4> QED BY <4>2 DEF h
    <3>3. CASE s = {}
      BY <3>2, <3>3
    <3>4. CASE s # {}
      <4>1. Rest(s) \in SUBSET s /\ Rest(s) \in SUBSET T /\ Rest(s) # T
        BY <2>1, <3>4, FirstAndRest
      <4>2. IsFold(f, Rest(s), Fold(f, Rest(s))) /\ IsFiniteSet(Rest(s))
        BY <1>1, <4>1, FS_Subset
      <4>3. Fold(f, Rest(s))[Rest(s)] = Fold(f, s)[Rest(s)]
        BY <3>1, <4>1, <4>2, FoldUnique
      <4> QED BY <2>1, <3>2, <3>4, <4>3
    <3> QED BY <3>3, <3>4
  <2>2. IsFold(f, T, g)
    <3>1. ASSUME NEW s \in SUBSET T, s # {} PROVE g[Rest(s)] = Fold(f, Rest(s))[Rest(s)]
      <4>1. Rest(s) \in SUBSET T /\ Rest(s) # T
        BY <3>1, FirstAndRest
      <4> QED BY <2>1, <4>1
    <3>2. \A s \in SUBSET T : g[s] = IF s = {} THEN 0 ELSE f[First(s)] + g[Rest(s)]
      BY <3>1
    <3>3. g = [s \in SUBSET T |-> IF s = {} THEN 0 ELSE f[First(s)] + g[Rest(s)]]
      <4>1. g = [s \in SUBSET T |-> g[s]]
        OBVIOUS
      <4> HIDE DEF g
      <4> QED BY <3>2, <4>1
    <3> QED BY <3>3 DEF IsFold
  <2>3. IsFold(f, T, Fold(f, T))
    <3> HIDE DEF g
    <3> QED BY <2>2 DEF Fold
  <2> QED BY <2>3
<1>2. \A T \in SUBSET S : T \in Good
  <2> HIDE DEF Good
  <2> QED BY <1>1, SubsetInduction
<1> QED BY <1>2

\* The sum over the empty set, and over any other: its first element and the rest.
LEMMA SumFirst ==
    ASSUME NEW f, NEW S, IsFiniteSet(S)
    PROVE  /\ SumOf(f, {}) = 0
           /\ S # {} => SumOf(f, S) = f[First(S)] + SumOf(f, Rest(S))
<1>1. ASSUME NEW T \in SUBSET S
      PROVE  Fold(f, T)[T] = IF T = {} THEN 0 ELSE f[First(T)] + Fold(f, T)[Rest(T)]
  <2> DEFINE h == Fold(f, T)
  <2> HIDE DEF h
  <2>0. IsFold(f, T, Fold(f, T))
    BY FoldExists
  <2>1. h = [u \in SUBSET T |-> IF u = {} THEN 0 ELSE f[First(u)] + h[Rest(u)]]
    BY <2>0 DEF IsFold, h
  <2>2. h[T] = IF T = {} THEN 0 ELSE f[First(T)] + h[Rest(T)]
    BY <2>1
  <2> QED BY <2>2 DEF h
<1>2. SumOf(f, {}) = 0
  BY <1>1, SumIsFold
<1>3. ASSUME S # {} PROVE SumOf(f, S) = f[First(S)] + SumOf(f, Rest(S))
  <2>1. Rest(S) \in SUBSET S /\ IsFiniteSet(Rest(S))
    BY <1>3, FirstAndRest, FS_Subset
  <2>2. IsFold(f, S, Fold(f, S)) /\ IsFold(f, Rest(S), Fold(f, Rest(S)))
    BY <2>1, FoldExists
  <2>3. Fold(f, S)[Rest(S)] = Fold(f, Rest(S))[Rest(S)]
    BY <2>1, <2>2, FoldUnique
  <2> QED BY <1>1, <1>3, <2>3, SumIsFold
<1> QED BY <1>2, <1>3

\* Any element may come first.
LEMMA SumRemove ==
    ASSUME NEW f, NEW S, IsFiniteSet(S), \A x \in S : f[x] \in Int
    PROVE  /\ SumOf(f, S) \in Int
           /\ \A x \in S : SumOf(f, S) = f[x] + SumOf(f, S \ {x})
<1> DEFINE Good == {T \in SUBSET S : /\ SumOf(f, T) \in Int
                                     /\ \A x \in T : SumOf(f, T) = f[x] + SumOf(f, T \ {x})}
<1>1. ASSUME NEW T \in SUBSET S, \A U \in SUBSET T : U # T => U \in Good
      PROVE  T \in Good
  <2>1. IsFiniteSet(T) /\ \A x \in T : IsFiniteSet(T \ {x}) /\ f[x] \in Int
    BY FS_Subset
  <2>2. CASE T = {}
    <3>1. SumOf(f, T) = 0
      BY <2>1, <2>2, SumFirst
    <3> QED BY <2>2, <3>1
  <2>3. CASE T # {}
    <3> DEFINE y == First(T)
    <3>1. y \in T /\ Rest(T) = T \ {y} /\ Rest(T) \in Good
      BY <1>1, <2>3, FirstAndRest DEF Rest
    <3>2. SumOf(f, T) = f[y] + SumOf(f, T \ {y})
      BY <2>1, <2>3, <3>1, SumFirst
    <3>3. SumOf(f, T) \in Int
      BY <2>1, <3>1, <3>2
    <3>4. ASSUME NEW x \in T, x # y PROVE SumOf(f, T) = f[x] + SumOf(f, T \ {x})
      <4> HIDE DEF y
      <4>1. T \ {x} \in Good
        BY <1>1
      <4>2. SumOf(f, T \ {x}) = f[y] + SumOf(f, (T \ {x}) \ {y})
        BY <3>1, <3>4, <4>1
      <4>3. SumOf(f, T \ {y}) = f[x] + SumOf(f, (T \ {y}) \ {x})
        BY <3>1, <3>4
      <4>4. (T \ {x}) \ {y} = (T \ {y}) \ {x} /\ (T \ {x}) \ {y} \in Good
        BY <1>1, <3>4
      <4>5. SumOf(f, (T \ {x}) \ {y}) \in Int
        BY <4>4
      <4>6. f[x] \in Int /\ f[y] \in Int
        BY <2>1, <3>1
      <4> DEFINE both == SumOf(f, (T \ {x}) \ {y})
      <4>7. SumOf(f, T \ {x}) = f[y] + both /\ SumOf(f, T \ {y}) = f[x] + both
        BY <4>2, <4>3, <4>4
      <4>8. both \in Int
        BY <4>5
      <4> HIDE DEF both
      <4> QED BY <3>2, <4>6, <4>7, <4>8
    <3>5. \A x \in T : SumOf(f, T) = f[x] + SumOf(f, T \ {x})
      BY <3>2, <3>4
    <3> QED BY <3>3, <3>5
  <2> QED BY <2>2, <2>3
<1>2. \A T \in SUBSET S : T \in Good
  <2> HIDE DEF Good
  <2> QED BY <1>1, SubsetInduction
<1> QED BY <1>2

\* One element more.
LEMMA SumAdd ==
    ASSUME NEW f, NEW S, IsFiniteSet(S), NEW x, x \notin S, \A y \in S \union {x} : f[y] \in Int
    PROVE  SumOf(f, S \union {x}) = f[x] + SumOf(f, S)
<1>1. IsFiniteSet(S \union {x}) /\ (S \union {x}) \ {x} = S
  BY FS_AddElement
<1>2. \A y \in S \union {x} : SumOf(f, S \union {x}) = f[y] + SumOf(f, (S \union {x}) \ {y})
  BY <1>1, SumRemove
<1> QED BY <1>1, <1>2

\* What is summed is what f is on the set.
LEMMA SumSame ==
    ASSUME NEW f, NEW g, NEW S, IsFiniteSet(S), \A x \in S : f[x] \in Int /\ g[x] = f[x]
    PROVE  SumOf(g, S) = SumOf(f, S)
<1> DEFINE Good == {T \in SUBSET S : SumOf(g, T) = SumOf(f, T)}
<1>1. ASSUME NEW T \in SUBSET S, \A U \in SUBSET T : U # T => U \in Good
      PROVE  T \in Good
  <2>1. IsFiniteSet(T) /\ \A x \in T : f[x] = g[x]
    BY FS_Subset
  <2>2. CASE T = {}
    BY <2>1, <2>2, SumFirst
  <2>3. CASE T # {}
    <3>1. First(T) \in T /\ Rest(T) \in Good
      BY <1>1, <2>3, FirstAndRest
    <3> QED BY <2>1, <2>3, <3>1, SumFirst
  <2> QED BY <2>2, <2>3
<1>2. \A T \in SUBSET S : T \in Good
  <2> HIDE DEF Good
  <2> QED BY <1>1, SubsetInduction
<1> QED BY <1>2

\* One summand changes.
LEMMA SumChange ==
    ASSUME NEW f, NEW g, NEW S, IsFiniteSet(S), NEW x \in S,
           \A y \in S : f[y] \in Int /\ g[y] \in Int, \A y \in S \ {x} : g[y] = f[y]
    PROVE  SumOf(g, S) = SumOf(f, S) - f[x] + g[x]
<1>1. IsFiniteSet(S \ {x})
  BY FS_Subset
<1>2. SumOf(g, S \ {x}) = SumOf(f, S \ {x}) /\ SumOf(f, S \ {x}) \in Int
  BY <1>1, SumSame, SumRemove
<1>3. SumOf(f, S) = f[x] + SumOf(f, S \ {x}) /\ SumOf(g, S) = g[x] + SumOf(g, S \ {x})
  BY SumRemove
<1> QED BY <1>2, <1>3

\* Sums of natural numbers.
LEMMA SumNat ==
    ASSUME NEW f, NEW S, IsFiniteSet(S), \A x \in S : f[x] \in Nat
    PROVE  SumOf(f, S) \in Nat
<1> DEFINE Good == {T \in SUBSET S : SumOf(f, T) \in Nat}
<1>1. ASSUME NEW T \in SUBSET S, \A U \in SUBSET T : U # T => U \in Good
      PROVE  T \in Good
  <2>1. IsFiniteSet(T)
    BY FS_Subset
  <2>2. CASE T = {}
    <3>1. SumOf(f, T) = 0
      BY <2>1, <2>2, SumFirst
    <3> QED BY <2>2, <3>1
  <2>3. CASE T # {}
    <3>1. First(T) \in T /\ Rest(T) \in Good
      BY <1>1, <2>3, FirstAndRest
    <3>2. f[First(T)] \in Nat /\ SumOf(f, Rest(T)) \in Nat
      BY <3>1
    <3> QED BY <2>1, <2>3, <3>2, SumFirst
  <2> QED BY <2>2, <2>3
<1>2. \A T \in SUBSET S : T \in Good
  <2> HIDE DEF Good
  <2> QED BY <1>1, SubsetInduction
<1> QED BY <1>2
=============================================================================
