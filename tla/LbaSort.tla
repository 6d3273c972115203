------------------------------ MODULE LbaSort ------------------------------
(***************************************************************************)
(* The sort the reader thread applies to its LBA sorting queue             *)
(* (async-loader/csrc/utils/sort.c): insertion sort below SMALL_N          *)
(* elements, a merge sort above.  An element is a sort_wrapper_t: a key    *)
(* (the LBA) and the queue entry it stands for.                            *)
(*                                                                         *)
(* The overlapping memcpy of sort_small is taken as the move it does with  *)
(* glibc, whose memcpy of a few words loads before it stores.              *)
(***************************************************************************)
EXTENDS Integers, SequencesExt

CONSTANTS SmallN,    \* SMALL_N, 16 in the source
          MaxLen,    \* longest queue sorted
          Keys       \* the LBAs that occur

ASSUME SortAssumption == SmallN \in Nat \ {0, 1} /\ MaxLen \in Nat /\ Keys \subseteq Nat

Wrapper == [key : Keys, data : 1 .. MaxLen]

Wrappers == {s \in Seq(Wrapper) : Len(s) <= MaxLen}

\* The place of element i in the sorted prefix: before the first key that is
\* not smaller.
TakesPlaceOf(s, i, j) ==
    s[i].key <= s[j].key /\ (j = 1 \/ s[i].key > s[j - 1].key)

\* One iteration of sort_small's outer loop, on element i.
InsertElement(s, i) ==
    LET places == {j \in 1 .. (i - 1) : TakesPlaceOf(s, i, j)} IN
    IF places = {} THEN s
    ELSE LET j == CHOOSE j \in places : \A k \in places : k <= j
         IN  InsertAt(RemoveAt(s, i), j, s[i])

\* The array after i iterations.
sort_small(s) ==
    LET array[i \in 0 .. Len(s)] == IF i = 0 THEN s ELSE InsertElement(array[i - 1], i)
    IN  array[Len(s)]

\* merge takes the next element from the left, when it has taken l and r so far.
TakesLeft(left, right, l, r) ==
    l < Len(left) /\ (r = Len(right) \/ left[l + 1].key <= right[r + 1].key)

\* merge's lptr after i iterations; rptr is the rest of i.
lptr(left, right) ==
    LET ptr[i \in 0 .. (Len(left) + Len(right))] ==
          IF i = 0 THEN 0
          ELSE LET l == ptr[i - 1]
               IN  IF TakesLeft(left, right, l, (i - 1) - l) THEN l + 1 ELSE l
    IN  ptr

\* Element i of what is merged.
Merged(left, right, ptr, i) ==
    IF ptr[i] > ptr[i - 1] THEN left[ptr[i]] ELSE right[i - ptr[i]]

\* Mutation of merge: what is left of one side is not copied.
MergeShort(left, right) ==
    LET ptr  == lptr(left, right)
        both == {i \in DOMAIN ptr : ptr[i] < Len(left) /\ i - ptr[i] < Len(right)}
    IN  [i \in {j + 1 : j \in both} |-> Merged(left, right, ptr, i)]

merge(left, right) ==
    LET ptr == lptr(left, right)
    IN  [i \in 1 .. (Len(left) + Len(right)) |-> Merged(left, right, ptr, i)]

sort[s \in Wrappers] ==
    IF Len(s) < SmallN THEN sort_small(s)
    ELSE LET n_left == Len(s) \div 2
         IN  merge(sort[SubSeq(s, 1, n_left)], sort[SubSeq(s, n_left + 1, Len(s))])

-----------------------------------------------------------------------------
(* The sorting queue before and after the reader sorts it.                 *)

VARIABLES queue,    \* sortable[0 .. n_queued - 1]
          arrived,  \* the same as it was queued; a history
          sorted    \* the queue has been sorted

SortVars == <<queue, arrived, sorted>>

\* n_queued requests, the i-th of them entry i.
Arrivals(n) == {[i \in 1 .. n |-> [key |-> k[i], data |-> i]] : k \in [1 .. n -> Keys]}

SortInit ==
    /\ arrived \in UNION {Arrivals(n) : n \in 0 .. MaxLen}
    /\ queue = arrived
    /\ sorted = FALSE

Sort == queue' = sort[queue] /\ sorted' = TRUE /\ UNCHANGED arrived

SortSpec == SortInit /\ [][Sort]_SortVars

-----------------------------------------------------------------------------
(* Properties.                                                             *)

InOrder(s) == \A i \in 1 .. (Len(s) - 1) : s[i].key <= s[i + 1].key

\* sort.c:108, "Sort the N items in TO_SORT in ascending order", on either
\* side of SMALL_N, with equal keys (file_get_lba returns 0 on failure), odd
\* lengths and an already sorted queue.
Ascending == sorted => InOrder(queue)

\* No request is lost and none appears twice, as each was queued once: the
\* reader issues the IO of every queued request exactly once.
KeepsEveryRequest == Len(queue) = Len(arrived) /\ ToSet(queue) = ToSet(arrived)

\* Both: what is issued is an ascending permutation of what was queued.
AscendingPermutation == Ascending /\ KeepsEveryRequest
============================================================================
