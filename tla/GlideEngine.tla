---------------------------- MODULE GlideEngine ----------------------------
(***************************************************************************)
(* The inference engine of GLIDE: src/glide/engine.py with the batchers of  *)
(* batching.py and the schedulers of scheduler.py.  An engine belongs to    *)
(* one thread (the live run of the dashboard, an experiment, a test), so    *)
(* its methods do not overlap; process_batch is cut at the calls of         *)
(* select_next, whose state (the requests HASP has counted as starved)      *)
(* changes with each.  Time is a counter that the sleep of process_batch    *)
(* and the waits of the driver advance.                                     *)
(***************************************************************************)
EXTENDS Naturals, Sequences, FiniteSets

CONSTANTS Requests,     \* the requests the drivers submit, each once
          BatchSize,    \* Batcher.batch_size
          Timeout,      \* DynamicBatcher.timeout_s
          Aging,        \* HASPScheduler.aging_threshold
          Work,         \* Work[r]: profiled compute time, or batch_size * 2.0
          Estimate,     \* Estimate[r]: the time the schedulers look up for r
          Fits,         \* the requests within memory_threshold_mb
          Policies,     \* the schedulers under test, see Hasp below
          Batchers,     \* the batchers under test
          MaxTime,      \* bound: the driver waits no longer than this
          MaxDelay      \* bound: what a sleep may overshoot by

ASSUME BatchSizeAssumption == BatchSize \in Nat \ {0}
ASSUME TimesAssumption == /\ Timeout \in Nat /\ MaxTime \in Nat /\ MaxDelay \in Nat
                          /\ Aging \in Nat \ {0}
ASSUME WorkAssumption == /\ Work \in [Requests -> Nat \ {0}]
                         /\ Estimate \in [Requests -> Nat \ {0}]
                         /\ Fits \subseteq Requests
ASSUME BatchersAssumption == Batchers \subseteq {"static", "dynamic", "continuous"}

(* A scheduler is its name and, for HASP, the terms of its score in use. *)
Fifo == [name |-> "fifo", uses |-> {}]
Sjf  == [name |-> "sjf", uses |-> {}]
Hasp(terms) == [name |-> "hasp", uses |-> terms]

VARIABLES
  now,         \* time.time()
  policy,      \* engine.scheduler
  batcher,     \* engine.batcher
  queue,       \* engine.request_queue
  selected,    \* process_batch: what the batcher chose and is not yet ordered
  ordered,     \* process_batch: what select_next has returned
  completed,   \* engine.completed_requests, as a sequence
  arrival,     \* arrival_time of each request
  begun,       \* start_time of each request
  ended,       \* end_time of each request
  starved,     \* HASPScheduler._starved_request_ids
  starvation,  \* HASPScheduler._starvation_count
  is_running,  \* run_queue is looping
  submitted,   \* history: every request submitted, in order
  forgotten,   \* history: the requests a reset removed
  batch        \* history: what the batcher chose for the batch under way

engine == <<queue, selected, ordered, completed>>
times  == <<arrival, begun, ended>>
history == <<submitted, forgotten, batch>>
vars   == <<now, policy, batcher, engine, times, starved, starvation,
            is_running, history>>

Elements(s) == {s[i] : i \in 1 .. Len(s)}
Least(a, b) == IF a < b THEN a ELSE b
Without(s, i) == SubSeq(s, 1, i - 1) \o SubSeq(s, i + 1, Len(s))
IdleEngine == batch = << >>     \* no process_batch is under way

Init ==
  /\ now = 0
  /\ policy \in Policies
  /\ batcher \in Batchers
  /\ queue = << >> /\ selected = << >> /\ ordered = << >> /\ completed = << >>
  /\ arrival = [r \in Requests |-> 0]
  /\ begun = [r \in Requests |-> 0]
  /\ ended = [r \in Requests |-> 0]
  /\ starved = {} /\ starvation = 0
  /\ is_running = FALSE
  /\ submitted = << >> /\ forgotten = {} /\ batch = << >>

(***************************************************************************)
(* Batchers.  They see the queue in the order of submission.                *)
(***************************************************************************)

\* Mutation of Front: the batch is the end of the queue.
Rear == SubSeq(queue, Len(queue) + 1 - Least(BatchSize, Len(queue)), Len(queue))

Front == SubSeq(queue, 1, Least(BatchSize, Len(queue)))

TimedOut == \E i \in 1 .. Len(queue) : now >= arrival[queue[i]] + Timeout

\* Mutation of StaticBatch: flush is not looked at.
OnlyFullBatches(flush) == IF Len(queue) >= BatchSize THEN Front ELSE << >>

StaticBatch(flush) == IF Len(queue) >= BatchSize THEN Front
                      ELSE IF flush THEN queue ELSE << >>

\* Mutation of DynamicBatch: the timeout is tested before the size.
TimeoutFirst(flush) == IF TimedOut THEN queue
                       ELSE IF Len(queue) >= BatchSize \/ flush THEN Front ELSE << >>

DynamicBatch(flush) == IF Len(queue) >= BatchSize \/ flush THEN Front
                       ELSE IF TimedOut THEN queue ELSE << >>

SelectBatch(flush) == CASE batcher = "static"     -> StaticBatch(flush)
                        [] batcher = "dynamic"    -> DynamicBatch(flush)
                        [] batcher = "continuous" -> Front

(***************************************************************************)
(* Schedulers.  Better(a, b): the key of a is strictly ahead of that of b;  *)
(* min and max of Python return the first of the best.                      *)
(***************************************************************************)
Wait(r) == now - arrival[r]

(* A HASP score is Numerator / Denominator: both are kept, to compare them. *)
Numerator(r) ==
  (IF "memory" \in policy.uses /\ r \notin Fits THEN 1 ELSE 2)
    * (IF "aging" \in policy.uses THEN Aging + Wait(r) ELSE Aging)
Denominator(r) == IF "compute" \in policy.uses THEN Estimate[r] ELSE 1

Better(a, b) ==
  CASE policy.name = "fifo" -> arrival[a] < arrival[b]
    [] policy.name = "sjf"  -> Estimate[a] < Estimate[b]
    [] policy.name = "hasp" -> Numerator(a) * Denominator(b)
                                 > Numerator(b) * Denominator(a)

IsNext(s, i) == /\ \A j \in 1 .. Len(s) : ~Better(s[j], s[i])
                /\ \A j \in 1 .. i - 1 : Better(s[i], s[j])

Starving == IF policy.name = "hasp"
            THEN {r \in Elements(selected) : Wait(r) > 2 * Aging}
            ELSE {}

\* Mutation of NewlyStarved: every look of select_next counts them.
StarvingAgain == Starving

NewlyStarved == Starving \ starved

(***************************************************************************)
(* The methods of the engine.                                               *)
(***************************************************************************)

(* The driver waits. *)
Tick == /\ IdleEngine /\ ~is_running
        /\ now < MaxTime
        /\ now' = now + 1
        /\ UNCHANGED <<policy, batcher, engine, times, starved, starvation,
                       is_running, history>>

(* submit_request.  The experiments overwrite arrival_time with the trace's: *)
(* earlier than now, never before the previous request's.                    *)
Submit(r) ==
  /\ IdleEngine /\ ~is_running
  /\ r \notin Elements(submitted)
  /\ \E t \in 0 .. now :
       /\ submitted # << >> => t >= arrival[submitted[Len(submitted)]]
       /\ arrival' = [arrival EXCEPT ![r] = t]
  /\ queue' = Append(queue, r)
  /\ submitted' = Append(submitted, r)
  /\ UNCHANGED <<now, policy, batcher, selected, ordered, completed, begun,
                 ended, starved, starvation, is_running, forgotten, batch>>

(* process_batch up to the batcher's choice; with no choice it returns [].   *)
BeginBatch(flush) ==
  /\ IdleEngine
  /\ queue # << >>
  /\ SelectBatch(flush) # << >>
  /\ selected' = SelectBatch(flush)
  /\ batch' = SelectBatch(flush)
  /\ UNCHANGED <<now, policy, batcher, queue, ordered, completed, times,
                 starved, starvation, is_running, submitted, forgotten>>

\* Mutation of Dequeued: the request stays in the queue.
StillQueued(r) == queue

\* request_queue.remove(r)
Dequeued(r) == Without(queue, CHOOSE k \in 1 .. Len(queue) : queue[k] = r)

(* One turn of `while selected`: select_next and the two removals. *)
Pick ==
  /\ selected # << >>
  /\ \E i \in 1 .. Len(selected) :
       /\ IsNext(selected, i)
       /\ selected' = Without(selected, i)
       /\ queue' = Dequeued(selected[i])
       /\ ordered' = Append(ordered, selected[i])
  /\ starved' = starved \cup Starving
  /\ starvation' = starvation + Cardinality(NewlyStarved)
  /\ UNCHANGED <<now, policy, batcher, completed, times, is_running, history>>

\* Mutation of Served: the batch is appended as one element.
ServedAsOne == Append(completed, ordered)

Served == completed \o ordered

\* max(compute_times)
LongEnough(t) == \A r \in Elements(ordered) : Work[r] <= t

(* The rest of process_batch: one start, one sleep as long as the longest    *)
(* request takes, one end.                                                   *)
Finish ==
  /\ ~IdleEngine /\ selected = << >>
  /\ \E longest \in {Work[r] : r \in Elements(ordered)}, d \in 0 .. MaxDelay :
       /\ LongEnough(longest)
       /\ now' = now + longest + d
  /\ begun' = [r \in Requests |-> IF r \in Elements(ordered) THEN now ELSE begun[r]]
  /\ ended' = [r \in Requests |-> IF r \in Elements(ordered) THEN now' ELSE ended[r]]
  /\ completed' = Served
  /\ ordered' = << >>
  /\ batch' = << >>
  /\ UNCHANGED <<policy, batcher, queue, selected, arrival, starved, starvation,
                 is_running, submitted, forgotten>>

ProcessBatch == ~is_running /\ BeginBatch(FALSE)
ProcessNext  == ~is_running /\ BeginBatch(TRUE)

(* run_queue: sets is_running, flushes until the queue is empty or a call    *)
(* of process_batch returns nothing.                                         *)
RunQueue ==
  /\ IdleEngine /\ ~is_running
  /\ is_running' = TRUE
  /\ UNCHANGED <<now, policy, batcher, engine, times, starved, starvation, history>>

RunStep == is_running /\ BeginBatch(TRUE)

RunDone ==
  /\ IdleEngine /\ is_running
  /\ queue = << >> \/ SelectBatch(TRUE) = << >>
  /\ is_running' = FALSE
  /\ UNCHANGED <<now, policy, batcher, engine, times, starved, starvation, history>>

(* reset keeps the scheduler, with the requests it has counted as starved. *)
Reset ==
  /\ IdleEngine /\ ~is_running
  /\ queue' = << >> /\ completed' = << >>
  /\ forgotten' = forgotten \cup Elements(queue) \cup Elements(completed)
  /\ UNCHANGED <<now, policy, batcher, selected, ordered, times, starved,
                 starvation, is_running, submitted, batch>>

Next == \/ Tick
        \/ \E r \in Requests : Submit(r)
        \/ ProcessBatch
        \/ ProcessNext
        \/ RunQueue
        \/ RunStep
        \/ RunDone
        \/ Pick
        \/ Finish
        \/ Reset

Spec == Init /\ [][Next]_vars

(* A method that has been called runs to its end: the loops of process_batch *)
(* and run_queue are ordinary code.  Whether a driver calls one is its own   *)
(* business.                                                                 *)
Fairness == WF_vars(RunStep \/ RunDone \/ Pick \/ Finish)

FairSpec == Spec /\ Fairness

(***************************************************************************)
(* Properties.                                                              *)
(***************************************************************************)
Distinct(s) == \A i, j \in 1 .. Len(s) : s[i] = s[j] => i = j

(* Type invariant of the engine's state. *)
TypeOK ==
  /\ now \in Nat
  /\ policy \in Policies /\ batcher \in Batchers
  /\ queue \in Seq(Requests) /\ selected \in Seq(Requests)
  /\ ordered \in Seq(Requests) /\ completed \in Seq(Requests)
  /\ arrival \in [Requests -> Nat]
  /\ begun \in [Requests -> Nat] /\ ended \in [Requests -> Nat]
  /\ starved \subseteq Requests /\ starvation \in Nat
  /\ is_running \in BOOLEAN
  /\ submitted \in Seq(Requests) /\ forgotten \subseteq Requests
  /\ batch \in Seq(Requests)

(* No request is lost or served twice: each one submitted is in the queue,   *)
(* in the batch under way, completed, or was removed by a reset, and in one  *)
(* place only (the two removals of process_batch, and the append).           *)
EachRequestInOnePlace ==
  /\ Distinct(queue \o ordered \o completed)
  /\ Elements(submitted) = Elements(queue) \cup Elements(ordered)
                             \cup Elements(completed) \cup forgotten
  /\ forgotten \cap (Elements(queue) \cup Elements(ordered)
                       \cup Elements(completed)) = {}

(* Whatever the scheduler and the batcher, a request ends no later than any  *)
(* submitted after it: the schedulers only order the front of the queue that *)
(* the batcher took, and a batch ends as a whole.  README.md:275 says that   *)
(* no request can be indefinitely delayed.                                   *)
NoOvertaking ==
  \A i, j \in 1 .. Len(submitted) :
    i < j /\ submitted[j] \in Elements(completed) /\ submitted[i] \notin forgotten
      => /\ submitted[i] \in Elements(completed)
         /\ ended[submitted[i]] <= ended[submitted[j]]

(* HASP's starvation count is the number of requests that waited more than   *)
(* twice the ageing threshold before their batch began, each counted once    *)
(* although select_next looks at it several times; reset does not clear it.  *)
StarvationIsCounted ==
  policy.name = "hasp" /\ selected = << >> =>
    starvation = Cardinality(
      {r \in Elements(ordered) : Wait(r) > 2 * Aging}
      \cup {r \in Elements(completed) \cup forgotten :
              begun[r] > arrival[r] + 2 * Aging})

(* The engine is a service with one line and no scheduler. *)
Service == INSTANCE BatchService WITH
  clock <- now,
  line <- batch \o SubSeq(queue, Len(selected) + 1, Len(queue)),
  finished <- {<<r, ended[r]>> : r \in Elements(completed)}

ImplementsBatchService == Service!Spec

(* run_queue returns, and has then served everything it found: its break     *)
(* (engine.py:281) is never what ends the loop.                              *)
RunQueueDrains == is_running ~> (~is_running /\ queue = << >>)

(* dashboard_server.py:3072 says that the scheduler order affects measured   *)
(* completion: SJF should end a request no later than a longer one that was  *)
(* queued with it.                                                           *)
ShortestEndsFirst ==
  [][policy.name = "sjf" /\ Finish =>
       \A r \in Elements(ordered), s \in Elements(queue) : Estimate[r] <= Estimate[s]]_vars
=============================================================================
