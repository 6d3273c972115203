----------------------------- MODULE GpuSharing -----------------------------
(***************************************************************************)
(* Time-slice sharing of one emulated GPU: applications send a request for  *)
(* each training batch to a manager, which sleeps for its compute time and  *)
(* answers.  Two transports carry them: Kafka in the gpemu package          *)
(* (gpemu/gpemu/gpemu/sharing.py and sharing_manager.py) and RabbitMQ in    *)
(* gpemu/sharing-rabbitmq (sharing_manager.py and app.py).                  *)
(*                                                                         *)
(* An application takes the next message of its response queue as the       *)
(* answer to the request it has just sent: neither side looks at the batch. *)
(***************************************************************************)
EXTENDS Naturals, Sequences, FiniteSets

CONSTANTS Apps,        \* the applications
          Batches,     \* num_batches of an application on Kafka, at least one
          MaxCrashes,  \* bound: deaths of the manager
          MaxStops,    \* bound: calls of GPUResourceManagerKafka.stop
          MaxErrors    \* bound: requests whose handling raises (RabbitMQ)

ASSUME BoundsAssumption == /\ Batches \in Nat \ {0} /\ MaxCrashes \in Nat
                           /\ MaxStops \in Nat /\ MaxErrors \in Nat

VARIABLES
  transport,  \* "kafka" or "rabbitmq"
  log,        \* the requests ever sent: Kafka keeps them all
  queue,      \* those the broker still has for the manager
  mpc,        \* the manager: "down", "idle", "busy", or "unacked" (RabbitMQ)
  current,    \* the request it works on
  running,    \* GPUResourceManagerKafka.running
  outbox,     \* answers KafkaProducer.send has buffered and not yet sent
  responses,  \* the response topic or queue of each application
  waiting,    \* the applications blocked in request_gpu_time
  batch,      \* the batches each application has got past
  handled,    \* history: the requests the GPU was given to
  slots,      \* history: how often it was given to each application
  dropped,    \* history: requests the manager took and will never answer
  crashes, stops

broker  == <<log, queue, responses>>
manager == <<mpc, current, running, outbox>>
app     == <<waiting, batch>>
history == <<handled, slots, dropped, crashes, stops>>
vars    == <<transport, broker, manager, app, history>>

Elements(s) == {s[i] : i \in 1 .. Len(s)}
None == << >>

Init ==
  /\ transport \in {"kafka", "rabbitmq"}
  /\ log = << >> /\ queue = << >>
  /\ responses = [a \in Apps |-> 0]
  /\ mpc = "down" /\ current = None /\ running = FALSE /\ outbox = << >>
  /\ waiting = {} /\ batch = [a \in Apps |-> 0]
  /\ handled = {} /\ slots = [a \in Apps |-> 0] /\ dropped = {}
  /\ crashes = 0 /\ stops = 0

(***************************************************************************)
(* The applications.                                                        *)
(***************************************************************************)

(* app.py on RabbitMQ sends one request and ends. *)
Limit == IF transport = "kafka" THEN Batches ELSE 1

Request(a) ==
  /\ a \notin waiting /\ batch[a] < Limit
  /\ waiting' = waiting \cup {a}
  /\ log' = Append(log, <<a, batch[a] + 1>>)
  /\ queue' = Append(queue, <<a, batch[a] + 1>>)
  /\ UNCHANGED <<transport, responses, manager, batch, history>>

\* Mutation of Taken: the answer stays in the application's queue.
NotTaken(a) == responses

Taken(a) == [responses EXCEPT ![a] = @ - 1]

(* `for message in self.consumer: break`, or on_response. *)
Answered(a) ==
  /\ a \in waiting /\ responses[a] > 0
  /\ responses' = Taken(a)
  /\ waiting' = waiting \ {a}
  /\ batch' = [batch EXCEPT ![a] = @ + 1]
  /\ UNCHANGED <<transport, log, queue, manager, history>>

(***************************************************************************)
(* The manager.                                                             *)
(***************************************************************************)

(* start(): on Kafka after a stop it reads on where it was. *)
Start ==
  /\ mpc = "down"
  /\ mpc' = "idle" /\ running' = TRUE
  /\ UNCHANGED <<transport, broker, current, outbox, app, history>>

Receive ==
  /\ mpc = "idle" /\ queue # << >>
  /\ running
  /\ mpc' = "busy" /\ current' = Head(queue) /\ queue' = Tail(queue)
  /\ UNCHANGED <<transport, log, responses, running, outbox, app, history>>

(* The loop of start() looks at running only when it has taken a message. *)
ReceiveStopped ==
  /\ mpc = "idle" /\ queue # << >>
  /\ ~running
  /\ mpc' = "down" /\ queue' = Tail(queue)
  /\ dropped' = dropped \cup {Head(queue)}
  /\ UNCHANGED <<transport, log, responses, current, running, outbox, app,
                 handled, slots, crashes, stops>>

(* The response queue of an application that has ended is gone. *)
Answer(a) == responses' = [responses EXCEPT ![a] = IF a \in waiting \/ batch[a] < Limit
                                                   THEN @ + 1 ELSE @]

\* Mutation of Sent: the send is retried although it had succeeded.
SentTwice == outbox \o <<current[1], current[1]>>

Sent == Append(outbox, current[1])

(* process_message / on_request up to the answer: sleep, then send. *)
Process ==
  /\ mpc = "busy"
  /\ handled' = handled \cup {current}
  /\ slots' = [slots EXCEPT ![current[1]] = @ + 1]
  /\ \/ /\ transport = "kafka"
        /\ outbox' = Sent
        /\ mpc' = "idle" /\ current' = None
        /\ UNCHANGED responses
     \/ /\ transport = "rabbitmq"
        /\ Answer(current[1])
        /\ mpc' = "unacked"
        /\ UNCHANGED <<current, outbox>>
  /\ UNCHANGED <<transport, log, queue, running, app, dropped, crashes, stops>>

Unsent == Tail(outbox)

(* The producer's own thread sends what is buffered. *)
Deliver ==
  /\ outbox # << >>
  /\ Answer(Head(outbox))
  /\ outbox' = Unsent
  /\ UNCHANGED <<transport, log, queue, mpc, current, running, app, history>>

Ack ==
  /\ mpc = "unacked"
  /\ mpc' = "idle" /\ current' = None
  /\ UNCHANGED <<transport, broker, running, outbox, app, history>>

(* on_request raises: basic_nack without requeue. *)
Nack ==
  /\ transport = "rabbitmq" /\ mpc = "busy"
  /\ Cardinality(dropped) < MaxErrors
  /\ dropped' = dropped \cup {current}
  /\ mpc' = "idle" /\ current' = None
  /\ UNCHANGED <<transport, broker, running, outbox, app, handled, slots, crashes, stops>>

Stop ==
  /\ transport = "kafka" /\ mpc # "down" /\ running /\ stops < MaxStops
  /\ running' = FALSE
  /\ stops' = stops + 1
  /\ UNCHANGED <<transport, broker, mpc, current, outbox, app, handled, slots,
                 dropped, crashes>>

\* Mutation of Redelivered: it goes to the end of the queue.
RedeliveredLast == queue \o (IF current # None THEN <<current>> ELSE << >>)

\* Mutation of Redelivered: the message was acknowledged on delivery.
NotRedelivered == queue

(* RabbitMQ puts a message that was not acknowledged back where it was. *)
Redelivered == (IF current # None THEN <<current>> ELSE << >>) \o queue

(* The manager dies or loses its connection.  A new Kafka consumer has no    *)
(* group and starts at the earliest message.                                 *)
Crash ==
  /\ mpc # "down" /\ crashes < MaxCrashes
  /\ crashes' = crashes + 1
  /\ mpc' = "down" /\ current' = None /\ outbox' = << >>
  /\ queue' = IF transport = "kafka" THEN log ELSE Redelivered
  /\ UNCHANGED <<transport, log, responses, running, app, handled, slots, dropped, stops>>

Next == \/ \E a \in Apps : Request(a) \/ Answered(a)
        \/ Start \/ Receive \/ ReceiveStopped \/ Process \/ Deliver \/ Ack
        \/ Nack \/ Stop \/ Crash

Spec == Init /\ [][Next]_vars

(* The loops of the manager and of its producer go on, an application takes  *)
(* an answer that has come, and somebody starts the manager again: examples/ *)
(* share_manager.py is run by hand, the RabbitMQ one reconnects by itself.   *)
Fairness == /\ WF_vars(Start)
            /\ WF_vars(Receive \/ ReceiveStopped \/ Process \/ Ack)
            /\ WF_vars(Deliver)
            /\ \A a \in Apps : WF_vars(Answered(a))

FairSpec == Spec /\ Fairness

(***************************************************************************)
(* Properties.                                                              *)
(***************************************************************************)
Requests == Apps \X (1 .. Batches)

(* Type invariant. *)
TypeOK ==
  /\ transport \in {"kafka", "rabbitmq"}
  /\ log \in Seq(Requests) /\ queue \in Seq(Requests) /\ outbox \in Seq(Apps)
  /\ responses \in [Apps -> Nat]
  /\ mpc \in {"down", "idle", "busy", "unacked"}
  /\ current \in Requests \cup {None}
  /\ running \in BOOLEAN
  /\ waiting \subseteq Apps /\ batch \in [Apps -> 0 .. Batches]
  /\ handled \subseteq Requests /\ dropped \subseteq Requests
  /\ slots \in [Apps -> Nat]

Copies(s, x) == Cardinality({i \in 1 .. Len(s) : s[i] = x})

(* Nothing is lost or doubled on the way while the manager lives: the one    *)
(* request of a blocked application is with the broker, with the manager, or *)
(* answered, once, unless the manager dropped it; the others have nothing    *)
(* on the way.                                                               *)
OneTokenEach ==
  crashes = 0 =>
    \A a \in Apps :
      LET r == <<a, batch[a] + 1>> IN
      Copies(queue, r) + (IF mpc = "busy" /\ current = r THEN 1 ELSE 0)
        + Copies(outbox, a) + responses[a]
      = IF a \in waiting /\ r \notin dropped THEN 1 ELSE 0

(* Types, and one token each. *)
Tokens == TypeOK /\ OneTokenEach

(* sharing.py:40 says that when request_gpu_time returns the GPU time of the *)
(* batch "has already been handled by the manager".                          *)
HandledFirst == \A a \in Apps : \A b \in 1 .. batch[a] : <<a, b>> \in handled

(* It is so as long as the manager of a Kafka application does not die; with *)
(* RabbitMQ also when it does, as an application asks only once.             *)
HandledFirstUnlessReplayed ==
  (transport = "kafka" => crashes = 0) => HandledFirst

(* In every case an application gets past at most as many batches as the     *)
(* GPU was given to it: a request is answered after it was handled, and an   *)
(* answer is taken once.                                                     *)
NoFreeTime ==
  \A a \in Apps : batch[a] + responses[a] + Copies(outbox, a) <= slots[a]

(* GPU time is neither skipped nor invented: both of the above. *)
GpuTimeIsServed == HandledFirstUnlessReplayed /\ NoFreeTime

(* First come, first served: a request is not handled before an earlier one, *)
(* also after the manager died and was started again.                        *)
FirstComeFirstServed ==
  \A i, j \in 1 .. Len(log) :
    i < j /\ log[j] \in handled => log[i] \in handled \cup dropped

(* A blocked application goes on in the end, unless the manager dropped its  *)
(* request: a stopped Kafka manager loses the next message, a RabbitMQ one   *)
(* the message whose handling raised.                                        *)
AnsweredUnlessDropped ==
  \A r \in Requests :
    r[1] \in waiting /\ batch[r[1]] + 1 = r[2]
      ~> batch[r[1]] >= r[2] \/ r \in dropped
=============================================================================
