---------------------------- MODULE SharingProofs ----------------------------
(***************************************************************************)
(* GpuSharing, for any number of applications, batches, deaths and stops:   *)
(* on either transport requests are handled in the order they were sent, no *)
(* application gets past a batch without GPU time of its own, and while the *)
(* manager lives each blocked application has one request or answer on the  *)
(* way.                                                                     *)
(***************************************************************************)
EXTENDS GpuSharing, SequenceTheorems, FiniteSetTheorems, TLAPS

(***************************************************************************)
(* The inductive invariant.  What the broker still has is the end of the    *)
(* log, whatever was redelivered; all before it was handled or dropped, but *)
(* for what the manager is working on; and no request is sent twice.        *)
(***************************************************************************)

\* How many of the requests the manager has taken, in this life of its own.
Position == Len(log) - Len(queue)

LogType ==
  /\ transport \in {"kafka", "rabbitmq"}
  /\ log \in Seq(Apps \X (Nat \ {0})) /\ queue \in Seq(Apps \X (Nat \ {0}))
  /\ batch \in [Apps -> Nat]

\* A request is sent once: those of an application that has got past batch b are
\* numbered up to b, and one more while it waits.
SentOnce ==
  /\ \A i, j \in 1 .. Len(log) : log[i] = log[j] => i = j
  /\ \A i \in 1 .. Len(log) :
       LET a == log[i][1] IN log[i][2] <= batch[a] + (IF a \in waiting THEN 1 ELSE 0)

RestOfLog ==
  /\ Len(queue) <= Len(log)
  /\ \A i \in 1 .. Len(queue) : queue[i] = log[Position + i]

\* The manager works on the last request it has taken.
AtWork ==
  /\ mpc \in {"down", "idle"} => current = None
  /\ mpc \in {"busy", "unacked"} => Position >= 1 /\ current = log[Position]
  /\ mpc \in {"down", "idle", "busy", "unacked"}
  /\ mpc = "unacked" => current \in handled

AllBefore ==
  \A i \in 1 .. Position : log[i] \in handled \cup dropped \cup {current}

HandledWasSent == \A r \in handled : \E i \in 1 .. Len(log) : log[i] = r

Inv == /\ LogType /\ SentOnce /\ RestOfLog /\ AtWork /\ AllBefore
       /\ HandledWasSent /\ FirstComeFirstServed

\* No request is the empty tuple that stands for none.
LEMMA RequestIsSome ==
  ASSUME NEW r \in Apps \X (Nat \ {0})
  PROVE  r # None
BY DEF None

\* A manager that has just been created has nothing to do.
LEMMA InitInv == Init => Inv
<1> SUFFICES ASSUME Init PROVE Inv
  OBVIOUS
<1>1. << >> \in Seq(Apps \X (Nat \ {0})) /\ Len(<< >>) = 0
  BY EmptySeq
<1>2. log = << >> /\ queue = << >> /\ mpc = "down" /\ current = None
      /\ transport \in {"kafka", "rabbitmq"} /\ batch \in [Apps -> Nat]
      /\ handled = {}
  BY DEF Init
<1> QED
  BY <1>1, <1>2 DEF Inv, LogType, SentOnce, RestOfLog, AtWork, AllBefore,
                    HandledWasSent, FirstComeFirstServed, Position

\* A step that changes neither requests nor what was handled, and leaves the manager
\* as it was, or idle after a request that was handled or dropped.
LEMMA QuietStep ==
  ASSUME Inv, UNCHANGED <<transport, log, queue, handled, dropped, batch, waiting>>,
         \/ UNCHANGED <<mpc, current>>
         \/ mpc' \in {"down", "idle"} /\ current' = None
            /\ (mpc \in {"down", "idle"} \/ current \in handled \cup dropped)
  PROVE  Inv'
<1>1. Position' = Position
  BY DEF Position
<1>2. LogType' /\ SentOnce' /\ RestOfLog' /\ HandledWasSent' /\ FirstComeFirstServed'
  BY <1>1 DEF Inv, LogType, SentOnce, RestOfLog, HandledWasSent, FirstComeFirstServed
<1>3. AtWork'
  BY <1>1 DEF Inv, AtWork
<1>4. AllBefore'
  <2>1. current' = current \/ current \in handled \cup dropped
    BY DEF Inv, AtWork
  <2> QED BY <1>1, <2>1 DEF Inv, AllBefore
<1> QED BY <1>2, <1>3, <1>4 DEF Inv

\* A new request is one nobody has sent, and goes to the end of both.
LEMMA RequestInv ==
  ASSUME Inv, NEW a \in Apps, Request(a)
  PROVE  Inv'
<1> DEFINE r == <<a, batch[a] + 1>>
<1>1. /\ a \notin waiting /\ waiting' = waiting \cup {a}
      /\ log' = Append(log, r) /\ queue' = Append(queue, r)
      /\ UNCHANGED <<transport, mpc, current, handled, dropped, batch>>
      /\ r \in Apps \X (Nat \ {0}) /\ r[1] = a /\ r[2] = batch[a] + 1 /\ batch[a] \in Nat
  BY DEF Request, manager, history, Inv, LogType
<1> HIDE DEF r
<1>2. /\ Len(log) \in Nat /\ Len(log') = Len(log) + 1 /\ log' \in Seq(Apps \X (Nat \ {0}))
      /\ \A i \in 1 .. Len(log) : log'[i] = log[i]
      /\ log'[Len(log) + 1] = r
      /\ \A i \in 1 .. Len(log) : log[i] \in Apps \X (Nat \ {0})
  BY <1>1, AppendProperties, LenProperties, ElementOfSeq DEF Inv, LogType
<1>3. /\ Len(queue) \in Nat /\ Len(queue') = Len(queue) + 1 /\ queue' \in Seq(Apps \X (Nat \ {0}))
      /\ \A i \in 1 .. Len(queue) : queue'[i] = queue[i]
      /\ queue'[Len(queue) + 1] = r
      /\ Len(queue) <= Len(log)
  BY <1>1, AppendProperties, LenProperties DEF Inv, LogType, RestOfLog
<1>4. Position' = Position /\ Position \in 0 .. Len(log)
  BY <1>2, <1>3 DEF Position
<1>5. \A i \in 1 .. Len(log) : log[i] # r
  <2>1. SUFFICES ASSUME NEW i \in 1 .. Len(log), log[i] = r PROVE FALSE
    OBVIOUS
  <2>2. log[i][2] <= batch[a] + 0
    BY <1>1, <2>1 DEF Inv, SentOnce
  <2> QED BY <1>1, <2>1, <2>2
<1>6. LogType'
  BY <1>1, <1>2, <1>3 DEF Inv, LogType
<1>7. SentOnce'
  <2>1. \A i, j \in 1 .. Len(log') : log'[i] = log'[j] => i = j
    <3>1. SUFFICES ASSUME NEW i \in 1 .. Len(log) + 1, NEW j \in 1 .. Len(log) + 1,
                          log'[i] = log'[j], i < j \/ j < i
                   PROVE  FALSE
      BY <1>2
    <3>2. i \in 1 .. Len(log) \/ j \in 1 .. Len(log)
      BY <1>2, <3>1
    <3>3. i \in 1 .. Len(log) /\ j \in 1 .. Len(log)
      <4>1. i = Len(log) + 1 \/ i \in 1 .. Len(log)
        BY <1>2
      <4>2. j = Len(log) + 1 \/ j \in 1 .. Len(log)
        BY <1>2
      <4> QED BY <1>2, <1>5, <3>1, <3>2, <4>1, <4>2
    <3> QED BY <1>2, <3>1, <3>3 DEF Inv, SentOnce
  <2>2. ASSUME NEW i \in 1 .. Len(log')
        PROVE  log'[i][2] <= batch[log'[i][1]] + (IF log'[i][1] \in waiting' THEN 1 ELSE 0)
    <3>1. CASE i = Len(log) + 1
      BY <1>1, <1>2, <3>1
    <3>2. CASE i \in 1 .. Len(log)
      <4>1. /\ log'[i] = log[i] /\ log[i][1] \in Apps /\ log[i][2] \in Nat
            /\ batch[log[i][1]] \in Nat
        BY <1>2, <3>2 DEF Inv, LogType
      <4>2. log[i][2] <= batch[log[i][1]] + (IF log[i][1] \in waiting THEN 1 ELSE 0)
        BY <3>2 DEF Inv, SentOnce
      <4>3. batch' = batch /\ (log[i][1] \in waiting => log[i][1] \in waiting')
        BY <1>1
      <4>4. CASE log[i][1] \in waiting
        BY <4>1, <4>2, <4>3, <4>4
      <4>5. CASE log[i][1] \notin waiting
        <5>1. log[i][2] <= batch[log[i][1]]
          BY <4>1, <4>2, <4>5
        <5> QED BY <4>1, <4>3, <5>1
      <4> QED BY <4>4, <4>5
    <3> QED BY <1>2, <3>1, <3>2
  <2> QED BY <1>1, <2>1, <2>2 DEF SentOnce
<1>8. RestOfLog'
  <2>1. ASSUME NEW i \in 1 .. Len(queue') PROVE queue'[i] = log'[Position + i]
    <3>1. CASE i = Len(queue) + 1
      <4>1. Position + i = Len(log) + 1
        BY <1>2, <1>3, <3>1 DEF Position
      <4> QED BY <1>2, <1>3, <3>1, <4>1
    <3>2. CASE i \in 1 .. Len(queue)
      <4>1. Position + i \in 1 .. Len(log)
        BY <1>2, <1>3, <3>2 DEF Position
      <4>2. queue[i] = log[Position + i]
        BY <3>2 DEF Inv, RestOfLog
      <4> QED BY <1>2, <1>3, <3>2, <4>1, <4>2
    <3> QED BY <1>3, <3>1, <3>2
  <2>2. Len(queue') <= Len(log')
    BY <1>2, <1>3
  <2>3. \A i \in 1 .. Len(queue') : queue'[i] = log'[Position' + i]
    BY <1>4, <2>1
  <2> QED BY <2>2, <2>3 DEF RestOfLog
<1>9. AtWork'
  BY <1>1, <1>2, <1>4 DEF Inv, AtWork
<1>10. AllBefore'
  BY <1>1, <1>2, <1>4 DEF Inv, AllBefore
<1>11. HandledWasSent'
  <2>1. \A i \in 1 .. Len(log) : i \in 1 .. Len(log') /\ log'[i] = log[i]
    BY <1>2
  <2> QED BY <1>1, <2>1 DEF Inv, HandledWasSent
<1>12. FirstComeFirstServed'
  <2>1. r \notin handled
    BY <1>5 DEF Inv, HandledWasSent
  <2>2. SUFFICES ASSUME NEW i \in 1 .. Len(log'), NEW j \in 1 .. Len(log'),
                        i < j, log'[j] \in handled
                 PROVE  log'[i] \in handled \cup dropped
    BY <1>1 DEF FirstComeFirstServed
  <2>3. j \in 1 .. Len(log)
    <3>1. j \in 1 .. Len(log) \/ j = Len(log) + 1
      BY <1>2
    <3> QED BY <1>2, <2>1, <2>2, <3>1
  <2>4. i \in 1 .. Len(log)
    BY <1>2, <2>2, <2>3
  <2> QED BY <1>2, <2>2, <2>3, <2>4 DEF Inv, FirstComeFirstServed
<1> QED BY <1>6, <1>7, <1>8, <1>9, <1>10, <1>11, <1>12 DEF Inv

\* What the manager takes is the request after those it has taken.
LEMMA NextOfLog ==
  ASSUME Inv, queue # << >>, queue' = Tail(queue), UNCHANGED log
  PROVE  /\ queue' \in Seq(Apps \X (Nat \ {0}))
         /\ Position \in Nat /\ Position' = Position + 1
         /\ Position + 1 \in 1 .. Len(log)
         /\ Head(queue) = log[Position + 1]
         /\ RestOfLog'
<1>1. /\ Len(log) \in Nat /\ Len(queue) \in Nat \ {0} /\ Len(queue) <= Len(log)
      /\ queue \in Seq(Apps \X (Nat \ {0})) /\ Head(queue) = queue[1]
  BY LenProperties, EmptySeq DEF Inv, LogType, RestOfLog
<1>2. /\ queue' \in Seq(Apps \X (Nat \ {0})) /\ Len(queue') = Len(queue) - 1
      /\ \A i \in 1 .. Len(queue') : queue'[i] = queue[i + 1]
  BY <1>1, HeadTailProperties
<1>3. /\ Position \in Nat /\ Position' = Position + 1
      /\ Position + 1 \in 1 .. Len(log)
  BY <1>1, <1>2 DEF Position
<1>4. Head(queue) = log[Position + 1]
  <2>1. 1 \in 1 .. Len(queue)
    BY <1>1
  <2> QED BY <1>1, <2>1 DEF Inv, RestOfLog
<1>5. RestOfLog'
  <2>1. ASSUME NEW i \in 1 .. Len(queue') PROVE queue'[i] = log[Position' + i]
    <3>1. i + 1 \in 1 .. Len(queue) /\ Position' + i = Position + (i + 1)
      BY <1>1, <1>2, <1>3
    <3>2. queue[i + 1] = log[Position + (i + 1)]
      BY <3>1 DEF Inv, RestOfLog
    <3> QED BY <1>2, <3>1, <3>2
  <2>2. Len(queue') <= Len(log)
    BY <1>1, <1>2
  <2> QED BY <2>1, <2>2 DEF RestOfLog
<1> QED BY <1>2, <1>3, <1>4, <1>5

\* Taking a request, to work on it or to lose it.
LEMMA ReceiveInv ==
  ASSUME Inv, Receive \/ ReceiveStopped
  PROVE  Inv'
<1>1. /\ mpc = "idle" /\ current = None /\ queue # << >> /\ queue' = Tail(queue)
      /\ UNCHANGED <<transport, log, handled, batch, waiting>>
      /\ \/ mpc' = "busy" /\ current' = Head(queue) /\ dropped' = dropped
         \/ mpc' = "down" /\ current' = None /\ dropped' = dropped \cup {Head(queue)}
  BY DEF Receive, ReceiveStopped, app, history, Inv, AtWork
<1>2. /\ queue' \in Seq(Apps \X (Nat \ {0}))
      /\ Position \in Nat /\ Position' = Position + 1
      /\ Position + 1 \in 1 .. Len(log)
      /\ Head(queue) = log[Position + 1]
      /\ RestOfLog'
  BY <1>1, NextOfLog
<1>3. LogType' /\ SentOnce' /\ HandledWasSent' /\ FirstComeFirstServed'
  BY <1>1, <1>2 DEF Inv, LogType, SentOnce, HandledWasSent, FirstComeFirstServed
<1>4. AtWork'
  BY <1>1, <1>2 DEF AtWork
<1>5. AllBefore'
  <2>1. SUFFICES ASSUME NEW i \in 1 .. Position + 1
                 PROVE  log[i] \in handled \cup dropped' \cup {current'}
    BY <1>1, <1>2 DEF AllBefore
  <2>2. CASE i = Position + 1
    BY <1>1, <1>2, <2>2
  <2>3. CASE i \in 1 .. Position
    <3>1. log[i] \in handled \cup dropped \cup {None}
      BY <1>1, <2>3 DEF Inv, AllBefore
    <3>2. log[i] # None
      <4>1. i \in 1 .. Len(log)
        BY <1>2, <2>3
      <4>2. log[i] \in Apps \X (Nat \ {0})
        BY <4>1, ElementOfSeq DEF Inv, LogType
      <4> QED BY <4>2, RequestIsSome
    <3> QED BY <1>1, <3>1, <3>2
  <2> QED BY <1>2, <2>2, <2>3
<1> QED BY <1>2, <1>3, <1>4, <1>5 DEF Inv

\* Handling or rejecting the request at work, after which all before it are dealt with.
LEMMA ProcessInv ==
  ASSUME Inv, Process \/ Nack
  PROVE  Inv'
<1>1. /\ mpc = "busy" /\ Position >= 1 /\ current = log[Position]
      /\ UNCHANGED <<transport, log, queue, batch, waiting>>
      /\ handled \subseteq handled' /\ dropped \subseteq dropped'
      /\ handled' \cup dropped' = handled \cup dropped \cup {current}
      /\ handled' \subseteq handled \cup {current}
      /\ \/ mpc' = "idle" /\ current' = None
         \/ mpc' = "unacked" /\ current' = current /\ current \in handled'
  BY DEF Process, Nack, broker, app, Inv, AtWork
<1>2. Position' = Position /\ Position \in 1 .. Len(log)
  <2>1. Len(log) \in Nat /\ Len(queue) \in Nat
    BY LenProperties DEF Inv, LogType
  <2> QED BY <1>1, <2>1 DEF Position
<1>3. LogType' /\ SentOnce' /\ RestOfLog'
  BY <1>1, <1>2 DEF Inv, LogType, SentOnce, RestOfLog
<1>4. AtWork'
  BY <1>1, <1>2 DEF AtWork
<1>5. AllBefore'
  BY <1>1, <1>2 DEF Inv, AllBefore
<1>6. HandledWasSent'
  BY <1>1, <1>2 DEF Inv, HandledWasSent
<1>7. FirstComeFirstServed'
  <2>1. SUFFICES ASSUME NEW i \in 1 .. Len(log), NEW j \in 1 .. Len(log),
                        i < j, log[j] \in handled'
                 PROVE  log[i] \in handled' \cup dropped'
    BY <1>1 DEF FirstComeFirstServed
  <2>2. CASE log[j] \in handled
    BY <1>1, <2>1, <2>2 DEF Inv, FirstComeFirstServed
  <2>3. CASE log[j] = current
    <3>1. j = Position
      BY <1>1, <1>2, <2>3 DEF Inv, SentOnce
    <3>2. i \in 1 .. Position
      BY <1>2, <2>1, <3>1
    <3> QED BY <1>1, <3>2 DEF Inv, AllBefore
  <2> QED BY <1>1, <2>1, <2>2, <2>3
<1> QED BY <1>3, <1>4, <1>5, <1>6, <1>7 DEF Inv

\* An answer lets its application on to the next batch.
LEMMA AnsweredInv ==
  ASSUME Inv, NEW a \in Apps, Answered(a)
  PROVE  Inv'
<1>1. /\ a \in waiting /\ waiting' = waiting \ {a}
      /\ batch' = [batch EXCEPT ![a] = @ + 1]
      /\ UNCHANGED <<transport, log, queue, mpc, current, handled, dropped>>
      /\ batch \in [Apps -> Nat]
  BY DEF Answered, manager, history, Inv, LogType
<1>2. Position' = Position
  BY <1>1 DEF Position
<1>3. LogType'
  BY <1>1 DEF Inv, LogType
<1>4. SentOnce'
  <2>1. ASSUME NEW i \in 1 .. Len(log)
        PROVE  log[i][2] <= batch'[log[i][1]] + (IF log[i][1] \in waiting' THEN 1 ELSE 0)
    <3>1. log[i][1] \in Apps /\ log[i][2] \in Nat
      BY ElementOfSeq DEF Inv, LogType
    <3>2. log[i][2] <= batch[log[i][1]] + (IF log[i][1] \in waiting THEN 1 ELSE 0)
      BY DEF Inv, SentOnce
    <3>3. CASE log[i][1] = a
      BY <1>1, <3>1, <3>2, <3>3
    <3>4. CASE log[i][1] # a
      BY <1>1, <3>1, <3>2, <3>4
    <3> QED BY <3>3, <3>4
  <2> QED BY <1>1, <2>1 DEF Inv, SentOnce
<1>5. RestOfLog' /\ AtWork' /\ AllBefore' /\ HandledWasSent' /\ FirstComeFirstServed'
  BY <1>1, <1>2 DEF Inv, RestOfLog, AtWork, AllBefore, HandledWasSent, FirstComeFirstServed
<1> QED BY <1>3, <1>4, <1>5 DEF Inv

\* What RabbitMQ puts back is where it was.
LEMMA RedeliveredIsRest ==
  ASSUME Inv, mpc \in {"busy", "unacked"}, queue' = Redelivered, UNCHANGED log
  PROVE  /\ queue' \in Seq(Apps \X (Nat \ {0}))
         /\ Position' = Position - 1
         /\ RestOfLog'
<1> DEFINE first == <<current>>
<1>1. /\ Len(log) \in Nat /\ Len(queue) \in Nat /\ Len(queue) <= Len(log)
      /\ queue \in Seq(Apps \X (Nat \ {0}))
      /\ Position \in 1 .. Len(log) /\ current = log[Position]
  <2>1. Len(log) \in Nat /\ Len(queue) \in Nat
    BY LenProperties DEF Inv, LogType
  <2> QED BY <2>1 DEF Inv, LogType, RestOfLog, AtWork, Position
<1>2. current \in Apps \X (Nat \ {0}) /\ current # None
  BY <1>1, ElementOfSeq, RequestIsSome DEF Inv, LogType
<1>3. first \in Seq(Apps \X (Nat \ {0})) /\ Len(first) = 1 /\ first[1] = current
  BY <1>2
<1>4. queue' = first \o queue
  BY <1>2 DEF Redelivered
<1> HIDE DEF first
<1>5. /\ queue' \in Seq(Apps \X (Nat \ {0})) /\ Len(queue') = 1 + Len(queue)
      /\ \A i \in 1 .. 1 + Len(queue) :
           queue'[i] = IF i <= 1 THEN first[i] ELSE queue[i - 1]
  <2>1. /\ first \o queue \in Seq(Apps \X (Nat \ {0}))
        /\ Len(first \o queue) = Len(first) + Len(queue)
        /\ \A i \in 1 .. Len(first) + Len(queue) :
             (first \o queue)[i] = IF i <= Len(first) THEN first[i] ELSE queue[i - Len(first)]
    BY <1>1, <1>3, ConcatProperties
  <2> QED BY <1>3, <1>4, <2>1
<1>6. Position' = Position - 1
  BY <1>1, <1>5 DEF Position
<1>7. RestOfLog'
  <2>1. ASSUME NEW i \in 1 .. Len(queue') PROVE queue'[i] = log[Position' + i]
    <3>1. CASE i = 1
      <4>1. Position' + i = Position /\ 1 \in 1 .. 1 + Len(queue)
        BY <1>1, <1>6, <3>1
      <4> QED BY <1>1, <1>3, <1>5, <3>1, <4>1
    <3>2. CASE i # 1
      <4>1. i - 1 \in 1 .. Len(queue) /\ Position' + i = Position + (i - 1)
        BY <1>1, <1>5, <1>6, <3>2
      <4>2. queue[i - 1] = log[Position + (i - 1)]
        BY <4>1 DEF Inv, RestOfLog
      <4>3. queue'[i] = queue[i - 1]
        BY <1>1, <1>5, <3>2
      <4> QED BY <4>1, <4>2, <4>3
    <3> QED BY <3>1, <3>2
  <2>2. Len(queue') <= Len(log)
    BY <1>1, <1>5, <1>6 DEF Position
  <2> QED BY <2>1, <2>2 DEF RestOfLog
<1> QED BY <1>5, <1>6, <1>7

\* A dead manager has taken nothing, or has given back what it had.
LEMMA CrashInv ==
  ASSUME Inv, Crash
  PROVE  Inv'
<1>1. /\ mpc' = "down" /\ current' = None
      /\ queue' = IF transport = "kafka" THEN log ELSE Redelivered
      /\ UNCHANGED <<transport, log, handled, dropped, batch, waiting>>
  BY DEF Crash, app
<1>2. /\ queue' \in Seq(Apps \X (Nat \ {0}))
      /\ RestOfLog'
      /\ \A i \in 1 .. Position' : log[i] \in handled \cup dropped \cup {None}
  <2>1. CASE transport = "kafka"
    <3>1. queue' = log /\ log \in Seq(Apps \X (Nat \ {0})) /\ Len(log) \in Nat
      BY <1>1, <2>1, LenProperties DEF Inv, LogType
    <3>2. Position' = 0
      BY <1>1, <3>1 DEF Position
    <3> QED BY <1>1, <3>1, <3>2 DEF RestOfLog
  <2>2. CASE transport = "rabbitmq" /\ mpc \in {"down", "idle"}
    <3>1. queue' = queue /\ current = None
      <4>1. current = None /\ queue \in Seq(Apps \X (Nat \ {0}))
        BY <2>2 DEF Inv, LogType, AtWork
      <4> QED BY <1>1, <2>2, <4>1, ConcatEmptySeq DEF Redelivered
    <3>2. Position' = Position
      BY <1>1, <3>1 DEF Position
    <3> QED BY <1>1, <3>1, <3>2 DEF Inv, LogType, RestOfLog, AllBefore
  <2>3. CASE transport = "rabbitmq" /\ mpc \in {"busy", "unacked"}
    <3>1. /\ queue' \in Seq(Apps \X (Nat \ {0})) /\ Position' = Position - 1 /\ RestOfLog'
      BY <1>1, <2>3, RedeliveredIsRest
    <3>2. Position \in 1 .. Len(log) /\ current = log[Position]
      <4>1. Len(log) \in Nat /\ Len(queue) \in Nat
        BY LenProperties DEF Inv, LogType
      <4> QED BY <2>3, <4>1 DEF Inv, AtWork, Position
    <3>3. ASSUME NEW i \in 1 .. Position - 1
          PROVE  log[i] \in handled \cup dropped
      <4>1. log[i] \in handled \cup dropped \cup {current}
        BY <3>2 DEF Inv, AllBefore
      <4>2. log[i] # current
        BY <3>2 DEF Inv, SentOnce
      <4> QED BY <4>1, <4>2
    <3> QED BY <3>1, <3>3
  <2> QED BY <2>1, <2>2, <2>3 DEF Inv, LogType, AtWork
<1>3. LogType' /\ SentOnce' /\ HandledWasSent' /\ FirstComeFirstServed'
  BY <1>1, <1>2 DEF Inv, LogType, SentOnce, HandledWasSent, FirstComeFirstServed
<1>4. AtWork' /\ AllBefore'
  BY <1>1, <1>2 DEF AtWork, AllBefore
<1> QED BY <1>2, <1>3, <1>4 DEF Inv

\* Every step keeps the invariant.
LEMMA NextInv == Inv /\ [Next]_vars => Inv'
<1> SUFFICES ASSUME Inv, [Next]_vars PROVE Inv'
  OBVIOUS
<1>1. ASSUME NEW a \in Apps, Request(a) \/ Answered(a) PROVE Inv'
  BY <1>1, RequestInv, AnsweredInv
<1>2. CASE Start
  BY <1>2, QuietStep DEF Start, broker, app, history, Inv, AtWork
<1>3. CASE Receive \/ ReceiveStopped
  BY <1>3, ReceiveInv
<1>4. CASE Process \/ Nack
  BY <1>4, ProcessInv
<1>5. CASE Deliver
  BY <1>5, QuietStep DEF Deliver, app, history
<1>6. CASE Ack
  BY <1>6, QuietStep DEF Ack, broker, app, history, Inv, AtWork
<1>7. CASE Stop
  BY <1>7, QuietStep DEF Stop, broker, app
<1>8. CASE Crash
  BY <1>8, CrashInv
<1>9. CASE UNCHANGED vars
  BY <1>9, QuietStep DEF vars, broker, manager, app, history
<1> QED BY <1>1, <1>2, <1>3, <1>4, <1>5, <1>6, <1>7, <1>8, <1>9 DEF Next

\* For any number of applications and batches, and however often the manager dies,
\* is stopped or rejects a request: nobody's request is handled before an earlier one.
THEOREM ServedInOrder == Spec => []FirstComeFirstServed
<1>1. Inv => FirstComeFirstServed
  BY DEF Inv
<1> QED BY <1>1, InitInv, NextInv, PTL DEF Spec

(***************************************************************************)
(* GPU time.  An answer on the way stands for GPU time that was spent, and  *)
(* where no request is replayed there is at most one, to a request that was *)
(* handled.                                                                 *)
(***************************************************************************)

\* How often an element is in a sequence, after an append and without its head.
LEMMA CopiesType ==
  ASSUME NEW S, NEW s \in Seq(S), NEW x
  PROVE  Copies(s, x) \in Nat
<1>1. IsFiniteSet(1 .. Len(s))
  BY LenProperties, FS_Interval
<1>2. IsFiniteSet({i \in 1 .. Len(s) : s[i] = x})
  BY <1>1, FS_Subset
<1> QED BY <1>2, FS_CardinalityType DEF Copies

LEMMA CopiesAppend ==
  ASSUME NEW S, NEW s \in Seq(S), NEW e \in S, NEW x
  PROVE  Copies(Append(s, e), x) = Copies(s, x) + (IF e = x THEN 1 ELSE 0)
<1> DEFINE t == Append(s, e)
           old == {i \in 1 .. Len(s) : s[i] = x}
           new == {i \in 1 .. Len(t) : t[i] = x}
<1>1. /\ Len(s) \in Nat /\ Len(t) = Len(s) + 1 /\ t[Len(s) + 1] = e
      /\ \A i \in 1 .. Len(s) : t[i] = s[i]
  BY AppendProperties, LenProperties
<1> HIDE DEF t
<1>2. IsFiniteSet(old) /\ Len(s) + 1 \notin old
  <2>1. IsFiniteSet(1 .. Len(s))
    BY <1>1, FS_Interval
  <2> QED BY <1>1, <2>1, FS_Subset
<1>3. new = IF e = x THEN old \cup {Len(s) + 1} ELSE old
  BY <1>1
<1>4. Cardinality(old) \in Nat
  BY <1>2, FS_CardinalityType
<1> HIDE DEF old, new
<1>5. Cardinality(new) = Cardinality(old) + (IF e = x THEN 1 ELSE 0)
  <2>1. Cardinality(old \cup {Len(s) + 1}) = Cardinality(old) + 1
    BY <1>2, FS_AddElement
  <2> QED BY <1>3, <1>4, <2>1
<1> QED BY <1>5 DEF Copies, old, new, t

LEMMA CopiesTail ==
  ASSUME NEW S, NEW s \in Seq(S), s # << >>, NEW x
  PROVE  Copies(s, x) = Copies(Tail(s), x) + (IF Head(s) = x THEN 1 ELSE 0)
<1> DEFINE t == Tail(s)
           new == {i \in 1 .. Len(t) : t[i] = x}
           old == {i \in 1 .. Len(s) : s[i] = x}
           moved == old \ {1}
<1>1. /\ Len(s) \in Nat \ {0} /\ Len(t) = Len(s) - 1 /\ Head(s) = s[1]
      /\ \A i \in 1 .. Len(t) : t[i] = s[i + 1]
  BY HeadTailProperties, EmptySeq, LenProperties
<1> HIDE DEF t
<1>2. IsFiniteSet(new) /\ IsFiniteSet(old)
  <2>1. IsFiniteSet(1 .. Len(t)) /\ IsFiniteSet(1 .. Len(s))
    BY <1>1, FS_Interval
  <2> QED BY <2>1, FS_Subset
<1>3. Cardinality(moved) = Cardinality(new)
  <2> DEFINE f == [i \in new |-> i + 1]
  <2>1. f \in Bijection(new, moved)
    <3>1. \A i \in new : i + 1 \in moved
      BY <1>1
    <3>2. \A j \in moved : j - 1 \in new /\ (j - 1) + 1 = j
      BY <1>1
    <3>3. f \in [new -> moved]
      BY <3>1
    <3>4. \A i, j \in new : f[i] = f[j] => i = j
      BY <1>1
    <3>5. \A j \in moved : \E i \in new : f[i] = j
      BY <3>2
    <3> QED BY <3>3, <3>4, <3>5 DEF Bijection, Injection, IsInjective, Surjection
  <2>2. ExistsBijection(new, moved)
    BY <2>1 DEF ExistsBijection
  <2> QED BY <1>2, <2>2, FS_Bijection
<1>4. 1 \in old <=> Head(s) = x
  BY <1>1
<1>5. Cardinality(old) \in Nat /\ Cardinality(old) >= Cardinality(moved)
  BY <1>2, FS_CardinalityType, FS_Subset
<1> HIDE DEF old, new
<1>6. Cardinality(moved) = IF 1 \in old THEN Cardinality(old) - 1 ELSE Cardinality(old)
  BY <1>2, FS_RemoveElement
<1>7. Cardinality(old) = Cardinality(new) + (IF Head(s) = x THEN 1 ELSE 0)
  BY <1>3, <1>4, <1>5, <1>6
<1> QED BY <1>7 DEF Copies, old, new, t

\* Answers are counted, and each application has had GPU time for its own.
GpuType ==
  /\ responses \in [Apps -> Nat] /\ slots \in [Apps -> Nat]
  /\ outbox \in Seq(Apps) /\ crashes \in Nat

OnTheWay(a) == responses[a] > 0 \/ a \in Elements(outbox)

\* On Kafka, until a manager dies: at most one answer is on the way to an application,
\* and it answers the request the application waits with.
KafkaAnswers ==
  transport = "kafka" /\ crashes = 0 =>
    /\ HandledFirst
    /\ \A i, j \in 1 .. Len(outbox) : outbox[i] = outbox[j] => i = j
    /\ \A a \in Apps : /\ responses[a] <= 1
                       /\ a \in Elements(outbox) => responses[a] = 0
                       /\ OnTheWay(a) => a \in waiting /\ <<a, batch[a] + 1>> \in handled
    /\ \A i \in Position + 1 .. Len(log) : log[i] \notin handled
    /\ mpc = "busy" => current \notin handled

\* On RabbitMQ an application asks once, and is answered, perhaps twice, for that.
RabbitAnswers ==
  transport = "rabbitmq" =>
    /\ HandledFirst
    /\ outbox = << >>
    /\ \A i \in 1 .. Len(log) : log[i][2] = 1
    /\ \A a \in Apps : /\ batch[a] <= 1
                       /\ a \in waiting => batch[a] = 0
                       /\ responses[a] > 0 /\ batch[a] = 0 => <<a, 1>> \in handled

GpuInv == Inv /\ GpuType /\ NoFreeTime /\ KafkaAnswers /\ RabbitAnswers

\* Nothing is on the way at the beginning.
LEMMA InitGpuInv == Init => GpuInv
<1> SUFFICES ASSUME Init PROVE GpuInv
  OBVIOUS
<1>1. << >> \in Seq(Apps) /\ Len(<< >>) = 0 /\ Elements(<< >>) = {}
  BY EmptySeq DEF Elements
<1>2. \A x : Copies(<< >>, x) = 0
  BY <1>1, FS_EmptySet DEF Copies
<1>3. GpuType
  BY <1>1 DEF Init, GpuType
<1>4. NoFreeTime
  BY <1>2 DEF Init, NoFreeTime
<1>5. KafkaAnswers /\ RabbitAnswers
  BY <1>1 DEF Init, KafkaAnswers, RabbitAnswers, HandledFirst, OnTheWay, Position
<1> QED BY InitInv, <1>3, <1>4, <1>5 DEF GpuInv

\* A step that touches neither answers nor GPU time.
LEMMA NoAnswerStep ==
  ASSUME GpuInv, Inv',
         UNCHANGED <<transport, log, responses, outbox, waiting, batch, handled, slots, crashes>>,
         \/ UNCHANGED queue /\ (mpc' = "busy" => mpc = "busy" /\ current' = current)
         \/ queue # << >> /\ queue' = Tail(queue) /\ (mpc' = "busy" => current' = Head(queue))
  PROVE  GpuInv'
<1>1. GpuType' /\ NoFreeTime' /\ RabbitAnswers'
  BY DEF GpuInv, GpuType, NoFreeTime, RabbitAnswers, HandledFirst
<1>2. KafkaAnswers'
  <2>1. CASE UNCHANGED queue /\ (mpc' = "busy" => mpc = "busy" /\ current' = current)
    <3>1. Position' = Position
      BY <2>1 DEF Position
    <3> QED BY <2>1, <3>1 DEF GpuInv, KafkaAnswers, HandledFirst, OnTheWay
  <2>2. CASE queue # << >> /\ queue' = Tail(queue) /\ (mpc' = "busy" => current' = Head(queue))
    <3>1. /\ Position \in Nat /\ Position' = Position + 1
          /\ Position + 1 \in 1 .. Len(log) /\ Head(queue) = log[Position + 1]
      BY <2>2, NextOfLog DEF GpuInv
    <3>2. Len(log) \in Nat
      BY LenProperties DEF GpuInv, Inv, LogType
    <3>3. \A i \in Position' + 1 .. Len(log) : i \in Position + 1 .. Len(log)
      BY <3>1, <3>2
    <3>4. Position + 1 \in Position + 1 .. Len(log)
      BY <3>1, <3>2
    <3> QED BY <2>2, <3>1, <3>3, <3>4 DEF GpuInv, KafkaAnswers, HandledFirst, OnTheWay
  <2> QED BY <2>1, <2>2
<1> QED BY <1>1, <1>2 DEF GpuInv

\* A request adds nothing to what is on the way, and is not handled yet.
LEMMA RequestGpuInv ==
  ASSUME GpuInv, Inv', NEW a \in Apps, Request(a)
  PROVE  GpuInv'
<1> DEFINE r == <<a, batch[a] + 1>>
<1>1. /\ batch[a] < Limit /\ waiting' = waiting \cup {a}
      /\ log' = Append(log, r) /\ queue' = Append(queue, r)
      /\ UNCHANGED <<transport, responses, outbox, mpc, current, batch, handled, slots, crashes>>
      /\ r \in Apps \X (Nat \ {0}) /\ r[2] = batch[a] + 1 /\ batch \in [Apps -> Nat]
  BY DEF Request, manager, history, GpuInv, Inv, LogType
<1> HIDE DEF r
<1>2. /\ Len(log) \in Nat /\ Len(log') = Len(log) + 1 /\ log'[Len(log) + 1] = r
      /\ \A i \in 1 .. Len(log) : log'[i] = log[i]
      /\ Len(queue) \in Nat /\ Len(queue') = Len(queue) + 1 /\ Len(queue) <= Len(log)
  BY <1>1, AppendProperties, LenProperties DEF GpuInv, Inv, LogType, RestOfLog
<1>3. GpuType' /\ NoFreeTime'
  BY <1>1 DEF GpuInv, GpuType, NoFreeTime
<1>4. KafkaAnswers'
  <2>1. r \notin handled
    <3>1. SUFFICES ASSUME NEW i \in 1 .. Len(log), log[i] = r PROVE FALSE
      BY DEF GpuInv, Inv, HandledWasSent
    <3>2. /\ i \in 1 .. Len(log') /\ Len(log) + 1 \in 1 .. Len(log')
          /\ log'[i] = log'[Len(log) + 1]
      BY <1>2, <3>1
    <3>3. i = Len(log) + 1
      BY <3>2 DEF Inv, SentOnce
    <3> QED BY <1>2, <3>3
  <2>2. Position' = Position /\ Position \in Nat
    BY <1>2 DEF Position
  <2>3. ASSUME transport = "kafka", crashes = 0, NEW i \in Position + 1 .. Len(log')
        PROVE  log'[i] \notin handled
    <3>1. CASE i = Len(log) + 1
      BY <1>2, <2>1, <3>1
    <3>2. CASE i \in Position + 1 .. Len(log)
      <4>1. log'[i] = log[i]
        BY <1>2, <2>2, <3>2
      <4> QED BY <2>3, <3>2, <4>1 DEF GpuInv, KafkaAnswers
    <3> QED BY <1>2, <2>2, <3>1, <3>2
  <2> QED BY <1>1, <2>2, <2>3 DEF GpuInv, KafkaAnswers, HandledFirst, OnTheWay
<1>5. RabbitAnswers'
  <2>1. SUFFICES ASSUME transport = "rabbitmq" PROVE RabbitAnswers'
    BY <1>1 DEF RabbitAnswers
  <2>2. batch[a] = 0
    BY <1>1, <2>1 DEF Limit
  <2>3. \A i \in 1 .. Len(log') : log'[i][2] = 1
    <3>1. \A i \in 1 .. Len(log') : i \in 1 .. Len(log) \/ i = Len(log) + 1
      BY <1>2
    <3> QED BY <1>1, <1>2, <2>1, <2>2, <3>1 DEF GpuInv, RabbitAnswers
  <2> QED BY <1>1, <2>1, <2>2, <2>3 DEF GpuInv, RabbitAnswers, HandledFirst
<1> QED BY <1>3, <1>4, <1>5 DEF GpuInv

\* An application takes an answer to a request that was handled.
LEMMA AnsweredGpuInv ==
  ASSUME GpuInv, Inv', NEW a \in Apps, Answered(a)
  PROVE  GpuInv'
<1>1. /\ a \in waiting /\ responses[a] > 0 /\ waiting' = waiting \ {a}
      /\ responses' = [responses EXCEPT ![a] = @ - 1]
      /\ batch' = [batch EXCEPT ![a] = @ + 1]
      /\ UNCHANGED <<transport, log, queue, outbox, mpc, current, handled, slots, crashes>>
      /\ batch \in [Apps -> Nat] /\ responses \in [Apps -> Nat] /\ slots \in [Apps -> Nat]
      /\ outbox \in Seq(Apps)
  BY DEF Answered, Taken, manager, history, GpuInv, GpuType, Inv, LogType
<1>2. GpuType'
  BY <1>1 DEF GpuInv, GpuType
<1>3. NoFreeTime'
  <2>1. ASSUME NEW b \in Apps
        PROVE  batch'[b] + responses'[b] + Copies(outbox, b) <= slots[b]
    <3>1. batch[b] + responses[b] + Copies(outbox, b) <= slots[b]
      BY DEF GpuInv, NoFreeTime
    <3>2. Copies(outbox, b) \in Nat
      BY <1>1, CopiesType
    <3> QED BY <1>1, <3>1, <3>2
  <2> QED BY <1>1, <2>1 DEF NoFreeTime
<1>4. ASSUME HandledFirst, <<a, batch[a] + 1>> \in handled PROVE HandledFirst'
  <2>1. SUFFICES ASSUME NEW b \in Apps, NEW n \in 1 .. batch'[b] PROVE <<b, n>> \in handled
    BY <1>1 DEF HandledFirst
  <2>2. CASE b = a /\ n = batch[a] + 1
    BY <1>4, <2>2
  <2>3. CASE n \in 1 .. batch[b]
    BY <1>4, <2>3 DEF HandledFirst
  <2>4. b = a \/ batch'[b] = batch[b]
    BY <1>1
  <2>5. batch'[a] = batch[a] + 1 /\ batch[a] \in Nat
    BY <1>1
  <2> QED BY <2>2, <2>3, <2>4, <2>5
<1>5. KafkaAnswers'
  <2>1. SUFFICES ASSUME transport = "kafka", crashes = 0 PROVE KafkaAnswers'
    BY <1>1 DEF KafkaAnswers
  <2>2. /\ <<a, batch[a] + 1>> \in handled /\ responses[a] <= 1 /\ HandledFirst
        /\ a \notin Elements(outbox)
    BY <1>1, <2>1 DEF GpuInv, KafkaAnswers, OnTheWay
  <2>3. responses'[a] = 0
    BY <1>1, <2>2
  <2>4. ASSUME NEW b \in Apps
        PROVE  /\ responses'[b] <= 1
               /\ b \in Elements(outbox) => responses'[b] = 0
               /\ responses'[b] > 0 \/ b \in Elements(outbox) =>
                    b \in waiting' /\ <<b, batch'[b] + 1>> \in handled
    <3>1. CASE b = a
      BY <2>2, <2>3, <3>1
    <3>2. CASE b # a
      <4>1. responses'[b] = responses[b] /\ batch'[b] = batch[b]
        BY <1>1, <3>2
      <4> QED BY <1>1, <2>1, <3>2, <4>1 DEF GpuInv, KafkaAnswers, OnTheWay
    <3> QED BY <3>1, <3>2
  <2>5. HandledFirst'
    BY <1>4, <2>2
  <2>6. Position' = Position
    BY <1>1 DEF Position
  <2> QED BY <1>1, <2>1, <2>4, <2>5, <2>6 DEF GpuInv, KafkaAnswers, OnTheWay
<1>6. RabbitAnswers'
  <2>1. SUFFICES ASSUME transport = "rabbitmq" PROVE RabbitAnswers'
    BY <1>1 DEF RabbitAnswers
  <2>2. batch[a] = 0 /\ <<a, 1>> \in handled /\ HandledFirst
    BY <1>1, <2>1 DEF GpuInv, RabbitAnswers
  <2>3. HandledFirst'
    BY <1>4, <2>2
  <2>4. ASSUME NEW b \in Apps
        PROVE  /\ batch'[b] <= 1
               /\ b \in waiting' => batch'[b] = 0
               /\ responses'[b] > 0 /\ batch'[b] = 0 => <<b, 1>> \in handled
    <3>1. CASE b = a
      BY <1>1, <2>2, <3>1
    <3>2. CASE b # a
      <4>1. responses'[b] = responses[b] /\ batch'[b] = batch[b]
        BY <1>1, <3>2
      <4> QED BY <1>1, <2>1, <4>1 DEF GpuInv, RabbitAnswers
    <3> QED BY <3>1, <3>2
  <2> QED BY <1>1, <2>1, <2>3, <2>4 DEF GpuInv, RabbitAnswers
<1> QED BY <1>2, <1>3, <1>5, <1>6 DEF GpuInv

\* The GPU is given to a request, and its answer set off.
LEMMA ProcessGpuInv ==
  ASSUME GpuInv, Inv', Process
  PROVE  GpuInv'
<1> DEFINE c == current[1]
<1>1. /\ mpc = "busy" /\ mpc' \in {"idle", "unacked"}
      /\ handled' = handled \cup {current}
      /\ slots' = [slots EXCEPT ![c] = @ + 1]
      /\ UNCHANGED <<transport, log, queue, waiting, batch, crashes>>
      /\ \/ transport = "kafka" /\ outbox' = Append(outbox, c) /\ UNCHANGED responses
         \/ transport = "rabbitmq" /\ Answer(c) /\ UNCHANGED outbox
      /\ responses \in [Apps -> Nat] /\ slots \in [Apps -> Nat] /\ outbox \in Seq(Apps)
      /\ batch \in [Apps -> Nat]
  BY DEF Process, Sent, app, GpuInv, GpuType, Inv, LogType
<1>2. /\ Position \in 1 .. Len(log) /\ Position' = Position /\ current = log[Position]
      /\ current \in Apps \X (Nat \ {0}) /\ c \in Apps /\ current = <<c, current[2]>>
      /\ Len(log) \in Nat
  <2>1. Len(log) \in Nat /\ Len(queue) \in Nat
    BY LenProperties DEF GpuInv, Inv, LogType
  <2>2. Position \in 1 .. Len(log) /\ Position' = Position /\ current = log[Position]
    BY <1>1, <2>1 DEF GpuInv, Inv, AtWork, Position
  <2>3. current \in Apps \X (Nat \ {0})
    BY <2>2, ElementOfSeq DEF GpuInv, Inv, LogType
  <2> QED BY <2>1, <2>2, <2>3
<1> HIDE DEF c
<1>3. HandledFirst => HandledFirst'
  BY <1>1 DEF HandledFirst
<1>4. /\ outbox' \in Seq(Apps) /\ responses' \in [Apps -> Nat]
      /\ \A b \in Apps : responses'[b] + Copies(outbox', b)
           <= responses[b] + Copies(outbox, b) + (IF c = b THEN 1 ELSE 0)
  <2>1. \A b \in Apps : Copies(outbox, b) \in Nat
    BY <1>1, CopiesType
  <2>2. CASE transport = "kafka" /\ outbox' = Append(outbox, c) /\ UNCHANGED responses
    <3>1. outbox' \in Seq(Apps)
      BY <1>1, <1>2, <2>2, AppendProperties
    <3>2. \A b \in Apps : Copies(outbox', b) = Copies(outbox, b) + (IF c = b THEN 1 ELSE 0)
      BY <1>1, <1>2, <2>2, CopiesAppend
    <3>3. ASSUME NEW b \in Apps
          PROVE  responses'[b] + Copies(outbox', b)
                   <= responses[b] + Copies(outbox, b) + (IF c = b THEN 1 ELSE 0)
      <4>1. responses'[b] = responses[b] /\ responses[b] \in Nat
        BY <1>1, <2>2
      <4>2. Copies(outbox, b) \in Nat
        BY <2>1
      <4> QED BY <3>2, <4>1, <4>2
    <3>4. responses' \in [Apps -> Nat]
      BY <1>1, <2>2
    <3> QED BY <3>1, <3>3, <3>4
  <2>3. CASE transport = "rabbitmq" /\ Answer(c) /\ UNCHANGED outbox
    <3>1. /\ responses' \in [Apps -> Nat]
          /\ \A b \in Apps : responses'[b] <= responses[b] + (IF c = b THEN 1 ELSE 0)
      <4>1. PICK n \in {0, 1} : responses' = [responses EXCEPT ![c] = @ + n]
        <5>1. \/ responses' = [responses EXCEPT ![c] = @ + 1]
              \/ responses' = [responses EXCEPT ![c] = @]
          BY <2>3 DEF Answer
        <5>2. responses[c] \in Nat /\ responses[c] + 0 = responses[c]
          BY <1>1, <1>2
        <5> QED BY <5>1, <5>2
      <4> QED BY <1>1, <1>2, <4>1
    <3>2. ASSUME NEW b \in Apps
          PROVE  responses'[b] + Copies(outbox', b)
                   <= responses[b] + Copies(outbox, b) + (IF c = b THEN 1 ELSE 0)
      <4>1. Copies(outbox', b) = Copies(outbox, b) /\ Copies(outbox, b) \in Nat
        BY <2>1, <2>3
      <4>2. responses'[b] \in Nat /\ responses[b] \in Nat
        BY <1>1, <3>1
      <4> QED BY <3>1, <4>1, <4>2
    <3> QED BY <1>1, <2>3, <3>1, <3>2
  <2> QED BY <1>1, <2>2, <2>3
<1>5. GpuType'
  <2>1. slots' \in [Apps -> Nat]
    BY <1>1, <1>2
  <2>2. crashes' \in Nat
    BY <1>1 DEF GpuInv, GpuType
  <2> QED BY <1>4, <2>1, <2>2 DEF GpuType
<1>6. NoFreeTime'
  <2>1. ASSUME NEW b \in Apps
        PROVE  batch[b] + responses'[b] + Copies(outbox', b) <= slots'[b]
    <3>1. batch[b] + responses[b] + Copies(outbox, b) <= slots[b]
      BY DEF GpuInv, NoFreeTime
    <3>2. Copies(outbox, b) \in Nat /\ Copies(outbox', b) \in Nat
      BY <1>1, <1>4, CopiesType
    <3>3. slots'[b] = slots[b] + (IF c = b THEN 1 ELSE 0)
      BY <1>1
    <3>4. responses'[b] + Copies(outbox', b)
            <= responses[b] + Copies(outbox, b) + (IF c = b THEN 1 ELSE 0)
      BY <1>4
    <3>5. /\ batch[b] \in Nat /\ responses[b] \in Nat /\ responses'[b] \in Nat
          /\ slots[b] \in Nat
      BY <1>1, <1>4
    <3> HIDE DEF NoFreeTime
    <3> QED BY <3>1, <3>2, <3>3, <3>4, <3>5
  <2> QED BY <1>1, <2>1 DEF NoFreeTime
<1>7. KafkaAnswers'
  <2>1. SUFFICES ASSUME transport = "kafka", crashes = 0 PROVE KafkaAnswers'
    BY <1>1 DEF KafkaAnswers
  <2>2. outbox' = Append(outbox, c) /\ responses' = responses
    BY <1>1, <2>1
  <2>3. HandledFirst /\ current \notin handled
    BY <1>1, <2>1 DEF GpuInv, KafkaAnswers
  <2>4. c \in waiting /\ current[2] = batch[c] + 1
    <3>1. current[2] <= batch[c] + (IF c \in waiting THEN 1 ELSE 0)
      BY <1>2 DEF GpuInv, Inv, SentOnce, c
    <3>2. current[2] \in Nat /\ batch[c] \in Nat
      BY <1>1, <1>2
    <3>3. current[2] \notin 1 .. batch[c]
      BY <1>2, <2>3 DEF HandledFirst
    <3>4. current[2] # 0
      BY <1>2
    <3> QED BY <3>1, <3>2, <3>3, <3>4
  <2>5. current = <<c, batch[c] + 1>>
    BY <1>2, <2>4
  <2>6. responses[c] = 0 /\ c \notin Elements(outbox)
    <3>1. ~OnTheWay(c)
      BY <1>2, <2>1, <2>3, <2>5 DEF GpuInv, KafkaAnswers
    <3> QED BY <1>1, <1>2, <3>1 DEF OnTheWay
  <2>7. /\ Len(outbox) \in Nat /\ Len(outbox') = Len(outbox) + 1
        /\ \A i \in 1 .. Len(outbox) : outbox'[i] = outbox[i]
        /\ outbox'[Len(outbox) + 1] = c
    BY <1>1, <1>2, <2>2, AppendProperties, LenProperties
  <2>8. Elements(outbox') = Elements(outbox) \cup {c}
    BY <2>7 DEF Elements
  <2>9. \A i, j \in 1 .. Len(outbox') : outbox'[i] = outbox'[j] => i = j
    <3>1. \A i \in 1 .. Len(outbox) : outbox'[i] # c
      BY <2>6, <2>7 DEF Elements
    <3>2. \A i \in 1 .. Len(outbox') : i \in 1 .. Len(outbox) \/ i = Len(outbox) + 1
      BY <2>7
    <3> QED BY <2>1, <2>7, <3>1, <3>2 DEF GpuInv, KafkaAnswers
  <2>10. ASSUME NEW b \in Apps
         PROVE  /\ responses[b] <= 1
                /\ b \in Elements(outbox') => responses[b] = 0
                /\ responses[b] > 0 \/ b \in Elements(outbox') =>
                     b \in waiting /\ <<b, batch[b] + 1>> \in handled'
    <3>1. CASE b = c
      BY <1>1, <2>4, <2>5, <2>6, <3>1
    <3>2. CASE b # c
      BY <1>1, <2>1, <2>8, <3>2 DEF GpuInv, KafkaAnswers, OnTheWay
    <3> QED BY <3>1, <3>2
  <2>11. ASSUME NEW i \in Position + 1 .. Len(log) PROVE log[i] \notin handled'
    <3>1. log[i] \notin handled
      BY <2>1 DEF GpuInv, KafkaAnswers
    <3>2. i \in 1 .. Len(log) /\ i # Position
      BY <1>2
    <3>3. log[i] # current
      BY <1>2, <3>2 DEF GpuInv, Inv, SentOnce
    <3> QED BY <1>1, <3>1, <3>3
  <2> QED BY <1>1, <1>2, <1>3, <2>2, <2>3, <2>9, <2>10, <2>11 DEF KafkaAnswers, OnTheWay
<1>8. RabbitAnswers'
  <2>1. SUFFICES ASSUME transport = "rabbitmq" PROVE RabbitAnswers'
    BY <1>1 DEF RabbitAnswers
  <2>2. current = <<c, 1>>
    BY <1>2, <2>1 DEF GpuInv, RabbitAnswers
  <2>3. \A b \in Apps : responses'[b] > 0 /\ batch[b] = 0 => <<b, 1>> \in handled'
    BY <1>1, <2>1, <2>2 DEF Answer, GpuInv, RabbitAnswers
  <2> QED BY <1>1, <1>3, <2>1, <2>3 DEF GpuInv, RabbitAnswers
<1> QED BY <1>5, <1>6, <1>7, <1>8 DEF GpuInv

\* The producer sends the oldest answer it has buffered.
LEMMA DeliverGpuInv ==
  ASSUME GpuInv, Inv', Deliver
  PROVE  GpuInv'
<1> DEFINE h == Head(outbox)
<1>1. /\ outbox # << >> /\ Answer(h) /\ outbox' = Tail(outbox)
      /\ UNCHANGED <<transport, log, queue, mpc, current, waiting, batch, handled, slots, crashes>>
      /\ responses \in [Apps -> Nat] /\ slots \in [Apps -> Nat] /\ outbox \in Seq(Apps)
      /\ batch \in [Apps -> Nat]
  BY DEF Deliver, Unsent, app, history, GpuInv, GpuType, Inv, LogType
<1>2. /\ h \in Apps /\ outbox' \in Seq(Apps) /\ h = outbox[1]
      /\ Len(outbox) \in Nat \ {0} /\ Len(outbox') = Len(outbox) - 1
      /\ \A i \in 1 .. Len(outbox') : outbox'[i] = outbox[i + 1]
  BY <1>1, HeadTailProperties, EmptySeq
<1>3. \A b \in Apps : /\ Copies(outbox, b) = Copies(outbox', b) + (IF h = b THEN 1 ELSE 0)
                      /\ Copies(outbox', b) \in Nat
  BY <1>1, <1>2, CopiesTail, CopiesType
<1> HIDE DEF h
<1>4. /\ responses' \in [Apps -> Nat]
      /\ \A b \in Apps : /\ responses'[b] <= responses[b] + (IF h = b THEN 1 ELSE 0)
                         /\ b # h => responses'[b] = responses[b]
  BY <1>1, <1>2 DEF Answer
<1>5. GpuType'
  BY <1>1, <1>2, <1>4 DEF GpuInv, GpuType
<1>6. NoFreeTime'
  <2>1. ASSUME NEW b \in Apps
        PROVE  batch[b] + responses'[b] + Copies(outbox', b) <= slots[b]
    <3>1. batch[b] + responses[b] + Copies(outbox, b) <= slots[b]
      BY DEF GpuInv, NoFreeTime
    <3>2. /\ responses'[b] <= responses[b] + (IF h = b THEN 1 ELSE 0)
          /\ Copies(outbox, b) = Copies(outbox', b) + (IF h = b THEN 1 ELSE 0)
          /\ Copies(outbox', b) \in Nat
      BY <1>3, <1>4
    <3>3. /\ batch[b] \in Nat /\ responses[b] \in Nat /\ responses'[b] \in Nat
          /\ slots[b] \in Nat
      BY <1>1, <1>4
    <3> QED BY <3>1, <3>2, <3>3
  <2> QED BY <1>1, <2>1 DEF NoFreeTime
<1>7. KafkaAnswers'
  <2>1. SUFFICES ASSUME transport = "kafka", crashes = 0 PROVE KafkaAnswers'
    BY <1>1 DEF KafkaAnswers
  <2>2. \A i, j \in 1 .. Len(outbox) : outbox[i] = outbox[j] => i = j
    BY <2>1 DEF GpuInv, KafkaAnswers
  <2>3. h \in Elements(outbox)
    <3>1. 1 \in 1 .. Len(outbox)
      BY <1>2
    <3> QED BY <1>2, <3>1 DEF Elements
  <2>4. /\ responses[h] = 0 /\ h \in waiting
        /\ <<h, batch[h] + 1>> \in handled
    BY <1>2, <2>1, <2>3 DEF GpuInv, KafkaAnswers, OnTheWay
  <2>5. \A i \in 1 .. Len(outbox') : i + 1 \in 1 .. Len(outbox) /\ i + 1 # 1
    BY <1>2
  <2>6. h \notin Elements(outbox') /\ Elements(outbox') \subseteq Elements(outbox)
    <3>1. ASSUME NEW i \in 1 .. Len(outbox') PROVE outbox'[i] # h
      <4>1. 1 \in 1 .. Len(outbox)
        BY <1>2
      <4> QED BY <1>2, <2>2, <2>5, <4>1
    <3>2. \A i \in 1 .. Len(outbox') : outbox'[i] \in Elements(outbox)
      BY <1>2, <2>5 DEF Elements
    <3> QED BY <3>1, <3>2 DEF Elements
  <2>7. \A i, j \in 1 .. Len(outbox') : outbox'[i] = outbox'[j] => i = j
    <3>1. SUFFICES ASSUME NEW i \in 1 .. Len(outbox'), NEW j \in 1 .. Len(outbox'),
                          outbox'[i] = outbox'[j]
                   PROVE  i = j
      OBVIOUS
    <3>2. i + 1 = j + 1
      BY <1>2, <2>2, <2>5, <3>1
    <3> QED BY <1>2, <3>2
  <2>8. ASSUME NEW b \in Apps
        PROVE  /\ responses'[b] <= 1
               /\ b \in Elements(outbox') => responses'[b] = 0
               /\ responses'[b] > 0 \/ b \in Elements(outbox') =>
                    b \in waiting /\ <<b, batch[b] + 1>> \in handled
    <3>1. CASE b = h
      <4>1. responses'[h] <= 0 + 1
        BY <1>2, <1>4, <2>4
      <4> QED BY <2>4, <2>6, <3>1, <4>1
    <3>2. CASE b # h
      BY <1>1, <1>4, <2>1, <2>6, <3>2 DEF GpuInv, KafkaAnswers, OnTheWay
    <3> QED BY <3>1, <3>2
  <2>9. Position' = Position
    BY <1>1 DEF Position
  <2> QED BY <1>1, <2>1, <2>7, <2>8, <2>9 DEF GpuInv, KafkaAnswers, HandledFirst, OnTheWay
<1>8. RabbitAnswers'
  BY <1>1 DEF GpuInv, RabbitAnswers
<1> QED BY <1>5, <1>6, <1>7, <1>8 DEF GpuInv

\* A death takes buffered answers with it, and nothing else.
LEMMA CrashGpuInv ==
  ASSUME GpuInv, Inv', Crash
  PROVE  GpuInv'
<1>1. /\ outbox' = << >> /\ crashes' = crashes + 1
      /\ UNCHANGED <<transport, log, responses, waiting, batch, handled, slots>>
      /\ << >> \in Seq(Apps) /\ crashes \in Nat
  BY EmptySeq DEF Crash, app, GpuInv, GpuType
<1>2. GpuType'
  BY <1>1 DEF GpuInv, GpuType
<1>3. NoFreeTime'
  <2>1. ASSUME NEW b \in Apps PROVE batch[b] + responses[b] + Copies(<< >>, b) <= slots[b]
    <3>1. batch[b] + responses[b] + Copies(outbox, b) <= slots[b]
      BY DEF GpuInv, NoFreeTime
    <3>2. Copies(outbox, b) \in Nat
      BY CopiesType DEF GpuInv, GpuType
    <3>3. Copies(<< >>, b) = 0
      <4>1. {i \in 1 .. Len(<< >>) : << >>[i] = b} = {}
        BY EmptySeq
      <4> QED BY <4>1, FS_EmptySet DEF Copies
    <3>4. batch[b] \in Nat /\ responses[b] \in Nat /\ slots[b] \in Nat
      BY DEF GpuInv, GpuType, Inv, LogType
    <3> QED BY <3>1, <3>2, <3>3, <3>4
  <2> QED BY <1>1, <2>1 DEF NoFreeTime
<1>4. KafkaAnswers'
  BY <1>1 DEF KafkaAnswers
<1>5. RabbitAnswers'
  BY <1>1 DEF GpuInv, RabbitAnswers, HandledFirst
<1> QED BY <1>2, <1>3, <1>4, <1>5 DEF GpuInv

\* Every step keeps what is known of GPU time and answers.
LEMMA NextGpuInv == GpuInv /\ [Next]_vars => GpuInv'
<1> SUFFICES ASSUME GpuInv, [Next]_vars PROVE GpuInv'
  OBVIOUS
<1>0. Inv'
  BY NextInv DEF GpuInv
<1>1. ASSUME NEW a \in Apps, Request(a) \/ Answered(a) PROVE GpuInv'
  BY <1>0, <1>1, RequestGpuInv, AnsweredGpuInv
<1>2. CASE Start \/ Ack \/ Stop \/ Nack
  <2>1. /\ UNCHANGED <<transport, log, queue, responses, outbox, waiting, batch, handled,
                       slots, crashes>>
        /\ mpc' = "busy" => mpc = "busy" /\ current' = current
    BY <1>2 DEF Start, Ack, Stop, Nack, broker, app, history
  <2> QED BY <1>0, <2>1, NoAnswerStep
<1>3. CASE Receive \/ ReceiveStopped
  <2>1. /\ UNCHANGED <<transport, log, responses, outbox, waiting, batch, handled,
                       slots, crashes>>
        /\ queue # << >> /\ queue' = Tail(queue)
        /\ mpc' = "busy" => current' = Head(queue)
    BY <1>3 DEF Receive, ReceiveStopped, app, history
  <2> QED BY <1>0, <2>1, NoAnswerStep
<1>4. CASE Process
  BY <1>0, <1>4, ProcessGpuInv
<1>5. CASE Deliver
  BY <1>0, <1>5, DeliverGpuInv
<1>6. CASE Crash
  BY <1>0, <1>6, CrashGpuInv
<1>7. CASE UNCHANGED vars
  BY <1>0, <1>7, NoAnswerStep DEF vars, broker, manager, app, history
<1> QED BY <1>1, <1>2, <1>3, <1>4, <1>5, <1>6, <1>7 DEF Next

\* For any number of applications and batches: no application gets past a batch
\* without GPU time of its own, and, unless a Kafka manager died, none before its
\* own request was handled.
THEOREM TimeIsServed == Spec => []GpuTimeIsServed
<1>1. GpuInv => GpuTimeIsServed
  BY DEF GpuInv, GpuTimeIsServed, HandledFirstUnlessReplayed, KafkaAnswers, RabbitAnswers,
         Inv, LogType
<1> QED BY <1>1, InitGpuInv, NextGpuInv, PTL DEF Spec

(***************************************************************************)
(* One token each.  While the manager lives, what the broker still has, and *)
(* what the manager works on, is the request its application waits with: a  *)
(* request is answered once, so nothing it answers is still on the way.     *)
(***************************************************************************)
Asked(a) == <<a, batch[a] + 1>>
Busy(r) == IF mpc = "busy" /\ current = r THEN 1 ELSE 0
Due(a) == IF a \in waiting /\ Asked(a) \notin dropped THEN 1 ELSE 0

\* Only what was sent is dropped, and only one who may ask waits.
Kinds ==
  /\ TypeOK
  /\ \A r \in dropped : \E i \in 1 .. Len(log) : log[i] = r
  /\ \A a \in waiting : batch[a] < Limit

Unanswered ==
  crashes = 0 =>
    /\ \A i \in 1 .. Len(queue) : queue[i] = Asked(queue[i][1])
    /\ mpc = "busy" => current = Asked(current[1])

TokenInv == GpuInv /\ Kinds /\ Unanswered /\ OneTokenEach

\* The terms of OneTokenEach are numbers, and it speaks of these.
LEMMA TokenTerms ==
  ASSUME TokenInv
  PROVE  /\ \A r : Copies(queue, r) \in Nat /\ Busy(r) \in {0, 1}
         /\ \A a \in Apps : Copies(outbox, a) \in Nat /\ responses[a] \in Nat /\ batch[a] \in Nat
         /\ crashes = 0 => \A a \in Apps :
              Copies(queue, Asked(a)) + Busy(Asked(a)) + Copies(outbox, a) + responses[a] = Due(a)
<1>1. queue \in Seq(Requests) /\ outbox \in Seq(Apps) /\ responses \in [Apps -> Nat]
      /\ batch \in [Apps -> 0 .. Batches]
  BY DEF TokenInv, Kinds, TypeOK
<1>2. \A a \in Apps : batch[a] \in Nat
  BY <1>1, BoundsAssumption
<1>3. \A r : Copies(queue, r) \in Nat
  BY <1>1, CopiesType
<1>4. \A a \in Apps : Copies(outbox, a) \in Nat
  BY <1>1, CopiesType
<1>5. crashes = 0 => \A a \in Apps :
        Copies(queue, Asked(a)) + Busy(Asked(a)) + Copies(outbox, a) + responses[a] = Due(a)
  BY DEF TokenInv, OneTokenEach, Asked, Busy, Due
<1> QED BY <1>1, <1>2, <1>3, <1>4, <1>5 DEF Busy

\* ... in the next state as well.
LEMMA TokensNext ==
  ASSUME \A a \in Apps : Copies(queue', Asked(a)') + Busy(Asked(a))' + Copies(outbox', a)
                           + responses'[a] = Due(a)'
  PROVE  OneTokenEach'
BY DEF OneTokenEach, Asked, Busy, Due

\* What is in a queue is counted in it.
LEMMA CopiesOfElement ==
  ASSUME NEW S, NEW s \in Seq(S), NEW i \in 1 .. Len(s)
  PROVE  Copies(s, s[i]) # 0
<1>1. IsFiniteSet(1 .. Len(s))
  BY LenProperties, FS_Interval
<1>2. IsFiniteSet({j \in 1 .. Len(s) : s[j] = s[i]})
  BY <1>1, FS_Subset
<1>3. {j \in 1 .. Len(s) : s[j] = s[i]} # {}
  OBVIOUS
<1> QED BY <1>2, <1>3, FS_EmptySet DEF Copies

LEMMA CopiesOfNone ==
  ASSUME NEW s, NEW x, \A i \in 1 .. Len(s) : s[i] # x
  PROVE  Copies(s, x) = 0
<1>1. {i \in 1 .. Len(s) : s[i] = x} = {}
  OBVIOUS
<1> QED BY <1>1, FS_EmptySet DEF Copies

\* At the start nobody waits and nothing is on the way.
LEMMA InitTokenInv == Init => TokenInv
<1> SUFFICES ASSUME Init PROVE TokenInv
  OBVIOUS
<1>1. /\ << >> \in Seq(Requests) /\ << >> \in Seq(Apps) /\ Len(<< >>) = 0
      /\ log = << >> /\ queue = << >> /\ outbox = << >> /\ waiting = {} /\ dropped = {}
      /\ mpc = "down" /\ handled = {} /\ responses = [a \in Apps |-> 0]
      /\ batch = [a \in Apps |-> 0] /\ slots = [a \in Apps |-> 0] /\ current = None
      /\ transport \in {"kafka", "rabbitmq"} /\ running = FALSE
  BY EmptySeq DEF Init
<1>2. Kinds
  <2>1. 0 \in 0 .. Batches /\ None \in {None} /\ {} \subseteq Requests
    BY BoundsAssumption
  <2> QED BY <1>1, <2>1 DEF Kinds, TypeOK
<1>3. Unanswered
  BY <1>1 DEF Unanswered
<1>4. OneTokenEach
  <2>1. \A x : Copies(<< >>, x) = 0
    BY <1>1, CopiesOfNone
  <2> QED BY <1>1, <2>1 DEF OneTokenEach
<1> QED BY InitGpuInv, <1>2, <1>3, <1>4 DEF TokenInv

\* What the manager has yet to take, and what it works on, was sent.
LEMMA WasSent ==
  ASSUME TokenInv
  PROVE  /\ \A i \in 1 .. Len(log) : log[i] \in Requests
         /\ \A i \in 1 .. Len(queue) : \E j \in 1 .. Len(log) : queue[i] = log[j]
         /\ mpc = "busy" => \E j \in 1 .. Len(log) : current = log[j]
<1>1. Len(log) \in Nat /\ Len(queue) \in Nat /\ Len(queue) <= Len(log)
  BY LenProperties DEF TokenInv, GpuInv, Inv, LogType, RestOfLog
<1>2. \A i \in 1 .. Len(log) : log[i] \in Requests
  BY ElementOfSeq DEF TokenInv, Kinds, TypeOK
<1>3. \A i \in 1 .. Len(queue) : Position + i \in 1 .. Len(log) /\ queue[i] = log[Position + i]
  BY <1>1 DEF TokenInv, GpuInv, Inv, RestOfLog, Position
<1>4. mpc = "busy" => Position \in 1 .. Len(log) /\ current = log[Position]
  BY <1>1 DEF TokenInv, GpuInv, Inv, AtWork, Position
<1> QED BY <1>2, <1>3, <1>4

\* The numbers of an application's requests end with the one it waits with.
LEMMA NothingAhead ==
  ASSUME TokenInv, NEW a \in Apps, NEW i \in 1 .. Len(log), NEW n \in Nat, log[i] = <<a, n>>
  PROVE  n <= batch[a] + (IF a \in waiting THEN 1 ELSE 0)
<1>1. log[i][1] = a /\ log[i][2] = n
  OBVIOUS
<1> QED BY <1>1 DEF TokenInv, GpuInv, Inv, SentOnce

\* The request it sends is its token.
LEMMA RequestToken ==
  ASSUME TokenInv, GpuInv', NEW a \in Apps, Request(a)
  PROVE  TokenInv'
<1>1. /\ a \notin waiting /\ waiting' = waiting \cup {a} /\ batch[a] < Limit
      /\ log' = Append(log, Asked(a)) /\ queue' = Append(queue, Asked(a))
      /\ UNCHANGED <<transport, responses, outbox, mpc, current, running, batch, handled,
                     dropped, slots, crashes>>
      /\ batch \in [Apps -> 0 .. Batches] /\ queue \in Seq(Requests) /\ log \in Seq(Requests)
      /\ transport \in {"kafka", "rabbitmq"}
  BY DEF Request, Asked, manager, history, TokenInv, Kinds, TypeOK
<1>2. Asked(a) \in Requests /\ Limit' = Limit
  <2>1. batch[a] \in Nat /\ batch[a] + 1 \in 1 .. Batches
    BY <1>1, BoundsAssumption DEF Limit
  <2> QED BY <1>1, <2>1 DEF Asked, Requests, Limit
<1>3. /\ Len(queue) \in Nat /\ Len(queue') = Len(queue) + 1
      /\ queue'[Len(queue) + 1] = Asked(a)
      /\ \A i \in 1 .. Len(queue) : queue'[i] = queue[i]
      /\ Len(log) \in Nat /\ Len(log') = Len(log) + 1
      /\ \A i \in 1 .. Len(log) : log'[i] = log[i]
      /\ queue' \in Seq(Requests) /\ log' \in Seq(Requests)
  BY <1>1, <1>2, AppendProperties, LenProperties
<1>4. \A i \in 1 .. Len(log) : log[i] # Asked(a)
  <2>1. batch[a] \in Nat /\ batch[a] + 1 \in Nat
    BY <1>1
  <2>2. \A i \in 1 .. Len(log) : log[i] = Asked(a) => batch[a] + 1 <= batch[a] + 0
    BY <1>1, <2>1, NothingAhead DEF Asked
  <2> QED BY <2>1, <2>2
<1>5. Asked(a) \notin dropped
  BY <1>4 DEF TokenInv, Kinds
<1>6. \A b \in Apps : Asked(b)' = Asked(b) /\ (Asked(b) = Asked(a) => b = a)
  BY <1>1 DEF Asked
<1>7. Kinds'
  <2>1. TypeOK'
    BY <1>1, <1>3 DEF TokenInv, Kinds, TypeOK
  <2>2. \A r \in dropped' : \E i \in 1 .. Len(log') : log'[i] = r
    <3>1. \A i \in 1 .. Len(log) : i \in 1 .. Len(log')
      BY <1>3
    <3> QED BY <1>1, <1>3, <3>1 DEF TokenInv, Kinds
  <2>3. \A b \in waiting' : batch'[b] < Limit'
    BY <1>1, <1>2 DEF TokenInv, Kinds
  <2> QED BY <2>1, <2>2, <2>3 DEF Kinds
<1>8. Unanswered'
  <2>1. ASSUME crashes = 0, NEW i \in 1 .. Len(queue') PROVE queue'[i] = Asked(queue'[i][1])
    <3>1. CASE i = Len(queue) + 1
      BY <1>3, <3>1 DEF Asked
    <3>2. CASE i \in 1 .. Len(queue)
      BY <1>3, <2>1, <3>2 DEF TokenInv, Unanswered
    <3> QED BY <1>3, <3>1, <3>2
  <2> QED BY <1>1, <2>1 DEF TokenInv, Unanswered, Asked
<1>9. OneTokenEach'
  <2>1. SUFFICES ASSUME crashes = 0, NEW b \in Apps
                 PROVE  Copies(queue', Asked(b)') + Busy(Asked(b))' + Copies(outbox', b)
                          + responses'[b] = Due(b)'
    BY <1>1, TokensNext DEF OneTokenEach
  <2>2. Copies(queue', Asked(b)) = Copies(queue, Asked(b)) + (IF Asked(a) = Asked(b) THEN 1 ELSE 0)
    BY <1>1, <1>2, CopiesAppend
  <2>3. Busy(Asked(b))' = Busy(Asked(b))
    BY <1>1, <1>6 DEF Busy
  <2>4. Due(b)' = Due(b) + (IF b = a THEN 1 ELSE 0)
    BY <1>1, <1>5, <1>6 DEF Due
  <2>5. Copies(queue, Asked(b)) + Busy(Asked(b)) + Copies(outbox, b) + responses[b] = Due(b)
        /\ Copies(queue, Asked(b)) \in Nat /\ Busy(Asked(b)) \in {0, 1}
        /\ Copies(outbox, b) \in Nat /\ responses[b] \in Nat
    BY <2>1, TokenTerms
  <2>6. Copies(outbox', b) = Copies(outbox, b) /\ responses'[b] = responses[b]
    BY <1>1
  <2> QED BY <1>6, <2>2, <2>3, <2>4, <2>5, <2>6
<1> QED BY <1>7, <1>8, <1>9 DEF TokenInv

\* An answer it takes was its token; nothing answers its next request.
LEMMA AnsweredToken ==
  ASSUME TokenInv, GpuInv', NEW a \in Apps, Answered(a)
  PROVE  TokenInv'
<1>1. /\ a \in waiting /\ responses[a] > 0 /\ waiting' = waiting \ {a}
      /\ responses' = [responses EXCEPT ![a] = @ - 1]
      /\ batch' = [batch EXCEPT ![a] = @ + 1]
      /\ UNCHANGED <<transport, log, queue, outbox, mpc, current, running, handled,
                     dropped, slots, crashes>>
      /\ batch \in [Apps -> 0 .. Batches] /\ responses \in [Apps -> Nat]
      /\ queue \in Seq(Requests) /\ transport \in {"kafka", "rabbitmq"}
  BY DEF Answered, Taken, manager, history, TokenInv, Kinds, TypeOK
<1>2. batch[a] \in Nat /\ batch[a] + 1 \in 0 .. Batches /\ Limit' = Limit
  BY <1>1, BoundsAssumption DEF TokenInv, Kinds, Limit
<1>3. /\ \A b \in Apps : b # a => Asked(b)' = Asked(b)
      /\ Asked(a)' = <<a, batch[a] + 2>> /\ Asked(a) = <<a, batch[a] + 1>>
  BY <1>1, <1>2 DEF Asked
<1>4. Kinds'
  <2>1. TypeOK'
    <3>1. responses' \in [Apps -> Nat] /\ batch' \in [Apps -> 0 .. Batches]
      BY <1>1, <1>2
    <3> QED BY <1>1, <3>1 DEF TokenInv, Kinds, TypeOK
  <2> QED BY <1>1, <1>2, <2>1 DEF TokenInv, Kinds
<1>5. \A i \in 1 .. Len(log) : log[i] # Asked(a)'
  <2>1. \A i \in 1 .. Len(log) : log[i] = <<a, batch[a] + 2>> => batch[a] + 2 <= batch[a] + 1
    <3> SUFFICES ASSUME NEW i \in 1 .. Len(log), log[i] = <<a, batch[a] + 2>>
                 PROVE  batch[a] + 2 <= batch[a] + 1
      OBVIOUS
    <3>1. batch[a] + 2 \in Nat
      BY <1>2
    <3>2. batch[a] + 2 <= batch[a] + (IF a \in waiting THEN 1 ELSE 0)
      BY <3>1, NothingAhead
    <3> QED BY <1>1, <3>2
  <2> QED BY <1>2, <1>3, <2>1
<1>6. /\ \A i \in 1 .. Len(queue) : queue[i] # Asked(a)'
      /\ mpc = "busy" => current # Asked(a)'
  BY <1>5, WasSent
<1>7. crashes = 0 => /\ Copies(queue, Asked(a)) = 0 /\ Busy(Asked(a)) = 0
                     /\ Copies(outbox, a) = 0 /\ responses[a] = 1
  <2>1. Due(a) \in {0, 1}
    BY DEF Due
  <2> QED BY <1>1, <2>1, TokenTerms
<1>8. Unanswered'
  <2>1. SUFFICES ASSUME crashes = 0 PROVE Unanswered'
    BY <1>1 DEF Unanswered
  <2>2. ASSUME NEW i \in 1 .. Len(queue) PROVE queue[i] = Asked(queue[i][1])'
    <3>1. queue[i] = Asked(queue[i][1]) /\ queue[i] \in Requests /\ queue[i][1] \in Apps
      <4>1. queue[i] = Asked(queue[i][1])
        BY <2>1 DEF TokenInv, Unanswered
      <4>2. queue[i] \in Requests
        BY <1>1, ElementOfSeq
      <4> QED BY <4>1, <4>2 DEF Requests
    <3>2. queue[i][1] # a
      BY <1>1, <1>7, <2>1, <3>1, CopiesOfElement
    <3> QED BY <1>1, <1>3, <3>1, <3>2
  <2>3. ASSUME mpc = "busy" PROVE current = Asked(current[1])'
    <3>1. current = Asked(current[1]) /\ current[1] \in Apps
      <4>1. current \in Requests
        BY <2>3, WasSent
      <4> QED BY <2>1, <2>3, <4>1 DEF TokenInv, Unanswered, Requests
    <3>2. current[1] # a
      BY <1>7, <2>1, <2>3, <3>1 DEF Busy
    <3> QED BY <1>1, <1>3, <3>1, <3>2
  <2> QED BY <1>1, <2>2, <2>3 DEF Unanswered
<1>9. OneTokenEach'
  <2>1. SUFFICES ASSUME crashes = 0, NEW b \in Apps
                 PROVE  Copies(queue', Asked(b)') + Busy(Asked(b))' + Copies(outbox', b)
                          + responses'[b] = Due(b)'
    BY <1>1, TokensNext DEF OneTokenEach
  <2>2. CASE b = a
    <3>1. Copies(queue', Asked(a)') = 0
      BY <1>1, <1>6, CopiesOfNone
    <3>2. Busy(Asked(a))' = 0 /\ Due(a)' = 0
      BY <1>1, <1>6 DEF Busy, Due
    <3>3. Copies(outbox', a) = 0 /\ responses'[a] = 0
      BY <1>1, <1>7, <2>1
    <3> QED BY <2>2, <3>1, <3>2, <3>3
  <2>3. CASE b # a
    <3>1. /\ Asked(b)' = Asked(b) /\ Busy(Asked(b))' = Busy(Asked(b)) /\ Due(b)' = Due(b)
          /\ responses'[b] = responses[b]
      BY <1>1, <1>3, <2>3 DEF Busy, Due
    <3> QED BY <1>1, <2>1, <3>1, TokenTerms
  <2> QED BY <2>2, <2>3
<1> QED BY <1>4, <1>8, <1>9 DEF TokenInv

\* The manager takes a token off the queue, and keeps it or drops it.
LEMMA ReceiveToken ==
  ASSUME TokenInv, GpuInv', Receive \/ ReceiveStopped
  PROVE  TokenInv'
<1> DEFINE h == Head(queue)
<1>1. /\ mpc = "idle" /\ queue # << >> /\ queue' = Tail(queue)
      /\ \/ mpc' = "busy" /\ current' = h /\ dropped' = dropped
         \/ mpc' = "down" /\ current' = current /\ dropped' = dropped \cup {h}
      /\ UNCHANGED <<transport, log, responses, outbox, running, waiting, batch, handled,
                     slots, crashes>>
      /\ queue \in Seq(Requests)
  BY DEF Receive, ReceiveStopped, app, history, TokenInv, Kinds, TypeOK
<1>2. /\ h = queue[1] /\ 1 \in 1 .. Len(queue) /\ queue' \in Seq(Requests) /\ h \in Requests
      /\ \A i \in 1 .. Len(queue') : queue'[i] = queue[i + 1] /\ i + 1 \in 1 .. Len(queue)
  <2>1. Len(queue) \in Nat \ {0} /\ Len(queue') = Len(queue) - 1
    BY <1>1, HeadTailProperties, EmptySeq
  <2> QED BY <1>1, <2>1, HeadTailProperties
<1>3. \A r : Copies(queue, r) = Copies(queue', r) + (IF h = r THEN 1 ELSE 0)
  BY <1>1, CopiesTail
<1>4. \E j \in 1 .. Len(log) : h = log[j]
  BY <1>2, WasSent
<1> HIDE DEF h
<1>5. Kinds'
  <2>1. TypeOK'
    BY <1>1, <1>2 DEF TokenInv, Kinds, TypeOK
  <2>2. \A r \in dropped' : \E i \in 1 .. Len(log') : log'[i] = r
    BY <1>1, <1>4 DEF TokenInv, Kinds
  <2> QED BY <1>1, <2>1, <2>2 DEF TokenInv, Kinds, Limit
<1>6. Unanswered'
  BY <1>1, <1>2 DEF TokenInv, Unanswered, Asked
<1>7. OneTokenEach'
  <2>1. SUFFICES ASSUME crashes = 0, NEW b \in Apps
                 PROVE  Copies(queue', Asked(b)') + Busy(Asked(b))' + Copies(outbox', b)
                          + responses'[b] = Due(b)'
    BY <1>1, TokensNext DEF OneTokenEach
  <2>2. /\ Copies(queue, Asked(b)) + Busy(Asked(b)) + Copies(outbox, b) + responses[b] = Due(b)
        /\ Copies(queue, Asked(b)) \in Nat /\ Copies(outbox, b) \in Nat /\ responses[b] \in Nat
    BY <2>1, TokenTerms
  <2>3. Copies(queue', Asked(b)) \in Nat
    BY <1>2, CopiesType
  <2>4. Asked(b)' = Asked(b) /\ Busy(Asked(b)) = 0
    BY <1>1 DEF Asked, Busy
  <2>5. CASE mpc' = "busy" /\ current' = h /\ dropped' = dropped
    <3>1. Busy(Asked(b))' = (IF h = Asked(b) THEN 1 ELSE 0) /\ Due(b)' = Due(b)
      BY <1>1, <2>4, <2>5 DEF Busy, Due
    <3> QED BY <1>1, <1>3, <2>2, <2>3, <2>4, <3>1
  <2>6. CASE mpc' = "down" /\ dropped' = dropped \cup {h}
    <3>1. Busy(Asked(b))' = 0 /\ Due(b)' = (IF h = Asked(b) THEN 0 ELSE Due(b)) /\ Due(b) \in {0, 1}
      BY <1>1, <2>4, <2>6 DEF Busy, Due
    <3>2. Copies(outbox', b) = Copies(outbox, b) /\ responses'[b] = responses[b]
      BY <1>1
    <3> QED BY <1>3, <2>2, <2>3, <2>4, <3>1, <3>2
  <2> QED BY <1>1, <2>5, <2>6
<1> QED BY <1>5, <1>6, <1>7 DEF TokenInv

\* The token at work becomes an answer.
LEMMA ProcessToken ==
  ASSUME TokenInv, GpuInv', Process
  PROVE  TokenInv'
<1> DEFINE c == current[1]
<1>1. /\ mpc = "busy" /\ mpc' \in {"idle", "unacked"} /\ current' \in {current, None}
      /\ handled' = handled \cup {current}
      /\ slots' = [slots EXCEPT ![c] = @ + 1]
      /\ UNCHANGED <<transport, log, queue, running, waiting, batch, dropped, crashes>>
      /\ \/ outbox' = Append(outbox, c) /\ UNCHANGED responses
         \/ Answer(c) /\ UNCHANGED outbox
      /\ responses \in [Apps -> Nat] /\ outbox \in Seq(Apps) /\ slots \in [Apps -> Nat]
  BY DEF Process, Sent, app, TokenInv, Kinds, TypeOK
<1>2. current \in Requests /\ c \in Apps
  <2>1. current \in Requests
    BY <1>1, WasSent
  <2> QED BY <2>1 DEF Requests
<1> HIDE DEF c
<1>3. Kinds'
  <2>1. outbox' \in Seq(Apps) /\ responses' \in [Apps -> Nat] /\ slots' \in [Apps -> Nat]
    <3>1. Append(outbox, c) \in Seq(Apps)
      BY <1>1, <1>2, AppendProperties
    <3>2. Answer(c) => responses' \in [Apps -> Nat]
      BY <1>1, <1>2 DEF Answer
    <3>3. slots' \in [Apps -> Nat]
      BY <1>1, <1>2
    <3> QED BY <1>1, <3>1, <3>2, <3>3
  <2>2. TypeOK'
    BY <1>1, <1>2, <2>1 DEF TokenInv, Kinds, TypeOK
  <2> QED BY <1>1, <2>2 DEF TokenInv, Kinds, Limit
<1>4. Unanswered'
  BY <1>1 DEF TokenInv, Unanswered, Asked
<1>5. OneTokenEach'
  <2>1. SUFFICES ASSUME crashes = 0, NEW b \in Apps
                 PROVE  Copies(queue', Asked(b)') + Busy(Asked(b))' + Copies(outbox', b)
                          + responses'[b] = Due(b)'
    BY <1>1, TokensNext DEF OneTokenEach
  <2>2. Asked(b)' = Asked(b) /\ Busy(Asked(b))' = 0 /\ Due(b)' = Due(b) /\ Due(b) \in {0, 1}
    BY <1>1 DEF Asked, Busy, Due
  <2>3. current = Asked(c)
    BY <1>1, <2>1 DEF TokenInv, Unanswered, c
  <2>4. Busy(Asked(b)) = (IF b = c THEN 1 ELSE 0)
    BY <1>1, <2>3 DEF Busy, Asked
  <2>5. /\ Copies(queue, Asked(b)) + Busy(Asked(b)) + Copies(outbox, b) + responses[b] = Due(b)
        /\ Copies(queue, Asked(b)) \in Nat /\ Copies(outbox, b) \in Nat /\ responses[b] \in Nat
    BY <2>1, TokenTerms
  <2>6. CASE outbox' = Append(outbox, c) /\ UNCHANGED responses
    <3>1. Copies(outbox', b) = Copies(outbox, b) + (IF c = b THEN 1 ELSE 0)
      BY <1>1, <1>2, <2>6, CopiesAppend
    <3> QED BY <1>1, <2>2, <2>4, <2>5, <2>6, <3>1
  <2>7. CASE Answer(c) /\ UNCHANGED outbox
    <3>1. b = c => b \in waiting
      BY <2>2, <2>4, <2>5 DEF Due
    <3>2. responses'[b] = responses[b] + (IF c = b THEN 1 ELSE 0)
      BY <1>1, <1>2, <2>5, <2>7, <3>1 DEF Answer
    <3> QED BY <1>1, <2>2, <2>4, <2>5, <2>7, <3>2
  <2> QED BY <1>1, <2>6, <2>7
<1> QED BY <1>3, <1>4, <1>5 DEF TokenInv

\* An answer that is sent is no longer buffered, and its application still waits for it.
LEMMA DeliverToken ==
  ASSUME TokenInv, GpuInv', Deliver
  PROVE  TokenInv'
<1> DEFINE h == Head(outbox)
<1>1. /\ outbox # << >> /\ Answer(h) /\ outbox' = Tail(outbox)
      /\ UNCHANGED <<transport, log, queue, mpc, current, running, waiting, batch, handled,
                     slots, dropped, crashes>>
      /\ responses \in [Apps -> Nat] /\ outbox \in Seq(Apps)
  BY DEF Deliver, Unsent, app, history, TokenInv, Kinds, TypeOK
<1>2. h \in Apps /\ outbox' \in Seq(Apps)
  BY <1>1, HeadTailProperties
<1>3. \A b \in Apps : /\ Copies(outbox, b) = Copies(outbox', b) + (IF h = b THEN 1 ELSE 0)
                      /\ Copies(outbox', b) \in Nat
  BY <1>1, <1>2, CopiesTail, CopiesType
<1> HIDE DEF h
<1>4. Kinds'
  <2>1. responses' \in [Apps -> Nat]
    BY <1>1, <1>2 DEF Answer
  <2>2. TypeOK'
    BY <1>1, <1>2, <2>1 DEF TokenInv, Kinds, TypeOK
  <2> QED BY <1>1, <2>2 DEF TokenInv, Kinds, Limit
<1>5. Unanswered'
  BY <1>1 DEF TokenInv, Unanswered, Asked
<1>6. OneTokenEach'
  <2>1. SUFFICES ASSUME crashes = 0, NEW b \in Apps
                 PROVE  Copies(queue', Asked(b)') + Busy(Asked(b))' + Copies(outbox', b)
                          + responses'[b] = Due(b)'
    BY <1>1, TokensNext DEF OneTokenEach
  <2>2. Asked(b)' = Asked(b) /\ Busy(Asked(b))' = Busy(Asked(b)) /\ Due(b)' = Due(b)
        /\ Due(b) \in {0, 1}
    BY <1>1 DEF Asked, Busy, Due
  <2>3. /\ Copies(queue, Asked(b)) + Busy(Asked(b)) + Copies(outbox, b) + responses[b] = Due(b)
        /\ Copies(queue, Asked(b)) \in Nat /\ Busy(Asked(b)) \in {0, 1}
        /\ responses[b] \in Nat
    BY <2>1, TokenTerms
  <2>4. h = b => b \in waiting
    BY <1>3, <2>2, <2>3 DEF Due
  <2>5. responses'[b] = responses[b] + (IF h = b THEN 1 ELSE 0)
    BY <1>1, <1>2, <2>3, <2>4 DEF Answer
  <2> QED BY <1>1, <1>3, <2>2, <2>3, <2>5
<1> QED BY <1>4, <1>5, <1>6 DEF TokenInv

\* A request whose handling raises is dropped, and its token with it.
LEMMA NackToken ==
  ASSUME TokenInv, GpuInv', Nack
  PROVE  TokenInv'
<1>1. /\ mpc = "busy" /\ mpc' = "idle" /\ current' = None
      /\ dropped' = dropped \cup {current}
      /\ UNCHANGED <<transport, log, queue, responses, outbox, running, waiting, batch, handled,
                     slots, crashes>>
  BY DEF Nack, broker, app
<1>2. current \in Requests /\ \E i \in 1 .. Len(log) : log[i] = current
  BY <1>1, WasSent
<1>3. Kinds'
  <2>1. TypeOK'
    BY <1>1, <1>2 DEF TokenInv, Kinds, TypeOK
  <2> QED BY <1>1, <1>2, <2>1 DEF TokenInv, Kinds, Limit
<1>4. Unanswered'
  BY <1>1 DEF TokenInv, Unanswered, Asked
<1>5. OneTokenEach'
  <2>1. SUFFICES ASSUME crashes = 0, NEW b \in Apps
                 PROVE  Copies(queue', Asked(b)') + Busy(Asked(b))' + Copies(outbox', b)
                          + responses'[b] = Due(b)'
    BY <1>1, TokensNext DEF OneTokenEach
  <2>2. /\ Asked(b)' = Asked(b) /\ Busy(Asked(b))' = 0
        /\ Busy(Asked(b)) = (IF current = Asked(b) THEN 1 ELSE 0)
        /\ Due(b)' = (IF current = Asked(b) THEN 0 ELSE Due(b)) /\ Due(b) \in {0, 1}
    BY <1>1 DEF Asked, Busy, Due
  <2>3. /\ Copies(queue, Asked(b)) + Busy(Asked(b)) + Copies(outbox, b) + responses[b] = Due(b)
        /\ Copies(queue, Asked(b)) \in Nat /\ Copies(outbox, b) \in Nat /\ responses[b] \in Nat
    BY <2>1, TokenTerms
  <2> QED BY <1>1, <2>2, <2>3
<1> QED BY <1>3, <1>4, <1>5 DEF TokenInv

\* The manager starts, acknowledges, is told to stop: no token moves.
LEMMA OtherToken ==
  ASSUME TokenInv, GpuInv',
         UNCHANGED <<transport, log, queue, responses, outbox, waiting, batch, handled,
                     dropped, slots, crashes>>,
         \/ UNCHANGED <<mpc, current>>
         \/ mpc # "busy" /\ mpc' \in {"down", "idle"} /\ current' \in {current, None},
         running' \in BOOLEAN
  PROVE  TokenInv'
<1>1. Kinds'
  BY DEF TokenInv, Kinds, TypeOK, Limit
<1>2. Unanswered'
  BY DEF TokenInv, Unanswered, Asked
<1>3. OneTokenEach'
  BY DEF TokenInv, OneTokenEach
<1> QED BY <1>1, <1>2, <1>3 DEF TokenInv

\* The tokens are counted until the manager dies.
LEMMA CrashToken ==
  ASSUME TokenInv, GpuInv', Crash
  PROVE  TokenInv'
<1>1. /\ crashes' # 0 /\ mpc' = "down" /\ current' = None /\ outbox' = << >>
      /\ UNCHANGED <<transport, log, responses, running, waiting, batch, handled, dropped, slots>>
      /\ << >> \in Seq(Apps)
  BY EmptySeq DEF Crash, app, TokenInv, GpuInv, GpuType
<1>2. queue' \in Seq(Requests)
  <2>1. \A i \in 1 .. Len(queue') : queue'[i] = log[Position' + i] /\ Position' + i \in 1 .. Len(log)
    <3>1. Len(log) \in Nat /\ Len(queue') \in Nat
      BY <1>1, LenProperties DEF TokenInv, GpuInv, Inv, LogType
    <3> QED BY <1>1, <3>1 DEF GpuInv, Inv, RestOfLog, Position
  <2>2. queue' \in Seq(Apps \X (Nat \ {0})) /\ log \in Seq(Requests)
    BY DEF TokenInv, GpuInv, Kinds, TypeOK, Inv, LogType
  <2>3. \A i \in 1 .. Len(queue') : queue'[i] \in Requests
    BY <2>1, <2>2, ElementOfSeq
  <2>4. Len(queue') \in Nat /\ queue' = [i \in 1 .. Len(queue') |-> queue'[i]]
    BY <2>2, LenProperties
  <2>5. [i \in 1 .. Len(queue') |-> queue'[i]] \in Seq(Requests)
    BY <2>3, <2>4, IsASeq
  <2> QED BY <2>4, <2>5
<1>3. Kinds'
  BY <1>1, <1>2 DEF TokenInv, Kinds, TypeOK, Limit
<1>4. Unanswered' /\ OneTokenEach'
  BY <1>1 DEF Unanswered, OneTokenEach
<1> QED BY <1>3, <1>4 DEF TokenInv

\* Every step keeps the tokens.
LEMMA NextTokenInv == TokenInv /\ [Next]_vars => TokenInv'
<1> SUFFICES ASSUME TokenInv, [Next]_vars PROVE TokenInv'
  OBVIOUS
<1>0. GpuInv'
  BY NextGpuInv DEF TokenInv
<1>1. ASSUME NEW a \in Apps, Request(a) \/ Answered(a) PROVE TokenInv'
  BY <1>0, <1>1, RequestToken, AnsweredToken
<1>2. CASE Start \/ Ack \/ Stop \/ UNCHANGED vars
  <2>1. /\ UNCHANGED <<transport, log, queue, responses, outbox, waiting, batch, handled,
                       dropped, slots, crashes>>
        /\ \/ UNCHANGED <<mpc, current>>
           \/ mpc # "busy" /\ mpc' \in {"down", "idle"} /\ current' \in {current, None}
        /\ running' \in BOOLEAN
    BY <1>2 DEF Start, Ack, Stop, vars, broker, manager, app, history, TokenInv, Kinds, TypeOK
  <2> QED BY <1>0, <2>1, OtherToken
<1>3. CASE Receive \/ ReceiveStopped
  BY <1>0, <1>3, ReceiveToken
<1>4. CASE Process
  BY <1>0, <1>4, ProcessToken
<1>5. CASE Deliver
  BY <1>0, <1>5, DeliverToken
<1>6. CASE Nack
  BY <1>0, <1>6, NackToken
<1>7. CASE Crash
  BY <1>0, <1>7, CrashToken
<1> QED BY <1>1, <1>2, <1>3, <1>4, <1>5, <1>6, <1>7 DEF Next

\* For any number of applications and batches: the types, and, until the manager dies,
\* the one request of a blocked application is with the broker, with the manager, or
\* answered, once, unless the manager dropped it.
THEOREM OneTokenAlways == Spec => []Tokens
<1>1. TokenInv => Tokens
  BY DEF TokenInv, Kinds, Tokens
<1> QED BY <1>1, InitTokenInv, NextTokenInv, PTL DEF Spec
=============================================================================
