--------------------------- MODULE LivePageProofs ---------------------------
(***************************************************************************)
(* Theorems about the live page, its event stream and the service it       *)
(* drives, for any number of sessions, texts and waiting callbacks and any *)
(* size of the queues.                                                     *)
(***************************************************************************)
EXTENDS LivePage, TLAPS

\* A session is started for every stream, before the stream is opened, and the
\* worker of each has a final text left to publish.
Counts ==
    /\ session = IF request \in {"ready", "started"} THEN opened + 1 ELSE opened
    /\ request \in {"start", "preflight", "spawn", "ready", "started"}
         => opened < MaxStreams
    /\ texts <= MaxTexts + session
    /\ worker \in {"run", "failing", "ending"} => texts < MaxTexts + session
    /\ worker # "none" => session > 0

TypeInv == TypeOK /\ Counts

\* What may be published.
LEMMA EventTypes ==
    ASSUME TypeInv
    PROVE  /\ ErrorOf(session) \in Events /\ ReadyOf(session) \in Events
           /\ Null \in Events
           /\ texts < MaxTexts + session => \A kind \in TextKinds :
                Text(kind, session, texts + 1) \in Events
<1> USE FanoutAssumption DEF TypeInv, TypeOK, ServiceOK, Events, TextKinds
<1>1. ErrorOf(session) \in Events /\ ReadyOf(session) \in Events
  BY DEF ErrorOf, ReadyOf
<1>2. Null \in Events
  BY DEF Null
<1>3. ASSUME texts < MaxTexts + session, NEW kind \in TextKinds
      PROVE  Text(kind, session, texts + 1) \in Events
  <2>1. texts + 1 \in 0 .. MaxTexts + MaxStreams
    BY <1>3
  <2> QED
    BY <2>1 DEF Text
<1> QED
  BY <1>1, <1>2, <1>3

-----------------------------------------------------------------------------
\* A step that leaves the event stream alone keeps its types.
LEMMA FanoutFrame ==
    ASSUME FanoutTypeOK, UNCHANGED fanout
    PROVE  FanoutTypeOK'
BY DEF FanoutTypeOK, QueueOK, SubscriptionOK, PublicationOK, fanout,
       subscription, publication

\* A queue grows by one event, if it has room, and shrinks by one.
LEMMA GrowTypes ==
    ASSUME QueueOK, NEW s \in 0 .. MaxStreams, NEW event \in Events,
           queue' = [queue EXCEPT ![s] = IF Full(s) THEN @ ELSE Append(@, event)]
    PROVE  QueueOK'
<1> USE FanoutAssumption DEF QueueOK
<1>1. CASE s \notin Streams \/ Full(s)
  BY <1>1
<1>2. CASE s \in Streams /\ ~Full(s)
  <2>1. Append(queue[s], event) \in Seq(Events)
    BY <1>2
  <2>2. Len(Append(queue[s], event)) <= QueueLimit
    BY <1>2 DEF Full
  <2> QED
    BY <1>2, <2>1, <2>2
<1> QED
  BY <1>1, <1>2

\* So does a queue that loses its oldest event.
LEMMA ShrinkTypes ==
    ASSUME QueueOK, NEW s \in 0 .. MaxStreams,
           queue' = [queue EXCEPT ![s] = IF @ = <<>> THEN @ ELSE Tail(@)]
    PROVE  QueueOK'
<1> USE FanoutAssumption DEF QueueOK
<1>1. CASE s \notin Streams
  BY <1>1
<1>2. CASE s \in Streams
  <2>1. CASE queue[s] = <<>>
    BY <1>2, <2>1
  <2>2. CASE queue[s] # <<>>
    <3>1. Tail(queue[s]) \in Seq(Events) /\ Len(Tail(queue[s])) <= QueueLimit
      BY <1>2, <2>2
    <3> QED
      BY <1>2, <2>2, <3>1
  <2> QED
    BY <2>1, <2>2
<1> QED
  BY <1>1, <1>2

-----------------------------------------------------------------------------
\* The operations of the event stream keep its types.
LEMMA PublishTypes ==
    ASSUME FanoutTypeOK, NEW p \in Publishers, NEW event \in Events,
           Publish(p, event)
    PROVE  FanoutTypeOK'
<1> USE DEF FanoutTypeOK, Publish, subscription
<1>1. latest' \in Events
  OBVIOUS
<1>2. PublicationOK'
  BY DEF PublicationOK, At
<1> QED
  BY <1>1, <1>2 DEF QueueOK, SubscriptionOK

\* Serving the subscribers one after the other does.
LEMMA PublishStepTypes ==
    ASSUME FanoutTypeOK, NEW p \in Publishers, PublishStep(p)
    PROVE  FanoutTypeOK'
<1> USE DEF FanoutTypeOK, subscription
<1>0. Null \in Events /\ sending[p] \in Events /\ serving[p] \in 0 .. MaxStreams
  BY FanoutAssumption DEF Null, Events, PublicationOK
<1>1. CASE TakeSubscribers(p)
  <2>1. PublicationOK'
    BY <1>0, <1>1
    DEF TakeSubscribers, At, Sends, PublicationOK, SubscriptionOK
  <2> QED
    BY <1>1, <2>1 DEF TakeSubscribers, QueueOK, SubscriptionOK
<1>2. CASE LookForRoom(p)
  <2>1. PublicationOK'
    BY <1>2, FanoutAssumption DEF LookForRoom, At, PublicationOK, Streams
  <2> QED
    BY <1>2, <2>1 DEF LookForRoom, QueueOK, SubscriptionOK
<1>3. CASE Evict(p)
  <2>1. QueueOK'
    BY <1>0, <1>3, ShrinkTypes DEF Evict
  <2>2. PublicationOK'
    BY <1>3 DEF Evict, At, PublicationOK
  <2> QED
    BY <1>3, <2>1, <2>2 DEF Evict, SubscriptionOK
<1>4. CASE Put(p)
  <2>1. QueueOK'
    <3>1. queue' = [queue EXCEPT ![serving[p]] =
                      IF Full(serving[p]) THEN @ ELSE Append(@, sending[p])]
      BY <1>4 DEF Put
    <3> QED
      BY <1>0, <3>1, GrowTypes
  <2>2. PublicationOK'
    BY <1>0, <1>4, FanoutAssumption DEF Put, At, Sends, PublicationOK
  <2> QED
    BY <1>4, <2>1, <2>2 DEF Put, SubscriptionOK
<1> QED
  BY <1>1, <1>2, <1>3, <1>4 DEF PublishStep

\* Registering and replaying do.
LEMMA SubscribeTypes ==
    ASSUME FanoutTypeOK, NEW s \in Streams, Register(s) \/ SubscribeStep(s)
    PROVE  FanoutTypeOK'
<1> USE DEF FanoutTypeOK, publication, Replays
<1>1. CASE Register(s)
  BY <1>1 DEF Register, QueueOK, SubscriptionOK, PublicationOK
<1>2. CASE CheckLatest(s)
  BY <1>2 DEF CheckLatest, QueueOK, SubscriptionOK, PublicationOK
<1>3. CASE ReadLatest(s)
  BY <1>3 DEF ReadLatest, QueueOK, SubscriptionOK, PublicationOK
<1>4. CASE Replay(s)
  <2>1. QueueOK'
    <3>1. replayed[s] \in Events /\ s \in 0 .. MaxStreams
      BY FanoutAssumption DEF SubscriptionOK, Streams
    <3>2. queue' = [queue EXCEPT ![s] =
                      IF Full(s) THEN @ ELSE Append(@, replayed[s])]
      BY <1>4 DEF Replay
    <3> QED
      BY <3>1, <3>2, GrowTypes
  <2>2. SubscriptionOK'
    BY <1>4, FanoutAssumption DEF Replay, SubscriptionOK, Null, Events
  <2> QED
    BY <1>4, <2>1, <2>2 DEF Replay, PublicationOK
<1> QED
  BY <1>1, <1>2, <1>3, <1>4 DEF SubscribeStep

\* What a stream takes is an event.
LEMMA TakeTypes ==
    ASSUME FanoutTypeOK, NEW s \in Streams, CanTake(s), Take(s)
    PROVE  FanoutTypeOK' /\ Head(queue[s]) \in Events
<1> USE DEF FanoutTypeOK, CanTake, Take, subscription, publication
<1>1. Head(queue[s]) \in Events
  BY DEF QueueOK
<1>2. QueueOK'
  <2>1. Tail(queue[s]) \in Seq(Events) /\ Len(Tail(queue[s])) <= QueueLimit
    BY FanoutAssumption DEF QueueOK
  <2> QED
    BY <2>1 DEF QueueOK
<1> QED
  BY <1>1, <1>2 DEF SubscriptionOK, PublicationOK

\* Ending a stream empties its queue.
LEMMA DropTypes ==
    ASSUME FanoutTypeOK, NEW s, Drop(s)
    PROVE  FanoutTypeOK'
<1> USE DEF FanoutTypeOK, Drop, publication
<1>1. QueueOK'
  BY FanoutAssumption DEF QueueOK
<1>2. Null \in Events
  BY FanoutAssumption DEF Null, Events
<1> QED
  BY <1>1, <1>2 DEF SubscriptionOK, PublicationOK

-----------------------------------------------------------------------------
\* At first nothing has happened.
LEMMA InitTypes == Init => TypeInv
<1> SUFFICES ASSUME Init
             PROVE  TypeInv
  OBVIOUS
<1> USE FanoutAssumption DEF Init
<1>1. Null \in Events /\ \A s \in Streams : Len(<<>>) <= QueueLimit
  BY DEF Null, Events
<1>2. FanoutTypeOK
  <2>1. QueueOK
    BY DEF FanoutInit, QueueOK
  <2>2. SubscriptionOK
    BY <1>1 DEF FanoutInit, SubscriptionOK
  <2>3. PublicationOK
    <3>1. raced \in BOOLEAN
      BY Zenon DEF FanoutInit
    <3> QED
      BY <1>1, <3>1 DEF FanoutInit, PublicationOK
  <2> QED
    BY <1>1, <2>1, <2>2, <2>3 DEF FanoutInit, FanoutTypeOK
<1>3. ServiceOK /\ request \in RequestSteps
  <2>1. signal \in BOOLEAN /\ ticked \in BOOLEAN
    BY Zenon
  <2> QED
    BY <2>1 DEF ServiceOK, RequestSteps, WorkerSteps
<1>4. PageOK
  <2>1. received \in [Streams -> 0 .. MaxTexts + MaxStreams]
    OBVIOUS
  <2>2. tasks \in Seq(Events)
    OBVIOUS
  <2>3. cut \in BOOLEAN
    BY Zenon
  <2> QED
    BY <1>1, <2>1, <2>2, <2>3 DEF PageOK
<1> QED
  BY <1>2, <1>3, <1>4 DEF TypeInv, TypeOK, Counts

\* The steps of the service that serve a request.
ServiceStep ==
    \/ CheckStart \/ FailStart \/ ResetSession \/ SpawnWorker \/ PublishReady
    \/ CheckStop \/ JoinWorker \/ JoinTimesOut

\* They keep the types.
LEMMA ServiceTypes ==
    ASSUME TypeInv, ServiceStep
    PROVE  TypeInv'
<1> USE DEF TypeInv, TypeOK, Handles, page
<1>1. CASE CheckStart \/ FailStart
  BY <1>1, FanoutFrame
  DEF CheckStart, FailStart, ServiceOK, PageOK, Counts, RequestSteps, StartIsValid
<1>2. CASE ResetSession \/ JoinWorker
  <2>1. FanoutTypeOK'
    BY <1>2, EventTypes
    DEF ResetSession, JoinWorker, FanoutTypeOK, QueueOK, SubscriptionOK,
        PublicationOK, subscription, publication
  <2> QED
    BY <1>2, <2>1
    DEF ResetSession, JoinWorker, ServiceOK, PageOK, Counts, RequestSteps
<1>3. CASE SpawnWorker
  <2>1. session = opened /\ opened < MaxStreams /\ opened \in 0 .. MaxStreams
    BY <1>3 DEF SpawnWorker, Counts, PageOK
  <2>2. Counts'
    BY <1>3, <2>1, FanoutAssumption DEF SpawnWorker, Counts, ServiceOK
  <2>3. ServiceOK'
    <3>1. signal' \in BOOLEAN /\ ticked' \in BOOLEAN
      BY <1>3, Zenon DEF SpawnWorker, ServiceOK
    <3> QED
      BY <1>3, <2>1, <3>1, FanoutAssumption DEF SpawnWorker, ServiceOK, WorkerSteps
  <2> QED
    BY <1>3, <2>2, <2>3, FanoutFrame DEF SpawnWorker, PageOK, RequestSteps
<1>4. CASE PublishReady
  <2>1. FanoutTypeOK'
    BY <1>4, EventTypes, PublishTypes DEF PublishReady, Publishers
  <2> QED
    BY <1>4, <2>1
    DEF PublishReady, service, ServiceOK, PageOK, Counts, RequestSteps
<1>5. CASE CheckStop \/ JoinTimesOut
  BY <1>5, FanoutFrame
  DEF CheckStop, JoinTimesOut, ServiceOK, PageOK, Counts, RequestSteps, StopIsValid
<1> QED
  BY <1>1, <1>2, <1>3, <1>4, <1>5 DEF ServiceStep

\* So do the steps of the worker.
LEMMA WorkerTypes ==
    ASSUME TypeInv, Tick \/ Fail \/ WorkerStep
    PROVE  TypeInv'
<1> USE DEF TypeInv, TypeOK, Runs, page
<1>1. ASSUME NEW kind \in TextKinds, PublishText(kind), texts < MaxTexts + session
      PROVE  FanoutTypeOK' /\ texts' = texts + 1
                /\ texts' \in 0 .. MaxTexts + MaxStreams
  <2>1. Text(kind, session, texts + 1) \in Events
    BY <1>1, EventTypes
  <2> QED
    BY <1>1, <2>1, PublishTypes, FanoutAssumption
    DEF PublishText, Publishers, ServiceOK
<1>2. CASE Tick
  <2>1. texts < MaxTexts /\ worker = "run" /\ worker' = "run"
    BY <1>2 DEF Tick
  <2>2. texts < MaxTexts + session
    BY <2>1, FanoutAssumption DEF Counts, ServiceOK
  <2>3. FanoutTypeOK' /\ texts' = texts + 1
            /\ texts' \in 0 .. MaxTexts + MaxStreams
    BY <1>1, <1>2, <2>2 DEF Tick, TextKinds
  <2>4. session > 0
    BY <2>1 DEF Counts
  <2> QED
    <3>1. signal' \in BOOLEAN /\ ticked' \in BOOLEAN
      BY <1>2, Zenon DEF Tick, ServiceOK
    <3>2. Counts'
      BY <1>2, <2>1, <2>2, <2>3, <2>4, FanoutAssumption DEF Tick, ServiceOK, Counts
    <3> QED
      BY <1>2, <2>3, <3>1, <3>2 DEF Tick, ServiceOK, PageOK
<1>3. CASE Fail
  <2>1. FanoutTypeOK'
    BY <1>3, EventTypes, PublishTypes DEF Fail, Publishers
  <2> QED
    BY <1>3, <2>1 DEF Fail, ServiceOK, PageOK, Counts, WorkerSteps
<1>4. CASE PublishFinal
  <2>1. texts < MaxTexts + session
    BY <1>4 DEF PublishFinal, Counts
  <2>2. FanoutTypeOK' /\ texts' \in 0 .. MaxTexts + MaxStreams
            /\ texts' <= MaxTexts + session
    <3>1. CASE ticked
      BY <1>1, <1>4, <2>1, <3>1, FanoutAssumption
      DEF PublishFinal, TextKinds, ServiceOK
    <3>2. CASE ~ticked
      BY <1>4, <2>1, <3>2, FanoutFrame, FanoutAssumption DEF PublishFinal, ServiceOK
    <3> QED
      BY <3>1, <3>2
  <2> QED
    BY <1>4, <2>2 DEF PublishFinal, ServiceOK, PageOK, Counts, WorkerSteps
<1>5. CASE NoticeStop \/ ShowFailure \/ Exit
  BY <1>5, FanoutFrame
  DEF NoticeStop, ShowFailure, Exit, ServiceOK, PageOK, Counts, WorkerSteps
<1> QED
  BY <1>2, <1>3, <1>4, <1>5 DEF WorkerStep

\* The steps of the user and of the page's commands.
CommandStep ==
    \/ PressStart \/ PressStop \/ Started \/ Refused \/ Stopped \/ Declined
    \/ CloseStream

\* They keep the types.
LEMMA CommandTypes ==
    ASSUME TypeInv, CommandStep
    PROVE  TypeInv'
<1> USE FanoutAssumption DEF TypeInv, TypeOK, Handles, page, service
<1>1. CASE PressStart \/ PressStop \/ Refused
  <2>1. request \in {"none", "refused"} /\ request' \in {"none", "start", "stop"}
    BY <1>1 DEF PressStart, PressStop, Refused
  <2>2. UNCHANGED <<fanout, service, page>> /\ (request' = "start" => opened < MaxStreams)
    BY <1>1 DEF PressStart, PressStop, Refused
  <2>3. FanoutTypeOK'
    BY <2>2, FanoutFrame
  <2>4. ServiceOK' /\ PageOK'
    BY <2>2 DEF ServiceOK, PageOK
  <2>5. request' \in RequestSteps
    BY <2>1 DEF RequestSteps
  <2>6. Counts'
    BY <2>1, <2>2 DEF Counts
  <2> QED
    BY <2>3, <2>4, <2>5, <2>6
<1>4. CASE Stopped \/ Declined
  <2>1. request \in {"stopped", "late", "declined"} /\ request' = "none"
    BY <1>4 DEF Stopped, Declined
  <2>2. view' \in {"idle", "error", view} /\ closing' = opened
        /\ UNCHANGED <<fanout, service, opened, stream, reading, received, tasks,
                       shown, cut>>
    BY <1>4 DEF Stopped, Declined, ClosesLater
  <2>3. FanoutTypeOK'
    BY <2>2, FanoutFrame
  <2>4. ServiceOK' /\ PageOK'
    BY <2>2 DEF ServiceOK, PageOK
  <2>5. request' \in RequestSteps
    BY <2>1 DEF RequestSteps
  <2>6. Counts'
    BY <2>1, <2>2 DEF Counts
  <2> QED
    BY <2>3, <2>4, <2>5, <2>6
<1>2. CASE Started
  <2>4. request = "started"
    BY <1>2 DEF Started
  <2>1. opened + 1 \in Streams
    BY <2>4 DEF Counts, PageOK, Streams
  <2>2. FanoutTypeOK'
    BY <1>2, DropTypes DEF Started
  <2>3. reading' \in [Streams -> {"off", "on", "closed"}]
    BY <1>2, <2>1 DEF Started, Cancelled, PageOK
  <2> QED
    BY <1>2, <2>1, <2>2, <2>3
    DEF Started, ServiceOK, PageOK, Counts, RequestSteps, Streams
<1>3. CASE CloseStream
  <2>1. FanoutTypeOK'
    BY <1>3, DropTypes DEF CloseStream
  <2>2. reading' \in [Streams -> {"off", "on", "closed"}]
    BY <1>3 DEF CloseStream, Cancelled, PageOK
  <2>3. cut' \in BOOLEAN
    BY <1>3, Zenon DEF CloseStream
  <2> QED
    BY <1>3, <2>1, <2>2, <2>3 DEF CloseStream, ServiceOK, PageOK, Counts
<1> QED
  BY <1>1, <1>2, <1>3, <1>4 DEF CommandStep

\* So do the steps of the event stream.
LEMMA StreamTypes ==
    ASSUME TypeInv,
           \/ \E p \in Publishers : Publication(p)
           \/ \E s \in Streams : StreamStep(s)
           \/ RunTask
    PROVE  TypeInv'
<1> USE DEF TypeInv, TypeOK, page, service
<1>1. CASE \E p \in Publishers : Publication(p)
  BY <1>1, PublishStepTypes DEF Publication, ServiceOK, PageOK, Counts
<1>2. ASSUME NEW s \in Streams, StreamStep(s)
      PROVE  TypeInv'
  <2>1. CASE Subscribe(s) \/ GoOnSubscribing(s)
    BY <2>1, SubscribeTypes
    DEF Subscribe, GoOnSubscribing, ServiceOK, PageOK, Counts
  <2>2. CASE Receive(s)
    <3> DEFINE event == Head(queue[s])
    <3>1. event \in Events /\ FanoutTypeOK'
      <4>1. CanTake(s) /\ s # 0
        BY <2>2, FanoutAssumption DEF Receive, Streams
      <4>2. event \in Events
        BY <4>1 DEF CanTake, FanoutTypeOK, QueueOK
      <4>3. CASE Take(s)
        BY <4>1, <4>2, <4>3, TakeTypes
      <4>4. CASE Drop(s)
        BY <4>2, <4>4, DropTypes
      <4> QED
        BY <2>2, <4>2, <4>3, <4>4 DEF Receive
    <3>2. event.number \in 0 .. MaxTexts + MaxStreams
      BY <3>1 DEF Events
    <3>3. received' \in [Streams -> 0 .. MaxTexts + MaxStreams]
      BY <2>2, <3>2 DEF Receive, PageOK, Larger
    <3>4. tasks' \in Seq(Events)
      BY <2>2, <3>1 DEF Receive, PageOK
    <3>5. reading' \in [Streams -> {"off", "on", "closed"}]
      BY <2>2 DEF Receive, PageOK
    <3> QED
      BY <2>2, <3>1, <3>3, <3>4, <3>5 DEF Receive, ServiceOK, PageOK, Counts
  <2>3. CASE BreakOff(s)
    <3>1. Null \in Events
      BY EventTypes
    <3> QED
      BY <2>3, <3>1, FanoutFrame DEF BreakOff, ServiceOK, PageOK, Counts
  <2> QED
    BY <1>2, <2>1, <2>2, <2>3 DEF StreamStep
<1>3. CASE RunTask
  <2>1. Tail(tasks) \in Seq(Events) /\ Head(tasks) \in Events
    BY <1>3 DEF RunTask, PageOK
  <2> QED
    BY <1>3, <2>1, FanoutFrame DEF RunTask, ServiceOK, PageOK, Counts
<1> QED
  BY <1>1, <1>2, <1>3

\* Every step keeps the types.
LEMMA NextTypes == TypeInv /\ [Next]_vars => TypeInv'
<1>1. TypeInv /\ UNCHANGED vars => TypeInv'
  BY FanoutFrame DEF TypeInv, TypeOK, ServiceOK, PageOK, Counts, vars, service, page
<1> QED
  BY <1>1, ServiceTypes, WorkerTypes, CommandTypes, StreamTypes
  DEF Next, ServiceStep, CommandStep

\* The page, the streams and the service stay of their types: a queue never holds
\* more than its maxsize, whoever publishes.
THEOREM PageTypeCorrect == Spec => []TypeOK
<1>1. TypeInv => TypeOK
  BY DEF TypeInv
<1> QED
  BY <1>1, InitTypes, NextTypes, PTL DEF Spec

-----------------------------------------------------------------------------
(***************************************************************************)
(* Controllable.  What the page shows is checked against the service at    *)
(* every step a request is at, because a command leaves and its answer     *)
(* arrives at different times, and the worker goes on in between.          *)
(***************************************************************************)

\* A running session has a worker, and a worker that ends without a failure was
\* asked to.
Lifetime ==
    /\ state = "running" => Alive
    /\ state = "idle" => ~Alive
    /\ worker \in {"ending", "ended"} => signal \/ state = "error"
    /\ Alive /\ signal /\ request # "join" => state = "error"

\* What the service is in while a start is served.
Starting ==
    /\ state = "preflight" <=> request \in {"preflight", "spawn"}
    /\ request \in {"preflight", "spawn"} => ~Alive
    /\ request = "spawn" => ~signal
    /\ request \in {"ready", "started"} => state \in {"running", "error"} /\ ~signal
    /\ request \in {"start", "preflight", "spawn", "ready", "started"}
         => view # "running"

\* What it is in while a stop is served.
Stopping ==
    /\ request = "join" => signal
    /\ request = "stopped" => state = "idle"
    /\ request = "late" => state = "error"

\* What the page shows while no session begins or ends.
Shows ==
    request \in {"none", "start", "refused", "stop", "declined"} =>
        /\ view = "idle" => ~Alive
        /\ view = "running" => state \in {"running", "error"}

Control == Lifetime /\ Starting /\ Stopping /\ Shows

\* At first nothing runs.
LEMMA InitControl == Init => Control
BY DEF Init, Control, Lifetime, Starting, Stopping, Shows, Alive

\* The steps of the service keep page and service in agreement.
LEMMA ServiceControl ==
    ASSUME TypeInv, Control, ServiceStep
    PROVE  Control'
<1> USE DEF Control, Lifetime, Starting, Stopping, Shows, Alive, Handles, page,
            TypeInv, TypeOK, ServiceOK, PageOK, WorkerSteps, RequestSteps
<1>1. CASE CheckStart \/ FailStart
  BY <1>1 DEF CheckStart, FailStart, StartIsValid
<1>2. CASE ResetSession \/ SpawnWorker
  BY <1>2 DEF ResetSession, SpawnWorker
<1>3. CASE PublishReady
  BY <1>3 DEF PublishReady, service
<1>4. CASE CheckStop
  BY <1>4 DEF CheckStop, StopIsValid
<1>5. CASE JoinWorker \/ JoinTimesOut
  BY <1>5 DEF JoinWorker, JoinTimesOut
<1> QED
  BY <1>1, <1>2, <1>3, <1>4, <1>5 DEF ServiceStep

\* So do the worker's.
LEMMA WorkerControl ==
    ASSUME TypeInv, Control, Tick \/ Fail \/ WorkerStep
    PROVE  Control'
<1> USE DEF Control, Lifetime, Starting, Stopping, Shows, Alive, Runs, page,
            TypeInv, TypeOK, ServiceOK, WorkerSteps, RequestSteps
<1>1. CASE Tick \/ Fail
  BY <1>1 DEF Tick, Fail
<1>2. CASE NoticeStop \/ ShowFailure
  BY <1>2 DEF NoticeStop, ShowFailure
<1>3. CASE PublishFinal
  BY <1>3 DEF PublishFinal
<1>4. CASE Exit
  BY <1>4 DEF Exit
<1> QED
  BY <1>1, <1>2, <1>3, <1>4 DEF WorkerStep

\* So do the page's: its commands, and the events it is shown.
LEMMA PageControl ==
    ASSUME TypeInv, Control,
           \/ CommandStep
           \/ \E p \in Publishers : Publication(p)
           \/ \E s \in Streams : StreamStep(s)
           \/ RunTask
    PROVE  Control'
<1> USE DEF Control, Lifetime, Starting, Stopping, Shows, Alive, Handles, page,
            service, TypeInv, TypeOK, PageOK
<1>1. CASE PressStart \/ PressStop
  BY <1>1 DEF PressStart, PressStop, CanStart, CanStop
<1>2. CASE Started \/ Refused \/ Stopped \/ Declined
  BY <1>2 DEF Started, Refused, Stopped, Declined, ClosesLater
<1>3. CASE CloseStream
  BY <1>3 DEF CloseStream
<1>4. CASE \E p \in Publishers : Publication(p)
  BY <1>4 DEF Publication
<1>5. CASE \E s \in Streams : StreamStep(s)
  BY <1>5 DEF StreamStep, Subscribe, GoOnSubscribing, Receive, BreakOff
<1>6. CASE RunTask
  BY <1>6 DEF RunTask
<1> QED
  BY <1>1, <1>2, <1>3, <1>4, <1>5, <1>6 DEF CommandStep

\* Every step does.
LEMMA NextControl == TypeInv /\ Control /\ [Next]_vars => Control'
<1>1. Control /\ UNCHANGED vars => Control'
  BY DEF Control, Lifetime, Starting, Stopping, Shows, Alive, vars, service, page
<1> QED
  BY <1>1, ServiceControl, WorkerControl, PageControl
  DEF Next, ServiceStep, CommandStep

\* While no request is served, one of the page's buttons is enabled and the service
\* accepts it; while a worker is alive, that is Stop.
THEOREM PageIsControllable == Spec => []Controllable
<1>1. TypeInv /\ Control => Controllable
  BY DEF Controllable, Control, Lifetime, Starting, Shows, TypeInv, TypeOK,
         ServiceOK, PageOK, CanStart, CanStop, StartIsValid, StopIsValid
<1> QED
  BY <1>1, InitTypes, InitControl, NextTypes, NextControl, PTL DEF Spec

-----------------------------------------------------------------------------
(***************************************************************************)
(* FreshStream.  A text passes from the worker to latest, from there or    *)
(* from a publisher to a queue, and the service forgets the latest one at  *)
(* a moment when no worker is alive.  So a text in any of these places is  *)
(* of the current session, or of one no younger than the stream it is for. *)
(***************************************************************************)
Newer(event, s) == event.kind \in TextKinds => event.session >= s

\* A worker publishes while it is alive, a request never publishes a text.
PublishersOK ==
    /\ ~Alive => Quiet("worker")
    /\ \A p \in Publishers : Quiet(p) => sending[p] = Null
    /\ sending["request"].kind \notin TextKinds
    /\ Newer(sending["worker"], session)

\* Between two sessions there is no latest text.
LatestIsNew ==
    /\ Newer(latest, session)
    /\ request = "spawn" => latest = Null

\* Whoever is served is a stream of the current session or of an earlier one.
OpenedOnly ==
    /\ stream <= opened /\ subscribers \subseteq 1 .. opened
    /\ \A p \in Publishers : todo[p] \subseteq 1 .. opened /\ serving[p] <= opened
    /\ \A s \in Streams : reading[s] # "off" \/ replay[s] # "none" => s <= opened

QueuesAreNew == \A s \in Streams :
    Newer(replayed[s], s) /\ \A i \in DOMAIN queue[s] : Newer(queue[s][i], s)

Fresh == PublishersOK /\ LatestIsNew /\ OpenedOnly /\ QueuesAreNew

\* No text is no old text.
LEMMA NullIsNew == \A s : Newer(Null, s)
BY DEF Newer, Null, TextKinds

\* What an append or a tail leaves in a queue was in it or is the new event.
LEMMA QueueElements ==
    ASSUME NEW q \in Seq(Events), NEW s, \A i \in DOMAIN q : Newer(q[i], s)
    PROVE  /\ \A event \in Events : Newer(event, s) =>
                \A i \in DOMAIN Append(q, event) : Newer(Append(q, event)[i], s)
           /\ q # <<>> => \A i \in DOMAIN Tail(q) : Newer(Tail(q)[i], s)
<1>1. ASSUME NEW event \in Events, Newer(event, s)
      PROVE  \A i \in DOMAIN Append(q, event) : Newer(Append(q, event)[i], s)
  BY <1>1
<1>2. ASSUME q # <<>>
      PROVE  \A i \in DOMAIN Tail(q) : Newer(Tail(q)[i], s)
  BY <1>2
<1> QED
  BY <1>1, <1>2

\* At first there are no streams and no texts.
LEMMA InitFresh == Init => Fresh
<1> SUFFICES ASSUME Init
             PROVE  Fresh
  OBVIOUS
<1> USE NullIsNew DEF Init, FanoutInit
<1>1. PublishersOK
  BY DEF PublishersOK, Quiet, Alive, Publishers, Null, TextKinds
<1>2. LatestIsNew
  BY DEF LatestIsNew
<1>3. OpenedOnly
  BY DEF OpenedOnly, Publishers
<1>4. QueuesAreNew
  BY DEF QueuesAreNew
<1> QED
  BY <1>1, <1>2, <1>3, <1>4 DEF Fresh

\* A publisher takes what it sends to streams it found registered.
LEMMA PublicationFresh ==
    ASSUME TypeInv, Fresh, NEW p \in Publishers, Publication(p)
    PROVE  Fresh'
<1> USE DEF Fresh, TypeInv, TypeOK, FanoutTypeOK, Publication, service, page,
            subscription
<1>0. Newer(sending[p], session) /\ session >= opened /\ session \in Nat
  BY DEF PublishersOK, Publishers, Newer, Counts, ServiceOK, PageOK
<1>1. PublishersOK'
  <2>1. sending' = sending \/ sending' = [sending EXCEPT ![p] = Null]
    BY DEF PublishStep, TakeSubscribers, LookForRoom, Evict, Put, Sends,
           PublicationOK
  <2>2. \A q \in Publishers : Quiet(q)' => sending'[q] = Null
    BY <2>1
    DEF PublishStep, TakeSubscribers, LookForRoom, Evict, Put, Sends, At, Quiet,
        PublicationOK, PublishersOK
  <2>3. ~Alive' => Quiet("worker")'
    BY DEF PublishStep, TakeSubscribers, LookForRoom, Evict, Put, At, Quiet,
           PublicationOK, PublishersOK, Alive, Publishers
  <2> QED
    BY <2>1, <2>2, <2>3, NullIsNew
    DEF PublishersOK, PublicationOK, Publishers, Null, TextKinds
<1>2. LatestIsNew'
  BY DEF PublishStep, TakeSubscribers, LookForRoom, Evict, Put, LatestIsNew
<1>3. OpenedOnly'
  <2> USE DEF OpenedOnly, PublicationOK
  <2>1. CASE TakeSubscribers(p)
    BY <2>1 DEF TakeSubscribers
  <2>2. CASE LookForRoom(p)
    BY <2>2 DEF LookForRoom
  <2>3. CASE Evict(p)
    BY <2>3 DEF Evict
  <2>4. CASE Put(p)
    <3>1. opened \in Nat
      BY FanoutAssumption DEF PageOK
    <3> QED
      BY <2>4, <3>1 DEF Put
  <2> QED
    BY <2>1, <2>2, <2>3, <2>4 DEF PublishStep
<1>4. QueuesAreNew'
  <2> SUFFICES ASSUME NEW s \in Streams
               PROVE  \A i \in DOMAIN queue'[s] : Newer(queue'[s][i], s)
    BY DEF QueuesAreNew, PublishStep, TakeSubscribers, LookForRoom, Evict, Put
  <2>1. queue[s] \in Seq(Events)
    BY DEF QueueOK
  <2>2. CASE queue'[s] = queue[s]
    BY <2>2 DEF QueuesAreNew
  <2>3. CASE Evict(p) /\ queue'[s] # queue[s]
    <3>1. queue[s] # <<>> /\ queue'[s] = Tail(queue[s])
      BY <2>3 DEF Evict, QueueOK
    <3> QED
      BY <2>1, <3>1, QueueElements DEF QueuesAreNew
  <2>4. CASE Put(p) /\ queue'[s] # queue[s]
    <3>1. serving[p] = s /\ queue'[s] = Append(queue[s], sending[p])
      BY <2>4 DEF Put, QueueOK
    <3>2. Newer(sending[p], s)
      BY <1>0, <3>1 DEF Newer, OpenedOnly, Streams, PublicationOK, Events, PageOK
    <3>3. sending[p] \in Events
      BY DEF PublicationOK
    <3> QED
      BY <2>1, <3>1, <3>2, <3>3, QueueElements DEF QueuesAreNew
  <2> QED
    BY <2>2, <2>3, <2>4 DEF PublishStep, TakeSubscribers, LookForRoom
<1> QED
  BY <1>1, <1>2, <1>3, <1>4

\* What publishes needs a publisher that is idle, and adds nothing to a queue yet.
LEMMA PublishFresh ==
    ASSUME TypeInv, Fresh, NEW p \in Publishers, NEW event \in Events,
           Publish(p, event),
           p = "request" => event.kind \notin TextKinds,
           p = "worker" => Newer(event, session) /\ Alive /\ Alive',
           Alive' <=> Alive, session' = session,
           UNCHANGED <<opened, stream, reading>>,
           request' = "spawn" => request = "spawn" /\ p = "request"
    PROVE  Fresh'
<1> USE DEF Fresh, TypeInv, TypeOK, FanoutTypeOK, Publish, subscription
<1>1. PublishersOK'
  <2>1. \A q \in Publishers : Quiet(q)' => sending'[q] = Null
    BY DEF Quiet, At, PublicationOK, PublishersOK
  <2>2. ~Alive' => Quiet("worker")'
    BY DEF Quiet, At, PublicationOK, PublishersOK, Publishers
  <2> QED
    BY <2>1, <2>2 DEF PublishersOK, PublicationOK, Publishers, Newer
<1>2. LatestIsNew'
  BY DEF LatestIsNew, Newer, Publishers
<1>3. OpenedOnly'
  BY DEF OpenedOnly
<1>4. QueuesAreNew'
  BY DEF QueuesAreNew
<1> QED
  BY <1>1, <1>2, <1>3, <1>4

\* A step that leaves the event stream alone leaves what is in it.
LEMMA OtherFresh ==
    ASSUME TypeInv, Fresh, UNCHANGED fanout,
           session' = session \/ (request = "spawn" /\ ~Alive),
           UNCHANGED <<opened, stream, reading>>,
           ~Alive' => ~Alive \/ Quiet("worker"),
           request' = "spawn" => request = "spawn"
    PROVE  Fresh'
<1> USE DEF Fresh, fanout, subscription, publication
<1>1. LatestIsNew' /\ Newer(sending["worker"], session')
  <2>1. CASE session' = session
    BY <2>1 DEF LatestIsNew, PublishersOK
  <2>2. CASE request = "spawn" /\ ~Alive
    <3>1. latest = Null /\ sending["worker"] = Null
      BY <2>2 DEF LatestIsNew, PublishersOK, Publishers
    <3> QED
      BY <3>1, NullIsNew DEF LatestIsNew, Newer
  <2> QED
    BY <2>1, <2>2
<1>2. PublishersOK'
  BY <1>1 DEF PublishersOK, Quiet
<1>3. OpenedOnly' /\ QueuesAreNew'
  BY DEF OpenedOnly, QueuesAreNew
<1> QED
  BY <1>1, <1>2, <1>3

\* A service that starts a session has no worker and forgets the latest text first.
LEMMA ServiceFresh ==
    ASSUME TypeInv, Control, Fresh, ServiceStep
    PROVE  Fresh'
<1> USE DEF Handles, page
<1>1. CASE CheckStart \/ FailStart \/ CheckStop \/ JoinTimesOut
  BY <1>1, OtherFresh
  DEF CheckStart, FailStart, CheckStop, JoinTimesOut, Alive
<1>2. CASE ResetSession \/ JoinWorker
  <2>1. UNCHANGED <<queue, subscription, publication, worker, session, opened,
                    reading>> /\ latest' = Null
    BY <1>2 DEF ResetSession, JoinWorker
  <2>2. stream' = stream
    BY <1>2 DEF ResetSession, JoinWorker
  <2> QED
    BY <2>1, <2>2, NullIsNew
    DEF Fresh, PublishersOK, LatestIsNew, OpenedOnly, QueuesAreNew, Quiet, Alive,
        subscription, publication
<1>3. CASE SpawnWorker
  <2>1. request = "spawn" /\ ~Alive /\ request' = "ready"
    BY <1>3 DEF SpawnWorker, Control, Starting
  <2>2. Alive'
    BY <1>3 DEF SpawnWorker, Alive
  <2> QED
    BY <1>3, <2>1, <2>2, OtherFresh DEF SpawnWorker
<1>4. CASE PublishReady
  <2>1. ReadyOf(session).kind \notin TextKinds /\ "request" \in Publishers
    BY DEF ReadyOf, TextKinds, Publishers
  <2> QED
    BY <1>4, <2>1, EventTypes, PublishFresh DEF PublishReady, service, Alive
<1> QED
  BY <1>1, <1>2, <1>3, <1>4 DEF ServiceStep

\* A worker publishes texts of its own session, and is quiet when it ends.
LEMMA WorkerFresh ==
    ASSUME TypeInv, Control, Fresh, Tick \/ Fail \/ WorkerStep
    PROVE  Fresh'
<1> USE DEF Runs, page
<1>1. session \in Nat /\ "worker" \in Publishers
  BY FanoutAssumption DEF TypeInv, TypeOK, ServiceOK, Publishers
<1>2. ASSUME NEW kind \in TextKinds, PublishText(kind), Alive, Alive',
             texts < MaxTexts + session,
             UNCHANGED <<session, opened, stream, reading, request>>
      PROVE  Fresh'
  <2> DEFINE event == Text(kind, session, texts + 1)
  <2>1. event \in Events
    BY <1>2, EventTypes
  <2>2. Newer(event, session)
    BY <1>1 DEF Newer, Text
  <2>3. request # "spawn"
    BY <1>2 DEF Control, Starting
  <2> HIDE DEF event
  <2>4. Publish("worker", event)
    BY <1>2 DEF PublishText, event
  <2> QED
    BY <1>1, <1>2, <2>1, <2>2, <2>3, <2>4, PublishFresh
<1>3. CASE Tick
  <2>1. texts < MaxTexts + session
    BY <1>3, FanoutAssumption DEF Tick, TypeInv, TypeOK, Counts, ServiceOK
  <2> QED
    BY <1>2, <1>3, <2>1 DEF Tick, TextKinds, Alive
<1>4. CASE Fail
  <2>1. Newer(ErrorOf(session), session) /\ ErrorOf(session) \in Events
    BY EventTypes DEF Newer, ErrorOf, TextKinds
  <2>2. request # "spawn"
    BY <1>4 DEF Fail, Alive, Control, Starting
  <2> QED
    BY <1>1, <1>4, <2>1, <2>2, PublishFresh DEF Fail, Alive
<1>5. CASE PublishFinal
  <2>1. texts < MaxTexts + session
    BY <1>5 DEF PublishFinal, TypeInv, Counts
  <2>2. Alive /\ Alive' /\ UNCHANGED <<session, opened, stream, reading, request>>
    BY <1>5 DEF PublishFinal, Alive
  <2>3. CASE ticked
    BY <1>2, <1>5, <2>1, <2>2, <2>3 DEF PublishFinal, TextKinds
  <2>4. CASE ~ticked
    BY <1>5, <2>2, <2>4, OtherFresh DEF PublishFinal
  <2> QED
    BY <2>3, <2>4
<1>6. CASE NoticeStop \/ ShowFailure \/ Exit
  BY <1>6, OtherFresh DEF NoticeStop, ShowFailure, Exit, Alive
<1> QED
  BY <1>3, <1>4, <1>5, <1>6 DEF WorkerStep

\* A queue that is dropped, or loses its oldest event, holds nothing new.
LEMMA DropFresh ==
    ASSUME TypeInv, Fresh, NEW s, Drop(s), UNCHANGED <<service, opened>>,
           request' = request, stream' <= opened,
           \A t \in Streams : reading'[t] # "off" => t <= opened
    PROVE  Fresh'
<1> USE DEF Fresh, Drop, service, publication
<1>1. PublishersOK' /\ LatestIsNew'
  BY DEF PublishersOK, LatestIsNew, Quiet, Alive
<1>2. OpenedOnly'
  BY DEF OpenedOnly
<1>3. QueuesAreNew'
  BY NullIsNew DEF QueuesAreNew
<1> QED
  BY <1>1, <1>2, <1>3

\* The stream the page opens is that of the session just started.
LEMMA CommandFresh ==
    ASSUME TypeInv, Control, Fresh, CommandStep
    PROVE  Fresh'
<1> USE DEF Handles, page, service
<1>1. CASE PressStart \/ PressStop \/ Refused \/ Stopped \/ Declined
  BY <1>1, OtherFresh
  DEF PressStart, PressStop, Refused, Stopped, Declined, ClosesLater, Alive
<1>2. CASE CloseStream
  <2>1. \A t \in Streams : reading'[t] # "off" => t <= opened
    BY <1>2
    DEF CloseStream, Cancelled, Fresh, OpenedOnly, TypeInv, TypeOK, PageOK
  <2>2. stream' <= opened
    BY <1>2, FanoutAssumption DEF CloseStream, TypeInv, TypeOK, PageOK
  <2> QED
    BY <1>2, <2>1, <2>2, DropFresh DEF CloseStream
<1>3. CASE Started
  <2>1. opened \in Nat /\ opened' = opened + 1
    BY <1>3, FanoutAssumption DEF Started, TypeInv, TypeOK, PageOK
  <2>2. PublishersOK' /\ LatestIsNew'
    BY <1>3
    DEF Started, Drop, publication, Fresh, PublishersOK, LatestIsNew, Quiet, Alive
  <2>3. QueuesAreNew'
    BY <1>3, NullIsNew DEF Started, Drop, Fresh, QueuesAreNew
  <2>4. OpenedOnly'
    <3>1. \A p \in Publishers : serving[p] \in Nat
      BY FanoutAssumption DEF TypeInv, TypeOK, FanoutTypeOK, PublicationOK
    <3>2. stream' <= opened' /\ subscribers' \subseteq 1 .. opened'
      <4>1. stream' = opened' /\ subscribers' \subseteq subscribers
        BY <1>3, <2>1 DEF Started, Drop
      <4>2. subscribers \subseteq 1 .. opened
        BY DEF Fresh, OpenedOnly
      <4> QED
        BY <2>1, <4>1, <4>2
    <3>3. \A p \in Publishers : todo'[p] \subseteq 1 .. opened'
                              /\ serving'[p] <= opened'
      BY <1>3, <2>1, <3>1 DEF Started, Drop, publication, Fresh, OpenedOnly
    <3>4. \A t \in Streams : reading'[t] # "off" \/ replay'[t] # "none"
                                => t <= opened'
      BY <1>3, <2>1
      DEF Started, Drop, Cancelled, Fresh, OpenedOnly, TypeInv, TypeOK, PageOK,
          Streams
    <3> QED
      BY <3>2, <3>3, <3>4 DEF OpenedOnly
  <2> QED
    BY <2>2, <2>3, <2>4 DEF Fresh
<1> QED
  BY <1>1, <1>2, <1>3 DEF CommandStep

\* A stream registers once it is opened, and the text it replays is the latest.
LEMMA SubscribeFresh ==
    ASSUME TypeInv, Fresh, NEW s \in Streams, Subscribe(s) \/ GoOnSubscribing(s)
    PROVE  Fresh'
<1> USE DEF Fresh, TypeInv, TypeOK, FanoutTypeOK, service, page
<1>1. /\ UNCHANGED <<latest, publishing, sending, todo, serving>>
      /\ UNCHANGED <<worker, session, request, opened, stream, reading>>
  BY DEF Subscribe, GoOnSubscribing, SubscribeStep, Register, CheckLatest,
         ReadLatest, Replay, publication
<1>2. PublishersOK' /\ LatestIsNew'
  BY <1>1 DEF PublishersOK, LatestIsNew, Quiet, Alive
<1>3. OpenedOnly'
  <2>1. s <= opened /\ subscribers' \subseteq subscribers \cup {s}
    BY DEF Subscribe, GoOnSubscribing, SubscribeStep, Register, CheckLatest,
           ReadLatest, Replay, Replays, OpenedOnly
  <2>2. \A t \in Streams : replay'[t] # "none" => replay[t] # "none" \/ t = s
    BY DEF Subscribe, GoOnSubscribing, SubscribeStep, Register, CheckLatest,
           ReadLatest, Replay, Replays, SubscriptionOK
  <2> QED
    BY <1>1, <2>1, <2>2 DEF OpenedOnly, PageOK, Streams
<1>4. QueuesAreNew'
  <2>1. CASE Subscribe(s) \/ CheckLatest(s)
    BY <2>1 DEF Subscribe, Register, CheckLatest, QueuesAreNew
  <2>2. CASE ReadLatest(s)
    <3>1. Newer(latest, s)
      <4>1. s <= opened /\ opened <= session
        BY <2>2 DEF ReadLatest, Replays, OpenedOnly, Counts, PageOK
      <4> QED
        BY <4>1 DEF LatestIsNew, Newer, Events, ServiceOK, PageOK, Streams
    <3> QED
      BY <2>2, <3>1 DEF ReadLatest, QueuesAreNew, SubscriptionOK
  <2>3. CASE Replay(s)
    <3>1. queue'[s] = queue[s] \/ queue'[s] = Append(queue[s], replayed[s])
      BY <2>3 DEF Replay, QueueOK
    <3>2. queue[s] \in Seq(Events) /\ replayed[s] \in Events
      BY DEF QueueOK, SubscriptionOK
    <3>3. \A i \in DOMAIN queue'[s] : Newer(queue'[s][i], s)
      BY <3>1, <3>2, QueueElements DEF QueuesAreNew
    <3> QED
      BY <2>3, <3>3, NullIsNew DEF Replay, QueuesAreNew, QueueOK, SubscriptionOK
  <2> QED
    BY <2>1, <2>2, <2>3 DEF GoOnSubscribing, SubscribeStep
<1> QED
  BY <1>2, <1>3, <1>4

\* What the page receives leaves the queue it was in.
LEMMA ReceiveFresh ==
    ASSUME TypeInv, Fresh, NEW s \in Streams, Receive(s)
    PROVE  Fresh'
<1>1. CASE Drop(s)
  <2>1. \A t \in Streams : reading'[t] # "off" => t <= opened
    BY DEF Receive, Fresh, OpenedOnly, TypeInv, TypeOK, PageOK
  <2>2. stream' <= opened /\ UNCHANGED <<service, opened, request>>
    BY DEF Receive, Fresh, OpenedOnly
  <2> QED
    BY <1>1, <2>1, <2>2, DropFresh
<1>2. CASE Take(s) /\ UNCHANGED reading
  <2>1. queue[s] \in Seq(Events) /\ queue[s] # <<>>
    BY DEF Receive, CanTake, TypeInv, TypeOK, FanoutTypeOK, QueueOK
  <2>2. queue' = [queue EXCEPT ![s] = Tail(queue[s])]
    BY <1>2 DEF Take
  <2>3. QueuesAreNew'
    BY <1>2, <2>1, <2>2, QueueElements
    DEF Take, subscription, Fresh, QueuesAreNew, TypeInv, TypeOK, FanoutTypeOK,
        QueueOK
  <2> QED
    BY <1>2, <2>3
    DEF Receive, Take, subscription, publication, service, Fresh, PublishersOK,
        LatestIsNew, OpenedOnly, Quiet, Alive
<1> QED
  BY <1>1, <1>2 DEF Receive

\* Every step keeps the texts where they belong.
LEMMA NextFresh ==
    TypeInv /\ Control /\ Fresh /\ [Next]_vars => Control' /\ Fresh'
<1> SUFFICES ASSUME TypeInv, Control, Fresh, [Next]_vars
             PROVE  Control' /\ Fresh'
  OBVIOUS
<1>1. CASE UNCHANGED vars
  BY <1>1, OtherFresh, NextControl DEF vars, service, page, Alive
<1>2. CASE ServiceStep
  BY <1>2, ServiceFresh, NextControl
<1>3. CASE Tick \/ Fail \/ WorkerStep
  BY <1>3, WorkerFresh, NextControl
<1>4. CASE CommandStep
  BY <1>4, CommandFresh, NextControl
<1>5. CASE \E p \in Publishers : Publication(p)
  BY <1>5, PublicationFresh, NextControl
<1>6. ASSUME NEW s \in Streams, StreamStep(s)
      PROVE  Fresh'
  <2>1. CASE BreakOff(s)
    <3>1. \A t \in Streams : reading'[t] # "off" => t <= opened
      BY <2>1 DEF BreakOff, Fresh, OpenedOnly, TypeInv, TypeOK, PageOK
    <3> QED
      BY <2>1, <3>1
      DEF BreakOff, fanout, subscription, publication, service, Fresh,
          PublishersOK, LatestIsNew, OpenedOnly, QueuesAreNew, Quiet, Alive
  <2> QED
    BY <1>6, <2>1, SubscribeFresh, ReceiveFresh DEF StreamStep
<1>7. CASE RunTask
  BY <1>7, OtherFresh, NextControl DEF RunTask, service, Alive
<1> QED
  BY <1>1, <1>2, <1>3, <1>4, <1>5, <1>6, <1>7, NextControl
  DEF Next, ServiceStep, CommandStep

\* No stream ever carries a text of a session that ended before it was opened.
THEOREM StreamsAreFresh == Spec => []FreshStream
<1>1. TypeInv /\ Fresh => FreshStream
  BY DEF FreshStream, Fresh, QueuesAreNew, Newer
<1> QED
  BY <1>1, InitTypes, InitControl, InitFresh, NextTypes, NextFresh, PTL DEF Spec

-----------------------------------------------------------------------------
(***************************************************************************)
(* NewestReachable.  The newest text is on its way to every stream, or has *)
(* arrived in its queue with so few events behind it, and so few that can  *)
(* still follow, that making room for them never pushes it out: a replay   *)
(* that was read before it, the one ready and the one error of a session.  *)
(* A queue of four holds them all.                                         *)
(***************************************************************************)
Count(b) == IF b THEN 1 ELSE 0

\* A publisher has yet to put what it sends in the queue of s.
Owes(p, s) == publishing[p] = "snapshot" \/ s \in todo[p] \/ Serves(p, s)

MayReplay(s) == Count(replay[s] = "read")
MayReady(s)  == Count(request = "ready" \/ Owes("request", s))
MayFail(s)   == Count(worker = "run" \/ (worker = "failing" /\ Owes("worker", s)))

\* How many events may still follow the newest text.
Ahead(s) == MayReplay(s) + MayReady(s) + MayFail(s)

Holds(q, event, n) == \E i \in DOMAIN q : q[i] = event /\ Len(q) - i + n <= 3

Coming(s) == sending["worker"] = latest /\ Owes("worker", s)

WillReplay(s) ==
    \/ replay[s] \in {"registered", "checked", "refused"}
    \/ replay[s] = "read" /\ replayed[s] = latest

Reaches(s) ==
    \/ received[s] >= latest.number
    \/ Holds(queue[s], latest, Ahead(s))
    \/ Coming(s)
    \/ WillReplay(s)

Reachable ==
    ~raced /\ latest.kind \in TextKinds =>
        \A s \in subscribers : reading[s] = "on" => Reaches(s)

\* The worker has room for what it is about to put.
Room ==
    ~raced /\ publishing["worker"] = "put" =>
        \A s \in Streams : serving["worker"] = s => ~Full(s)

\* The worker sends the latest text, or the error of its session.
Sending ==
    ~Quiet("worker") =>
        IF sending["worker"].kind \in TextKinds
        THEN latest.kind \in TextKinds => sending["worker"] = latest
        ELSE worker = "failing"

\* Nobody is served twice.
Once == \A p \in Publishers : publishing[p] \in {"evict", "put"} => serving[p] \notin todo[p]

\* A request publishes before it is answered.
Readying == ~Quiet("request") => request = "started"

Newest == Reachable /\ Room /\ Sending /\ Readying /\ Once

\* What is in a queue, when an event is added to it or the oldest taken.
LEMMA HoldsInQueue ==
    ASSUME NEW q \in Seq(Events), NEW event \in Events, NEW n \in 0 .. 3
    PROVE  /\ Holds(Append(q, event), event, n)
           /\ \A other \in Events : Holds(q, event, n + 1) =>
                    Holds(Append(q, other), event, n)
           /\ q # <<>> /\ Holds(q, event, n) =>
                    Head(q) = event \/ Holds(Tail(q), event, n)
           /\ Len(q) >= 4 /\ n > 0 /\ Holds(q, event, n) =>
                    Holds(Tail(q), event, n)
           /\ \A m \in 0 .. n : Holds(q, event, n) => Holds(q, event, m)
<1> USE DEF Holds
<1>1. Holds(Append(q, event), event, n)
  <2>1. Len(q) + 1 \in DOMAIN Append(q, event)
    OBVIOUS
  <2>2. Append(q, event)[Len(q) + 1] = event /\ Len(Append(q, event)) = Len(q) + 1
    OBVIOUS
  <2> QED BY <2>1, <2>2
<1>2. ASSUME NEW other \in Events, Holds(q, event, n + 1)
      PROVE  Holds(Append(q, other), event, n)
  <2>1. PICK i \in DOMAIN q : q[i] = event /\ Len(q) - i + (n + 1) <= 3
    BY <1>2
  <2>2. i \in DOMAIN Append(q, other) /\ Append(q, other)[i] = event
        /\ Len(Append(q, other)) = Len(q) + 1
    BY <2>1
  <2> QED BY <2>1, <2>2
<1>3. ASSUME q # <<>>, NEW i \in DOMAIN q, q[i] = event, Len(q) - i + n <= 3
      PROVE  (i = 1 /\ Head(q) = event) \/ Holds(Tail(q), event, n)
  <2>1. CASE i = 1
    BY <1>3, <2>1
  <2>2. CASE i # 1
    <3>1. i - 1 \in DOMAIN Tail(q) /\ Tail(q)[i - 1] = event
          /\ Len(Tail(q)) = Len(q) - 1
      BY <1>3, <2>2
    <3> QED BY <1>3, <2>2, <3>1
  <2> QED BY <2>1, <2>2
<1>4. ASSUME Len(q) >= 4, n > 0, Holds(q, event, n)
      PROVE  Holds(Tail(q), event, n)
  <2>1. PICK i \in DOMAIN q : q[i] = event /\ Len(q) - i + n <= 3
    BY <1>4
  <2>2. q # <<>> /\ i # 1
    BY <1>4, <2>1
  <2> HIDE DEF Holds
  <2> QED BY <1>3, <2>1, <2>2
<1>5. ASSUME NEW m \in 0 .. n, Holds(q, event, n) PROVE Holds(q, event, m)
  BY <1>5
<1> HIDE DEF Holds
<1>6. ASSUME q # <<>>, Holds(q, event, n)
      PROVE  Head(q) = event \/ Holds(Tail(q), event, n)
  BY <1>3, <1>6 DEF Holds
<1> QED BY <1>1, <1>2, <1>4, <1>5, <1>6

\* One event more behind it is one that may follow less.
LEMMA HoldsPast ==
    ASSUME NEW q \in Seq(Events), NEW event \in Events, NEW other \in Events,
           NEW n \in 0 .. 3, NEW m \in 0 .. 3, m + 1 <= n, Holds(q, event, n)
    PROVE  Holds(q, event, m) /\ Holds(Append(q, other), event, m)
<1>1. m \in 0 .. n /\ m + 1 \in 0 .. n
  OBVIOUS
<1>2. Holds(q, event, m) /\ Holds(q, event, m + 1)
  BY <1>1, HoldsInQueue
<1> QED BY <1>2, HoldsInQueue

\* At most three may follow.
LEMMA AheadType == \A s : Ahead(s) \in 0 .. 3
BY DEF Ahead, MayReplay, MayReady, MayFail, Count

\* At first there is no text.
LEMMA InitNewest == Init => Newest
BY DEF Init, FanoutInit, Newest, Reachable, Room, Sending, Readying, Once, Quiet, Null,
       TextKinds, Publishers

\* A step that leaves the streams alone.
LEMMA OtherNewest ==
    ASSUME TypeInv, Newest, UNCHANGED <<fanout, received>>,
           \A s \in Streams : reading'[s] = "on" => reading[s] = "on" \/ s \notin subscribers,
           ~Quiet("worker") => worker' = worker,
           ~Quiet("request") => request' = request,
           \/ latest = Null
           \/ /\ request' = "ready" => request = "ready"
              /\ worker' = "run" => worker = "run"
              /\ worker' = "failing" => worker = "failing"
    PROVE  Newest'
<1> USE DEF fanout, subscription, publication
<1>1. Room' /\ Sending' /\ Readying' /\ Once'
  BY DEF Newest, Room, Sending, Readying, Once, Quiet, Full
<1>2. Reachable'
  <2> SUFFICES ASSUME ~raced, latest.kind \in TextKinds, NEW s \in subscribers,
                      reading'[s] = "on"
               PROVE  Reaches(s)'
    BY DEF Reachable
  <2>1. latest # Null
    BY DEF Null, TextKinds
  <2>2. s \in Streams
    BY DEF TypeInv, TypeOK, FanoutTypeOK, SubscriptionOK
  <2>3. Reaches(s)
    BY <2>2 DEF Newest, Reachable
  <2>4. Ahead(s)' <= Ahead(s)
    BY <2>1 DEF Ahead, MayReplay, MayReady, MayFail, Count, Owes, Serves
  <2>5. Holds(queue[s], latest, Ahead(s)) => Holds(queue[s], latest, Ahead(s)')
    <3>1. Ahead(s) \in 0 .. 3 /\ Ahead(s)' \in 0 .. 3
      BY AheadType DEF Ahead, MayReplay, MayReady, MayFail, Count
    <3>2. queue[s] \in Seq(Events) /\ latest \in Events
      BY <2>2 DEF TypeInv, TypeOK, FanoutTypeOK, QueueOK
    <3> HIDE DEF fanout, subscription, publication
    <3> QED BY <2>4, <3>1, <3>2, HoldsInQueue
  <2> QED BY <2>3, <2>5 DEF Reaches, Coming, WillReplay, Owes, Serves
<1> QED BY <1>1, <1>2 DEF Newest

\* Forgetting the latest text asks nothing of the streams.
LEMMA ForgetNewest ==
    ASSUME Newest, latest' = Null, request # "started",
           UNCHANGED <<queue, subscription, publication, worker>>
    PROVE  Newest'
<1>1. latest'.kind \notin TextKinds
  BY DEF Null, TextKinds
<1> QED
  BY <1>1
  DEF Newest, Reachable, Room, Sending, Readying, Once, Quiet, Full, subscription,
      publication

\* A text that is published is on its way to everybody.
LEMMA PublishTextNewest ==
    ASSUME TypeInv, Newest, NEW event \in Events, event.kind \in TextKinds,
           Publish("worker", event), request' = request
    PROVE  Newest'
<1> USE DEF Publish, At, subscription, TypeInv, TypeOK, FanoutTypeOK, PublicationOK
<1>1. /\ latest' = event /\ sending'["worker"] = event
      /\ publishing'["worker"] = "snapshot"
  BY DEF Publishers
<1>2. Reachable'
  BY <1>1 DEF Reachable, Reaches, Coming, Owes
<1>3. Room' /\ Sending'
  BY <1>1 DEF Room, Sending
<1>4. Once' /\ Readying'
  BY DEF Newest, Once, Readying, Quiet, Publishers
<1> QED BY <1>2, <1>3, <1>4 DEF Newest

\* What is published beside it is one of the events that may follow.
LEMMA PublishNoticeNewest ==
    ASSUME TypeInv, Fresh, Newest, NEW p \in Publishers, NEW event \in Events,
           event.kind \notin TextKinds, Publish(p, event),
           UNCHANGED <<received, reading>>,
           IF p = "request" THEN /\ request = "ready" /\ request' = "started"
                                 /\ worker' = worker
                            ELSE /\ worker = "run" /\ worker' = "failing"
                                 /\ request' = request
    PROVE  Newest'
<1> USE DEF Publish, At, subscription, TypeInv, TypeOK, FanoutTypeOK, PublicationOK
<1>1. /\ UNCHANGED <<latest, queue, subscribers, replay, replayed, todo, serving>>
      /\ (raced' <=> raced) /\ publishing[p] = "idle"
      /\ publishing' = [publishing EXCEPT ![p] = "snapshot"]
      /\ sending' = [sending EXCEPT ![p] = event]
  <2>1. raced' <=> raced
    BY Zenon
  <2> QED BY <2>1
<1>2. Room' /\ Once'
  BY <1>1 DEF Newest, Room, Once, Full, Publishers
<1>3. Sending' /\ Readying'
  BY <1>1 DEF Newest, Sending, Readying, Quiet, Publishers
<1>4. Reachable'
  <2> SUFFICES ASSUME ~raced, latest.kind \in TextKinds, NEW s \in subscribers,
                      reading[s] = "on"
               PROVE  Reaches(s)'
    BY <1>1 DEF Reachable
  <2>1. s \in Streams /\ Reaches(s)
    BY DEF Newest, Reachable, SubscriptionOK
  <2>2. Ahead(s)' <= Ahead(s)
    <3>1. MayReplay(s)' = MayReplay(s)
      BY <1>1 DEF MayReplay
    <3>2. MayReady(s)' <= MayReady(s) /\ MayFail(s)' <= MayFail(s)
      <4>1. CASE p = "request"
        <5>1. MayReady(s) = 1 /\ MayReady(s)' <= 1
          BY <4>1 DEF MayReady, Count
        <5>2. Owes("worker", s)' <=> Owes("worker", s)
          BY <1>1, <4>1 DEF Owes, Serves, Publishers
        <5>3. MayFail(s)' = MayFail(s)
          BY <4>1, <5>2 DEF MayFail
        <5> QED BY <5>1, <5>3 DEF MayFail, Count
      <4>2. CASE p = "worker"
        <5>1. MayFail(s) = 1 /\ MayFail(s)' <= 1
          <6>1. worker = "run"
            BY <4>2
          <6>2. MayFail(s) = 1
            BY <6>1 DEF MayFail, Count
          <6>3. MayFail(s)' \in {0, 1}
            BY DEF MayFail, Count
          <6> QED BY <6>2, <6>3
        <5>2. Owes("request", s)' <=> Owes("request", s)
          BY <1>1, <4>2 DEF Owes, Serves, Publishers
        <5>3. MayReady(s)' = MayReady(s)
          BY <4>2, <5>2 DEF MayReady
        <5> QED BY <5>1, <5>3 DEF MayReady, Count
      <4> QED BY <4>1, <4>2 DEF Publishers
    <3> QED BY <3>1, <3>2 DEF Ahead, MayReplay, MayReady, MayFail, Count
  <2>3. Holds(queue[s], latest, Ahead(s)) => Holds(queue[s], latest, Ahead(s)')
    <3>1. Ahead(s) \in 0 .. 3 /\ Ahead(s)' \in 0 .. 3
      BY AheadType DEF Ahead, MayReplay, MayReady, MayFail, Count
    <3>2. queue[s] \in Seq(Events) /\ latest \in Events
      BY <2>1 DEF QueueOK
    <3> QED BY <2>2, <3>1, <3>2, HoldsInQueue
  <2>4. Coming(s) => p = "request"
    <3>1. latest # Null
      BY DEF Null, TextKinds
    <3> QED BY <1>1, <3>1 DEF Coming, Fresh, PublishersOK, Quiet, Publishers
  <2>5. Coming(s) => Coming(s)'
    BY <1>1, <2>4 DEF Coming, Owes, Serves, Publishers
  <2> QED BY <1>1, <2>1, <2>3, <2>5 DEF Reaches, WillReplay
<1> QED BY <1>2, <1>3, <1>4 DEF Newest

\* A publisher that owes less changes the queue of the stream it serves.
LEMMA PublicationNewest ==
    ASSUME QueueLimit >= 4, TypeInv, Fresh, Newest, NEW p \in Publishers, Publication(p)
    PROVE  Newest'
<1> USE DEF TypeInv, TypeOK, FanoutTypeOK, Publication, service, page, subscription
<1>0. /\ UNCHANGED <<latest, subscribers, replay, replayed, request, worker,
                     reading, received>>
      /\ \A q \in Publishers \ {p} : /\ publishing'[q] = publishing[q]
                                     /\ sending'[q] = sending[q]
                                     /\ todo'[q] = todo[q] /\ serving'[q] = serving[q]
      /\ ~raced' => ~raced
  BY DEF PublishStep, TakeSubscribers, LookForRoom, Evict, Put, At, Sends, PublicationOK
<1>1. Once'
  BY <1>0 DEF Newest, Once, PublishStep, TakeSubscribers, LookForRoom, Evict, Put, At,
              PublicationOK
<1>2. Sending' /\ Readying'
  BY <1>0 DEF Newest, Sending, Readying, Quiet, PublishStep, TakeSubscribers, LookForRoom, Evict,
              Put, At, Sends, PublicationOK, Publishers
<1>3. \A s \in subscribers : \A q \in Publishers : Owes(q, s)' => Owes(q, s)
  BY <1>0 DEF Owes, Serves, PublishStep, TakeSubscribers, LookForRoom, Evict, Put, At,
              PublicationOK
<1>4. Room'
  <2> SUFFICES ASSUME ~raced', publishing'["worker"] = "put", NEW s \in Streams,
                      serving'["worker"] = s
               PROVE  ~Full(s)'
    BY DEF Room
  <2>1. queue[s] \in Seq(Events) /\ Len(queue[s]) <= QueueLimit
        /\ QueueLimit \in Nat \ {0}
    BY FanoutAssumption DEF QueueOK
  <2>2. CASE TakeSubscribers(p)
    BY <1>0, <2>2 DEF TakeSubscribers, At, Newest, Room, Full, PublicationOK
  <2>3. CASE LookForRoom(p)
    BY <1>0, <2>3 DEF LookForRoom, At, Newest, Room, Full, PublicationOK
  <2>4. CASE Evict(p)
    <3>1. CASE serving[p] = s
      <4>1. Full(s)
        BY <2>4, <3>1 DEF Evict
      <4>2. queue'[s] = Tail(queue[s])
        BY <2>1, <2>4, <3>1, <4>1 DEF Evict, QueueOK, Full
      <4> QED BY <2>1, <4>1, <4>2 DEF Full
    <3>2. CASE serving[p] # s
      <4>1. queue'[s] = queue[s] /\ p # "worker"
        BY <2>4, <3>2 DEF Evict, QueueOK
      <4> QED BY <1>0, <4>1 DEF Newest, Room, Full, Publishers
    <3> QED BY <3>1, <3>2
  <2>5. CASE Put(p)
    <3>1. p # "worker"
      BY <2>5 DEF Put, At, PublicationOK
    <3>2. publishing["worker"] = "put" /\ serving["worker"] = s
      BY <1>0, <3>1 DEF Publishers
    <3>3. serving[p] # s
      BY <2>5, <3>1, <3>2 DEF Put, Serves, Publishers
    <3>4. queue'[s] = queue[s]
      BY <2>5, <3>3 DEF Put, QueueOK
    <3> QED BY <1>0, <3>2, <3>4 DEF Newest, Room, Full
  <2> QED BY <2>2, <2>3, <2>4, <2>5 DEF PublishStep
<1>5. Reachable'
  <2> SUFFICES ASSUME ~raced', latest.kind \in TextKinds, NEW s \in subscribers,
                      reading[s] = "on"
               PROVE  Reaches(s)'
    BY <1>0 DEF Reachable
  <2>1. s \in Streams /\ Reaches(s) /\ ~raced
    BY <1>0 DEF Newest, Reachable, SubscriptionOK
  <2>2. /\ Ahead(s)' <= Ahead(s) /\ Ahead(s) \in 0 .. 3 /\ Ahead(s)' \in 0 .. 3
        /\ MayReplay(s)' = MayReplay(s)
    <3>1. MayReplay(s)' = MayReplay(s) /\ MayReady(s)' <= MayReady(s)
          /\ MayFail(s)' <= MayFail(s)
      BY <1>0, <1>3 DEF MayReplay, MayReady, MayFail, Count, Publishers
    <3> QED BY <3>1 DEF Ahead, MayReplay, MayReady, MayFail, Count
  <2>3. queue[s] \in Seq(Events) /\ latest \in Events /\ Len(queue[s]) <= QueueLimit
        /\ QueueLimit \in Nat
    BY <2>1, FanoutAssumption DEF QueueOK
  <2>4. received[s] >= latest.number => received'[s] >= latest'.number
    BY <1>0
  <2>5. WillReplay(s) => WillReplay(s)'
    BY <1>0 DEF WillReplay
  \* A queue that is as it was.
  <2>6. CASE queue'[s] = queue[s] /\ ~(Put(p) /\ serving[p] = s)
    <3>1. Holds(queue[s], latest, Ahead(s)) => Holds(queue'[s], latest', Ahead(s)')
      BY <1>0, <2>2, <2>3, <2>6, HoldsInQueue
    <3>2. Coming(s) => Coming(s)'
      <4>1. CASE p # "worker"
        BY <1>0, <4>1 DEF Coming, Owes, Serves, Publishers
      <4>2. CASE p = "worker" /\ TakeSubscribers(p)
        BY <1>0, <4>2 DEF Coming, Owes, TakeSubscribers, Sends, PublicationOK
      <4>3. CASE p = "worker" /\ LookForRoom(p)
        BY <1>0, <4>3 DEF Coming, Owes, Serves, LookForRoom, At, PublicationOK
      <4>4. CASE p = "worker" /\ Evict(p)
        BY <1>0, <4>4 DEF Coming, Owes, Serves, Evict, At, PublicationOK
      <4>5. CASE p = "worker" /\ Put(p)
        <5>1. Coming(s) => s \in todo[p]
          BY <2>6, <4>5 DEF Coming, Owes, Serves, Put, At
        <5> QED BY <1>0, <4>5, <5>1 DEF Coming, Owes, Put, Sends, PublicationOK
      <4> QED BY <4>1, <4>2, <4>3, <4>4, <4>5 DEF PublishStep
    <3> QED BY <2>1, <2>4, <2>5, <3>1, <3>2 DEF Reaches
  \* Making room.
  <2>7. CASE Evict(p) /\ serving[p] = s
    <3>1. Full(s) /\ Serves(p, s) /\ Serves(p, s)'
      BY <2>7 DEF Evict, At, Serves, PublicationOK
    <3>2. queue'[s] = Tail(queue[s]) /\ Len(queue[s]) >= 4
      BY <2>1, <2>3, <2>7, <3>1 DEF Evict, QueueOK, Full
    <3>3. Coming(s) => Coming(s)'
      BY <1>0, <2>7 DEF Coming, Owes, Serves, Evict, At, PublicationOK
    <3>4. CASE Coming(s)
      BY <3>3, <3>4 DEF Reaches
    <3>5. CASE ~Coming(s)
      <4>1. Ahead(s)' > 0
        <5>1. CASE p = "request"
          BY <2>2, <3>1, <5>1
          DEF Ahead, MayReplay, MayReady, MayFail, Count, Owes
        <5>2. CASE p = "worker"
          <6>1. sending["worker"].kind \notin TextKinds
            BY <3>1, <3>5, <5>2 DEF Newest, Sending, Quiet, Coming, Owes, Serves
          <6>2. worker = "failing"
            BY <3>1, <5>2, <6>1 DEF Newest, Sending, Quiet, Serves
          <6> QED
            BY <1>0, <3>1, <5>2, <6>2
            DEF Ahead, MayReplay, MayReady, MayFail, Count, Owes
        <5> QED BY <5>1, <5>2 DEF Publishers
      <4>2. Holds(queue[s], latest, Ahead(s)) => Holds(queue'[s], latest', Ahead(s)')
        <5>1. Holds(queue[s], latest, Ahead(s)) => Holds(queue[s], latest, Ahead(s)')
          BY <2>2, <2>3, HoldsInQueue
        <5>2. Holds(queue[s], latest, Ahead(s)') => Holds(Tail(queue[s]), latest, Ahead(s)')
          BY <2>2, <2>3, <3>2, <4>1, HoldsInQueue
        <5> QED BY <1>0, <3>2, <5>1, <5>2
      <4> QED BY <2>1, <2>4, <2>5, <3>5, <4>2 DEF Reaches
    <3> QED BY <3>4, <3>5
  \* Putting what is published.
  <2>8. CASE Put(p) /\ serving[p] = s
    <3>1. Serves(p, s) /\ ~Owes(p, s)' /\ s \notin todo[p]
      BY <2>8 DEF Put, At, Serves, Owes, PublicationOK, Newest, Once
    <3>2. sending[p] \in Events
      BY DEF PublicationOK
    <3>3. queue'[s] = IF Full(s) THEN queue[s] ELSE Append(queue[s], sending[p])
      BY <2>1, <2>8 DEF Put, QueueOK
    <3>4. CASE p = "worker" /\ Coming(s)
      <4>1. ~Full(s)
        BY <2>1, <2>8, <3>4 DEF Newest, Room, Put, At
      <4>2. queue'[s] = Append(queue[s], latest)
        BY <3>3, <3>4, <4>1 DEF Coming
      <4>3. Holds(queue'[s], latest', Ahead(s)')
        BY <1>0, <2>2, <2>3, <4>2, HoldsInQueue
      <4> QED BY <4>3 DEF Reaches
    <3>5. CASE p = "worker" /\ ~Coming(s)
      <4>1. sending["worker"].kind \notin TextKinds
        BY <3>1, <3>5 DEF Newest, Sending, Quiet, Coming, Owes, Serves
      <4>2. worker = "failing"
        BY <3>1, <3>5, <4>1 DEF Newest, Sending, Quiet, Serves
      <4>3. MayFail(s) = 1 /\ MayFail(s)' = 0 /\ MayReady(s)' <= MayReady(s)
        BY <1>0, <1>3, <3>1, <3>5, <4>2 DEF MayFail, MayReady, Count, Owes, Publishers
      <4>4. Ahead(s)' + 1 <= Ahead(s)
        BY <2>2, <4>3 DEF Ahead, MayReplay, MayReady, MayFail, Count
      <4>5. Holds(queue[s], latest, Ahead(s)) => Holds(queue'[s], latest', Ahead(s)')
        BY <1>0, <2>2, <2>3, <3>2, <3>3, <4>4, HoldsPast
      <4> QED BY <2>1, <2>4, <2>5, <3>5, <4>5 DEF Reaches
    <3>6. CASE p = "request"
      <4>1. request # "ready"
        BY <3>1, <3>6 DEF Newest, Readying, Quiet, Serves
      <4>2. MayReady(s) = 1 /\ MayReady(s)' = 0 /\ MayFail(s)' <= MayFail(s)
        BY <1>0, <1>3, <3>1, <3>6, <4>1 DEF MayFail, MayReady, Count, Owes, Publishers
      <4>3. Ahead(s)' + 1 <= Ahead(s)
        BY <2>2, <4>2 DEF Ahead, MayReplay, MayReady, MayFail, Count
      <4>4. Holds(queue[s], latest, Ahead(s)) => Holds(queue'[s], latest', Ahead(s)')
        BY <1>0, <2>2, <2>3, <3>2, <3>3, <4>3, HoldsPast
      <4>5. Coming(s) => Coming(s)'
        BY <1>0, <3>6 DEF Coming, Owes, Serves, Publishers
      <4> QED BY <2>1, <2>4, <2>5, <4>4, <4>5 DEF Reaches
    <3> QED BY <3>4, <3>5, <3>6 DEF Publishers
  <2>9. CASE ~(Evict(p) /\ serving[p] = s) /\ ~(Put(p) /\ serving[p] = s)
    <3>1. queue'[s] = queue[s]
      BY <2>1, <2>9
      DEF PublishStep, TakeSubscribers, LookForRoom, Evict, Put, QueueOK
    <3> QED BY <2>6, <2>9, <3>1
  <2> QED BY <2>7, <2>8, <2>9
<1> QED BY <1>1, <1>2, <1>4, <1>5 DEF Newest

\* A stream that registers will replay the latest text, and so it does if there
\* is room.
LEMMA SubscribeNewest ==
    ASSUME TypeInv, Newest, NEW s \in Streams, Subscribe(s) \/ GoOnSubscribing(s)
    PROVE  Newest'
<1> USE DEF TypeInv, TypeOK, FanoutTypeOK, service, page
<1>0. /\ UNCHANGED <<latest, publishing, sending, todo, serving, worker, request,
                     reading, received>>
      /\ \A t \in Streams \ {s} : /\ queue'[t] = queue[t] /\ replay'[t] = replay[t]
                                  /\ replayed'[t] = replayed[t]
      /\ subscribers' \subseteq subscribers \cup {s}
      /\ ~raced' => ~raced
  <2>1. CASE Subscribe(s)
    BY <2>1 DEF Subscribe, Register, Replays, publication, SubscriptionOK
  <2>2. CASE GoOnSubscribing(s) /\ CheckLatest(s)
    BY <2>2 DEF GoOnSubscribing, CheckLatest, Replays, publication, SubscriptionOK
  <2>3. CASE GoOnSubscribing(s) /\ ReadLatest(s)
    BY <2>3 DEF GoOnSubscribing, ReadLatest, Replays, publication, SubscriptionOK
  <2>4. CASE GoOnSubscribing(s) /\ Replay(s)
    <3>1. ~raced' => ~raced
      BY <2>4 DEF Replay
    <3> QED
      BY <2>4, <3>1 DEF GoOnSubscribing, Replay, Replays, QueueOK, SubscriptionOK
  <2> QED BY <2>1, <2>2, <2>3, <2>4 DEF GoOnSubscribing, SubscribeStep
<1>1. Once' /\ Sending' /\ Readying'
  BY <1>0 DEF Newest, Once, Sending, Readying, Quiet
<1>2. queue'[s] = queue[s] \/ Replay(s)
  BY DEF Subscribe, GoOnSubscribing, SubscribeStep, Register, CheckLatest, ReadLatest
<1>3. Room'
  <2> SUFFICES ASSUME ~raced', publishing["worker"] = "put", NEW t \in Streams,
                      serving["worker"] = t
               PROVE  ~Full(t)'
    BY <1>0 DEF Room
  <2>1. ~Full(t)
    BY <1>0 DEF Newest, Room
  <2>2. queue'[t] = queue[t]
    BY <1>0, <1>2 DEF Replay, Serves, Publishers
  <2> QED BY <2>1, <2>2 DEF Full
<1>4. Reachable'
  <2> SUFFICES ASSUME ~raced', latest.kind \in TextKinds, NEW t \in subscribers',
                      reading[t] = "on"
               PROVE  Reaches(t)'
    BY <1>0 DEF Reachable
  <2>0. latest # Null
    BY DEF Null, TextKinds
  <2>1. CASE t # s
    <3>1. t \in Streams /\ Reaches(t)
      BY <1>0, <2>1 DEF Newest, Reachable, SubscriptionOK
    <3>2. Ahead(t)' = Ahead(t)
      BY <1>0, <2>1, <3>1
      DEF Ahead, MayReplay, MayReady, MayFail, Owes, Serves
    <3>3. Coming(t) => Coming(t)'
      BY <1>0 DEF Coming, Owes, Serves
    <3>4. WillReplay(t) => WillReplay(t)'
      BY <1>0, <2>1, <3>1 DEF WillReplay
    <3>5. queue'[t] = queue[t] /\ latest' = latest /\ received'[t] = received[t]
      BY <1>0, <2>1, <3>1
    <3> QED BY <3>1, <3>2, <3>3, <3>4, <3>5 DEF Reaches
  <2>2. CASE t = s /\ ~Replay(s)
    <3>1. replay'[s] \in {"registered", "checked"}
             \/ (replay'[s] = "read" /\ replayed'[s] = latest)
      BY <2>0, <2>2
      DEF Subscribe, GoOnSubscribing, SubscribeStep, Register, CheckLatest, ReadLatest,
          Replays, SubscriptionOK
    <3> QED BY <1>0, <2>2, <3>1 DEF Reaches, WillReplay
  <2>3. CASE t = s /\ Replay(s)
    <3>1. replay[s] = "read" /\ replay'[s] = IF Full(s) THEN "refused" ELSE "done"
      BY <2>3 DEF Replay, Replays, SubscriptionOK
    <3>2. CASE Full(s)
      BY <2>3, <3>1, <3>2 DEF Reaches, WillReplay
    <3>3. CASE ~Full(s)
      <4>1. queue'[s] = Append(queue[s], replayed[s])
        BY <2>3, <3>3 DEF Replay, QueueOK
      <4>2. queue[s] \in Seq(Events) /\ latest \in Events /\ replayed[s] \in Events
        BY DEF QueueOK, SubscriptionOK
      <4>3. Ahead(s)' + 1 = Ahead(s)
        <5>1. MayReplay(s) = 1 /\ MayReplay(s)' = 0
          BY <3>1, <3>3 DEF MayReplay, Count
        <5>2. MayReady(s)' = MayReady(s) /\ MayFail(s)' = MayFail(s)
          BY <1>0 DEF MayReady, MayFail, Owes, Serves
        <5> QED BY <5>1, <5>2 DEF Ahead, MayReady, MayFail, Count
      <4>4. Ahead(s) \in 0 .. 3 /\ Ahead(s)' \in 0 .. 3
        BY AheadType, <4>3 DEF Ahead, MayReplay, MayReady, MayFail, Count
      <4>5. s \in subscribers
        BY <2>3 DEF Replay
      <4>6. Reaches(s)
        BY <1>0, <2>3, <4>5 DEF Newest, Reachable
      <4>7. Coming(s) => Coming(s)'
        BY <1>0 DEF Coming, Owes, Serves
      <4>8. Holds(queue[s], latest, Ahead(s)) => Holds(queue'[s], latest, Ahead(s)')
        BY <4>1, <4>2, <4>3, <4>4, HoldsPast
      <4>9. WillReplay(s) => Holds(queue'[s], latest, Ahead(s)')
        BY <3>1, <4>1, <4>2, <4>4, HoldsInQueue DEF WillReplay
      <4> QED BY <1>0, <2>3, <4>6, <4>7, <4>8, <4>9 DEF Reaches
    <3> QED BY <3>2, <3>3
  <2> QED BY <2>1, <2>2, <2>3
<1> QED BY <1>1, <1>3, <1>4 DEF Newest

\* A stream that is dropped asks for nothing, and the others stay.
LEMMA DropNewest ==
    ASSUME TypeInv, Newest, NEW s, Drop(s), UNCHANGED <<service, received>>,
           \A t \in subscribers \ {s} : reading'[t] = "on" => reading[t] = "on",
           \A t \in Streams \ {s} : received'[t] = received[t],
           request' = "ready" => request = "ready",
           ~Quiet("request") => request' = request
    PROVE  Newest'
<1> USE DEF TypeInv, TypeOK, FanoutTypeOK, Drop, publication, service
<1>1. Once' /\ Sending' /\ Readying'
  BY DEF Newest, Once, Sending, Readying, Quiet
<1>2. Room'
  BY FanoutAssumption DEF Newest, Room, Full, QueueOK
<1>3. Reachable'
  <2> SUFFICES ASSUME ~raced, latest.kind \in TextKinds, NEW t \in subscribers \ {s},
                      reading'[t] = "on"
               PROVE  Reaches(t)'
    BY DEF Reachable
  <2>1. t \in Streams /\ Reaches(t)
    BY DEF Newest, Reachable, SubscriptionOK
  <2>6. queue'[t] = queue[t] /\ replay'[t] = replay[t] /\ replayed'[t] = replayed[t]
    BY <2>1
  <2>2. Ahead(t)' <= Ahead(t) /\ Ahead(t) \in 0 .. 3 /\ Ahead(t)' \in 0 .. 3
    BY <2>6 DEF Ahead, MayReplay, MayReady, MayFail, Count, Owes, Serves
  <2>3. queue[t] \in Seq(Events) /\ latest \in Events
    BY <2>1 DEF QueueOK
  <2>4. Holds(queue[t], latest, Ahead(t)) => Holds(queue[t], latest, Ahead(t)')
    BY <2>2, <2>3, HoldsInQueue
  <2>5. Coming(t) => Coming(t)'
    BY DEF Coming, Owes, Serves
  <2> QED BY <2>1, <2>4, <2>5, <2>6 DEF Reaches, WillReplay
<1> QED BY <1>1, <1>2, <1>3 DEF Newest

\* What leaves the queue has been received.
LEMMA ReceiveNewest ==
    ASSUME TypeInv, Newest, NEW s \in Streams, Receive(s)
    PROVE  Newest'
<1> USE DEF TypeInv, TypeOK, FanoutTypeOK, Receive, CanTake, page
<1>0. /\ queue[s] \in Seq(Events) /\ queue[s] # <<>> /\ latest \in Events
      /\ \A t \in Streams \ {s} : received'[t] = received[t] /\ reading'[t] = reading[t]
      /\ received'[s] = Larger(received[s], Head(queue[s]).number)
  BY DEF QueueOK, PageOK
<1>1. CASE Drop(s)
  <2>1. Once' /\ Sending' /\ Readying' /\ Room'
    BY <1>1, FanoutAssumption
    DEF Drop, publication, service, Newest, Once, Sending, Readying, Quiet, Room, Full,
        QueueOK
  <2>2. Reachable'
    <3> SUFFICES ASSUME ~raced, latest.kind \in TextKinds, NEW t \in subscribers \ {s},
                        reading[t] = "on"
                 PROVE  Reaches(t)'
      BY <1>0, <1>1 DEF Reachable, Drop, publication, SubscriptionOK
    <3>1. t \in Streams /\ Reaches(t)
      BY DEF Newest, Reachable, SubscriptionOK
    <3>2. queue'[t] = queue[t] /\ received'[t] = received[t]
      BY <1>0, <1>1, <3>1 DEF Drop
    <3> QED
      BY <1>1, <3>1, <3>2
      DEF Reaches, Ahead, MayReplay, MayReady, MayFail, Coming, WillReplay, Owes,
          Serves, Drop, publication, service
  <2> QED BY <2>1, <2>2 DEF Newest
<1>2. CASE Take(s) /\ UNCHANGED reading
  <2>1. queue' = [queue EXCEPT ![s] = Tail(queue[s])]
    BY <1>2 DEF Take
  <2>2. Once' /\ Sending' /\ Readying'
    BY <1>2 DEF Take, publication, service, Newest, Once, Sending, Readying, Quiet
  <2>3. Room'
    <3>1. \A t \in Streams : ~Full(t) => ~Full(t)'
      BY <1>0, <2>1, FanoutAssumption DEF Full, QueueOK
    <3> QED BY <1>2, <3>1 DEF Take, publication, Newest, Room
  <2>4. Reachable'
    <3> SUFFICES ASSUME ~raced, latest.kind \in TextKinds, NEW t \in subscribers,
                        reading[t] = "on"
                 PROVE  Reaches(t)'
      BY <1>2 DEF Reachable, Take, subscription, publication
    <3>1. t \in Streams /\ Reaches(t)
      BY DEF Newest, Reachable, SubscriptionOK
    <3>2. Ahead(t)' = Ahead(t) /\ (Coming(t) => Coming(t)')
          /\ (WillReplay(t) => WillReplay(t)') /\ latest' = latest
      BY <1>2
      DEF Ahead, MayReplay, MayReady, MayFail, Coming, WillReplay, Owes, Serves, Take,
          subscription, publication, service
    <3>3. CASE t # s
      <4>1. queue'[t] = queue[t] /\ received'[t] = received[t]
        BY <1>0, <2>1, <3>1, <3>3 DEF QueueOK
      <4> QED BY <3>1, <3>2, <4>1 DEF Reaches
    <3>4. CASE t = s
      <4>1. queue'[s] = Tail(queue[s])
        BY <2>1 DEF QueueOK
      <4>2. received[s] \in Nat /\ Head(queue[s]).number \in Nat /\ latest.number \in Nat
        <5>1. Head(queue[s]) \in Events
          BY <1>0
        <5>2. \A e \in Events : e.number \in Nat
          BY FanoutAssumption DEF Events
        <5>3. received[s] \in Nat
          BY FanoutAssumption DEF PageOK
        <5> QED BY <1>0, <5>1, <5>2, <5>3
      <4>3. received'[s] >= received[s] /\ received'[s] >= Head(queue[s]).number
            /\ received'[s] \in Nat
        BY <1>0, <4>2 DEF Larger
      <4>4. received[s] >= latest.number \/ Head(queue[s]) = latest
                => received'[s] >= latest.number
        BY <4>2, <4>3
      <4>5. Holds(queue[s], latest, Ahead(s)) =>
                Head(queue[s]) = latest \/ Holds(Tail(queue[s]), latest, Ahead(s))
        BY <1>0, AheadType, HoldsInQueue
      <4> QED BY <3>1, <3>2, <3>4, <4>1, <4>4, <4>5 DEF Reaches
    <3> QED BY <3>3, <3>4
  <2> QED BY <2>2, <2>3, <2>4 DEF Newest
<1> QED BY <1>1, <1>2

\* No command, and no step of the service or its worker, loses the newest text.
LEMMA ServiceNewest ==
    ASSUME TypeInv, Control, Fresh, Newest, ServiceStep
    PROVE  Newest'
<1> USE DEF Handles, page
<1>0. ~Quiet("request") => request = "started"
  BY DEF Newest, Readying
<1>1. CASE CheckStart \/ FailStart \/ CheckStop \/ JoinTimesOut
  BY <1>0, <1>1, OtherNewest DEF CheckStart, FailStart, CheckStop, JoinTimesOut
<1>2. CASE ResetSession \/ JoinWorker
  BY <1>2, ForgetNewest DEF ResetSession, JoinWorker
<1>3. CASE SpawnWorker
  <2>1. latest = Null /\ Quiet("worker")
    BY <1>3
    DEF SpawnWorker, Fresh, LatestIsNew, PublishersOK, Control, Starting
  <2> QED BY <1>0, <1>3, <2>1, OtherNewest DEF SpawnWorker
<1>4. CASE PublishReady
  <2>1. ReadyOf(session).kind \notin TextKinds /\ "request" \in Publishers
    BY DEF ReadyOf, TextKinds, Publishers
  <2>2. ReadyOf(session) \in Events
    BY EventTypes
  <2> QED BY <1>4, <2>1, <2>2, PublishNoticeNewest DEF PublishReady, service
<1> QED BY <1>1, <1>2, <1>3, <1>4 DEF ServiceStep

\* Nor does a step of the worker.
LEMMA WorkerNewest ==
    ASSUME TypeInv, Control, Fresh, Newest, Tick \/ Fail \/ WorkerStep
    PROVE  Newest'
<1> USE DEF Runs, page
<1>1. ASSUME NEW kind \in TextKinds, PublishText(kind), texts < MaxTexts + session,
             request' = request
      PROVE  Newest'
  <2>1. Text(kind, session, texts + 1) \in Events
    BY <1>1, EventTypes
  <2>2. Text(kind, session, texts + 1).kind \in TextKinds
    BY <1>1 DEF Text
  <2> QED BY <1>1, <2>1, <2>2, PublishTextNewest DEF PublishText
<1>2. CASE Tick
  <2>1. texts < MaxTexts + session
    BY <1>2, FanoutAssumption DEF Tick, TypeInv, TypeOK, Counts, ServiceOK
  <2> QED BY <1>1, <1>2, <2>1 DEF Tick, TextKinds
<1>3. CASE Fail
  <2>1. ErrorOf(session) \in Events /\ ErrorOf(session).kind \notin TextKinds
    BY EventTypes DEF ErrorOf, TextKinds
  <2>2. "worker" \in Publishers /\ "worker" # "request"
    BY DEF Publishers
  <2> QED BY <1>3, <2>1, <2>2, PublishNoticeNewest DEF Fail
<1>4. CASE PublishFinal
  <2>1. texts < MaxTexts + session
    BY <1>4 DEF PublishFinal, TypeInv, Counts
  <2>2. CASE ticked
    BY <1>1, <1>4, <2>1, <2>2 DEF PublishFinal, TextKinds
  <2>3. CASE ~ticked
    BY <1>4, <2>3, OtherNewest DEF PublishFinal
  <2> QED BY <2>2, <2>3
<1>5. CASE NoticeStop \/ ShowFailure \/ Exit
  BY <1>5, OtherNewest DEF NoticeStop, ShowFailure, Exit
<1> QED BY <1>2, <1>3, <1>4, <1>5 DEF WorkerStep

\* Nor a command of the page: the stream it opens has not registered yet.
LEMMA CommandNewest ==
    ASSUME TypeInv, Fresh, Newest, CommandStep
    PROVE  Newest'
<1> USE DEF Handles, page, service
<1>0. ~Quiet("request") => request = "started"
  BY DEF Newest, Readying
<1>1. CASE PressStart \/ PressStop \/ Refused \/ Stopped \/ Declined
  BY <1>0, <1>1, OtherNewest
  DEF PressStart, PressStop, Refused, Stopped, Declined, ClosesLater
<1>2. CASE CloseStream
  <2>1. \A t \in Streams : reading'[t] = "on" => reading[t] = "on"
    BY <1>2 DEF CloseStream, Cancelled
  <2>2. subscribers \subseteq Streams
    BY DEF TypeInv, TypeOK, FanoutTypeOK, SubscriptionOK
  <2> QED BY <1>2, <2>1, <2>2, DropNewest DEF CloseStream
<1>3. CASE Started
  <2>1. opened + 1 \notin subscribers
    BY FanoutAssumption DEF Fresh, OpenedOnly, TypeInv, TypeOK, PageOK
  <2>2. \A t \in subscribers : reading'[t] = "on" => reading[t] = "on"
    BY <1>3, <2>1
    DEF Started, Cancelled, TypeInv, TypeOK, PageOK, FanoutTypeOK, SubscriptionOK
  <2> QED BY <1>3, <2>2, DropNewest DEF Started
<1> QED BY <1>1, <1>2, <1>3 DEF CommandStep

\* A stream that has subscribed has received the newest text or finds it in its
\* queue, whatever else was published, unless two publications to it met.  The
\* queues of the service hold 64 events.
THEOREM NewestIsReachable ==
    ASSUME QueueLimit >= 4 PROVE Spec => []NewestReachable
<1>1. TypeInv /\ Fresh /\ Newest => NewestReachable
  <2> SUFFICES ASSUME TypeInv, Fresh, Newest, NEW s \in subscribers,
                      replay[s] = "done", reading[s] = "on", Quiet("worker"), ~raced,
                      latest.kind \in TextKinds
               PROVE  \/ received[s] >= latest.number
                      \/ \E i \in DOMAIN queue[s] : queue[s][i] = latest
    BY DEF NewestReachable
  <2>1. Reaches(s)
    BY DEF Newest, Reachable
  <2>2. ~Coming(s)
    <3>1. latest # Null
      BY DEF Null, TextKinds
    <3> QED BY <3>1 DEF Coming, Fresh, PublishersOK, Publishers
  <2> QED BY <2>1, <2>2 DEF Reaches, WillReplay, Holds
<1>2. TypeInv /\ Control /\ Fresh /\ Newest /\ [Next]_vars => Newest'
  <2> SUFFICES ASSUME TypeInv, Control, Fresh, Newest, [Next]_vars PROVE Newest'
    OBVIOUS
  <2>1. CASE UNCHANGED vars
    BY <2>1, OtherNewest DEF vars, service, page
  <2>2. CASE \E p \in Publishers : Publication(p)
    BY <2>2, PublicationNewest
  <2>3. ASSUME NEW s \in Streams, StreamStep(s) PROVE Newest'
    <3>1. CASE BreakOff(s)
      <4>1. \A t \in Streams : reading'[t] = "on" => reading[t] = "on"
        BY <3>1 DEF BreakOff, TypeInv, TypeOK, PageOK
      <4> QED BY <3>1, <4>1, OtherNewest DEF BreakOff, service
    <3> QED BY <2>3, <3>1, SubscribeNewest, ReceiveNewest DEF StreamStep
  <2>4. CASE RunTask
    BY <2>4, OtherNewest DEF RunTask, service
  <2> QED
    BY <2>1, <2>2, <2>3, <2>4, ServiceNewest, WorkerNewest, CommandNewest
    DEF Next, ServiceStep, CommandStep
<1> QED
  BY <1>1, <1>2, InitTypes, InitControl, InitFresh, InitNewest, NextTypes, NextFresh,
     PTL DEF Spec
=============================================================================
