------------------------------ MODULE LivePage ------------------------------
(***************************************************************************)
(* The desktop application's live page (LiveViewModel.cs) and the service  *)
(* it drives over HTTP, joined by the event stream of EventFanout.         *)
(*                                                                         *)
(* Actors: the user, who waits for the answer to one command before giving *)
(* the next; the page, whose commands, callbacks of the event stream and   *)
(* half-second delay all run on one dispatcher; the request being served;  *)
(* the worker.  Of the service only what the page sees of it is kept: the  *)
(* module Service has the rest.                                            *)
(*                                                                         *)
(* A stream bears the number of the session it was opened for.             *)
(***************************************************************************)
EXTENDS EventFanout

CONSTANT MaxTasks  \* bound: callbacks waiting on the dispatcher

VARIABLES
    state,    \* _state of the service
    worker,   \* where its worker is
    signal,   \* stop_event is set
    session,  \* the sessions started
    texts,    \* the texts published
    ticked,   \* whether the session's worker has published one
    request,  \* where the request in flight is, or "none"
    view,     \* _currentState of the page
    opened,   \* the streams it has opened
    stream,   \* the stream of _eventCts, or 0
    reading,  \* ProcessEventsAsync of each stream
    received, \* the newest text each stream has received
    tasks,    \* the callbacks enqueued on the dispatcher
    shown,    \* the text on the page
    closing,  \* the streams opened when the stop that waits was answered, or 0
    cut       \* whether the newest stream was closed with something on its way in it

service == <<state, worker, signal, session, texts, ticked>>
page    == <<view, opened, stream, reading, received, tasks, shown, closing, cut>>
vars    == <<fanout, service, request, page>>

WorkerSteps == {"none", "run", "failing", "ending", "ended", "dead"}

RequestSteps == {"none", "start", "preflight", "spawn", "ready", "started",
                 "refused", "stop", "join", "stopped", "late", "declined"}

ServiceOK ==
    /\ state \in {"idle", "preflight", "running", "error"}
    /\ worker \in WorkerSteps
    /\ signal \in BOOLEAN /\ ticked \in BOOLEAN
    /\ session \in 0 .. MaxStreams /\ texts \in 0 .. MaxTexts + MaxStreams

PageOK ==
    /\ view \in {"idle", "running", "error"}
    /\ {opened, stream, closing} \subseteq 0 .. MaxStreams
    /\ reading \in [Streams -> {"off", "on", "closed"}]
    /\ received \in [Streams -> 0 .. MaxTexts + MaxStreams]
    /\ tasks \in Seq(Events)
    /\ shown \in Events
    /\ cut \in BOOLEAN

TypeOK == FanoutTypeOK /\ ServiceOK /\ PageOK /\ request \in RequestSteps

Init ==
    /\ FanoutInit
    /\ state = "idle" /\ worker = "none" /\ signal = FALSE
    /\ session = 0 /\ texts = 0 /\ ticked = FALSE
    /\ request = "none"
    /\ view = "idle" /\ opened = 0 /\ stream = 0 /\ closing = 0
    /\ reading = [s \in Streams |-> "off"]
    /\ received = [s \in Streams |-> 0]
    /\ tasks = <<>> /\ shown = Null /\ cut = FALSE

Alive == worker \notin {"none", "dead"}

(***************************************************************************)
(* The service: start, stop and the worker.                                *)
(***************************************************************************)
Handles(step, next) == request = step /\ request' = next

StartIsValid == state \in {"idle", "error"} /\ ~Alive
StopIsValid  == state \in {"running", "error"}

CheckStart ==
    /\ Handles("start", IF StartIsValid THEN "preflight" ELSE "refused")
    /\ state' = IF StartIsValid THEN "preflight" ELSE state
    /\ UNCHANGED <<fanout, worker, signal, session, texts, ticked, page>>

\* The checks before a session, or opening the microphone, may fail.
FailStart ==
    /\ request \in {"preflight", "spawn"}
    /\ request' = "refused"
    /\ state' = "error"
    /\ UNCHANGED <<fanout, worker, signal, session, texts, ticked, page>>

\* Mutant: the text of the last session stays.
KeepLatest ==
    /\ Handles("preflight", "spawn")
    /\ signal' = FALSE
    /\ UNCHANGED <<fanout, state, worker, session, texts, ticked, page>>

ResetSession ==
    /\ Handles("preflight", "spawn")
    /\ signal' = FALSE
    /\ latest' = Null
    /\ UNCHANGED <<queue, subscription, publication, state, worker, session,
                   texts, ticked, page>>

SpawnWorker ==
    /\ Handles("spawn", "ready")
    /\ state' = "running"
    /\ worker' = "run"
    /\ session' = session + 1
    /\ ticked' = FALSE
    /\ UNCHANGED <<fanout, signal, texts, page>>

PublishReady ==
    /\ Handles("ready", "started")
    /\ Publish("request", ReadyOf(session))
    /\ UNCHANGED <<service, page>>

CheckStop ==
    /\ Handles("stop", IF StopIsValid THEN "join" ELSE "declined")
    /\ signal' = (signal \/ StopIsValid)
    /\ UNCHANGED <<fanout, state, worker, session, texts, ticked, page>>

JoinWorker ==
    /\ Handles("join", "stopped")
    /\ ~Alive
    /\ state' = "idle"
    /\ latest' = Null
    /\ UNCHANGED <<queue, subscription, publication, worker, signal, session,
                   texts, ticked, page>>

JoinTimesOut ==
    /\ Handles("join", "late")
    /\ Alive
    /\ state' = "error"
    /\ UNCHANGED <<fanout, worker, signal, session, texts, ticked, page>>

Runs(step, next) == worker = step /\ worker' = next /\ Quiet("worker")

PublishText(kind) ==
    /\ texts' = texts + 1
    /\ Publish("worker", Text(kind, session, texts + 1))

Tick ==
    /\ Runs("run", "run")
    /\ ~signal
    /\ texts < MaxTexts
    /\ PublishText("patch")
    /\ ticked' = TRUE
    /\ UNCHANGED <<state, signal, session, request, page>>

NoticeStop ==
    /\ Runs("run", "ending")
    /\ signal
    /\ UNCHANGED <<fanout, state, signal, session, texts, ticked, request, page>>

\* The capture or a transcription raises.
Fail ==
    /\ Runs("run", "failing")
    /\ Publish("worker", ErrorOf(session))
    /\ UNCHANGED <<state, signal, session, texts, ticked, request, page>>

ShowFailure ==
    /\ Runs("failing", "ending")
    /\ state' = "error"
    /\ UNCHANGED <<fanout, signal, session, texts, ticked, request, page>>

PublishFinal ==
    /\ Runs("ending", "ended")
    /\ IF ticked THEN PublishText("final") ELSE UNCHANGED <<fanout, texts>>
    /\ UNCHANGED <<state, signal, session, ticked, request, page>>

Exit ==
    /\ Runs("ended", "dead")
    /\ state' = IF state = "running" THEN "idle" ELSE state
    /\ UNCHANGED <<fanout, signal, session, texts, ticked, request, page>>

WorkerStep == NoticeStop \/ ShowFailure \/ PublishFinal \/ Exit

(***************************************************************************)
(* The page: its two commands.                                             *)
(***************************************************************************)
CanStart == view \in {"idle", "error"}

\* Mutant: an error leaves nothing to stop.
StopsOnlyRunning == view = "running"

CanStop == view \in {"running", "error"}

PressStart ==
    /\ Handles("none", "start")
    /\ CanStart
    /\ opened < MaxStreams
    /\ UNCHANGED <<fanout, service, page>>

PressStop ==
    /\ Handles("none", "stop")
    /\ CanStop
    /\ closing = 0
    /\ UNCHANGED <<fanout, service, page>>

Larger(a, b) == IF a > b THEN a ELSE b

\* StopEventStream, as part of a step that leaves another stream or none.
Cancelled == [s \in Streams |-> IF s = stream THEN "closed" ELSE reading[s]]

Started ==
    /\ Handles("started", "none")
    /\ Quiet("request")
    /\ view' = "running"
    /\ opened' = opened + 1
    /\ stream' = opened + 1
    /\ reading' = [Cancelled EXCEPT ![opened + 1] = "on"]
    /\ Drop(stream)
    /\ cut' = FALSE
    /\ UNCHANGED <<service, received, tasks, shown, closing>>

\* A start that is refused shows an error message, which is not kept here.
Refused ==
    /\ Handles("refused", "none")
    /\ UNCHANGED <<fanout, service, page>>

\* Whatever the answer to a stop, the page waits half a second and then closes
\* its stream.
ClosesLater ==
    /\ closing' = opened
    /\ UNCHANGED <<fanout, service, opened, stream, reading, received, tasks,
                   shown, cut>>

Stopped ==
    /\ request \in {"stopped", "late"}
    /\ request' = "none"
    /\ view' = IF request = "stopped" THEN "idle" ELSE "error"
    /\ ClosesLater

\* So it does after a stop that is refused.
Declined ==
    /\ Handles("declined", "none")
    /\ ClosesLater
    /\ UNCHANGED view

\* What a stream has yet to bring, or a worker to put there.
OnItsWay(s) == queue[s] # <<>> \/ ~Quiet("worker")

\* The half second is over, whatever has come through by then.
CloseStream ==
    /\ closing # 0
    /\ closing' = 0
    /\ stream' = 0
    /\ reading' = Cancelled
    /\ Drop(stream)
    /\ cut' = (cut \/ (stream # 0 /\ OnItsWay(stream)))
    /\ UNCHANGED <<service, request, view, opened, received, tasks, shown>>

(***************************************************************************)
(* The page: its event stream.  What it receives it hands to the           *)
(* dispatcher; what broke the stream, too.                                 *)
(***************************************************************************)
Subscribe(s) ==
    /\ reading[s] = "on"
    /\ Register(s)
    /\ UNCHANGED <<service, request, page>>

GoOnSubscribing(s) ==
    /\ SubscribeStep(s)
    /\ UNCHANGED <<service, request, page>>

\* A payload that is none cannot be sent: the stream breaks.
Receive(s) ==
    /\ reading[s] = "on"
    /\ Len(tasks) < MaxTasks
    /\ CanTake(s)
    /\ LET event == Head(queue[s])
       IN  /\ tasks' = Append(tasks, event)
           /\ received' = [received EXCEPT ![s] = Larger(@, event.number)]
           /\ IF event = Null
              THEN Drop(s) /\ reading' = [reading EXCEPT ![s] = "closed"]
              ELSE Take(s) /\ UNCHANGED reading
    /\ UNCHANGED <<service, request, view, opened, stream, shown, closing, cut>>

BreakOff(s) ==
    /\ reading[s] = "on"
    /\ replay[s] = "refused"
    /\ Len(tasks) < MaxTasks
    /\ tasks' = Append(tasks, Null)
    /\ reading' = [reading EXCEPT ![s] = "closed"]
    /\ UNCHANGED <<fanout, service, request, view, opened, stream, received,
                   shown, closing, cut>>

\* Mutant: a text counts while the page is running alone.
ShowTextWhileRunning ==
    /\ tasks # <<>>
    /\ tasks' = Tail(tasks)
    /\ view' = IF Head(tasks).kind \in {"error", "none"} THEN "error" ELSE view
    /\ shown' = IF Head(tasks).kind \in TextKinds /\ view = "running"
                THEN Head(tasks) ELSE shown
    /\ UNCHANGED <<fanout, service, request, opened, stream, reading, received,
                   closing, cut>>

\* Mutant: an error counts while the page is running alone.
ShowErrorWhileRunning ==
    /\ tasks # <<>>
    /\ tasks' = Tail(tasks)
    /\ view' = IF Head(tasks).kind \in {"error", "none"} /\ view = "running"
               THEN "error" ELSE view
    /\ shown' = IF Head(tasks).kind \in TextKinds THEN Head(tasks) ELSE shown
    /\ UNCHANGED <<fanout, service, request, opened, stream, reading, received,
                   closing, cut>>

RunTask ==
    /\ tasks # <<>>
    /\ tasks' = Tail(tasks)
    /\ view' = IF Head(tasks).kind \in {"error", "none"} THEN "error" ELSE view
    /\ shown' = IF Head(tasks).kind \in TextKinds THEN Head(tasks) ELSE shown
    /\ UNCHANGED <<fanout, service, request, opened, stream, reading, received,
                   closing, cut>>

StreamStep(s) ==
    Subscribe(s) \/ GoOnSubscribing(s) \/ Receive(s) \/ BreakOff(s)

Publication(p) == PublishStep(p) /\ UNCHANGED <<service, request, page>>

Next ==
    \/ PressStart \/ CheckStart \/ FailStart \/ ResetSession \/ SpawnWorker
    \/ PublishReady \/ Started \/ Refused
    \/ PressStop \/ CheckStop \/ JoinWorker \/ JoinTimesOut \/ Stopped \/ Declined
    \/ CloseStream
    \/ Tick \/ Fail \/ WorkerStep
    \/ \E p \in Publishers : Publication(p)
    \/ \E s \in Streams : StreamStep(s)
    \/ RunTask

\* The threads go on with what they have begun; the user, the clock and the
\* failures owe nothing.
Fairness ==
    /\ \A p \in Publishers : WF_vars(Publication(p))
    /\ \A s \in Streams :
        WF_vars(Subscribe(s) \/ GoOnSubscribing(s)) /\ WF_vars(Receive(s))
    /\ WF_vars(RunTask)

Spec == Init /\ [][Next]_vars /\ Fairness

(***************************************************************************)
(* Properties.                                                             *)
(***************************************************************************)

\* Whatever the page was told, missed or was told late, one of its two buttons
\* is enabled and the service accepts it; while a worker is alive, that is Stop
\* (UpdateState 285-292 against the guards of start and stop).
Controllable ==
    request = "none" =>
        /\ (CanStart /\ StartIsValid) \/ (CanStop /\ StopIsValid)
        /\ Alive => CanStop /\ StopIsValid

\* A stream that subscribed during a session has, or will find in its queue, the
\* newest text, be it older or newer than the stream: neither between the
\* registration and the replay nor by making room is it lost, unless another
\* event was published at the same time (subscribe 520-526, _publish 532-551).
NewestReachable ==
    \A s \in subscribers :
        replay[s] = "done" /\ reading[s] = "on" /\ Quiet("worker") /\ ~raced
        /\ latest.kind \in TextKinds
        => received[s] >= latest.number
           \/ \E i \in DOMAIN queue[s] : queue[s][i] = latest

\* The stream opened for a session never carries a text of an earlier one: the
\* latest text is gone, and nothing that could bring one back is alive, before
\* the start is answered (start 326, subscribe 520-526, StartEventStream 188-193).
FreshStream ==
    \A s \in Streams : \A i \in DOMAIN queue[s] :
        queue[s][i].kind \in TextKinds => queue[s][i].session >= s

\* The premise that half a second was enough: the stop did not close the stream
\* while an event was on its way in it.  The code waits and does not look
\* (StopAsync 143-144).
InTime == ~cut

\* What else may keep an event from the page: the stream broke and the page said
\* so, the user has started again, or is about to lose the stream of a new session
\* to the stop of the last (StopAsync 143), or two events were published at once.
Excused(s) ==
    \/ stream = s /\ reading[s] = "closed"
    \/ opened # s
    \/ closing # 0 /\ closing # opened
    \/ raced

Listening(s) == stream = s /\ reading[s] = "on" /\ replay[s] = "done"

\* A session's final text, published while the page listens, comes to be shown,
\* also when the page has been idle since the answer to the stop: provided the half
\* second the page then waits is enough (ProcessEventsAsync 213-263, StopAsync
\* 119-147).
FinalIsShown ==
    \A s \in Streams :
        (Listening(s) /\ received[s] < latest.number
            /\ latest.kind = "final" /\ latest.session = s)
            ~> ((shown.kind = "final" /\ shown.session = s)
                    \/ Excused(s) \/ ~InTime)

\* A worker's failure, published while the page listens, comes to be shown: again
\* provided that a stop in the meantime waits long enough.
ErrorIsShown ==
    \A s \in Streams :
        (Listening(s) /\ sending["worker"] = ErrorOf(s)
            /\ publishing["worker"] = "snapshot")
            ~> (view = "error" \/ Excused(s) \/ ~InTime)
=============================================================================
