------------------------------ MODULE Service ------------------------------
(***************************************************************************)
(* The lifecycle of a live transcription: RealtimeTranscriptionService     *)
(* (backend/src/groq_whisper_service/service.py) as api.py drives it.      *)
(*                                                                         *)
(* Actors: the HTTP requests (Callers), each running start, stop, pause or *)
(* resume, and the worker threads running _run_loop.  A field the code     *)
(* reads or writes outside state_lock is touched in a step of its own.     *)
(*                                                                         *)
(* Data: what one accepted start or resume makes (aggregator, capture,     *)
(* session row, and a start's worker thread) is named by one number, its   *)
(* epoch.  A text is the set of captures whose audio it transcribes.       *)
(***************************************************************************)
EXTENDS Naturals

CONSTANTS
    Callers,    \* requests that can be in flight at once
    Requests,   \* the requests clients send beside POST /start; "delete" is
                \* DELETE /sessions/{id}
    MaxEpoch,   \* bound: accepted starts and resumes
    MaxTick,    \* bound: windows a worker transcribes between resets
    MaxConfig,  \* bound: accepted settings updates
    Faults      \* the kinds of failure that may happen

FaultKinds == {"preflight", "client", "capture", "snapshot", "transcribe",
               "store", "slow"}

ASSUME ServiceAssumption ==
    /\ MaxEpoch \in Nat /\ MaxTick \in Nat /\ MaxConfig \in Nat
    /\ Requests \subseteq {"stop", "pause", "resume", "delete"}
    /\ Faults \subseteq FaultKinds

None   == 0
Epochs == 1 .. MaxEpoch

VARIABLES
    state,          \* _state
    running,        \* running
    lastError,      \* last_error is not None
    latestPatch,    \* latest_patch_payload: the epoch whose text it carries
    stopEvent,      \* stop_event is set
    paused,         \* _paused is set
    captureStopped, \* _capture_stopped is set
    started,        \* started_at_monotonic is not None
    workerThread,   \* worker_thread
    client,         \* client is not None
    capture,        \* capture
    mic,            \* the audio device of each capture object
    aggregator,     \* the aggregator: its epoch, settings, last window and text
    config,         \* config: the number of accepted updates
    cur,            \* _current_session_id
    rows,           \* the sessions table
    epoch,          \* the last epoch handed out
    pc, ref,        \* per request: next statement, and the object it works on
    wpc, tick,      \* per worker: next statement, tick_index
    held, heard     \* per worker: capture it is stopping, or has transcribed

lock    == <<state, running, lastError>>
events  == <<stopEvent, paused, captureStopped>>
audio   == <<capture, mic>>
session == <<cur, rows>>
worker  == <<wpc, tick, held, heard>>
vars == <<lock, latestPatch, events, started, workerThread, client, audio,
          aggregator, config, session, epoch, pc, ref, worker>>

ServiceState == {"idle", "preflight", "running", "paused", "error"}
StartSteps   == {"preflight", "init", "make", "open", "rollback",
                 "running", "session", "thread", "spawn"}
StopSteps    == {"unpause", "signal", "join", "release", "forget", "finalize",
                 "clear", "done", "abandon", "late_close", "late_finalize",
                 "late_clear", "late_done"}
ResumeSteps  == {"wait", "ack", "res_finalize", "res_clear", "res_make",
                 "res_open", "res_session", "res_running"}
DeleteSteps  == {"check", "remove"}
WorkerSteps  == {"none", "new", "entry", "top", "pausing", "parking", "poll",
                 "request", "awaiting", "raised", "failing", "final",
                 "cleanup", "closing", "exit", "dead"}

\* is_alive of a worker thread (None is no thread).
Alive(w)    == w # None /\ wpc[w] \notin {"none", "new", "dead"}
Fault(kind) == kind \in Faults

\* Faulty variant: the session goes on with the aggregator it finds.
ReusedAggregator(e) == aggregator

NewAggregator(e) == [epoch |-> e, config |-> config, last |-> 0, text |-> {}]

\* The type invariant, part by part.
ControlOK    == /\ state \in ServiceState
                /\ running \in BOOLEAN /\ lastError \in BOOLEAN
EventsOK     == /\ stopEvent \in BOOLEAN /\ paused \in BOOLEAN
                /\ captureStopped \in BOOLEAN
                /\ started \in BOOLEAN /\ client \in BOOLEAN
NamesOK      == /\ {epoch, latestPatch, workerThread, capture, cur}
                     \subseteq 0 .. MaxEpoch
                /\ config \in 0 .. MaxConfig
MicOK        == mic \in [Epochs -> {"none", "made", "open", "closed"}]
AggregatorOK == aggregator \in [epoch : 0 .. MaxEpoch, config : 0 .. MaxConfig,
                                last : 0 .. MaxTick, text : SUBSET Epochs]
RowsOK       == rows \in [Epochs -> [status : {"absent", "open", "ended", "deleted"},
                                     text : SUBSET Epochs]]
RequestsOK   == /\ pc \in [Callers -> {"idle"} \cup Requests \cup StartSteps
                                         \cup StopSteps \cup ResumeSteps
                                         \cup DeleteSteps]
                /\ ref \in [Callers -> 0 .. MaxEpoch]
WorkersOK    == /\ wpc \in [Epochs -> WorkerSteps]
                /\ tick \in [Epochs -> 1 .. MaxTick + 1]
                /\ held \in [Epochs -> 0 .. MaxEpoch]
                /\ heard \in [Epochs -> 0 .. MaxEpoch]

TypeOK == /\ ControlOK /\ EventsOK /\ NamesOK /\ MicOK /\ AggregatorOK
          /\ RowsOK /\ RequestsOK /\ WorkersOK

Init ==
    /\ state = "idle" /\ running = FALSE /\ lastError = FALSE
    /\ latestPatch = None
    /\ stopEvent = FALSE /\ paused = FALSE /\ captureStopped = FALSE
    /\ started = FALSE /\ workerThread = None /\ client = FALSE
    /\ capture = None /\ mic = [e \in Epochs |-> "none"]
    /\ config = 0
    /\ aggregator = [epoch |-> None, config |-> 0, last |-> 0, text |-> {}]
    /\ cur = None
    /\ rows = [e \in Epochs |-> [status |-> "absent", text |-> {}]]
    /\ epoch = 0
    /\ pc = [c \in Callers |-> "idle"] /\ ref = [c \in Callers |-> None]
    /\ wpc = [e \in Epochs |-> "none"] /\ tick = [e \in Epochs |-> 1]
    /\ held = [e \in Epochs |-> None] /\ heard = [e \in Epochs |-> None]

(***************************************************************************)
(* Requests reach the service.  start and the settings handlers are        *)
(* coroutines: they run on the event loop, which dispatches no request     *)
(* before they return.  stop, pause and resume run in pool threads.        *)
(***************************************************************************)
LoopFree == \A c \in Callers : pc[c] \notin StartSteps

Goto(c, step) == pc' = [pc EXCEPT ![c] = step]
Return(c)     == Goto(c, "idle") /\ UNCHANGED ref

\* Take the next epoch for what this call is about to make.
NewEpoch(c) == /\ epoch < MaxEpoch
               /\ epoch' = epoch + 1
               /\ ref' = [ref EXCEPT ![c] = epoch + 1]

Dispatch(c) ==
    /\ pc[c] = "idle" /\ LoopFree
    /\ \E op \in Requests \ {"delete"} : Goto(c, op)
    /\ UNCHANGED <<lock, latestPatch, events, started, workerThread, client,
                   audio, aggregator, config, session, epoch, ref, worker>>

\* A client knows a session's id from the history, that is once it has a row.
DispatchDelete(c) ==
    /\ "delete" \in Requests
    /\ pc[c] = "idle" /\ LoopFree
    /\ \E s \in Epochs :
        /\ rows[s].status \in {"open", "ended"}
        /\ ref' = [ref EXCEPT ![c] = s]
    /\ Goto(c, "check")
    /\ UNCHANGED <<lock, latestPatch, events, started, workerThread, client,
                   audio, aggregator, config, session, epoch, worker>>

MayConfigure == state \in {"idle", "error"}

\* PUT /settings, or the settings in the body of POST /start.
UpdateConfig ==
    /\ LoopFree
    /\ MayConfigure
    /\ config < MaxConfig
    /\ config' = config + 1
    /\ UNCHANGED <<lock, latestPatch, events, started, workerThread, client,
                   audio, aggregator, session, epoch, pc, ref, worker>>

(***************************************************************************)
(* Steps start and resume share: sessions and capture objects.             *)
(***************************************************************************)
\* A write to the row of the current session; the store may fail, and the
\* callers swallow that.  An UPDATE finds nothing of a row that was deleted.
Written(row) ==
    IF cur # None /\ rows[cur].status # "deleted"
    THEN [rows EXCEPT ![cur] = row] ELSE rows

WriteRow(row) ==
    /\ \/ rows' = Written(row)
       \/ Fault("store") /\ rows' = rows
    /\ UNCHANGED cur

CreateSession(c, here, next) ==
    /\ pc[c] = here
    /\ \/ /\ rows' = [rows EXCEPT ![ref[c]].status = "open"]
          /\ cur' = ref[c]
       \/ Fault("store") /\ cur' = None /\ UNCHANGED rows
    /\ Goto(c, next)
    /\ UNCHANGED <<lock, latestPatch, events, started, workerThread, client,
                   audio, aggregator, config, epoch, ref, worker>>

\* _finalize_dangling_session ends the current session's row if it is open ...
\* Faulty variant: a resume does not end the session it leaves.
DanglingUnlessPaused ==
    cur # None /\ rows[cur].status = "open" /\ state # "paused"

Dangling == cur # None /\ rows[cur].status = "open"

FinalizeDangling(c, here, next) ==
    /\ pc[c] = here
    /\ IF Dangling
       THEN WriteRow([rows[cur] EXCEPT !.status = "ended"])
       ELSE UNCHANGED session
    /\ Goto(c, next)
    /\ UNCHANGED <<lock, latestPatch, events, started, workerThread, client,
                   audio, aggregator, config, epoch, ref, worker>>

\* ... and then forgets the session.
ClearSession(c, here, next) ==
    /\ pc[c] = here
    /\ cur' = None
    /\ Goto(c, next)
    /\ UNCHANGED <<lock, latestPatch, events, started, workerThread, client,
                   audio, aggregator, config, rows, epoch, ref, worker>>

MakeCapture(c) ==
    /\ capture' = ref[c]
    /\ mic' = [mic EXCEPT ![ref[c]] = "made"]

\* capture.start() opens the devices of an object nobody has started or
\* stopped yet.  When it raises, a first device may have been opened already.
Openable == capture # None /\ mic[capture] = "made"

OpenCapture ==
    /\ Openable
    /\ mic' = [mic EXCEPT ![capture] = "open"]
    /\ UNCHANGED capture

OpenCaptureRaises ==
    \/ Fault("capture") /\ OpenCapture
    \/ ~Openable /\ UNCHANGED audio

Close(e) == mic' = IF e = None THEN mic ELSE [mic EXCEPT ![e] = "closed"]

(***************************************************************************)
(* start                                                                   *)
(***************************************************************************)
\* Faulty variant: a worker that outlived its stop is not looked for.
MayStartUnchecked == state \in {"idle", "error"}

MayStart == state \in {"idle", "error"} /\ ~Alive(workerThread)

StartBegin(c) ==
    /\ pc[c] = "idle" /\ LoopFree
    /\ MayStart
    /\ NewEpoch(c)
    /\ state' = "preflight"
    /\ captureStopped' = FALSE
    /\ Goto(c, "preflight")
    /\ UNCHANGED <<running, lastError, latestPatch, stopEvent, paused, started,
                   workerThread, client, audio, aggregator, config, session,
                   worker>>

StartPreflight(c) ==
    /\ pc[c] = "preflight"
    /\ \/ Goto(c, "init") /\ UNCHANGED lock
       \/ /\ Fault("preflight")
          /\ state' = "error" /\ lastError' = TRUE
          /\ Goto(c, "idle")
          /\ UNCHANGED running
    /\ UNCHANGED <<latestPatch, events, started, workerThread, client, audio,
                   aggregator, config, session, epoch, ref, worker>>

StartInit(c) ==
    /\ pc[c] = "init"
    /\ stopEvent' = FALSE /\ paused' = FALSE
    /\ lastError' = FALSE /\ latestPatch' = None
    /\ aggregator' = NewAggregator(ref[c])
    /\ started' = TRUE
    /\ \/ client' = TRUE /\ Goto(c, "make")
       \/ Fault("client") /\ Goto(c, "rollback") /\ UNCHANGED client
    /\ UNCHANGED <<state, running, captureStopped, workerThread, audio, config,
                   session, epoch, ref, worker>>

StartMake(c) ==
    /\ pc[c] = "make"
    /\ \/ MakeCapture(c) /\ Goto(c, "open")
       \/ Fault("capture") /\ Goto(c, "rollback") /\ UNCHANGED audio
    /\ UNCHANGED <<lock, latestPatch, events, started, workerThread, client,
                   aggregator, config, session, epoch, ref, worker>>

StartOpen(c) ==
    /\ pc[c] = "open"
    /\ \/ OpenCapture /\ Goto(c, "running")
       \/ OpenCaptureRaises /\ Goto(c, "rollback")
    /\ UNCHANGED <<lock, latestPatch, events, started, workerThread, client,
                   aggregator, config, session, epoch, ref, worker>>

\* Faulty variant: a capture that failed to start keeps its devices.
StartRollbackUnstopped(c) ==
    /\ pc[c] = "rollback"
    /\ capture' = None /\ UNCHANGED mic
    /\ client' = FALSE
    /\ state' = "error" /\ lastError' = TRUE
    /\ Return(c)
    /\ UNCHANGED <<running, latestPatch, events, started, workerThread,
                   aggregator, config, session, epoch, worker>>

StartRollback(c) ==
    /\ pc[c] = "rollback"
    /\ Close(capture) /\ capture' = None
    /\ client' = FALSE
    /\ state' = "error" /\ lastError' = TRUE
    /\ Return(c)
    /\ UNCHANGED <<running, latestPatch, events, started, workerThread,
                   aggregator, config, session, epoch, worker>>

StartRunning(c) ==
    /\ pc[c] = "running"
    /\ state' = "running" /\ running' = TRUE
    /\ Goto(c, "session")
    /\ UNCHANGED <<lastError, latestPatch, events, started, workerThread,
                   client, audio, aggregator, config, session, epoch, ref,
                   worker>>

StartThread(c) ==
    /\ pc[c] = "thread"
    /\ workerThread' = ref[c]
    /\ wpc' = [wpc EXCEPT ![ref[c]] = "new"]
    /\ Goto(c, "spawn")
    /\ UNCHANGED <<lock, latestPatch, events, started, client, audio,
                   aggregator, config, session, epoch, ref, tick, held, heard>>

\* self.worker_thread.start() raises if a stop has reset the field.
StartSpawn(c) ==
    /\ pc[c] = "spawn"
    /\ wpc' = IF workerThread # None /\ wpc[workerThread] = "new"
              THEN [wpc EXCEPT ![workerThread] = "entry"] ELSE wpc
    /\ Return(c)
    /\ UNCHANGED <<lock, latestPatch, events, started, workerThread, client,
                   audio, aggregator, config, session, epoch, tick, held,
                   heard>>

(***************************************************************************)
(* stop                                                                    *)
(***************************************************************************)
StopBegin(c) ==
    /\ pc[c] = "stop"
    /\ Goto(c, IF state \in {"running", "paused", "error"}
               THEN "unpause" ELSE "idle")
    /\ UNCHANGED <<lock, latestPatch, events, started, workerThread, client,
                   audio, aggregator, config, session, epoch, ref, worker>>

StopUnpause(c) ==
    /\ pc[c] = "unpause"
    /\ paused' = FALSE
    /\ Goto(c, "signal")
    /\ UNCHANGED <<lock, latestPatch, stopEvent, captureStopped, started,
                   workerThread, client, audio, aggregator, config, session,
                   epoch, ref, worker>>

StopSignal(c) ==
    /\ pc[c] = "signal"
    /\ stopEvent' = TRUE
    /\ ref' = [ref EXCEPT ![c] = workerThread]
    /\ Goto(c, IF Alive(workerThread) THEN "join"
               ELSE IF capture # None THEN "release" ELSE "forget")
    /\ UNCHANGED <<lock, latestPatch, paused, captureStopped, started,
                   workerThread, client, audio, aggregator, config, session,
                   epoch, worker>>

\* join(timeout=15.0) returns when the worker has ended, or after 15 s.
StopJoin(c) ==
    /\ pc[c] = "join"
    /\ \/ ~Alive(ref[c]) /\ Goto(c, "forget")
       \/ Alive(ref[c]) /\ Fault("slow") /\ Goto(c, "abandon")
    /\ UNCHANGED <<lock, latestPatch, events, started, workerThread, client,
                   audio, aggregator, config, session, epoch, ref, worker>>

\* The timeout path: _safe_stop_capture takes the capture and stops it.
StopAbandon(c) ==
    /\ pc[c] = "abandon"
    /\ ref' = [ref EXCEPT ![c] = capture]
    /\ capture' = None
    /\ Goto(c, "late_close")
    /\ UNCHANGED <<lock, latestPatch, events, started, workerThread, client,
                   mic, aggregator, config, session, epoch, worker>>

StopLateClose(c) ==
    /\ pc[c] = "late_close"
    /\ Close(ref[c])
    /\ client' = FALSE
    /\ Goto(c, "late_finalize")
    /\ UNCHANGED <<lock, latestPatch, events, started, workerThread, capture,
                   aggregator, config, session, epoch, ref, worker>>

StopLateDone(c) ==
    /\ pc[c] = "late_done"
    /\ running' = FALSE /\ state' = "error" /\ lastError' = TRUE
    /\ Return(c)
    /\ UNCHANGED <<latestPatch, events, started, workerThread, client, audio,
                   aggregator, config, session, epoch, worker>>

\* No worker is left: stop the capture here.  Another stop may have taken it,
\* and then self.capture.stop() raises out of the call.
StopRelease(c) ==
    /\ pc[c] = "release"
    /\ Close(capture) /\ capture' = None
    /\ Goto(c, IF capture # None THEN "forget" ELSE "idle")
    /\ UNCHANGED <<lock, latestPatch, events, started, workerThread, client,
                   aggregator, config, session, epoch, ref, worker>>

StopForget(c) ==
    /\ pc[c] = "forget"
    /\ workerThread' = None /\ client' = FALSE
    /\ Goto(c, "finalize")
    /\ UNCHANGED <<lock, latestPatch, events, started, audio, aggregator,
                   config, session, epoch, ref, worker>>

StopDone(c) ==
    /\ pc[c] = "done"
    /\ running' = FALSE /\ state' = "idle" /\ lastError' = FALSE
    /\ started' = FALSE /\ latestPatch' = None
    /\ Return(c)
    /\ UNCHANGED <<events, workerThread, client, audio, aggregator, config,
                   session, epoch, worker>>

(***************************************************************************)
(* pause and resume                                                        *)
(***************************************************************************)
Pause(c) ==
    /\ pc[c] = "pause"
    /\ \/ /\ state = "running"
          /\ captureStopped' = FALSE /\ paused' = TRUE
          /\ state' = "paused"
          /\ UNCHANGED stopEvent
       \/ state # "running" /\ UNCHANGED <<state, events>>
    /\ Return(c)
    /\ UNCHANGED <<running, lastError, latestPatch, started, workerThread,
                   client, audio, aggregator, config, session, epoch, worker>>

ResumeBegin(c) ==
    /\ pc[c] = "resume"
    /\ \/ state = "paused" /\ NewEpoch(c) /\ Goto(c, "wait")
       \/ state # "paused" /\ Return(c) /\ UNCHANGED epoch
       \/ epoch = MaxEpoch /\ Return(c) /\ UNCHANGED epoch  \* the bound
    /\ UNCHANGED <<lock, latestPatch, events, started, workerThread, client,
                   audio, aggregator, config, session, worker>>

\* Faulty variant: resume does not wait for the worker.
ParkedUnchecked == TRUE

\* _capture_stopped.wait(timeout=5.0)
Parked == captureStopped

ResumeWait(c) ==
    /\ pc[c] = "wait"
    /\ \/ Parked /\ Goto(c, "ack")
       \/ ~Parked /\ Fault("slow") /\ Goto(c, "idle")
    /\ UNCHANGED <<lock, latestPatch, events, started, workerThread, client,
                   audio, aggregator, config, session, epoch, ref, worker>>

ResumeAck(c) ==
    /\ pc[c] = "ack"
    /\ captureStopped' = FALSE
    /\ Goto(c, "res_finalize")
    /\ UNCHANGED <<lock, latestPatch, stopEvent, paused, started, workerThread,
                   client, audio, aggregator, config, session, epoch, ref,
                   worker>>

ResumeFails(c) == state' = "error" /\ lastError' = TRUE /\ Goto(c, "idle")

ResumeMake(c) ==
    /\ pc[c] = "res_make"
    /\ \/ MakeCapture(c) /\ Goto(c, "res_open")
          /\ UNCHANGED <<state, lastError>>
       \/ Fault("capture") /\ ResumeFails(c) /\ UNCHANGED audio
    /\ UNCHANGED <<running, latestPatch, events, started, workerThread, client,
                   aggregator, config, session, epoch, ref, worker>>

ResumeOpen(c) ==
    /\ pc[c] = "res_open"
    /\ \/ /\ OpenCapture
          /\ started' = TRUE
          /\ aggregator' = NewAggregator(ref[c])
          /\ Goto(c, "res_session")
          /\ UNCHANGED <<state, lastError>>
       \/ /\ OpenCaptureRaises
          /\ ResumeFails(c)
          /\ UNCHANGED <<started, aggregator>>
    /\ UNCHANGED <<running, latestPatch, events, workerThread, client, config,
                   session, epoch, ref, worker>>

ResumeRunning(c) ==
    /\ pc[c] = "res_running"
    /\ paused' = FALSE /\ state' = "running"
    /\ Return(c)
    /\ UNCHANGED <<running, lastError, latestPatch, stopEvent, captureStopped,
                   started, workerThread, client, audio, aggregator, config,
                   session, epoch, worker>>

(***************************************************************************)
(* DELETE /sessions/{id}: the session must not be the active one; then its *)
(* row goes.                                                               *)
(***************************************************************************)
\* Faulty variant: a paused session is taken for an ended one.
InactiveWhenPaused(c) == ~(cur = ref[c] /\ state = "running")

MayDelete(c) == ~(cur = ref[c] /\ state \in {"running", "paused"})

DeleteCheck(c) ==
    /\ pc[c] = "check"
    /\ Goto(c, IF MayDelete(c) THEN "remove" ELSE "idle")
    /\ UNCHANGED <<lock, latestPatch, events, started, workerThread, client,
                   audio, aggregator, config, session, epoch, ref, worker>>

DeleteRow(c) ==
    /\ pc[c] = "remove"
    /\ rows' = [rows EXCEPT ![ref[c]] = [status |-> "deleted", text |-> {}]]
    /\ Return(c)
    /\ UNCHANGED <<lock, latestPatch, events, started, workerThread, client,
                   audio, aggregator, config, cur, epoch, worker>>

(***************************************************************************)
(* The worker thread: _run_loop                                            *)
(***************************************************************************)
WGoto(w, step) == wpc' = [wpc EXCEPT ![w] = step]

WorkerEntry(w) ==
    /\ wpc[w] = "entry"
    /\ WGoto(w, IF capture = None \/ ~started THEN "raised" ELSE "top")
    /\ UNCHANGED <<lock, latestPatch, events, started, workerThread, client,
                   audio, aggregator, config, session, epoch, pc, ref, tick,
                   held, heard>>

\* Faulty variant: the loop looks at stop_event only after its first window.
StopSeenLate(w) == stopEvent /\ tick[w] > 1

StopSeen(w) == stopEvent

\* The top of the loop.  Until the tick is due the loop comes back here.
WorkerTop(w) ==
    /\ wpc[w] = "top"
    /\ \/ StopSeen(w) /\ WGoto(w, "final")
       \/ ~stopEvent /\ paused /\ WGoto(w, "pausing")
       \/ ~stopEvent /\ ~paused /\ ~started /\ WGoto(w, "raised")
       \/ ~stopEvent /\ ~paused /\ started /\ tick[w] <= MaxTick
            /\ WGoto(w, "request")
    /\ UNCHANGED <<lock, latestPatch, events, started, workerThread, client,
                   audio, aggregator, config, session, epoch, pc, ref, tick,
                   held, heard>>

\* _safe_stop_capture: take the capture, then stop it.
TakeCapture(w, here, next) ==
    /\ wpc[w] = here
    /\ held' = [held EXCEPT ![w] = capture]
    /\ capture' = None
    /\ WGoto(w, next)
    /\ UNCHANGED <<lock, latestPatch, events, started, workerThread, client,
                   mic, aggregator, config, session, epoch, pc, ref, tick,
                   heard>>

\* Faulty variant: the worker acknowledges the pause and stops nothing.
WorkerParkedUnstopped(w) ==
    /\ wpc[w] = "parking"
    /\ held' = [held EXCEPT ![w] = None]
    /\ captureStopped' = TRUE
    /\ WGoto(w, "poll")
    /\ UNCHANGED <<lock, latestPatch, stopEvent, paused, started, workerThread,
                   client, audio, aggregator, config, session, epoch, pc,
                   ref, tick, heard>>

WorkerParked(w) ==
    /\ wpc[w] = "parking"
    /\ Close(held[w]) /\ held' = [held EXCEPT ![w] = None]
    /\ captureStopped' = TRUE
    /\ WGoto(w, "poll")
    /\ UNCHANGED <<lock, latestPatch, stopEvent, paused, started, workerThread,
                   client, capture, aggregator, config, session, epoch, pc,
                   ref, tick, heard>>

\* After stop_event.wait(0.5): a resume restarts the tick count.
WorkerPoll(w) ==
    /\ wpc[w] = "poll"
    /\ tick' = IF ~paused /\ ~stopEvent THEN [tick EXCEPT ![w] = 1] ELSE tick
    /\ WGoto(w, "top")
    /\ UNCHANGED <<lock, latestPatch, events, started, workerThread, client,
                   audio, aggregator, config, session, epoch, pc, ref, held,
                   heard>>

\* Snapshot the window, encode it and send it: this takes a started capture
\* (a stopped one still has its chunks) and a client.
Sendable == capture # None /\ mic[capture] # "made" /\ client

WorkerRequest(w) ==
    /\ wpc[w] = "request"
    /\ \/ /\ Sendable
          /\ heard' = [heard EXCEPT ![w] = capture]
          /\ WGoto(w, "awaiting")
       \/ /\ ~Sendable \/ Fault("snapshot")
          /\ WGoto(w, "raised")
          /\ UNCHANGED heard
    /\ UNCHANGED <<lock, latestPatch, events, started, workerThread, client,
                   audio, aggregator, config, session, epoch, pc, ref, tick,
                   held>>

\* The answer arrives: ingest it, publish the patch, save the text.
WorkerAnswer(w) ==
    /\ wpc[w] = "awaiting"
    /\ \/ /\ aggregator' = [aggregator EXCEPT !.last = tick[w],
                                             !.text = @ \cup {heard[w]}]
          /\ latestPatch' = aggregator.epoch
          /\ WriteRow([rows[cur] EXCEPT !.text = aggregator'.text])
          /\ tick' = [tick EXCEPT ![w] = @ + 1]
          /\ WGoto(w, "top")
       \/ /\ Fault("transcribe")
          /\ WGoto(w, "raised")
          /\ UNCHANGED <<aggregator, latestPatch, session, tick>>
    /\ UNCHANGED <<lock, events, started, workerThread, client, audio, config,
                   epoch, pc, ref, held, heard>>

\* _publish_error: the message, then the session row.
WorkerRaised(w) ==
    /\ wpc[w] = "raised"
    /\ lastError' = TRUE
    /\ WriteRow([rows[cur] EXCEPT !.status = "ended"])
    /\ WGoto(w, "failing")
    /\ UNCHANGED <<state, running, latestPatch, events, started, workerThread,
                   client, audio, aggregator, config, epoch, pc, ref, tick,
                   held, heard>>

\* Faulty variants: a state nobody knows; a paused session stays "paused".
UnknownState      == "failed"
ErrorUnlessPaused == IF state = "paused" THEN "paused" ELSE "error"

StateAfterFailure == "error"

WorkerFailing(w) ==
    /\ wpc[w] = "failing"
    /\ state' = StateAfterFailure
    /\ WGoto(w, "final")
    /\ UNCHANGED <<running, lastError, latestPatch, events, started,
                   workerThread, client, audio, aggregator, config, session,
                   epoch, pc, ref, tick, held, heard>>

\* The finally block: flush if any window was ingested.
WorkerFinal(w) ==
    /\ wpc[w] = "final"
    /\ \/ /\ tick[w] > 1
          /\ latestPatch' = aggregator.epoch
          /\ WriteRow([status |-> "ended", text |-> aggregator.text])
       \/ tick[w] = 1 /\ UNCHANGED <<latestPatch, session>>
    /\ WGoto(w, "cleanup")
    /\ UNCHANGED <<lock, events, started, workerThread, client, audio,
                   aggregator, config, epoch, pc, ref, tick, held, heard>>

WorkerClosing(w) ==
    /\ wpc[w] = "closing"
    /\ Close(held[w]) /\ held' = [held EXCEPT ![w] = None]
    /\ client' = FALSE
    /\ WGoto(w, "exit")
    /\ UNCHANGED <<lock, latestPatch, events, started, workerThread, capture,
                   aggregator, config, session, epoch, pc, ref, tick, heard>>

WorkerExit(w) ==
    /\ wpc[w] = "exit"
    /\ running' = FALSE
    /\ state' = IF state = "running" THEN "idle" ELSE state
    /\ WGoto(w, "dead")
    /\ UNCHANGED <<lastError, latestPatch, events, started, workerThread,
                   client, audio, aggregator, config, session, epoch, pc, ref,
                   tick, held, heard>>

-----------------------------------------------------------------------------
StartStep(c) ==
    \/ StartPreflight(c) \/ StartInit(c) \/ StartMake(c) \/ StartOpen(c)
    \/ StartRollback(c) \/ StartRunning(c)
    \/ CreateSession(c, "session", "thread")
    \/ StartThread(c) \/ StartSpawn(c)

StopStep(c) ==
    \/ StopBegin(c) \/ StopUnpause(c) \/ StopSignal(c) \/ StopJoin(c)
    \/ StopAbandon(c) \/ StopLateClose(c)
    \/ FinalizeDangling(c, "late_finalize", "late_clear")
    \/ ClearSession(c, "late_clear", "late_done")
    \/ StopLateDone(c)
    \/ StopRelease(c) \/ StopForget(c)
    \/ FinalizeDangling(c, "finalize", "clear")
    \/ ClearSession(c, "clear", "done")
    \/ StopDone(c)

PauseStep(c) ==
    \/ Pause(c)
    \/ ResumeBegin(c) \/ ResumeWait(c) \/ ResumeAck(c)
    \/ FinalizeDangling(c, "res_finalize", "res_clear")
    \/ ClearSession(c, "res_clear", "res_make")
    \/ ResumeMake(c) \/ ResumeOpen(c)
    \/ CreateSession(c, "res_session", "res_running")
    \/ ResumeRunning(c)

DeleteStep(c) == DeleteCheck(c) \/ DeleteRow(c)

RequestStep(c) ==
    StartStep(c) \/ StopStep(c) \/ PauseStep(c) \/ DeleteStep(c)

WorkerStep(w) ==
    \/ WorkerEntry(w) \/ WorkerTop(w)
    \/ TakeCapture(w, "pausing", "parking") \/ WorkerParked(w) \/ WorkerPoll(w)
    \/ WorkerRequest(w) \/ WorkerAnswer(w)
    \/ WorkerRaised(w) \/ WorkerFailing(w) \/ WorkerFinal(w)
    \/ TakeCapture(w, "cleanup", "closing") \/ WorkerClosing(w) \/ WorkerExit(w)

Next ==
    \/ UpdateConfig
    \/ \E c \in Callers :
        Dispatch(c) \/ DispatchDelete(c) \/ StartBegin(c) \/ RequestStep(c)
    \/ \E w \in Epochs : WorkerStep(w)

\* Threads are scheduled by the operating system: one that can take a step
\* takes one eventually.  Nothing says a client ever sends a request.
Fairness == /\ \A c \in Callers : WF_vars(RequestStep(c))
            /\ \A w \in Epochs : WF_vars(WorkerStep(w))

Spec == Init /\ [][Next]_vars /\ Fairness

(***************************************************************************)
(* Properties of a service driven by one request at a time, as the desktop *)
(* client drives it.                                                       *)
(***************************************************************************)
Quiet == \A c \in Callers : pc[c] = "idle"

\* At most one worker runs, and it is the one worker_thread refers to: start's
\* is_alive test, stop's join and the error paths never let a second one in.
SingleWorker == \A w \in Epochs : Alive(w) => workerThread = w

\* An open audio device belongs to self.capture or is being closed: no path
\* through rollback, pause, resume and stop drops a capture that still records.
\* It holds for one session even when requests overlap, and for any number of
\* sessions when they do not and none is resumed.  It fails beyond: see the README.
NoCaptureLeak ==
    \A e \in Epochs : mic[e] = "open" =>
        \/ capture = e
        \/ \E w \in Epochs : held[w] = e
        \/ \E c \in Callers : pc[c] = "late_close" /\ ref[c] = e

\* Between calls, "running" and "paused" mean that a worker is there to record.
NoZombie == Quiet /\ state \in {"running", "paused"} =>
                running /\ Alive(workerThread)

\* A session that is being recorded keeps its row: the check that it is not the
\* active one still holds when the deletion that passed it is carried out.
Recorded(s)   == cur = s /\ Alive(s) /\ state \in {"running", "paused"}
ActiveRowKept == [][\A s \in Epochs :
    Recorded(s) /\ rows'[s].status = "deleted" => rows[s].status = "deleted"]_vars

\* The text saved in a session's row was transcribed in that session, however
\* late the answer came.
TextOwnership == \A s \in Epochs : rows[s].text \subseteq {s}

\* Windows reach an aggregator in time order: while a session records, no
\* worker feeds its aggregator an earlier window, or one window twice.  (Under
\* a stop it can: stop clears _paused before it sets stop_event, and a parked
\* worker that looks in between starts again from tick 1.)
Recording == /\ state \in {"running", "paused"}
             /\ \A c \in Callers : pc[c] \notin StopSteps
WindowsAdvance == [][aggregator' # aggregator /\ Recording =>
                        \/ aggregator'.epoch > aggregator.epoch
                        \/ aggregator'.last > aggregator.last]_vars

\* Nothing has failed: pausing and resuming a session does not end it.
RunningSurvives == [][state = "running" => state' # "error"]_vars

\* What Lifecycle speaks of: the row without an end, and the newest row.
OpenRow   == IF \E s \in Epochs : rows[s].status = "open"
             THEN CHOOSE s \in Epochs : rows[s].status = "open" ELSE None
LatestRow == CHOOSE s \in 0 .. MaxEpoch :
                 /\ s = None \/ rows[s].status # "absent"
                 /\ \A t \in Epochs : rows[t].status # "absent" => t <= s
Contract  == INSTANCE Lifecycle WITH phase <- state, open <- OpenRow,
                                     last <- LatestRow, MaxSession <- MaxEpoch

\* The client sees the phases and the history that Lifecycle promises, whatever
\* start, stop, pause, resume and the worker do in between.
RefinesLifecycle == Contract!Spec

\* A resume opens the next capture only when the one before is torn down.
ResumeAfterTeardown == \A c \in Callers : pc[c] = "res_open" =>
    \A e \in Epochs \ {ref[c]} : mic[e] # "open"

\* A paused session gives the microphone back, unless it is resumed or stopped.
PauseReleasesMic ==
    (state = "paused") ~>
        (state # "paused" \/ \A e \in Epochs : mic[e] # "open")

\* A worker that was told to stop ends, whatever it is waiting for.
SignalEndsWorker == \A w \in Epochs :
    (Alive(w) /\ stopEvent) ~> (~Alive(w) \/ ~stopEvent)
=============================================================================
