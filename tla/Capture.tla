------------------------------ MODULE Capture ------------------------------
(***************************************************************************)
(* The live capture of audio: ContinuousDualAudioCapture and what it       *)
(* inherits from DualAudioRecorder                                         *)
(* (backend/src/groq_whisper_service/audio_capture.py), with the service's *)
(* worker as its reader.                                                   *)
(*                                                                         *)
(* Four threads work on it without a common lock: the one that calls start *)
(* and later stop ("owner"), the maintenance and the device watcher it     *)
(* spawns ("maint", "watch"), and the worker that asks for windows         *)
(* ("reader").  PortAudio's callbacks put chunks into the queues.          *)
(*                                                                         *)
(* Data: a device pair is a model value.  Audio comes in chunks of one     *)
(* unit of time; a chunk is its track, its stream's generation and its     *)
(* start.  Mixing and resampling are left out.                             *)
(***************************************************************************)
EXTENDS Naturals, FiniteSets

CONSTANTS
    Devices,    \* pairs of a microphone and a loopback device
    NoDevice,   \* None where a pair is expected
    Tracks,     \* how many streams a pair has: microphone first, then speaker
    Sounding,   \* tracks that deliver audio (a silent loopback delivers none)
    QueueSize,  \* maxsize of mic_queue and of speaker_queue
    Window,     \* window_seconds
    Hop,        \* hop_seconds
    Retention,  \* retention_seconds
    MaxTime,    \* bound: units of time
    MaxSwitch,  \* bound: changes of the default devices
    MaxGen,     \* bound: generations with names of their own
    Faults      \* the kinds of failure that may happen

ASSUME CaptureAssumption ==
    /\ Tracks \in Nat /\ Sounding \subseteq 1 .. Tracks
    /\ QueueSize \in Nat \ {0}
    /\ Window \in Nat \ {0} /\ Hop \in Nat \ {0}
    /\ Retention \in Nat /\ Retention >= 2 * Window
    /\ MaxTime \in Nat /\ MaxSwitch \in Nat
    /\ MaxGen \in Nat /\ MaxGen >= 3
    /\ NoDevice \notin Devices
    /\ Faults \subseteq {"lookup", "open", "slow"}

VARIABLES
    default,        \* the system's default pair
    switches,       \* how often it has changed (history)
    now,            \* perf_counter
    opened,         \* the streams PortAudio has open
    terminated,     \* PyAudio.terminate was called
    stream,         \* mic_stream, speaker_stream: the generation, or None
    generation,     \* stream_generation
    current,        \* current_pair
    pending,        \* pending_pair
    signature,      \* last_device_signature
    stopEvent,      \* stop_event is set
    restartEvent,   \* restart_event is set
    startedAt,      \* capture_started_at, None before start
    queue,          \* mic_queue, speaker_queue
    stored,         \* mic_chunks and speaker_chunks
    recorded,       \* chunks a callback has put into a queue (history)
    pc, at,         \* per thread: next statement, track it closes or opens
    pair,           \* per thread: the pair it has read
    taken,          \* per thread: chunks taken from the queues, not yet stored
    tick,           \* the reader's tick_index
    known           \* what was recorded of it when the reader asked (history)

world   == <<default, switches, now, opened, terminated>>
streams == <<stream, generation>>
devices == <<current, pending, signature>>
events  == <<stopEvent, restartEvent>>
chunks  == <<queue, stored, recorded>>
locals  == <<at, pair, taken>>
reading == <<tick, known>>

vars == <<world, streams, devices, events, startedAt, chunks, pc, locals,
          reading>>

None     == 0
TrackSet == 1 .. Tracks
Threads  == {"owner", "maint", "watch", "reader"}
Fault(f) == f \in Faults
Never    == MaxTime + 1    \* capture_started_at is None

Chunk  == [track : TrackSet, gen : 1 .. MaxGen, start : 0 .. MaxTime]
Stream == [track : TrackSet, gen : 1 .. MaxGen, pair : Devices,
           since : 0 .. MaxTime]

Init ==
    /\ default \in Devices /\ switches \in 0 .. MaxSwitch
    /\ now \in 0 .. MaxTime
    /\ opened = {} /\ terminated = FALSE
    /\ stream = [k \in TrackSet |-> None] /\ generation = 0
    /\ current = NoDevice /\ pending = NoDevice /\ signature = NoDevice
    /\ stopEvent = FALSE /\ restartEvent = FALSE /\ startedAt = Never
    /\ queue = [k \in TrackSet |-> {}] /\ stored = {} /\ recorded = {}
    /\ pc = [t \in Threads |-> "new"] /\ at = [t \in Threads |-> 1]
    /\ pair = [t \in Threads |-> NoDevice]
    /\ taken = [t \in Threads |-> {}]
    /\ tick = 1 /\ known = {}

Goto(t, label) == pc' = [pc EXCEPT ![t] = label]
Alive(t)       == pc[t] \notin {"new", "dead"}

(***************************************************************************)
(* The world: time, the user's choice of devices, PortAudio                *)
(***************************************************************************)
\* Nothing depends on the time before start.
Advance ==
    /\ startedAt # Never /\ now < MaxTime
    /\ now' = now + 1
    /\ UNCHANGED <<default, switches, opened, terminated, streams, devices,
                   events, startedAt, chunks, pc, locals, reading>>

Switch ==
    /\ switches < MaxSwitch /\ switches' = switches + 1
    /\ default' \in Devices \ {default}
    /\ UNCHANGED <<now, opened, terminated, streams, devices, events,
                   startedAt, chunks, pc, locals, reading>>

\* mic_callback and speaker_callback: the last unit of time goes into the
\* queue, or is dropped when the queue is full.
Callback(o) ==
    LET chunk == [track |-> o.track, gen |-> o.gen, start |-> now - 1]
    IN  /\ o.track \in Sounding /\ o.since < now
        /\ chunk \notin recorded
        /\ Cardinality(queue[o.track]) < QueueSize
        /\ queue' = [queue EXCEPT ![o.track] = @ \cup {chunk}]
        /\ recorded' = recorded \cup {chunk}
        /\ UNCHANGED <<world, streams, devices, events, startedAt, stored, pc,
                       locals, reading>>

(***************************************************************************)
(* Parts that several threads run: close_streams, open_streams and         *)
(* _flush_queues_to_storage                                                *)
(***************************************************************************)
\* close() of the stream the attribute holds; a stream that another thread
\* has closed raises, which is swallowed.
CloseStream(t, done) ==
    /\ pc[t] = "close"
    /\ IF at[t] \in TrackSet
       THEN /\ opened' = {o \in opened :
                            ~(o.track = at[t] /\ o.gen = stream[at[t]])}
            /\ IF stream[at[t]] = None
               THEN at' = [at EXCEPT ![t] = @ + 1] /\ UNCHANGED pc
               ELSE Goto(t, "clear") /\ UNCHANGED at
       ELSE at' = [at EXCEPT ![t] = 1] /\ Goto(t, done) /\ UNCHANGED opened
    /\ UNCHANGED <<default, switches, now, terminated, streams, devices,
                   events, startedAt, chunks, pair, taken, reading>>

\* The attribute is set to None, whatever it holds by now.
ClearStream(t) ==
    /\ pc[t] = "clear"
    /\ stream' = [stream EXCEPT ![at[t]] = None]
    /\ at' = [at EXCEPT ![t] = @ + 1]
    /\ Goto(t, "close")
    /\ UNCHANGED <<world, generation, devices, events, startedAt, chunks, pair,
                   taken, reading>>

\* Generations only grow; the model names them modulo MaxGen.
NextGeneration(t) ==
    /\ pc[t] = "generation"
    /\ generation' = (generation % MaxGen) + 1
    /\ at' = [at EXCEPT ![t] = 1]
    /\ Goto(t, "open")
    /\ UNCHANGED <<world, stream, devices, events, startedAt, chunks, pair,
                   taken, reading>>

OpenStream(t) ==
    /\ pc[t] = "open" /\ at[t] \in TrackSet /\ ~terminated
    /\ opened' = opened \cup {[track |-> at[t], gen |-> generation,
                               pair |-> pair[t], since |-> now]}
    /\ stream' = [stream EXCEPT ![at[t]] = generation]
    /\ at' = [at EXCEPT ![t] = @ + 1]
    /\ UNCHANGED <<default, switches, now, terminated, generation, devices,
                   events, startedAt, chunks, pc, pair, taken, reading>>

\* p.open raises: start passes it on, the maintenance thread ends by it.
OpenRaises(t, failed) ==
    /\ pc[t] = "open" /\ at[t] \in TrackSet
    /\ terminated \/ Fault("open")
    /\ Goto(t, failed)
    /\ UNCHANGED <<world, streams, devices, events, startedAt, chunks, locals,
                   reading>>

\* Faulty variant: the signature of the pair that was opened is not noted.
NotePairUnsigned(t) ==
    /\ current' = pair[t] /\ pending' = NoDevice
    /\ signature' = IF signature = NoDevice THEN pair[t] ELSE signature

\* Faulty variant: the pair that is pending is noted, not the one opened.
NotePairPending(t) ==
    /\ current' = pending /\ pending' = NoDevice /\ signature' = pair[t]

\* The end of open_streams, under state_lock.
NotePair(t) ==
    /\ current' = pair[t] /\ pending' = NoDevice /\ signature' = pair[t]

Opened(t, done) ==
    /\ pc[t] = "open" /\ at[t] \notin TrackSet
    /\ NotePair(t)
    /\ at' = [at EXCEPT ![t] = 1]
    /\ Goto(t, done)
    /\ UNCHANGED <<world, streams, events, startedAt, chunks, pair, taken,
                   reading>>

\* Both queues are emptied into local lists.
Drain(t, from, to) ==
    /\ pc[t] = from
    /\ taken' = [taken EXCEPT ![t] = UNION {queue[k] : k \in TrackSet}]
    /\ queue' = [k \in TrackSet |-> {}]
    /\ Goto(t, to)
    /\ UNCHANGED <<world, streams, devices, events, startedAt, stored,
                   recorded, at, pair>>

\* Faulty variant: storage becomes what was taken last.
Replaced(t) == IF taken[t] = {} THEN stored ELSE taken[t]

\* Storage is extended by them, under storage_lock.
Extended(t) == stored \cup taken[t]

Store(t, from, to) ==
    /\ pc[t] = from
    /\ stored' = Extended(t)
    /\ taken' = [taken EXCEPT ![t] = {}]
    /\ Goto(t, to)
    /\ UNCHANGED <<world, streams, devices, events, startedAt, queue, recorded,
                   at, pair, reading>>

(***************************************************************************)
(* The owner: start and stop                                               *)
(***************************************************************************)
StartBegin ==
    /\ pc["owner"] = "new" /\ startedAt = Never
    /\ startedAt' = now
    /\ Goto("owner", "lookup")
    /\ UNCHANGED <<world, streams, devices, events, chunks, locals, reading>>

\* get_default_pair
StartLookup ==
    /\ pc["owner"] = "lookup"
    /\ \/ /\ pair' = [pair EXCEPT !["owner"] = default]
          /\ Goto("owner", "generation")
       \/ Fault("lookup") /\ Goto("owner", "broken") /\ UNCHANGED pair
    /\ UNCHANGED <<world, streams, devices, events, startedAt, chunks, at,
                   taken, reading>>

StartWatcher ==
    /\ pc["owner"] = "spawn_watch"
    /\ pc' = [pc EXCEPT !["owner"] = "spawn_maint", !["watch"] = "wait"]
    /\ UNCHANGED <<world, streams, devices, events, startedAt, chunks, locals,
                   reading>>

\* The capture is started; from now on the worker asks it for windows.
StartMaintenance ==
    /\ pc["owner"] = "spawn_maint"
    /\ pc' = [pc EXCEPT !["owner"] = "ready", !["maint"] = "wait",
                        !["reader"] = "ask"]
    /\ UNCHANGED <<world, streams, devices, events, startedAt, chunks, locals,
                   reading>>

\* The service stops every capture it made, also one whose start raised.
StopBegin ==
    /\ pc["owner"] \in {"ready", "broken"}
    /\ stopEvent' = TRUE
    /\ at' = [at EXCEPT !["owner"] = 1]
    /\ Goto("owner", "close")
    /\ UNCHANGED <<world, streams, devices, restartEvent, startedAt, chunks,
                   pair, taken, reading>>

\* join(timeout=2.0)
StopJoin(t, from, to) ==
    /\ pc["owner"] = from
    /\ ~Alive(t) \/ Fault("slow")
    /\ Goto("owner", to)
    /\ UNCHANGED <<world, streams, devices, events, startedAt, chunks, locals,
                   reading>>

\* Faulty variant: PyAudio is not terminated.
StopUnterminated ==
    /\ pc["owner"] = "terminate"
    /\ Goto("owner", "stopped")
    /\ UNCHANGED <<world, streams, devices, events, startedAt, chunks, locals,
                   reading>>

\* p.terminate() closes the streams of this PyAudio that are still open.  That
\* none can be opened after it is an assumption: PortAudio counts its users, and
\* no other PyAudio of the process (a listing of the devices, a second capture)
\* is taken to be alive.
StopTerminate ==
    /\ pc["owner"] = "terminate"
    /\ terminated' = TRUE /\ opened' = {}
    /\ Goto("owner", "stopped")
    /\ UNCHANGED <<default, switches, now, streams, devices, events, startedAt,
                   chunks, locals, reading>>

(***************************************************************************)
(* The device watcher                                                      *)
(***************************************************************************)
\* A lookup that raises is logged, and the next poll tries again.
WatchLookup ==
    /\ pc["watch"] = "wait"
    /\ IF stopEvent
       THEN Goto("watch", "dead") /\ UNCHANGED pair
       ELSE /\ ~terminated
            /\ pair' = [pair EXCEPT !["watch"] = default]
            /\ Goto("watch", "compare")
    /\ UNCHANGED <<world, streams, devices, events, startedAt, chunks, at,
                   taken, reading>>

WatchCompare ==
    /\ pc["watch"] = "compare"
    /\ IF signature = pair["watch"]
       THEN UNCHANGED devices /\ Goto("watch", "wait")
       ELSE /\ signature' = pair["watch"]
            /\ pending' = pair["watch"]
            /\ UNCHANGED current
            /\ Goto("watch", "notify")
    /\ UNCHANGED <<world, streams, events, startedAt, chunks, locals, reading>>

WatchNotify ==
    /\ pc["watch"] = "notify"
    /\ restartEvent' = TRUE
    /\ Goto("watch", "wait")
    /\ UNCHANGED <<world, streams, devices, stopEvent, startedAt, chunks,
                   locals, reading>>

(***************************************************************************)
(* The maintenance thread                                                  *)
(***************************************************************************)
MaintEnd ==
    /\ pc["maint"] = "wait" /\ stopEvent
    /\ Goto("maint", "dead")
    /\ UNCHANGED <<world, streams, devices, events, startedAt, chunks, locals,
                   reading>>

MaintTop == ~stopEvent /\ Drain("maint", "wait", "store") /\ UNCHANGED reading

\* restart_event is cleared first, so that a change noted from here on is
\* served in the next round.
MaintCheck ==
    /\ pc["maint"] = "check"
    /\ restartEvent' = FALSE
    /\ Goto("maint", IF restartEvent THEN "redrain" ELSE "prune")
    /\ UNCHANGED <<world, streams, devices, stopEvent, startedAt, chunks,
                   locals, reading>>

\* Faulty variant: the old streams stay open.
MaintPickUnclosed ==
    /\ pc["maint"] = "pick"
    /\ pair' = [pair EXCEPT !["maint"] =
                    IF pending # NoDevice THEN pending ELSE current]
    /\ Goto("maint", "generation")
    /\ UNCHANGED <<world, streams, devices, events, startedAt, chunks, at,
                   taken, reading>>

MaintPick ==
    /\ pc["maint"] = "pick"
    /\ pair' = [pair EXCEPT !["maint"] =
                    IF pending # NoDevice THEN pending ELSE current]
    /\ at' = [at EXCEPT !["maint"] = 1]
    /\ Goto("maint", IF pair'["maint"] = NoDevice THEN "prune" ELSE "close")
    /\ UNCHANGED <<world, streams, devices, events, startedAt, chunks, taken,
                   reading>>

EndOf(chunk) == chunk.start + 1

Kept(chunk) == EndOf(chunk) + Retention >= now

\* _prune_old_chunks, under storage_lock
MaintPrune ==
    /\ pc["maint"] = "prune"
    /\ stored' = {chunk \in stored : Kept(chunk)}
    /\ Goto("maint", "wait")
    /\ UNCHANGED <<world, streams, devices, events, startedAt, queue, recorded,
                   locals, reading>>

(***************************************************************************)
(* The reader: snapshot_mixed_window with end_time = tick_end_monotonic    *)
(***************************************************************************)
WindowEnd   == startedAt + tick * Hop
WindowStart == IF WindowEnd < startedAt + Window THEN startedAt
               ELSE WindowEnd - Window

InWindow(chunk) == EndOf(chunk) > WindowStart /\ chunk.start < WindowEnd

\* Faulty variant: the queues are not emptied first.
SnapshotUnflushed ==
    /\ pc["reader"] = "ask" /\ now >= WindowEnd
    /\ known' = {chunk \in recorded : InWindow(chunk)}
    /\ Goto("reader", "copy")
    /\ UNCHANGED <<world, streams, devices, events, startedAt, chunks, locals,
                   tick>>

\* The worker asks when the window is over, or any time later.
SnapshotBegin ==
    /\ now >= WindowEnd
    /\ Drain("reader", "ask", "store")
    /\ known' = {chunk \in recorded : InWindow(chunk)} /\ UNCHANGED tick

\* The chunks of the window are copied, under storage_lock, and rendered.
SnapshotCopy ==
    /\ pc["reader"] = "copy"
    /\ tick' = tick + 1
    /\ known' = {}
    /\ Goto("reader", "ask")
    /\ UNCHANGED <<world, streams, devices, events, startedAt, chunks, locals>>

Snapshot == {chunk \in stored : InWindow(chunk)}

(***************************************************************************)
(* The next-state relation                                                 *)
(***************************************************************************)
Owner ==
    \/ StartBegin \/ StartLookup
    \/ NextGeneration("owner") \/ OpenStream("owner")
    \/ OpenRaises("owner", "broken") \/ Opened("owner", "spawn_watch")
    \/ StartWatcher \/ StartMaintenance
    \/ CloseStream("owner", "drain") \/ ClearStream("owner")
    \/ (Drain("owner", "drain", "store") /\ UNCHANGED reading)
    \/ Store("owner", "store", "join_maint")
    \/ StopJoin("maint", "join_maint", "join_watch")
    \/ StopJoin("watch", "join_watch", "terminate")
    \/ StopTerminate

Watcher == WatchLookup \/ WatchCompare \/ WatchNotify

Maintenance ==
    \/ MaintEnd \/ MaintTop \/ Store("maint", "store", "check")
    \/ MaintCheck
    \/ (Drain("maint", "redrain", "restore") /\ UNCHANGED reading)
    \/ Store("maint", "restore", "pick")
    \/ MaintPick
    \/ CloseStream("maint", "generation") \/ ClearStream("maint")
    \/ NextGeneration("maint") \/ OpenStream("maint")
    \/ OpenRaises("maint", "dead") \/ Opened("maint", "prune")
    \/ MaintPrune

Reader ==
    \/ SnapshotBegin \/ Store("reader", "store", "copy")
    \/ SnapshotCopy

World == Advance \/ Switch \/ \E o \in opened : Callback(o)

Next == World \/ Owner \/ StopBegin \/ Watcher \/ Maintenance \/ Reader

\* The threads are scheduled, and their waits are timed.  Nothing is assumed
\* of the user, of the devices, or of when the service stops the capture.
Fairness == WF_vars(Owner) /\ WF_vars(Watcher) /\ WF_vars(Maintenance)

Spec == Init /\ [][Next]_vars /\ Fairness

(***************************************************************************)
(* Properties                                                              *)
(***************************************************************************)
WorldOK   == /\ default \in Devices /\ switches \in 0 .. MaxSwitch
             /\ now \in 0 .. MaxTime /\ startedAt \in 0 .. Never
StreamsOK == /\ opened \subseteq Stream
             /\ generation \in 0 .. MaxGen /\ stream \in [TrackSet -> 0 .. MaxGen]
DevicesOK == /\ {current, pending, signature} \subseteq Devices \cup {NoDevice}
             /\ pair \in [Threads -> Devices \cup {NoDevice}]
EventsOK  == /\ stopEvent \in BOOLEAN /\ restartEvent \in BOOLEAN
             /\ terminated \in BOOLEAN
ChunksOK  == /\ queue \in [TrackSet -> SUBSET Chunk]
             /\ {stored, recorded} \subseteq SUBSET Chunk
             /\ taken \in [Threads -> SUBSET Chunk]
ReadingOK == tick \in Nat \ {0} /\ known \subseteq Chunk
OwnerSteps  == {"new", "lookup", "generation", "open", "broken", "spawn_watch",
                "spawn_maint", "ready", "close", "clear", "drain", "store",
                "join_maint", "join_watch", "terminate", "stopped"}
MaintSteps  == {"new", "wait", "store", "check", "redrain", "restore", "pick",
                "close", "clear", "generation", "open", "prune", "dead"}
WatchSteps  == {"new", "wait", "compare", "notify", "dead"}
ReaderSteps == {"new", "ask", "store", "copy"}
StepsOK     == /\ pc \in [Threads -> OwnerSteps \cup MaintSteps \cup WatchSteps
                                                \cup ReaderSteps]
               /\ pc["owner"] \in OwnerSteps /\ pc["maint"] \in MaintSteps
               /\ pc["watch"] \in WatchSteps /\ pc["reader"] \in ReaderSteps
AtOK        == at \in [Threads -> 1 .. Tracks + 1]

\* Every variable has the type the code gives it, and the maintenance thread
\* always knows a pair to open again.
TypeOK == /\ WorldOK /\ StreamsOK /\ DevicesOK /\ EventsOK /\ ChunksOK
          /\ ReadingOK /\ StepsOK /\ AtOK
          /\ Alive("maint") => current # NoDevice

\* No audio is lost between the callbacks and the pruning, whatever threads
\* empty the queues at the same time: a chunk is queued, with one thread, or
\* stored, until it is older than the retention.
Queued(chunk) == chunk \in queue[chunk.track]
Held(chunk)   == \E t \in Threads : chunk \in taken[t]
AudioKept   == \A chunk \in recorded :
    Queued(chunk) \/ Held(chunk) \/ chunk \in stored \/ ~Kept(chunk)

\* A window the worker asks for holds all that was recorded of it, but for
\* what another thread is just storing.  It may ask late, as it does after slow
\* answers, by as much as the retention exceeds the window.
WindowWhole == (pc["reader"] = "copy" /\ now - WindowEnd <= Retention - Window)
    => \A chunk \in known : chunk \in Snapshot \/ Held(chunk)

\* A track is never recorded twice at a time.
OneStreamPerTrack == \A o, q \in opened : o.track = q.track => o = q

\* After stop no stream is open, not even one that a restart of the
\* maintenance thread opened while stop was closing the old ones (stop 890-896).
\* For a restart that outlasts the join this rests on terminate: see StopTerminate.
StoppedIsClosed == pc["owner"] = "stopped" => opened = {}

\* Once the user leaves the default devices alone they are recorded from,
\* however changes, polls and restarts overlapped, as long as the maintenance
\* thread lives and not every poll falls into a restart (the end of a restart
\* forgets what a poll has noted meanwhile, and a later poll must note it
\* again).
Follows       == \A k \in TrackSet : \E o \in opened :
                    o.track = k /\ o.pair = default
Restarting    == pc["maint"] \in {"close", "clear", "generation", "open"}
PollsBetween  == []<><<WatchCompare /\ ~Restarting>>_vars
Settles       == <>[][UNCHANGED default]_vars
FollowsDefault == PollsBetween /\ Settles =>
    (<>[](Alive("maint") /\ ~stopEvent) => <>[]Follows)

\* A started capture follows the default devices ("reopen streams if the
\* defaults change"), also when opening them fails once.
ReopensStreams == PollsBetween /\ Settles =>
    (<>[](pc["owner"] = "ready") => <>[]Follows)
=============================================================================
