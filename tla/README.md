# Verification of groq-whisper

groq-whisper transcribes a microphone and the speakers live.  A Python service
records audio, sends overlapping windows of it to a speech-to-text API and
merges the answers into one text; a Windows client starts and stops it over
HTTP and shows the text.  This directory holds TLA+ models of the service, the
TLC configurations that check them on small instances, and proofs checked by
TLAPS.

## 1. The system

| Component | Code | State | Operations | What is hard |
|---|---|---|---|---|
| Service lifecycle | `service.py` `start` `stop` `pause` `resume` `update_config` | `_state`, `running`, `last_error`, three events (`stop_event`, `_paused`, `_capture_stopped`), `worker_thread`, `capture`, `client`, `aggregator` | the five calls, from HTTP requests in pool threads | most fields are read and written outside `state_lock`; every call has paths that fail half way |
| Worker | `service.py` `_run_loop` | `tick_index`, the answer it waits for | snapshot a window, transcribe, ingest, publish; stop the capture on a pause; flush at the end | one step may take as long as a network call, and the service changes under it |
| Session rows | `service.py` `_persist_*`, `persistence.py` | SQLite table `sessions`, `_current_session_id` | create, update text, finalize, delete | written by the worker, by stop and by resume; failures are swallowed |
| Event fan-out | `service.py` `subscribe` `_publish`, `api.py` `/events` | a bounded queue per subscriber, the latest patch | subscribe with replay, publish, unsubscribe | two publishers and a full queue |
| Key pool | `client_pool.py` | keys, cursor, lock | normalize the keys, one request with failover | rotation under failures, lock held over the network |
| Stable prefix aggregator | `stable_prefix.py` | committed tokens, tail, tick, committed length | `ingest` a window, `flush` | telling a repeated report from a repeated word; what is committed can never be changed |
| Audio capture | `audio_capture.py` | streams, chunk buffers, two threads | start, stop, snapshot, reconnect, prune | streams closed and reopened by two threads |
| Window audio | `audio_capture.py` `_chunks_to_segments` to `_fit_track_length` | none | build a track of a window from chunks | rounding, gaps that are closed, chunks of two streams that overlap in time |
| Rolling transcriber | `rolling_transcriber.py` | one file per window, a manifest | transcribe a file, continue, replay | a file that exists but is not complete |
| HTTP API | `api.py` | none of its own | dispatch, delete a session, stream the events | check and act in two steps; `start` blocks the event loop |
| Live page | `LiveViewModel.cs`, `TranscriptionApiClient.cs` | the state it shows, its event stream, the dispatcher's callbacks | start, stop, receive events, close the stream half a second after a stop | its state against the service's; events in flight; a delayed continuation |
| Backend process, tray | `BackendService.cs`, `BackendStateCoordinator.cs` | the process and the state last reported | start and restart the backend | an exit while a session runs |
| Secret store | `WindowsSecretStore.cs` | one encrypted file | load, save, clear | interrupted replacement |

Requests reach the service through `api.py`.  `start` and the settings handlers
are coroutines and run on the event loop itself; `stop`, `pause` and `resume`
run in pool threads and may overlap anything.  `start` makes the client (the key
pool), the capture and the aggregator, then spawns the worker.  The worker calls
the capture, the pool and the aggregator, publishes a patch and writes the
session's row.  `pause` and `resume` talk to the worker through two events:
`_paused` asks it to stop the capture, `_capture_stopped` says that it has.
Patches and errors go through `_publish` to one bounded queue per subscriber; the
stream of `GET /events` drains it to the live page, which shows what it receives
on its dispatcher.

What makes each part correct: one worker and one open session at a time, no
device left open, phases and history as a client expects them (service); each
key in its turn and never twice in a request (pool); every word committed once,
in order, on the evidence the configuration asks for, and a text that only ever
grows at the front (aggregator); each sound heard once, where it was recorded
(capture, window audio); the newest text of its own session, the final one and
every failure on the page, and a button that works (events, live page).

## 2. Modules

| Module | Models | Composition |
|---|---|---|
| `Service` | `service.py` as `api.py` drives it | the core; one action per statement that touches shared state |
| `Lifecycle` | what a client is promised: phases and session history | `Service` implements it (`RefinesLifecycle`) |
| `MCService` | instance for TLC | extends `Service` |
| `ServiceProofs` | proofs about `Service`: workers, phases, texts, windows | extends `Service` |
| `SessionProofs` | proofs about `Service`: rows, `Lifecycle`, devices, deletion | extends `ServiceProofs` |
| `ClientPool` | `client_pool.py` | |
| `RoundRobin` | a ring of keys | `ClientPool` implements it (`RefinesRoundRobin`) |
| `MCClientPool`, `ClientPoolProofs` | instance, proofs | extend `ClientPool` |
| `Alignment` | `_align_exact` as a pure operator | used by `StablePrefix` |
| `WindowAudio` | how a track of a window is built from chunks, as operators | the chunks are those `Capture` stores |
| `MCAlgorithms` | all small inputs of the two, and the definitions they are checked against | extends `Alignment` and `WindowAudio` |
| `AlgorithmsProofs` | proofs about both, over inputs of every length | extends `MCAlgorithms` |
| `StablePrefix` | the rest of `stable_prefix.py` | extends `Alignment` |
| `Transcript` | a text of which a growing part is final | `StablePrefix` implements it (`RefinesTranscript`) |
| `MCStablePrefix`, `StablePrefixProofs` | instances for TLC, proofs | extend `StablePrefix` |
| `Capture` | the live capture of `audio_capture.py`, with the worker as its reader | what `Service` sees of it (made, open, closed, failing) is in `Service` |
| `MCCapture`, `CaptureProofs` | instance, proofs | extend `Capture` |
| `EventFanout` | `_publish`, `subscribe`, `/events` | its actions are parts of those of `LivePage` |
| `LivePage` | `LiveViewModel.cs` with what it sees of the service | extends `EventFanout`: page, request, worker and streams together |
| `MCLivePage`, `LivePageProofs` | instance, proofs | extend `LivePage` |
| `RollingReplay` | `rolling_transcriber.py`: runs, continuation and replay | on its own; what it ingests goes to the aggregator of `StablePrefix` |
| `MCRollingReplay`, `RollingReplayProofs` | instance, proofs | extend `RollingReplay` |

### Service

A field that the code touches outside `state_lock` is touched in an action of
its own, named after the call and the step: `StartBegin`, `StartPreflight`, ...
`StartSpawn`; `StopBegin` ... `StopDone`; `Pause`; `ResumeBegin` ...
`ResumeRunning`; `WorkerEntry` ... `WorkerExit`.  `pc[c]` and `wpc[w]` say which
statement a request or a worker is at.  A worker thread, a capture, an
aggregator and a session row are all made by an accepted start or resume and are
named by its number, the epoch.  A text is the set of captures whose audio is in
it, which is all that matters for whose text it is.

Three sequences are one action.  Taking the capture and clearing the field
(`cap = self.capture; self.capture = None`) is one: the race between two callers
of it is that of `StopRelease` and the worker, which is modelled.  An answer's
ingest, publication and row update are one, since no other thread ingests.  The
row of the current session is written at once: the store has a lock.  While
`start` runs, the event loop dispatches no request (`LoopFree`); requests
dispatched before go on.

A session's row is deleted by `DispatchDelete`, `DeleteCheck` and `DeleteRow`: the
check that the session is not the active one and the deletion are two statements of
a pool thread, and any other request and the worker may run in between.  An update or an end of a row that is gone changes nothing.

Faults are a constant: preflight, client, capture, snapshot, transcription and
store failures, and `slow`, which lets the timed waits of stop (15 s) and resume
(5 s) expire.

### ClientPool

The keys are read one entry at a time (`ReadEntry`), built once (`Build`), and
then served under the lock: `Acquire`, an attempt, `PrimaryAnswers` or
`PrimaryRaises` or `FailOver`, a second attempt, `RetryAnswers` or
`RetryRaises`.  Each attempt may be answered, fail for good or fail in a way
`is_retryable_transcription_error` accepts.  History variables count the turns
and record the keys a request was sent with.

### Alignment and StablePrefix

`Align` is the dynamic program of `_align_exact` as a recursive function over
pairs of indices, with the code's order of ties; scores are scaled to integers.
`Ingest` is the whole of `ingest`: observations, anchors and absorption, tokens
carried forward, aligned, merged or preserved, the commit of the ready head, the
pruning, and the patch.  `Flush` ends the recording.  The environment speaks
`Speech` and may report each word the window covers shifted, as another word,
with low confidence or not at all.  Every observation remembers the word it
comes from and every token the words it stands for; the code does not see this
history, and the properties compare the text with it.  Text is counted in words,
where the code counts characters and joins with blanks.  All words last equally
long, so the median duration and hence the runtime geometry are constant.

### Capture

Four threads work on the capture without a common lock: the owner (`start`, and
later `stop`), the device watcher, the maintenance thread and the reader (the
service's worker).  `pc[t]` is the statement a thread is at.  `close_streams`,
`open_streams` and `_flush_queues_to_storage` are run by several of them and are
written once, with the thread as a parameter: closing a stream and clearing its
attribute are two steps (`CloseStream`, `ClearStream`), so are emptying the
queues into local lists and storing those (`Drain`, `Store`).  PortAudio is
external: it has the streams that are open, calls back once per unit of time and
open stream, refuses to open after `terminate`, and `terminate` closes what is
open.  The last but one is an assumption: PortAudio counts its users, so that a
restart which outlasts the two seconds of the join could open a stream after
`terminate` while another PyAudio of the process is alive, be it that of a listing of
the devices (`api.py:25`) or that of a second capture.  `StoppedIsClosed` is shown for
a capture that is the only user.  A device pair is a model value; a chunk lasts one
unit of time.

### WindowAudio

Time is counted in ticks as fine as one likes, and a sample rate is the ticks from one
frame to the next: `OutPeriod` of the output, `Period` of each generation of streams,
any whole numbers (44.1 kHz beside 48 is 160 ticks beside 147).  A frame's sound is named by
its stream's generation and the tick it was recorded at; a window is, for each
place, the set of sounds averaged there.  What is heard at a place thus says where
it comes from, and rounding, the tolerance for gaps, the cut to the window and the
linear resampling are the code's.

### EventFanout and LivePage

An event is its kind, its session and, for a text, its number.  Only the set of
subscribers has a lock; the look for room, the eviction of the oldest event and the
put are three actions of a publisher (`LookForRoom`, `Evict`, `Put`), registration,
the two reads of `latest_patch_payload` and the replay are four of a subscriber.
Between the two reads a start or a stop may clear the payload; the stream then
replays none and breaks.  The queue of a client that is gone is dropped at once, and
with it what a subscribe in progress would still put there.

Two publishers that meet at a full queue may evict each other's event.  The history
variable `raced` is set when a queue changes between a publisher's look and its put,
and cleared by the next text: `NewestReachable` promises nothing in between, and
that is the whole of what the code leaves open.  Without such a meeting, the newest
text is in the queue or has been received.

`LivePage` puts the page, its streams (numbered like the sessions they are opened
for), the request in flight, the worker and the fan-out together.  Commands,
callbacks and the half-second delay of `StopAsync` run on one dispatcher and are
actions of their own; events arrive by `Receive` and are shown by `RunTask`.
`CloseStream` ends the delay at any moment and closes the newest stream, whatever is
still in it, as the code does after a stop that succeeded and after one that was
refused (`Declined`).  The history variable `cut` records that something was on its way
in that stream; the properties about what must come to be shown take its absence as
their premise (`InTime`).  The service is reduced to what the page can tell apart: valid or not,
failed or not, stopped in time or not.

### RollingReplay

One process at a time works on a directory.  `manifest` and `files` are the
directory and survive it; `pc`, `args`, `tick`, `answer` and `ingested` are its
memory and are gone with it (`Exit`), whether it ends, refuses or is killed
(`Crash`, possible at every step).  `write_text` is two steps: the file is there
first (`Torn`), then it has its content.  The manifest is checked as
`ensure_rolling_manifest` does it (`ManifestFound` ... `ManifestWrite`), each
window is taken from its file, asked for, or refused when its file is torn, and
is saved before it is ingested.  A replay reads only and is one action, with the
conditions of `run_rolling` on the flags that are given.  The initial directory
is empty or one of a version without manifests.  Every answer has a number, so
that two answers to the same question are told apart.

## 3. Checks

| Run | Bounds | Properties | What it shows |
|---|---|---|---|
| `ServiceResume` | one client, all requests but deletion and a change of settings, three epochs, every fault but the store's | `TypeOK` `SingleWorker` `NoZombie` `TextOwnership` `WindowsAdvance` `RefinesLifecycle` | with a client that waits for each answer, no moment of the worker's life lets a request break the session structure |
| `ServiceOverlap` | two clients, one session, start, stop, pause, delete, all faults | `NoCaptureLeak` `ActiveRowKept` `PauseReleasesMic` `SignalEndsWorker` | even when requests overlap, every path out of the session releases its device, a recording keeps its row, and a pause and a stop take effect |
| `ResumeRace` | one client, no fault | `RunningSurvives` (violated) | a resume can end in an error though nothing failed |
| `ResumeTeardown` | one client, no fault | `ResumeAfterTeardown` (violated) | a resume can open a capture while the one before is open |
| `ClientPool` | saved lists of up to four entries over five spellings (three keys, one of them also padded, and a blank), two callers, three turns a key | `TypeOK` `RefinesRoundRobin` | rotation and failover for all small lists |
| `Algorithms` | three tokens, three observations, two texts, two times, two scores; three chunks of three generations, of the output's rate, twice and two thirds of it, at 17 times, nine windows | `AlignmentIsBest` `DriftBounded` `EveryFrameHeard` | the table finds a best alignment; a window plays all that was recorded, where it was recorded, whether the device's rate is resampled up, down or not at all |
| `LivePage` | two sessions, one patch and a final text for each, queues of four events, one waiting callback | `TypeOK` `Controllable` `NewestReachable` `FreshStream` `FinalIsShown` `ErrorIsShown` | the page can always be acted on, and reaches the newest text of its session and no older one; if the half second after a stop is enough, the final text and the error come to be shown |
| `Overlap` | four words, one twice, six windows, two shifts and misses | `CommittedOnce` `OneWord` `NothingLost` `HeardIsCommitted` | overlaps are merged without loss or repetition |
| `Misheard` | three words, six windows, low confidence, wrong words, reports with score 0 | `TypeOK` `PatchesReplay` `Evidence` `SpokenOrder` `RefinesTranscript` | commits rest on evidence and the client's text follows |
| `Capture` | two pairs, two streams a pair, two changes or four units of time, queues of one chunk, failing lookups and opens, slow joins | `TypeOK` `AudioKept` `WindowWhole` `OneStreamPerTrack` `StoppedIsClosed` `FollowsDefault` | audio is neither lost nor recorded twice, stop leaves nothing open, the streams follow the default devices |
| `ReopenFailure` | one change, one kind of fault: an open that raises | `ReopensStreams` (violated) | one failed open ends the maintenance thread and with it the capture |
| `RollingReplay` | three recordings, two hops, two models, five requests | `TypeOK` `OneSource` `ReplayIsTheRun` `KeepsAnswers` | a run continues what earlier runs heard, a replay repeats it, over every crash |

Why the bounds are enough.  Three epochs allow a session, its resume and a third
start or resume while the worker of the first is still alive: every hazard listed
in PROJECT.json for the service needs at most three.  One client at a time is
how the desktop client behaves (a command is disabled while it runs); what must
hold when requests overlap all the same is in the run with two.
Deletion is there and resume is not: `CreateSession` is one action, and with a
resume beside a deletion that would hide the moment in which a row exists and is
not yet the current one.  (A start blocks the event loop, so that no deletion can be
asked for in that moment.)  In the pool, three keys
and a list of four entries contain every pattern of repeated, blank and padded
entries next to each other, three keys tell the key after the failed one from
the key before it, and two callers contend for the lock; the proofs remove these
bounds.  For the aggregator a word is covered by three
windows, as many as low confidence needs, and the windows go on until the last
word has left them.  `Overlap` keeps equal words further apart than the jitter
plus the match delta: nearer repetitions cannot be told from a shifted report by
any aggregator.  `Misheard` keeps words far enough apart that two misheard ones
are not the same report.  A misheard report of a committed word that ends after
the committed text does enter the text, next to the word itself; this is why
`CommittedOnce` speaks of repetitions with the same text.

In `Capture` the instance lets either the devices change (`now = MaxTime`) or
time pass (`switches = MaxSwitch`), but not both: audio and devices meet only in
the generation of a chunk, which no property compares across pairs.  Two changes
let the second one fall into the restart for the first.  Generations only grow
in the code; the model names them modulo three, since at most two streams of a
track (one being closed, one being opened) are told apart.  A queue of one chunk
is full as soon as it holds anything.  The loopback delivers nothing, as it does
when nothing is played, so chunks come from the microphone.  `WindowWhole` leaves
out chunks that another thread has taken from the queues and not yet stored: a
snapshot in that moment does miss them, for that window.

In `RollingReplay` the recordings are empty, end with a hop, before the first hop
and after one; a name keeps every third unit of time, so that ends are rounded up,
down and to the same name; five requests let the longest run (four windows)
lose one answer to a crash and finish.

In `Algorithms` the chunks of one generation come at least their length less one
tick apart (`Jitter`), as the callbacks of a stream do; two generations may overlap
at will.  Three chunks are two gaps, one that is closed and one that is not, or a
change of the streams after a gap.  The windows start and end before, in and after
what is recorded.  Of the three periods, 2, 1 and 3 ticks against the output's 2, one is not
resampled, one is thinned out and one stretched by a ratio that is not whole.

In `LivePage` four is the least limit at which the events that may come after a text
(a late replay, an error and a ready) cannot push it out of the queue while a queue
still overflows.  A second session is what lets a text of an earlier one turn up.  A
late replay can put the page back on an older text than it has shown: `FinalIsShown`
therefore says that the final text comes to be shown, not that it stays.  Whether the
half second of a stop is enough depends on the network and the worker and not on
this code, which waits and does not look: that it was is the premise `InTime` of
`FinalIsShown` and `ErrorIsShown`, and without it both fail.  Excused are
a stream that broke (which the page shows as an error), a new session, a start given within the
half second after a stop (whose continuation then closes the new session's stream,
`LiveViewModel.cs:143`), and `raced`.  An error published before the stream has
subscribed is shown by no event; `ErrorIsShown` speaks of a stream that listens.

`CHECK_DEADLOCK FALSE` is set where the system may stop: no client need ever
send a request, the pool's turns are bounded, a recording ends.

Fairness: `WF` of each request's and each worker's next step, because they are
threads the operating system schedules and every wait in them is timed; nothing
is assumed of clients, of the settings or of which outcome a step has.  In the
pool the steps of the caller that holds the lock are fair (a request to the API
ends, by an answer or the client's timeout); taking the lock is not, since a
Python lock promises no order.  In the capture the steps of the owner, the
watcher and the maintenance thread are fair for the same reason as those of the
service; when the service calls stop, when devices change and when the worker asks are
not.  `FollowsDefault` has a premise besides: not every poll of the watcher falls
into a restart.  The end of a restart forgets what a poll noted meanwhile
(`pending_pair = None`), and only a later poll notes it again; polls are half a second
apart and restarts are short, so such a poll comes.  On the live page publishers,
subscribers, streams and the dispatcher go on with what they have begun; the user,
the clock, the progress of requests and the worker, and failures owe nothing.  The
aggregator's properties are all safety properties.

### Where code and documents disagree

* `ResumeRace`: `resume` stores the new capture before it clears `_paused`; the
  worker's poll of the pause then stops that capture, the worker fails for lack
  of one, and the session that `resume` reported running is in error.
  `test_pause_resume_cycle` asserts that it is running.
* `ResumeTeardown`: the worker repeats the pause branch every half second and
  sets `_capture_stopped` each time.  Such a late set can follow the `clear` of
  the next pause, and the resume of that pause goes ahead although "Capture
  teardown still in progress" would be true.  The new capture may then overwrite the
  old one in `self.capture`, and its device stays open after the session has ended:
  `NoCaptureLeak` is therefore checked and proved without resume.
* `ReopenFailure`: the watcher survives its own failures, the maintenance thread
  does not.  When `open_streams` raises in it, the old streams are closed, nothing
  opens new ones, and the capture, which still counts as started, delivers silence for
  the rest of the session.

Two properties stop short of what one might expect of requests that overlap.
`NoCaptureLeak` is checked there for one session.  Over three it fails without any
resume: the worker's exit sets the state to idle while a stop is still at its last
statements, a second start goes ahead, the stop then clears the `worker_thread` that
start has stored, `start` fails on it with its capture open, and the third start
overwrites the field.  `ActiveRowKept` speaks of a session whose worker lives
(`Recorded`), since a deletion that passed its check in state error, or beside a stop,
can remove the row of the session that `current_session` names while the state says
running of the next one.  Neither happens where requests wait for each other: the
first theorem assumes one client, the second one driver beside any number of deletions.

## 4. Proofs

`ServiceProofs` proves, for any number of requests, epochs, windows and settings
and any set of faults, `TypeCorrect`: `Spec => []TypeOK`, one lemma per action.
`OneWorkerPerDriver` proves `SingleWorker` for one driver: start, stop, pause and resume
wait for each other's answers (`OneDriver`), as the commands of the desktop client do,
and any number of deletions run beside them.  `SingleWorker` alone
is not inductive: that no worker but `worker_thread` lives depends on where the
request is when it replaces or forgets the field.  The inductive invariant adds
that a thread not yet started is the one a start is about to start, that nobody
runs while a start is under way or once a stop has found no worker left
(`Unmanned`), and that the thread a stop joins is still `worker_thread`: this is
what `is_alive` in `start` and the join in `stop` establish.  `OneDriver` is a
premise of the theorem and not of the module, and is needed: `start` sets the
state to running before it stores the thread (`service.py:352` and `366`), and a stop
in between finds no worker to join, so that a second start may follow beside the first.

Three more theorems hold for one client (`OneClient`), each with an invariant that
rests on the one before.  `PhasesHaveWorkers` proves `NoZombie`.  The hard step is a
resume, which says running long after it looked: `PhaseInv` adds that what lets it do so is
an acknowledgement, and that the worker that gave it stays parked as long as pause
is set; that a running worker clears `state` before it dies; and that a stop clears
pause before it signals.  `TextsAreOwned` proves `TextOwnership`.  `OwnInv` adds that the
aggregator, the capture and every answer awaited belong to the current session
(`Owned`), except while nobody runs, and that between the statement of a resume that
clears the session and the one that creates the next there is none to own them.
`WindowsAreOrdered` proves `WindowsAdvance`.  `OrderInv` adds that a worker's next
window is later than the last one ingested, that the aggregator is empty when a resume
lets go of the worker, and that every new aggregator has a greater epoch.

`SessionProofs` goes on from there, again for one client.  `ServiceFollowsLifecycle`
proves the safety part of `RefinesLifecycle`, for a store that works.  `RowInv` says
whose business an open row is: only the current session has one, and by the time a
worker has failed (`Failed`), a stop has passed its last write (`Stopped`) or nobody
runs and nobody stops (`Unserved`), there is none, which is what a start relies on
before it creates the next (`Rowing`).  A step is then one of three: rows end or are
deleted (`ClosingFollows`), the next session gets its row (`OpeningFollows`), or the
rows stay and the state makes a move `Lifecycle` knows (`MovingFollows`).
`DevicesAreReleased` proves `NoCaptureLeak` without resume, with any faults.  The
invariant adds that a worker holds a capture only while it closes it (`HeldBriefly`),
that a capture in the field is the charge of a start, a stop or a worker that has yet
to take it (`Charged`), and that the field is empty where a start makes one
(`Unoccupied`).

`ActiveRowsAreKept` proves `ActiveRowKept` for one driver that sends no resume, beside any
number of deletions: between the check of a deletion and the removal of the row, sessions
may be started, stopped, paused and fail.  `DeletingInv` says why the check stays true.  A
session that has a row is past its start and its number is never given again, so it does
not become the current one once it is not (`Named`, `Numbered`); and a current session
that was not active at the check can only be called running again by a start, which finds
its worker dead (`Left`, by `WorkerInv`).  Resume is left out because the code gives no
such promise with it: the row of the session it makes is in the store before the session
is the current one (486-493), and the check passes in between.

`CaptureProofs` proves the type invariant of `Capture` and its four safety
invariants, for any devices, tracks, queue sizes and faults, and any window, hop and
retention of which the retention leaves a window its time.  Which thread has a pair to
open again (`Known`) is part of the types.  `StoppedIsClosed` follows from the last
step of stop, which closes everything and forbids to open more (`Closed`).
`AudioKept` needs that a thread holds chunks only between emptying the queues and
storing them (`Carrying`): two threads that drain at a time never drop each other's.
`OneStreamPerTrack` is the hard one, because start, restarts and stop open, close and
forget streams under no common lock.  A stream that is open is the one its attribute
names (`Attached`), unless a stop cleared the attribute of a stream opened meanwhile,
which it can only do when the restart of the maintenance thread is past its closing
(`Final`); so whoever opens has closed before (`FreeOwner`, `FreeMaint`).
`WindowWhole` adds that what the worker knows to be recorded of its window is not
queued any more when it copies (`Asked`), and by `AudioKept` is then stored.

`ClientPoolProofs` proves, for any keys, callers and saved lists: the type
invariant, `NormalKeys`, `DistinctAttempts`, `EvenTurns`, and that `ClientPool` implements
`RoundRobin` (initial states and steps).  The inductive invariant `PoolInv` has
four parts besides the types: the keys are distinct, the pool is built only from
a complete list, what a caller under the lock chose is the cursor (`Atomic`),
and the keys before the cursor are exactly one turn ahead of the others (`Lap`).
`EvenTurns` is a consequence of the last.  No run checks the three safety properties:
the last two say nothing that `RefinesRoundRobin` does not, and the first is about
a loop over one list.  `NormalKeys` is stated by entries (`Seen`): a key is in the
list if some entry read so far has it, and two keys are in the order in which they
were first seen.

`RollingReplayProofs` proves `KeepsAnswers`, `OneSource`, `TypeOK` and `ReplayIsTheRun`
for all parameters.  The first rests on `Fresh`: a window about to be written has no file, or the empty
one the write has just made; a crash in between leaves that file torn, which is what
the next run finds.  For the second, `SourceInv` adds that a manifest, once there are
windows beside it, is the one they were made under (`Manifested`), that every whole
file answers what this manifest asks at its place (`Answering`), that what was ever
ingested is still in its file (`Kept`), and that the run in progress has ingested a
prefix of that (`Running`).  A replay sorts the names of the files.  For it,
`ReplayInv` adds that a directory holds the first windows of one recording under one hop
without a gap (`InOrder`): a file is made at the first tick of which nothing was told,
and only the last can be torn and removed.  So a name's place in the order is its tick
(`InOrderOfTicks`), whatever `%.2f` makes of the ends, and what a replay has read is still
there when later runs go on (`Repeated`).

`LivePageProofs` proves `TypeOK`, `Controllable`, `FreshStream` and `NewestReachable`,
over the composition of page, service and event queues.  `TypeOK` needs
the counts of sessions and texts (`Counts`).  `Controllable` needs to know what the
service is in at every step a request is at (`Control`): a command leaves and its
answer arrives at different times, and the worker goes on in between.
`FreshStream` follows a text from the worker to `latest`, from there or from a
publisher to a queue (`Fresh`): at the step of a start that clears `latest` no worker is
alive and no publisher holds a text, so nothing can bring an older one back.
`NewestReachable` counts what can still come after the newest text (`Ahead`): a replay
that was read before it, the one ready and the one error of its session.  With these
behind it (`Holds`) it needs a queue of four, which is the theorem's assumption; the
code's has 64, and with three TLC finds it pushed out.  The other parts of the invariant are
that the worker, where no two publications met, still has the room it looked for (`Room`),
and that nobody is served twice (`Once`).  The first three theorems hold for all parameters.

`StablePrefixProofs` proves `TypeOK`, `PatchesReplay` and the safety part of
`RefinesTranscript`, that is all of it, for any speech, any reports of it and any
thresholds.  Here nothing is asked of the alignment: a word attached to the wrong token
spoils what is heard and not what the client shows.  The inductive invariant `TextInv` is the
shape of the tokens (`Shaped`, `Counted`) with what relates the text sent last to the
committed tokens and the tail; the patch counts words from the end of the committed text, so
the proof rests on how the words of two sequences join.  The tokens that outlast a
window are defined by their places (`Kept`, `Among`, `Place`): `SelectSeq` is a recursion
no prover here can unfold.

`TokensAreWords` and `FinalWordsWereHeard` prove `OneWord` and `Evidence`, and do ask
something of what is heard: `WordsApart`, that a report of a word differs from every report
of another in its text, or in its time by more than a match may.  The code cannot see to
that, since a word said again within the match delta looks like the word reported late.
The invariant `WordInv` gives every token the text and the time of one report of its word
(`StandsFor`): a merge moves a token from one report to another, never between them, and
the alignment pairs only what is similar (`AlignedAreSimilar`, by the diagonals of
`Table`).  So all the windows that support a token reported its word, and since a window
reports a word once and a token that is merged was last seen before (`Counted`), the
support is no more than the windows that did.

`TextIsInOrder` proves `SpokenOrder`, and asks `WordsInOrder` besides: however two words are
reported, the later ends later, and by more than a match may be off after the earlier
starts; and no report of a word ends before the word was begun.  The tail has three parts,
each in order: the tokens the window left behind, the words it reports, and the tokens kept
at its right edge (`NewTailParts`).  A token left behind ends where the window starts, and a
word the window reports ends later (`LeftBehindIsBefore`).  A token is kept only if it starts
at most the match delta before the last report ends, which by the second clause no earlier
word does (`PreservedIsBehind`).  And a report that ends behind the committed text is of no
earlier word (`NewFollowsCommitted`).  The pruning after a commit is not needed for it.

`NothingHeardIsLost` proves `NothingLost`, and asks `WordsDisjoint` besides: no report of a
word overlaps one of another word with the same text, or an anchor would absorb a repetition.
A word the last window reported has a token seen in that window, or a word no earlier than it
is final (`LostInv`).  A report enters the tail (`NewIsInTail`) or is dropped, and what is
dropped ends within the committed text or is matched with or absorbed by one of its tokens,
so that its word is final or a later one is (`DroppedIsReached`).  A token seen in the last window leaves the
tail only into the committed text or by the pruning, which takes what the committed text has
passed.

`FinalOnlyOnce` proves `CommittedOnce`, and asks `WordsSteady` besides: any two reports of a
word overlap by as much as an anchor needs to absorb one, have their centres within what a
match allows, and end less than the anchors' span and less than three quarters of their
length apart.  No two tokens, committed or not, have
the same text for the same word (`OnceInv`), and there are two ways to get a second.  A window
may report a committed word again: an anchor absorbs the report, and what is absorbed does
not reach far enough past the committed text to be new (`AbsorbedIsDropped`,
`NewIsUncommitted`).  Or a report is not paired with the token that stands for its word.  This
one needs that the alignment is not only the best but complete.  Where words are in order and
distinct, the similar pairs neither cross nor share an end (`Unambiguous`), and since a
match is worth more than the two gaps it saves (`MatchGains`), each entry of the
table pairs all that can be paired (`GoodEntry`, `SimilarAreAligned`).  So a token that stays
unpaired has no report (`UnpairedIsUnlike`).

`HeardWordsAreFinal` proves `HeardIsCommitted`, and asks `WordsSettle` besides: the last window
that covers a word ends late enough past it to commit it, by then it was covered as often as
the support thresholds ask and once with its full score in the middle of a window, and no
report takes it for another word.  Whether this is so depends on the window, the hop and the
thresholds together.  A commit takes the tokens at the front of the tail as long as each is
ready, so one token that never gets ready would hold back all words behind it, and the
invariant `SettleInv` excludes such a token.  While every covered word is heard, each token of
the tail is of a word that the last window covers and that is not final, and it carries the
evidence of all windows that cover the word (`Settled`): the report is paired with the token
(`SimilarAreAligned`), and what is merged adds up (`MergedSupport`).  So the last window that
covers a word finds it ready, and every word in front of it too, whose last window this is as
well (`LastInOrder`, `LastIsReady`, `ReadyAreFirst`).

`WordsApart`, `WordsInOrder`, `WordsDisjoint`, `WordsSteady` and `WordsSettle` are hypotheses
of these theorems and not assumptions of the module: the code does not guarantee them.
`MCStablePrefix` states them of the speech of its runs (`SpeechAssumption`), one of which says
a word twice, and TLC evaluates them.  `WordsSettle` it states where no report is wrong, as
in `Overlap`, the run that checks `HeardIsCommitted`.

`AlgorithmsProofs` proves `AlignmentIsBest` for nodes and observations of every length
and at any time.  `Table` is a recursive function, and TLA+ does not promise it one of
its equations: `TableExists` builds the solution, diagonal by diagonal.  A score is a
fold over a set of pairs, which takes an arbitrary element first: `SumExists` and
`SumIs` show that the order is nothing to it.  The rest is the argument the algorithm
stands on.  An alignment leaves out the last node or the last observation or pairs the
two (`Split`), and the score of each is that of a neighbour and a term (`LeaveNode`,
`LeaveObservation`, `PairLast`), so the best of the three is the best (`BestEntry`).  The
times of the inputs are integers (`StartsAssumption`).

The same module proves `DriftBounded` (`SoundsAreInPlace`) and `EveryFrameHeard`
(`FramesAreHeard`) for chunks of any number, jitter, length and device, and for every
window.  What is recent of them is put in an order (`InOrderIs`), and a segment grows with
it chunk by chunk (`SegmentsExist`).  A frame has a place in its segment, by its number,
and the tick it was recorded at, and the two differ (`Off`) as soon as a silence was closed
or chunks overlap before it.  The invariant of a segment is that between any two of its
frames the difference grows by no more than was closed, and falls by no more than
overlaps, up to the later one (`Sane`).  It is inductive together with what is known of the
last chunk: the segment has all its frames, ends with it, and the sums include what the
next chunk adds (`EndsWith`, `LongerIsSane`).  From there on it is arithmetic, of two
periods that are any numbers: what is rounded is off by half of what it is rounded to
(`RoundNear`), so the cut to the window moves a segment by half a frame, and not at all where
it begins or ends there (`FrameAtIs`), and its first place by half a place (`PlaceIs`).
Resampling rounds the length, and spreads the places from the first frame to the last
(`LengthIs`): the frame taken for a place is bounded before and after it (`SpreadIs`), and
every frame is taken, or one less than two and a half places before it (`SpreadCovers`).  A
sound then lies that far from the place it is heard at (`SoundDrifts`), and a frame inside
the window that far from a sound heard there (`FrameIsHeard`).  `SlackBefore`, `SlackAfter`
and `Skipped` name these distances, in half ticks.  `AudioAssumption` is that a buffer has
frames, that the two periods are whole numbers of ticks above zero, and that the jitter and
all times are whole; the code takes the device's rate as it is, and so does the proof.

Every invariant a passing run checks is thus stated by a theorem.  Left to TLC: of
`RefinesLifecycle`, that a preflight ends (`WF_vars(Resolve)`), and all liveness
properties, which rest on fairness.

## 5. Not modelled

Formatting, logging, encoding of audio and JSON; the text normalization of a
word; the choice of the segment that lends a word its confidence; a geometry
that changes with the length of the words; level control and the mixing of the two
tracks; the one-shot recording and transcription of the command line; keep-alive
lines of the event stream; the listing of sessions and devices, the export path
and the migration of an older table.

`SecretStore` has one hazard, an interrupted replacement of the file.  Its outcome is
what the file system promises of a move over an existing file, about which a
model of the code would have to assume the answer.

On the page: the pause and resume events that other clients cause, the tray and
`BackendStateCoordinator`, which mirror the state the page is told, and a backend
that exits while a session runs.

## 6. What is left

1. A backend that exits and is started again under the live page, with the
   coordinator as a second reader of the state.
2. A `CreateSession` in the statements of the code, for deletion beside resume.
3. The conditions on speech and thresholds under which a word is committed once.

The suite of runs stays short: a property that has become a theorem and that a
deeper one implies gives its place to one of a new module.
