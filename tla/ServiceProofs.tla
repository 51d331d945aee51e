--------------------------- MODULE ServiceProofs ---------------------------
(***************************************************************************)
(* Theorems about the service for any number of requests, sessions,        *)
(* windows and faults: its types and, under a client that sends one        *)
(* request at a time, the uniqueness of its worker, the agreement of phase *)
(* and worker, the ownership of texts and the order of windows.            *)
(***************************************************************************)
EXTENDS Service, TLAPS

\* A worker only asks for windows inside the bound, and while it waits for an
\* answer it knows which capture it transcribed.
WindowInRange == \A w \in Epochs :
    /\ wpc[w] \in {"request", "awaiting"} => tick[w] <= MaxTick
    /\ wpc[w] = "awaiting" => heard[w] \in Epochs

TypeInv == TypeOK /\ WindowInRange

PcSteps == {"idle"} \cup Requests
             \cup StartSteps \cup StopSteps \cup ResumeSteps \cup DeleteSteps

-----------------------------------------------------------------------------
\* A part of the invariant survives a step that leaves its variables alone.
LEMMA Frame ==
  ASSUME TypeInv
  PROVE  /\ UNCHANGED lock => ControlOK'
         /\ UNCHANGED <<events, started, client>> => EventsOK'
         /\ UNCHANGED <<epoch, latestPatch, workerThread, capture, cur, config>>
              => NamesOK'
         /\ UNCHANGED mic => MicOK'
         /\ UNCHANGED aggregator => AggregatorOK'
         /\ UNCHANGED rows => RowsOK'
         /\ UNCHANGED <<pc, ref>> => RequestsOK'
         /\ UNCHANGED worker => WorkersOK' /\ WindowInRange'
<1> USE DEF TypeInv, TypeOK
<1>1. UNCHANGED lock => ControlOK'
  BY DEF ControlOK, lock
<1>2. UNCHANGED <<events, started, client>> => EventsOK'
  BY DEF EventsOK, events
<1>3. UNCHANGED <<epoch, latestPatch, workerThread, capture, cur, config>>
        => NamesOK'
  BY DEF NamesOK
<1>4. UNCHANGED mic => MicOK'
  BY DEF MicOK
<1>5. UNCHANGED aggregator => AggregatorOK'
  BY DEF AggregatorOK
<1>6. UNCHANGED rows => RowsOK'
  BY DEF RowsOK
<1>7. UNCHANGED <<pc, ref>> => RequestsOK'
  BY DEF RequestsOK
<1>8. UNCHANGED worker => WorkersOK' /\ WindowInRange'
  BY DEF WorkersOK, WindowInRange, worker
<1> QED
  BY <1>1, <1>2, <1>3, <1>4, <1>5, <1>6, <1>7, <1>8

\* A request that moves on to one of its statements keeps its type.
LEMMA GotoType ==
  ASSUME RequestsOK, NEW c \in Callers, NEW step \in PcSteps,
         Goto(c, step), ref' = ref
  PROVE  RequestsOK'
BY DEF RequestsOK, Goto, PcSteps

\* So does a worker that moves on to a statement where it asks for nothing.
LEMMA WGotoType ==
  ASSUME WorkersOK, WindowInRange, NEW w \in Epochs,
         NEW step \in WorkerSteps \ {"request", "awaiting"},
         WGoto(w, step), UNCHANGED <<tick, heard>>,
         held' = held \/ \E e \in 0 .. MaxEpoch : held' = [held EXCEPT ![w] = e]
  PROVE  WorkersOK' /\ WindowInRange'
BY DEF WorkersOK, WindowInRange, WGoto

\* Closing a capture keeps the type of the devices.
LEMMA CloseType ==
  ASSUME MicOK, NEW e, Close(e)
  PROVE  MicOK'
BY DEF MicOK, Close

\* So does a write to the current row.
LEMMA WriteRowType ==
  ASSUME RowsOK, cur' = cur, NEW status \in {"absent", "open", "ended"},
         NEW text \in SUBSET Epochs,
         WriteRow([status |-> status, text |-> text])
  PROVE  RowsOK'
BY DEF RowsOK, WriteRow, Written

-----------------------------------------------------------------------------
\* The statements of start, including its rollback, keep the types.
LEMMA StartKeepsTypes ==
  ASSUME TypeInv, NEW c \in Callers, StartStep(c)
  PROVE  TypeInv'
<1> USE DEF TypeInv, TypeOK, lock, events, audio, session, worker
<1>1. CASE StartPreflight(c)
  <2>1. ControlOK'
    BY <1>1 DEF StartPreflight, ControlOK, ServiceState
  <2>2. RequestsOK'
    BY <1>1, GotoType DEF StartPreflight, PcSteps, StartSteps
  <2> QED
    BY <1>1, <2>1, <2>2, Frame DEF StartPreflight
<1>2. CASE StartInit(c)
  <2>1. ControlOK' /\ EventsOK'
    BY <1>2 DEF StartInit, ControlOK, EventsOK
  <2>2. NamesOK'
    BY <1>2, ServiceAssumption DEF StartInit, NamesOK, None
  <2>3. AggregatorOK'
    BY <1>2, ServiceAssumption
    DEF StartInit, AggregatorOK, NewAggregator, NamesOK, RequestsOK
  <2>4. RequestsOK'
    BY <1>2, GotoType DEF StartInit, PcSteps, StartSteps
  <2> QED
    BY <1>2, <2>1, <2>2, <2>3, <2>4, Frame DEF StartInit
<1>3. CASE StartMake(c)
  <2>1. NamesOK' /\ MicOK'
    BY <1>3 DEF StartMake, MakeCapture, NamesOK, MicOK, RequestsOK
  <2>2. RequestsOK'
    BY <1>3, GotoType DEF StartMake, PcSteps, StartSteps
  <2> QED
    BY <1>3, <2>1, <2>2, Frame DEF StartMake
<1>4. CASE StartOpen(c)
  <2>1. NamesOK' /\ MicOK'
    BY <1>4 DEF StartOpen, OpenCapture, OpenCaptureRaises, NamesOK, MicOK
  <2>2. RequestsOK'
    BY <1>4, GotoType DEF StartOpen, PcSteps, StartSteps
  <2> QED
    BY <1>4, <2>1, <2>2, Frame DEF StartOpen
<1>5. CASE StartRollback(c)
  <2>1. ControlOK' /\ EventsOK'
    BY <1>5 DEF StartRollback, ControlOK, EventsOK, ServiceState
  <2>2. NamesOK' /\ MicOK'
    BY <1>5, CloseType, ServiceAssumption DEF StartRollback, NamesOK, None
  <2>3. RequestsOK'
    BY <1>5, GotoType DEF StartRollback, Return, PcSteps
  <2> QED
    BY <1>5, <2>1, <2>2, <2>3, Frame DEF StartRollback
<1>6. CASE StartRunning(c)
  <2>1. ControlOK'
    BY <1>6 DEF StartRunning, ControlOK, ServiceState
  <2>2. RequestsOK'
    BY <1>6, GotoType DEF StartRunning, PcSteps, StartSteps
  <2> QED
    BY <1>6, <2>1, <2>2, Frame DEF StartRunning
<1>7. CASE CreateSession(c, "session", "thread")
  <2>1. NamesOK' /\ RowsOK'
    BY <1>7, ServiceAssumption
    DEF CreateSession, NamesOK, RowsOK, RequestsOK, None
  <2>2. RequestsOK'
    BY <1>7, GotoType DEF CreateSession, PcSteps, StartSteps
  <2> QED
    BY <1>7, <2>1, <2>2, Frame DEF CreateSession
<1>8. CASE StartThread(c)
  <2>1. NamesOK'
    BY <1>8 DEF StartThread, NamesOK, RequestsOK
  <2>2. WorkersOK' /\ WindowInRange'
    BY <1>8 DEF StartThread, WorkersOK, WindowInRange, WorkerSteps
  <2>3. RequestsOK'
    BY <1>8, GotoType DEF StartThread, PcSteps, StartSteps
  <2> QED
    BY <1>8, <2>1, <2>2, <2>3, Frame DEF StartThread
<1>9. CASE StartSpawn(c)
  <2>1. WorkersOK' /\ WindowInRange'
    BY <1>9 DEF StartSpawn, WorkersOK, WindowInRange, WorkerSteps
  <2>2. RequestsOK'
    BY <1>9, GotoType DEF StartSpawn, Return, PcSteps
  <2> QED
    BY <1>9, <2>1, <2>2, Frame DEF StartSpawn
<1> QED
  BY <1>1, <1>2, <1>3, <1>4, <1>5, <1>6, <1>7, <1>8, <1>9 DEF StartStep

\* So do the statements of stop, on both sides of the join.
LEMMA StopKeepsTypes ==
  ASSUME TypeInv, NEW c \in Callers, StopStep(c)
  PROVE  TypeInv'
<1> USE DEF TypeInv, TypeOK, lock, events, audio, session, worker
<1>1. CASE StopBegin(c)
  <2>1. RequestsOK'
    BY <1>1, GotoType DEF StopBegin, PcSteps, StopSteps
  <2> QED
    BY <1>1, <2>1, Frame DEF StopBegin
<1>2. CASE StopUnpause(c)
  <2>1. EventsOK'
    BY <1>2 DEF StopUnpause, EventsOK
  <2>2. RequestsOK'
    BY <1>2, GotoType DEF StopUnpause, PcSteps, StopSteps
  <2> QED
    BY <1>2, <2>1, <2>2, Frame DEF StopUnpause
<1>3. CASE StopSignal(c)
  <2>1. EventsOK'
    BY <1>3 DEF StopSignal, EventsOK
  <2>2. RequestsOK'
    BY <1>3 DEF StopSignal, RequestsOK, NamesOK, Goto, StopSteps
  <2> QED
    BY <1>3, <2>1, <2>2, Frame DEF StopSignal
<1>4. CASE StopJoin(c)
  <2>1. RequestsOK'
    BY <1>4, GotoType DEF StopJoin, PcSteps, StopSteps
  <2> QED
    BY <1>4, <2>1, Frame DEF StopJoin
<1>5. CASE StopAbandon(c)
  <2>1. NamesOK'
    BY <1>5, ServiceAssumption DEF StopAbandon, NamesOK, None
  <2>2. RequestsOK'
    BY <1>5 DEF StopAbandon, RequestsOK, NamesOK, Goto, StopSteps
  <2> QED
    BY <1>5, <2>1, <2>2, Frame DEF StopAbandon
<1>6. CASE StopLateClose(c)
  <2>1. EventsOK'
    BY <1>6 DEF StopLateClose, EventsOK
  <2>2. MicOK'
    BY <1>6, CloseType DEF StopLateClose
  <2>3. RequestsOK'
    BY <1>6, GotoType DEF StopLateClose, PcSteps, StopSteps
  <2> QED
    BY <1>6, <2>1, <2>2, <2>3, Frame DEF StopLateClose
<1>7. CASE FinalizeDangling(c, "late_finalize", "late_clear")
  <2>1. RowsOK' /\ UNCHANGED cur
    BY <1>7 DEF FinalizeDangling, WriteRow, Written, RowsOK
  <2>2. RequestsOK'
    BY <1>7, GotoType DEF FinalizeDangling, PcSteps, StopSteps
  <2> QED
    BY <1>7, <2>1, <2>2, Frame DEF FinalizeDangling
<1>8. CASE ClearSession(c, "late_clear", "late_done")
  <2>1. NamesOK'
    BY <1>8, ServiceAssumption DEF ClearSession, NamesOK, None
  <2>2. RequestsOK'
    BY <1>8, GotoType DEF ClearSession, PcSteps, StopSteps
  <2> QED
    BY <1>8, <2>1, <2>2, Frame DEF ClearSession
<1>9. CASE StopLateDone(c)
  <2>1. ControlOK'
    BY <1>9 DEF StopLateDone, ControlOK, ServiceState
  <2>2. RequestsOK'
    BY <1>9, GotoType DEF StopLateDone, PcSteps, Return
  <2> QED
    BY <1>9, <2>1, <2>2, Frame DEF StopLateDone
<1>10. CASE StopRelease(c)
  <2>1. NamesOK' /\ MicOK'
    BY <1>10, CloseType, ServiceAssumption DEF StopRelease, NamesOK, None
  <2>2. RequestsOK'
    BY <1>10, GotoType DEF StopRelease, PcSteps, StopSteps
  <2> QED
    BY <1>10, <2>1, <2>2, Frame DEF StopRelease
<1>11. CASE StopForget(c)
  <2>1. EventsOK'
    BY <1>11 DEF StopForget, EventsOK
  <2>2. NamesOK'
    BY <1>11, ServiceAssumption DEF StopForget, NamesOK, None
  <2>3. RequestsOK'
    BY <1>11, GotoType DEF StopForget, PcSteps, StopSteps
  <2> QED
    BY <1>11, <2>1, <2>2, <2>3, Frame DEF StopForget
<1>12. CASE FinalizeDangling(c, "finalize", "clear")
  <2>1. RowsOK' /\ UNCHANGED cur
    BY <1>12 DEF FinalizeDangling, WriteRow, Written, RowsOK
  <2>2. RequestsOK'
    BY <1>12, GotoType DEF FinalizeDangling, PcSteps, StopSteps
  <2> QED
    BY <1>12, <2>1, <2>2, Frame DEF FinalizeDangling
<1>13. CASE ClearSession(c, "clear", "done")
  <2>1. NamesOK'
    BY <1>13, ServiceAssumption DEF ClearSession, NamesOK, None
  <2>2. RequestsOK'
    BY <1>13, GotoType DEF ClearSession, PcSteps, StopSteps
  <2> QED
    BY <1>13, <2>1, <2>2, Frame DEF ClearSession
<1>14. CASE StopDone(c)
  <2>1. ControlOK'
    BY <1>14 DEF StopDone, ControlOK, ServiceState
  <2>2. EventsOK'
    BY <1>14 DEF StopDone, EventsOK
  <2>3. NamesOK'
    BY <1>14, ServiceAssumption DEF StopDone, NamesOK, None
  <2>4. RequestsOK'
    BY <1>14, GotoType DEF StopDone, PcSteps, Return
  <2> QED
    BY <1>14, <2>1, <2>2, <2>3, <2>4, Frame DEF StopDone
<1> QED
  BY <1>1, <1>2, <1>3, <1>4, <1>5, <1>6, <1>7, <1>8, <1>9, <1>10, <1>11,
     <1>12, <1>13, <1>14
  DEF StopStep

\* So do pause and resume.
LEMMA PauseKeepsTypes ==
  ASSUME TypeInv, NEW c \in Callers, PauseStep(c)
  PROVE  TypeInv'
<1> USE DEF TypeInv, TypeOK, lock, events, audio, session, worker
<1>1. CASE Pause(c)
  <2>1. ControlOK'
    BY <1>1 DEF Pause, ControlOK, ServiceState
  <2>2. EventsOK'
    BY <1>1 DEF Pause, EventsOK
  <2>3. RequestsOK'
    BY <1>1, GotoType DEF Pause, PcSteps, Return
  <2> QED
    BY <1>1, <2>1, <2>2, <2>3, Frame DEF Pause
<1>2. CASE ResumeBegin(c)
  <2>1. NamesOK'
    BY <1>2, ServiceAssumption DEF ResumeBegin, NamesOK, None, NewEpoch
  <2>2. RequestsOK'
    BY <1>2, ServiceAssumption
    DEF ResumeBegin, RequestsOK, NamesOK, NewEpoch, Return, Goto, ResumeSteps
  <2> QED
    BY <1>2, <2>1, <2>2, Frame DEF ResumeBegin
<1>3. CASE ResumeWait(c)
  <2>1. RequestsOK'
    BY <1>3, GotoType DEF ResumeWait, PcSteps, ResumeSteps
  <2> QED
    BY <1>3, <2>1, Frame DEF ResumeWait
<1>4. CASE ResumeAck(c)
  <2>1. EventsOK'
    BY <1>4 DEF ResumeAck, EventsOK
  <2>2. RequestsOK'
    BY <1>4, GotoType DEF ResumeAck, PcSteps, ResumeSteps
  <2> QED
    BY <1>4, <2>1, <2>2, Frame DEF ResumeAck
<1>5. CASE FinalizeDangling(c, "res_finalize", "res_clear")
  <2>1. RowsOK' /\ UNCHANGED cur
    BY <1>5 DEF FinalizeDangling, WriteRow, Written, RowsOK
  <2>2. RequestsOK'
    BY <1>5, GotoType DEF FinalizeDangling, PcSteps, ResumeSteps
  <2> QED
    BY <1>5, <2>1, <2>2, Frame DEF FinalizeDangling
<1>6. CASE ClearSession(c, "res_clear", "res_make")
  <2>1. NamesOK'
    BY <1>6, ServiceAssumption DEF ClearSession, NamesOK, None
  <2>2. RequestsOK'
    BY <1>6, GotoType DEF ClearSession, PcSteps, ResumeSteps
  <2> QED
    BY <1>6, <2>1, <2>2, Frame DEF ClearSession
<1>7. CASE ResumeMake(c)
  <2>1. ControlOK'
    BY <1>7 DEF ResumeMake, ResumeFails, ControlOK, ServiceState
  <2>2. NamesOK' /\ MicOK'
    BY <1>7 DEF ResumeMake, MakeCapture, NamesOK, MicOK, RequestsOK
  <2>3. RequestsOK'
    BY <1>7, GotoType DEF ResumeMake, PcSteps, ResumeFails, ResumeSteps
  <2> QED
    BY <1>7, <2>1, <2>2, <2>3, Frame DEF ResumeMake
<1>8. CASE ResumeOpen(c)
  <2>1. ControlOK'
    BY <1>8 DEF ResumeOpen, ResumeFails, ControlOK, ServiceState
  <2>2. EventsOK'
    BY <1>8 DEF ResumeOpen, EventsOK
  <2>3. NamesOK' /\ MicOK'
    BY <1>8 DEF ResumeOpen, OpenCapture, OpenCaptureRaises, NamesOK, MicOK
  <2>4. AggregatorOK'
    BY <1>8, ServiceAssumption
    DEF ResumeOpen, AggregatorOK, NewAggregator, NamesOK, RequestsOK
  <2>5. RequestsOK'
    BY <1>8, GotoType DEF ResumeOpen, PcSteps, ResumeFails, ResumeSteps
  <2> QED
    BY <1>8, <2>1, <2>2, <2>3, <2>4, <2>5, Frame DEF ResumeOpen
<1>9. CASE CreateSession(c, "res_session", "res_running")
  <2>1. NamesOK' /\ RowsOK'
    BY <1>9, ServiceAssumption
    DEF CreateSession, NamesOK, RowsOK, RequestsOK, None
  <2>2. RequestsOK'
    BY <1>9, GotoType DEF CreateSession, PcSteps, ResumeSteps
  <2> QED
    BY <1>9, <2>1, <2>2, Frame DEF CreateSession
<1>10. CASE ResumeRunning(c)
  <2>1. ControlOK'
    BY <1>10 DEF ResumeRunning, ControlOK, ServiceState
  <2>2. EventsOK'
    BY <1>10 DEF ResumeRunning, EventsOK
  <2>3. RequestsOK'
    BY <1>10, GotoType DEF ResumeRunning, PcSteps, Return
  <2> QED
    BY <1>10, <2>1, <2>2, <2>3, Frame DEF ResumeRunning
<1> QED
  BY <1>1, <1>2, <1>3, <1>4, <1>5, <1>6, <1>7, <1>8, <1>9, <1>10
  DEF PauseStep

\* So does the deletion of a session.
LEMMA DeleteKeepsTypes ==
  ASSUME TypeInv, NEW c \in Callers, DeleteStep(c)
  PROVE  TypeInv'
<1> USE DEF TypeInv, TypeOK, lock, events, audio, session, worker
<1>1. CASE DeleteCheck(c)
  <2>1. RequestsOK'
    BY <1>1, GotoType DEF DeleteCheck, PcSteps, DeleteSteps
  <2> QED
    BY <1>1, <2>1, Frame DEF DeleteCheck
<1>2. CASE DeleteRow(c)
  <2>1. RowsOK'
    BY <1>2 DEF DeleteRow, RowsOK
  <2>2. RequestsOK'
    BY <1>2, GotoType DEF DeleteRow, Return, PcSteps
  <2> QED
    BY <1>2, <2>1, <2>2, Frame DEF DeleteRow
<1> QED
  BY <1>1, <1>2 DEF DeleteStep

\* So does the worker's loop with its error and cleanup paths.
LEMMA WorkerKeepsTypes ==
  ASSUME TypeInv, NEW w \in Epochs, WorkerStep(w)
  PROVE  TypeInv'
<1> USE DEF TypeInv, TypeOK, lock, events, audio, session, worker
<1>1. CASE WorkerEntry(w)
  <2>1. WorkersOK' /\ WindowInRange'
    BY <1>1, WGotoType DEF WorkerEntry, WorkerSteps
  <2> QED
    BY <1>1, <2>1, Frame DEF WorkerEntry
<1>2. CASE WorkerTop(w)
  <2>1. WorkersOK' /\ WindowInRange'
    BY <1>2 DEF WorkerTop, WorkersOK, WindowInRange, WorkerSteps, WGoto
  <2> QED
    BY <1>2, <2>1, Frame DEF WorkerTop
<1>3. CASE TakeCapture(w, "pausing", "parking")
  <2>1. NamesOK'
    BY <1>3, ServiceAssumption DEF TakeCapture, NamesOK, None
  <2>2. WorkersOK' /\ WindowInRange'
    BY <1>3
    DEF TakeCapture, WorkersOK, WindowInRange, WorkerSteps, WGoto, NamesOK
  <2> QED
    BY <1>3, <2>1, <2>2, Frame DEF TakeCapture
<1>4. CASE WorkerParked(w)
  <2>1. EventsOK'
    BY <1>4 DEF WorkerParked, EventsOK
  <2>2. MicOK'
    BY <1>4, CloseType DEF WorkerParked
  <2>3. WorkersOK' /\ WindowInRange'
    BY <1>4, ServiceAssumption
    DEF WorkerParked, WorkersOK, WindowInRange, WorkerSteps, WGoto, None
  <2> QED
    BY <1>4, <2>1, <2>2, <2>3, Frame DEF WorkerParked
<1>5. CASE WorkerPoll(w)
  <2>1. WorkersOK' /\ WindowInRange'
    BY <1>5, ServiceAssumption
    DEF WorkerPoll, WorkersOK, WindowInRange, WorkerSteps, WGoto
  <2> QED
    BY <1>5, <2>1, Frame DEF WorkerPoll
<1>6. CASE WorkerRequest(w)
  <2>1. Sendable => capture \in Epochs
    BY ServiceAssumption DEF Sendable, NamesOK, Epochs, None
  <2>2. heard' \in [Epochs -> 0 .. MaxEpoch]
    BY <1>6, <2>1 DEF WorkerRequest, WorkersOK, NamesOK
  <2>3. wpc' \in [Epochs -> WorkerSteps] /\ UNCHANGED <<tick, held>>
    BY <1>6 DEF WorkerRequest, WorkersOK, WorkerSteps, WGoto
  <2>4. WindowInRange'
    BY <1>6, <2>1 DEF WorkerRequest, WorkersOK, WindowInRange, WGoto
  <2> QED
    BY <1>6, <2>2, <2>3, <2>4, Frame DEF WorkerRequest, WorkersOK
<1>7. CASE WorkerAnswer(w)
  <2>1. NamesOK'
    <3>1. aggregator.epoch \in 0 .. MaxEpoch
      BY DEF AggregatorOK
    <3> QED
      BY <1>7, <3>1 DEF WorkerAnswer, WriteRow, Written, NamesOK
  <2>2. AggregatorOK'
    <3>1. tick[w] \in 0 .. MaxTick /\ heard[w] \in Epochs
      BY <1>7, ServiceAssumption DEF WorkerAnswer, WorkersOK, WindowInRange
    <3>2. CASE UNCHANGED aggregator
      BY <3>2 DEF AggregatorOK
    <3>3. CASE aggregator' = [aggregator EXCEPT !.last = tick[w],
                                                !.text = @ \cup {heard[w]}]
      BY <3>1, <3>3 DEF AggregatorOK
    <3> QED
      BY <1>7, <3>2, <3>3 DEF WorkerAnswer
  <2>3. RowsOK'
    <3>1. aggregator'.text \in SUBSET Epochs
      BY <2>2 DEF AggregatorOK
    <3> QED
      BY <1>7, <3>1 DEF WorkerAnswer, WriteRow, Written, RowsOK
  <2>4. WorkersOK' /\ WindowInRange'
    BY <1>7, ServiceAssumption
    DEF WorkerAnswer, WorkersOK, WindowInRange, WorkerSteps, WGoto
  <2> QED
    BY <1>7, <2>1, <2>2, <2>3, <2>4, Frame DEF WorkerAnswer
<1>8. CASE WorkerRaised(w)
  <2>1. ControlOK'
    BY <1>8 DEF WorkerRaised, ControlOK, ServiceState
  <2>2. RowsOK' /\ UNCHANGED cur
    BY <1>8 DEF WorkerRaised, WriteRow, Written, RowsOK
  <2>3. WorkersOK' /\ WindowInRange'
    BY <1>8, WGotoType DEF WorkerRaised, WorkerSteps
  <2> QED
    BY <1>8, <2>1, <2>2, <2>3, Frame DEF WorkerRaised
<1>9. CASE WorkerFailing(w)
  <2>1. ControlOK'
    BY <1>9 DEF WorkerFailing, StateAfterFailure, ControlOK, ServiceState
  <2>2. WorkersOK' /\ WindowInRange'
    BY <1>9, WGotoType DEF WorkerFailing, WorkerSteps
  <2> QED
    BY <1>9, <2>1, <2>2, Frame DEF WorkerFailing
<1>10. CASE WorkerFinal(w)
  <2>1. NamesOK'
    <3>1. aggregator.epoch \in 0 .. MaxEpoch
      BY DEF AggregatorOK
    <3> QED
      BY <1>10, <3>1 DEF WorkerFinal, WriteRow, Written, NamesOK
  <2>2. RowsOK'
    BY <1>10 DEF WorkerFinal, WriteRow, Written, RowsOK, AggregatorOK
  <2>3. WorkersOK' /\ WindowInRange'
    BY <1>10, WGotoType DEF WorkerFinal, WorkerSteps
  <2> QED
    BY <1>10, <2>1, <2>2, <2>3, Frame DEF WorkerFinal
<1>11. CASE TakeCapture(w, "cleanup", "closing")
  <2>1. NamesOK'
    BY <1>11, ServiceAssumption DEF TakeCapture, NamesOK, None
  <2>2. WorkersOK' /\ WindowInRange'
    BY <1>11
    DEF TakeCapture, WorkersOK, WindowInRange, WorkerSteps, WGoto, NamesOK
  <2> QED
    BY <1>11, <2>1, <2>2, Frame DEF TakeCapture
<1>12. CASE WorkerClosing(w)
  <2>1. EventsOK'
    BY <1>12 DEF WorkerClosing, EventsOK
  <2>2. MicOK'
    BY <1>12, CloseType DEF WorkerClosing
  <2>3. WorkersOK' /\ WindowInRange'
    BY <1>12, ServiceAssumption
    DEF WorkerClosing, WorkersOK, WindowInRange, WorkerSteps, WGoto, None
  <2> QED
    BY <1>12, <2>1, <2>2, <2>3, Frame DEF WorkerClosing
<1>13. CASE WorkerExit(w)
  <2>1. ControlOK'
    BY <1>13 DEF WorkerExit, ControlOK, ServiceState
  <2>2. WorkersOK' /\ WindowInRange'
    BY <1>13, WGotoType DEF WorkerExit, WorkerSteps
  <2> QED
    BY <1>13, <2>1, <2>2, Frame DEF WorkerExit
<1> QED
  BY <1>1, <1>2, <1>3, <1>4, <1>5, <1>6, <1>7, <1>8, <1>9, <1>10, <1>11,
     <1>12, <1>13
  DEF WorkerStep

\* So do the arrival of a request and a change of the settings.
LEMMA RequestKeepsTypes ==
  ASSUME TypeInv,
         \/ UpdateConfig
         \/ \E c \in Callers : Dispatch(c) \/ DispatchDelete(c) \/ StartBegin(c)
  PROVE  TypeInv'
<1> USE DEF TypeInv, TypeOK, lock, events, audio, session, worker
<1>1. CASE UpdateConfig
  <2>1. NamesOK'
    BY <1>1, ServiceAssumption DEF UpdateConfig, NamesOK
  <2> QED
    BY <1>1, <2>1, Frame DEF UpdateConfig
<1>2. ASSUME NEW c \in Callers, Dispatch(c)
      PROVE  TypeInv'
  <2>1. RequestsOK'
    BY <1>2, GotoType DEF Dispatch, PcSteps
  <2> QED
    BY <1>2, <2>1, Frame DEF Dispatch
<1>4. ASSUME NEW c \in Callers, DispatchDelete(c)
      PROVE  TypeInv'
  <2>1. RequestsOK'
    BY <1>4, ServiceAssumption
    DEF DispatchDelete, RequestsOK, Goto, DeleteSteps, Epochs
  <2> QED
    BY <1>4, <2>1, Frame DEF DispatchDelete
<1>3. ASSUME NEW c \in Callers, StartBegin(c)
      PROVE  TypeInv'
  <2>1. ControlOK' /\ EventsOK'
    BY <1>3 DEF StartBegin, ControlOK, EventsOK, ServiceState
  <2>2. NamesOK'
    BY <1>3, ServiceAssumption DEF StartBegin, NewEpoch, NamesOK
  <2>3. RequestsOK'
    BY <1>3, ServiceAssumption
    DEF StartBegin, NewEpoch, RequestsOK, NamesOK, Goto, StartSteps
  <2> QED
    BY <1>3, <2>1, <2>2, <2>3, Frame DEF StartBegin
<1> QED
  BY <1>1, <1>2, <1>3, <1>4

\* The service starts with fields of the right types.
LEMMA InitTypes == Init => TypeInv
<1> SUFFICES ASSUME Init PROVE TypeInv
  OBVIOUS
<1> USE ServiceAssumption DEF Init, None
<1>1. ControlOK /\ EventsOK
  BY DEF ControlOK, EventsOK, ServiceState
<1>6. NamesOK
  BY DEF NamesOK
<1>2. MicOK /\ RowsOK
  BY DEF MicOK, RowsOK
<1>3. AggregatorOK
  BY DEF AggregatorOK
<1>4. RequestsOK
  BY DEF RequestsOK
<1>5. WorkersOK /\ WindowInRange
  BY DEF WorkersOK, WorkerSteps, WindowInRange
<1> QED
  BY <1>1, <1>2, <1>3, <1>4, <1>5, <1>6 DEF TypeInv, TypeOK

\* No step, and no stutter, breaks the types.
LEMMA NextTypes == TypeInv /\ [Next]_vars => TypeInv'
<1> SUFFICES ASSUME TypeInv, [Next]_vars PROVE TypeInv'
  OBVIOUS
<1>1. CASE UNCHANGED vars
  BY <1>1, Frame DEF TypeInv, TypeOK, vars, lock, events, audio, session, worker
<1>2. CASE Next
  BY <1>2, RequestKeepsTypes, StartKeepsTypes, StopKeepsTypes, PauseKeepsTypes,
     DeleteKeepsTypes, WorkerKeepsTypes
  DEF Next, RequestStep
<1> QED
  BY <1>1, <1>2

\* Every variable keeps its type, whatever requests overlap and whatever fails.
THEOREM TypeCorrect == Spec => []TypeOK
<1>1. Spec => []TypeInv
  BY InitTypes, NextTypes, PTL DEF Spec
<1> QED
  BY <1>1, PTL DEF TypeInv

-----------------------------------------------------------------------------
(***************************************************************************)
(* One driver, beside any number of deletions: at most one worker is       *)
(* alive, and worker_thread knows it.  The invariant adds what the code    *)
(* relies on at each statement: nothing runs while start is under way, nor *)
(* once stop has found no worker, and the thread that stop joins is still  *)
(* the one in worker_thread.                                               *)
(***************************************************************************)
Passive    == {"idle"} \cup DeleteSteps
OneDriver  == \A c, d \in Callers : pc[c] \in Passive \/ pc[d] \in Passive \/ c = d
OneClient  == \A c, d \in Callers : c = d
NobodyRuns == \A w \in Epochs : ~Alive(w)
Unmanned   == StartSteps \cup {"release", "forget"}

WorkerInv == /\ SingleWorker
             /\ \A c \in Callers :
                  /\ pc[c] \in Unmanned => NobodyRuns
                  /\ pc[c] = "join" => ref[c] = workerThread

\* A new service has no worker.
LEMMA InitWorkerInv == Init => WorkerInv
BY DEF Init, WorkerInv, SingleWorker, Alive, Unmanned, StartSteps

\* Without a live worker in worker_thread there is no live worker at all.
LEMMA NoOtherWorker ==
  ASSUME SingleWorker, ~Alive(workerThread)
  PROVE  NobodyRuns
BY DEF SingleWorker, NobodyRuns, Alive

\* Who is alive does not change unless a thread or worker_thread does.
LEMMA SameWorkers ==
  ASSUME UNCHANGED <<wpc, workerThread>>
  PROVE  /\ SingleWorker => SingleWorker'
         /\ NobodyRuns => NobodyRuns'
BY DEF SingleWorker, NobodyRuns, Alive

\* A client alone is the driver.
LEMMA ClientDrives == OneClient => OneDriver
BY DEF OneClient, OneDriver

\* While the driver takes a step, every other request is a deletion or none.
LEMMA OthersWait ==
  ASSUME OneDriver, TypeInv, NEW c \in Callers,
         StartStep(c) \/ StopStep(c) \/ PauseStep(c),
         NEW d \in Callers, d # c
  PROVE  pc'[d] \in Passive
<1>1. pc[c] \notin Passive
  BY DEF StartStep, StartPreflight, StartInit, StartMake, StartOpen,
     StartRollback, StartRunning, CreateSession, StartThread, StartSpawn,
     StopStep, StopBegin, StopUnpause, StopSignal, StopJoin, StopAbandon,
     StopLateClose, FinalizeDangling, ClearSession, StopLateDone, StopRelease,
     StopForget, StopDone, PauseStep, Pause, ResumeBegin, ResumeWait, ResumeAck,
     ResumeMake, ResumeOpen, ResumeRunning, Passive, DeleteSteps
<1>2. pc'[d] = pc[d]
  BY DEF TypeInv, TypeOK, RequestsOK, Goto, Return, ResumeFails, StartStep,
     StartPreflight, StartInit, StartMake, StartOpen, StartRollback,
     StartRunning, CreateSession, StartThread, StartSpawn, StopStep, StopBegin,
     StopUnpause, StopSignal, StopJoin, StopAbandon, StopLateClose,
     FinalizeDangling, ClearSession, StopLateDone, StopRelease, StopForget,
     StopDone, PauseStep, Pause, ResumeBegin, ResumeWait, ResumeAck, ResumeMake,
     ResumeOpen, ResumeRunning
<1> QED
  BY <1>1, <1>2 DEF OneDriver

\* So the invariant is a matter of the driver's own request.
LEMMA DriversWorkerInv ==
  ASSUME OneDriver, TypeInv, NEW c \in Callers,
         StartStep(c) \/ StopStep(c) \/ PauseStep(c),
         SingleWorker', pc'[c] \in Unmanned => NobodyRuns',
         pc'[c] = "join" => ref'[c] = workerThread'
  PROVE  WorkerInv'
<1>1. \A d \in Callers : d # c => pc'[d] \notin Unmanned \cup {"join"}
  BY OthersWait DEF Passive, DeleteSteps, Unmanned, StartSteps
<1> QED
  BY <1>1 DEF WorkerInv

\* start makes its worker after is_alive found none, and nobody else makes one.
LEMMA StartKeepsWorkerInv ==
  ASSUME OneDriver, TypeInv, WorkerInv, NEW c \in Callers, StartStep(c)
  PROVE  WorkerInv'
<1> USE DEF TypeInv, TypeOK, worker
<1>1. NobodyRuns
  BY DEF WorkerInv, Unmanned, StartSteps, StartStep, StartPreflight, StartInit,
     StartMake, StartOpen, StartRollback, StartRunning, CreateSession,
     StartThread, StartSpawn
<1>2. pc'[c] # "join"
  BY DEF RequestsOK, Goto, Return, StartStep, StartPreflight, StartInit,
     StartMake, StartOpen, StartRollback, StartRunning, CreateSession,
     StartThread, StartSpawn
<1>3. CASE StartThread(c)
  <2>1. NobodyRuns'
    BY <1>1, <1>3 DEF StartThread, NobodyRuns, Alive, WorkersOK
  <2> QED
    BY <1>2, <2>1, DriversWorkerInv DEF SingleWorker, NobodyRuns
<1>4. CASE StartSpawn(c)
  <2>1. SingleWorker'
    BY <1>1, <1>4 DEF StartSpawn, SingleWorker, NobodyRuns, Alive, WorkersOK
  <2>2. pc'[c] = "idle"
    BY <1>4 DEF StartSpawn, Return, Goto, RequestsOK
  <2> QED
    BY <2>1, <2>2, DriversWorkerInv DEF Unmanned, StartSteps
<1>5. CASE UNCHANGED <<wpc, workerThread>>
  BY <1>1, <1>2, <1>5, SameWorkers, DriversWorkerInv DEF WorkerInv
<1> QED
  BY <1>3, <1>4, <1>5 DEF StartStep, StartPreflight, StartInit, StartMake,
     StartOpen, StartRollback, StartRunning, CreateSession

\* stop forgets the worker only once its join returned.
LEMMA StopKeepsWorkerInv ==
  ASSUME OneDriver, TypeInv, WorkerInv, NEW c \in Callers, StopStep(c)
  PROVE  WorkerInv'
<1> USE DEF TypeInv, TypeOK, worker
<1>1. CASE StopSignal(c)
  <2>1. SingleWorker' /\ (NobodyRuns => NobodyRuns')
    BY <1>1, SameWorkers DEF StopSignal, WorkerInv
  <2>2. ref'[c] = workerThread' /\ (pc'[c] \in Unmanned => NobodyRuns)
    BY <1>1, NoOtherWorker
    DEF StopSignal, Goto, RequestsOK, WorkerInv, Unmanned, StartSteps
  <2> QED
    BY <2>1, <2>2, DriversWorkerInv
<1>2. CASE StopJoin(c)
  <2>1. SingleWorker' /\ (NobodyRuns => NobodyRuns')
    BY <1>2, SameWorkers DEF StopJoin, WorkerInv
  <2>2. pc'[c] # "join" /\ (pc'[c] \in Unmanned => NobodyRuns)
    BY <1>2, NoOtherWorker
    DEF StopJoin, Goto, RequestsOK, WorkerInv, Unmanned, StartSteps
  <2> QED
    BY <2>1, <2>2, DriversWorkerInv
<1>3. CASE StopRelease(c)
  <2>1. NobodyRuns' /\ SingleWorker'
    BY <1>3, SameWorkers DEF StopRelease, WorkerInv, Unmanned
  <2>2. pc'[c] # "join"
    BY <1>3 DEF StopRelease, Goto, RequestsOK
  <2> QED
    BY <2>1, <2>2, DriversWorkerInv
<1>4. CASE StopForget(c)
  <2>1. NobodyRuns' /\ SingleWorker'
    BY <1>4 DEF StopForget, WorkerInv, Unmanned, NobodyRuns, SingleWorker, Alive
  <2>2. pc'[c] # "join"
    BY <1>4 DEF StopForget, Goto, RequestsOK
  <2> QED
    BY <2>1, <2>2, DriversWorkerInv
<1>5. CASE pc'[c] \notin Unmanned \cup {"join"} /\ UNCHANGED <<wpc, workerThread>>
  BY <1>5, SameWorkers, DriversWorkerInv DEF WorkerInv
<1> QED
  BY <1>1, <1>2, <1>3, <1>4, <1>5
  DEF StopStep, StopBegin, StopUnpause, StopAbandon, StopLateClose,
      FinalizeDangling, ClearSession, StopLateDone, StopDone, Return, Goto,
      RequestsOK, Unmanned, StartSteps

\* pause and resume leave the workers alone.
LEMMA PauseKeepsWorkerInv ==
  ASSUME OneDriver, TypeInv, WorkerInv, NEW c \in Callers, PauseStep(c)
  PROVE  WorkerInv'
<1>1. pc'[c] \notin Unmanned \cup {"join"} /\ UNCHANGED <<wpc, workerThread>>
  BY DEF TypeInv, TypeOK, worker, PauseStep, Pause, ResumeBegin, ResumeWait,
     ResumeAck, FinalizeDangling, ClearSession, ResumeMake, ResumeOpen,
     ResumeFails, CreateSession, ResumeRunning, Return, Goto, RequestsOK,
     Unmanned, StartSteps
<1> QED
  BY <1>1, SameWorkers, DriversWorkerInv DEF WorkerInv

\* So does a deletion.
LEMMA DeleteKeepsWorkerInv ==
  ASSUME TypeInv, WorkerInv, NEW c \in Callers, DeleteStep(c)
  PROVE  WorkerInv'
<1>1. /\ pc'[c] \notin Unmanned \cup {"join"} /\ UNCHANGED <<wpc, workerThread>>
      /\ \A d \in Callers : d # c => pc'[d] = pc[d] /\ ref'[d] = ref[d]
  BY DEF TypeInv, TypeOK, worker, DeleteStep, DeleteCheck, DeleteRow, Return,
     Goto, RequestsOK, Unmanned, StartSteps
<1> QED
  BY <1>1, SameWorkers DEF WorkerInv

\* A worker that takes a step is alive, so nobody counts on its absence.
LEMMA WorkerKeepsWorkerInv ==
  ASSUME TypeInv, WorkerInv, NEW w \in Epochs, WorkerStep(w)
  PROVE  WorkerInv'
<1>1. Alive(w) /\ UNCHANGED <<workerThread, pc, ref>>
  BY DEF Alive, Epochs, None, WorkerStep, WorkerEntry, WorkerTop, TakeCapture,
     WorkerParked, WorkerPoll, WorkerRequest, WorkerAnswer, WorkerRaised,
     WorkerFailing, WorkerFinal, WorkerClosing, WorkerExit
<1>2. \A v \in Epochs : v # w => wpc'[v] = wpc[v]
  BY DEF TypeInv, TypeOK, WorkersOK, WGoto, WorkerStep, WorkerEntry, WorkerTop,
     TakeCapture, WorkerParked, WorkerPoll, WorkerRequest, WorkerAnswer,
     WorkerRaised, WorkerFailing, WorkerFinal, WorkerClosing, WorkerExit
<1>3. SingleWorker'
  BY <1>1, <1>2 DEF WorkerInv, SingleWorker, Alive
<1> QED
  BY <1>1, <1>3 DEF WorkerInv, NobodyRuns

\* No step of the driver, of a deletion or of a worker lets a second one in.
LEMMA NextWorkerInv ==
  ASSUME OneDriver, TypeInv, WorkerInv, [Next]_vars
  PROVE  WorkerInv'
<1>1. CASE UpdateConfig \/ UNCHANGED vars
  <2>1. UNCHANGED <<wpc, workerThread, pc, ref>>
    BY <1>1 DEF UpdateConfig, vars, worker
  <2> QED
    BY <2>1, SameWorkers DEF WorkerInv
<1>2. ASSUME NEW c \in Callers, Dispatch(c)
      PROVE  WorkerInv'
  <2>1. /\ pc'[c] \notin Unmanned \cup {"join"} /\ UNCHANGED <<wpc, workerThread>>
        /\ \A d \in Callers : d # c => pc'[d] = pc[d] /\ ref'[d] = ref[d]
    BY <1>2, ServiceAssumption
    DEF Dispatch, Goto, worker, TypeInv, TypeOK, RequestsOK, Unmanned, StartSteps
  <2> QED
    BY <2>1, SameWorkers DEF WorkerInv
<1>4. ASSUME NEW c \in Callers, DispatchDelete(c)
      PROVE  WorkerInv'
  <2>1. /\ pc'[c] \notin Unmanned \cup {"join"} /\ UNCHANGED <<wpc, workerThread>>
        /\ \A d \in Callers : d # c => pc'[d] = pc[d] /\ ref'[d] = ref[d]
    BY <1>4
    DEF DispatchDelete, Goto, worker, TypeInv, TypeOK, RequestsOK, Unmanned,
        StartSteps
  <2> QED
    BY <2>1, SameWorkers DEF WorkerInv
<1>3. ASSUME NEW c \in Callers, StartBegin(c)
      PROVE  WorkerInv'
  <2>1. NobodyRuns /\ UNCHANGED <<wpc, workerThread>>
    BY <1>3, NoOtherWorker DEF StartBegin, MayStart, WorkerInv, worker
  <2>2. /\ pc'[c] # "join"
        /\ \A d \in Callers : d # c => pc'[d] = pc[d] /\ ref'[d] = ref[d]
    BY <1>3 DEF StartBegin, NewEpoch, Goto, TypeInv, TypeOK, RequestsOK
  <2> QED
    BY <2>1, <2>2, SameWorkers DEF WorkerInv
<1> QED
  BY <1>1, <1>2, <1>3, <1>4, StartKeepsWorkerInv, StopKeepsWorkerInv,
     PauseKeepsWorkerInv, DeleteKeepsWorkerInv, WorkerKeepsWorkerInv
  DEF Next, RequestStep

\* As long as start, stop, pause and resume wait for each other's answers there
\* are never two workers, however many deletions run beside them: start's is_alive
\* test is enough, whatever fails or times out (start 280-293, stop 396-413).
THEOREM OneWorkerPerDriver == Spec /\ []OneDriver => []SingleWorker
<1>1. OneDriver /\ TypeInv /\ WorkerInv /\ [Next]_vars => WorkerInv'
  BY NextWorkerInv
<1>2. Spec /\ []OneDriver => []WorkerInv
  BY <1>1, InitWorkerInv, InitTypes, NextTypes, PTL DEF Spec
<1> QED
  BY <1>2, PTL DEF WorkerInv
-----------------------------------------------------------------------------
(***************************************************************************)
(* One client: no phase without a worker.  While no start or stop is under *)
(* way, a running or paused session has a worker that is not about to end. *)
(* A resume may say "running" because it has an acknowledgement, and the   *)
(* worker that gave it stays parked as long as the pause is set; a worker  *)
(* that failed before has left no acknowledgement.                         *)
(***************************************************************************)
Finishing    == {"final", "cleanup", "closing", "exit"}
Parking      == {"top", "pausing", "parking", "poll"}
Prepared     == StartSteps \ {"preflight", "init"}
Acknowledged == ResumeSteps \ {"wait"}
ParkedWorker == Alive(workerThread) /\ wpc[workerThread] \in Parking
Settled      == \A c \in Callers : pc[c] \notin StartSteps \cup StopSteps

Manned == state \in {"running", "paused"} =>
    /\ running
    /\ Alive(workerThread) /\ wpc[workerThread] \notin Finishing
    /\ ~stopEvent
    /\ state = "paused" => paused

Signals == /\ stopEvent => ~paused
           /\ paused /\ captureStopped => ParkedWorker
           /\ Settled => Manned

\* What a start, a stop and a resume rely on at each of their statements.
Starts(c) ==
    /\ pc[c] \in StartSteps => ref[c] # None /\ ~captureStopped
    /\ pc[c] \in {"preflight", "init"} => state = "preflight"
    /\ pc[c] \in Prepared => ~stopEvent /\ ~paused
    /\ pc[c] \in {"session", "thread", "spawn"} => state = "running" /\ running
    /\ pc[c] = "spawn" => workerThread # None /\ wpc[workerThread] = "new"

Stops(c) ==
    /\ pc[c] \in StopSteps \ {"unpause"} => ~paused
    /\ pc[c] = "release" => capture # None

Resumes(c) ==
    /\ pc[c] = "wait" =>
         /\ paused
         /\ state = "paused" \/ \A w \in Epochs : ~Alive(w) \/ wpc[w] \in Finishing
    /\ pc[c] \in Acknowledged => paused /\ running /\ ParkedWorker

Served(c) == Starts(c) /\ Stops(c) /\ Resumes(c)
PhaseInv  == Signals /\ \A c \in Callers : Served(c)

\* A new service has no phase to speak of.
LEMMA InitPhase == Init => PhaseInv
BY DEF Init, PhaseInv, Signals, Manned, Served, Starts, Stops, Resumes, Prepared,
       Acknowledged, StartSteps, StopSteps, ResumeSteps

\* With one client, its request is all there is to look at.
LEMMA OneRequest ==
  ASSUME OneClient, NEW c \in Callers
  PROVE  /\ Settled <=> pc[c] \notin StartSteps \cup StopSteps
         /\ Settled' <=> pc'[c] \notin StartSteps \cup StopSteps
         /\ Signals' /\ Served(c)' => PhaseInv'
BY DEF OneClient, Settled, PhaseInv

\* start: nobody runs, so nobody interferes.
LEMMA StartKeepsPhase ==
  ASSUME OneClient, TypeInv, WorkerInv, PhaseInv, NEW c \in Callers, StartStep(c)
  PROVE  PhaseInv'
<1> USE OneRequest DEF TypeInv, TypeOK, lock, events, audio, session, worker
<1>1. NobodyRuns /\ pc[c] \in StartSteps
  BY DEF WorkerInv, Unmanned, StartSteps, StartStep, StartPreflight, StartInit,
     StartMake, StartOpen, StartRollback, StartRunning, CreateSession,
     StartThread, StartSpawn
<1>2. Served(c) /\ Signals
  BY DEF PhaseInv
<1>3. ~captureStopped /\ UNCHANGED captureStopped
  BY <1>1, <1>2 DEF Served, Starts, StartStep, StartPreflight, StartInit,
     StartMake, StartOpen, StartRollback, StartRunning, CreateSession,
     StartThread, StartSpawn
<1>4. CASE StartPreflight(c)
  <2>0. state = "preflight"
    BY <1>2, <1>4 DEF StartPreflight, Served, Starts
  <2>1. \/ pc'[c] = "init" /\ state' = "preflight"
        \/ pc'[c] = "idle" /\ state' = "error"
    BY <1>4, <2>0 DEF StartPreflight, Goto, RequestsOK, lock
  <2>2. Served(c)'
    BY <1>1, <1>2, <1>3, <1>4, <2>1
    DEF StartPreflight, Served, Starts, Stops, Resumes, StartSteps, StopSteps,
        ResumeSteps, Prepared, Acknowledged
  <2>3. Signals'
    BY <1>2, <1>3, <1>4, <2>1
    DEF StartPreflight, Signals, Manned, StartSteps
  <2> QED
    BY <2>2, <2>3
<1>5. CASE StartInit(c)
  <2>1. pc'[c] \in {"make", "rollback"}
    BY <1>5 DEF StartInit, Goto, RequestsOK
  <2>2. Served(c)'
    BY <1>1, <1>2, <1>3, <1>5, <2>1
    DEF StartInit, Served, Starts, Stops, Resumes, StartSteps, StopSteps,
        ResumeSteps, Prepared, Acknowledged
  <2>3. Signals'
    BY <1>3, <1>5, <2>1 DEF StartInit, Signals, StartSteps
  <2> QED
    BY <2>2, <2>3
<1>6. CASE StartMake(c) \/ StartOpen(c) \/ StartRunning(c)
            \/ CreateSession(c, "session", "thread")
  <2>1. /\ pc[c] \in Prepared /\ pc'[c] \in Prepared \ {"spawn"}
        /\ pc'[c] \in {"session", "thread"} => state' = "running" /\ running'
        /\ UNCHANGED <<ref, stopEvent, paused, wpc, workerThread>>
    BY <1>2, <1>6 DEF StartMake, StartOpen, StartRunning, CreateSession, Goto,
       RequestsOK, Prepared, StartSteps, Served, Starts
  <2>2. Served(c)'
    BY <1>1, <1>2, <1>3, <2>1
    DEF Served, Starts, Stops, Resumes, StartSteps, StopSteps, ResumeSteps,
        Prepared, Acknowledged
  <2>3. Signals'
    BY <1>2, <1>3, <2>1 DEF Signals, Served, Starts, StartSteps, Prepared
  <2> QED
    BY <2>2, <2>3
<1>7. CASE StartRollback(c)
  <2>1. pc'[c] = "idle" /\ state' = "error" /\ UNCHANGED <<stopEvent, paused>>
    BY <1>7 DEF StartRollback, Return, Goto, RequestsOK
  <2>2. Served(c)'
    BY <2>1 DEF Served, Starts, Stops, Resumes, StartSteps, StopSteps,
       ResumeSteps, Prepared, Acknowledged
  <2> QED
    BY <1>2, <1>3, <2>1, <2>2 DEF Signals, Manned
<1>8. CASE StartThread(c)
  <2>1. /\ pc[c] = "thread" /\ pc'[c] = "spawn"
        /\ UNCHANGED <<ref, stopEvent, paused, lock>>
        /\ workerThread' = ref[c] /\ ref[c] \in Epochs
        /\ wpc'[ref[c]] = "new"
    BY <1>2, <1>8, ServiceAssumption
    DEF StartThread, Goto, RequestsOK, WorkersOK, Served, Starts, StartSteps,
        Epochs, None
  <2>2. Served(c)'
    BY <1>2, <1>3, <2>1
    DEF Served, Starts, Stops, Resumes, StartSteps, StopSteps, ResumeSteps,
        Prepared, Acknowledged, Epochs, None
  <2>3. Signals'
    BY <1>2, <1>3, <2>1 DEF Signals, StartSteps, Served, Starts, Prepared
  <2> QED
    BY <2>2, <2>3
<1>9. CASE StartSpawn(c)
  <2>1. /\ pc[c] = "spawn" /\ pc'[c] = "idle"
        /\ UNCHANGED <<stopEvent, paused, lock, workerThread>>
        /\ workerThread \in Epochs /\ workerThread # None
        /\ wpc'[workerThread] = "entry"
    BY <1>2, <1>9, ServiceAssumption
    DEF StartSpawn, Return, Goto, RequestsOK, WorkersOK, NamesOK, Served, Starts,
        Epochs, None
  <2>2. Served(c)'
    BY <2>1 DEF Served, Starts, Stops, Resumes, StartSteps, StopSteps,
       ResumeSteps, Prepared, Acknowledged
  <2>3. state' = "running" /\ running' /\ ~stopEvent' /\ ~paused'
    BY <1>2, <2>1 DEF Served, Starts, Prepared, StartSteps
  <2>4. Alive(workerThread)' /\ wpc'[workerThread'] \notin Finishing
    BY <2>1 DEF Alive, Finishing
  <2> QED
    BY <1>3, <2>2, <2>3, <2>4 DEF Signals, Manned
<1> QED
  BY <1>4, <1>5, <1>6, <1>7, <1>8, <1>9 DEF StartStep

\* stop takes back the pause before it signals, and ends in idle or error.
LEMMA StopKeepsPhase ==
  ASSUME OneClient, TypeInv, WorkerInv, PhaseInv, NEW c \in Callers, StopStep(c)
  PROVE  PhaseInv'
<1> USE OneRequest DEF TypeInv, TypeOK, lock, events, audio, session, worker
<1>1. Served(c) /\ Signals
  BY DEF PhaseInv
<1>2. CASE StopBegin(c)
  <2>1. /\ pc'[c] = "unpause" \/ (pc'[c] = "idle" /\ state \notin {"running", "paused"})
        /\ UNCHANGED <<lock, events, workerThread, wpc>>
    BY <1>2 DEF StopBegin, Goto, RequestsOK
  <2>2. Served(c)'
    BY <2>1 DEF Served, Starts, Stops, Resumes, StartSteps, StopSteps,
       ResumeSteps, Prepared, Acknowledged
  <2>3. Signals'
    BY <1>1, <2>1 DEF Signals, Manned, ParkedWorker, Alive, StopSteps
  <2> QED
    BY <2>2, <2>3
<1>3. CASE StopUnpause(c)
  <2>1. pc'[c] = "signal" /\ ~paused'
    BY <1>3 DEF StopUnpause, Goto, RequestsOK
  <2>2. Served(c)'
    BY <2>1 DEF Served, Starts, Stops, Resumes, StartSteps, StopSteps,
       ResumeSteps, Prepared, Acknowledged
  <2> QED
    BY <2>1, <2>2 DEF Signals, StopSteps
<1>4. CASE pc[c] \in StopSteps \ {"unpause"} /\ UNCHANGED paused
           /\ pc'[c] \in StopSteps \ {"unpause"}
           /\ (pc'[c] = "release" => capture' # None)
  <2>1. ~paused'
    BY <1>1, <1>4 DEF Served, Stops
  <2>2. Served(c)'
    BY <1>4, <2>1 DEF Served, Starts, Stops, Resumes, StartSteps, StopSteps,
       ResumeSteps, Prepared, Acknowledged
  <2> QED
    BY <1>4, <2>1, <2>2 DEF Signals
<1>5. CASE pc[c] \in StopSteps \ {"unpause"} /\ UNCHANGED paused
           /\ pc'[c] = "idle" /\ state' \in {"idle", "error"}
  <2>1. ~paused'
    BY <1>1, <1>5 DEF Served, Stops
  <2>2. Served(c)'
    BY <1>5 DEF Served, Starts, Stops, Resumes, StartSteps, StopSteps,
       ResumeSteps, Prepared, Acknowledged
  <2> QED
    BY <1>5, <2>1, <2>2 DEF Signals, Manned
<1>7. CASE StopSignal(c) \/ StopJoin(c) \/ StopAbandon(c) \/ StopLateClose(c)
           \/ StopForget(c)
  <2>1. /\ pc[c] \in StopSteps \ {"unpause"} /\ pc'[c] \in StopSteps \ {"unpause"}
        /\ UNCHANGED paused /\ (pc'[c] = "release" => capture' # None)
    BY <1>7 DEF StopSignal, StopJoin, StopAbandon, StopLateClose, StopForget, Goto,
       RequestsOK, StopSteps
  <2> QED
    BY <1>4, <2>1
<1>8. CASE StopRelease(c)
  <2>1. capture # None
    BY <1>1, <1>8 DEF StopRelease, Served, Stops
  <2>2. pc[c] = "release" /\ pc'[c] = "forget" /\ UNCHANGED paused
    BY <1>8, <2>1 DEF StopRelease, Goto, RequestsOK
  <2> QED
    BY <1>4, <2>2 DEF StopSteps
<1>9. CASE FinalizeDangling(c, "late_finalize", "late_clear")
           \/ ClearSession(c, "late_clear", "late_done")
           \/ FinalizeDangling(c, "finalize", "clear")
           \/ ClearSession(c, "clear", "done")
  <2>1. /\ pc[c] \in StopSteps \ {"unpause"}
        /\ pc'[c] \in {"late_clear", "late_done", "clear", "done"}
        /\ UNCHANGED paused
    BY <1>9 DEF FinalizeDangling, ClearSession, Goto, RequestsOK, StopSteps
  <2> QED
    BY <1>4, <2>1 DEF StopSteps
<1>10. CASE StopLateDone(c) \/ StopDone(c)
  <2>1. /\ pc[c] \in StopSteps \ {"unpause"} /\ UNCHANGED paused
        /\ pc'[c] = "idle" /\ state' \in {"idle", "error"}
    BY <1>10 DEF StopLateDone, StopDone, Return, Goto, RequestsOK, StopSteps
  <2> QED
    BY <1>5, <2>1
<1> QED
  BY <1>2, <1>3, <1>7, <1>8, <1>9, <1>10 DEF StopStep

\* pause begins without an acknowledgement, and resume waits for one.
LEMMA PauseKeepsPhase ==
  ASSUME OneClient, TypeInv, WorkerInv, PhaseInv, NEW c \in Callers, PauseStep(c)
  PROVE  PhaseInv'
<1> USE OneRequest DEF TypeInv, TypeOK, lock, events, audio, session, worker
<1>1. Served(c) /\ Signals /\ UNCHANGED <<wpc, workerThread, stopEvent, running>>
  BY DEF PhaseInv, PauseStep, Pause, ResumeBegin, ResumeWait, ResumeAck,
     FinalizeDangling, ClearSession, ResumeMake, ResumeOpen, CreateSession,
     ResumeRunning
<1>2. Settled
  BY DEF PauseStep, Pause, ResumeBegin, ResumeWait, ResumeAck, FinalizeDangling,
     ClearSession, ResumeMake, ResumeOpen, CreateSession, ResumeRunning,
     StartSteps, StopSteps
<1>3. Manned /\ (ParkedWorker => ParkedWorker')
  BY <1>1, <1>2 DEF Signals, ParkedWorker, Alive
<1>4. CASE Pause(c)
  <2>1. pc'[c] = "idle"
    BY <1>4 DEF Pause, Return, Goto, RequestsOK
  <2>2. Served(c)'
    BY <2>1 DEF Served, Starts, Stops, Resumes, StartSteps, StopSteps,
       ResumeSteps, Prepared, Acknowledged
  <2>3. Signals'
    BY <1>1, <1>3, <1>4 DEF Pause, Signals, Manned, Alive
  <2> QED
    BY <2>2, <2>3
<1>5. CASE ResumeBegin(c)
  <2>1. /\ pc'[c] = "idle" \/ (pc'[c] = "wait" /\ state = "paused")
        /\ UNCHANGED <<lock, events>>
    BY <1>5 DEF ResumeBegin, Return, Goto, RequestsOK
  <2>2. Served(c)'
    BY <1>3, <2>1 DEF Manned, Served, Starts, Stops, Resumes, StartSteps,
       StopSteps, ResumeSteps, Prepared, Acknowledged
  <2>3. Signals'
    BY <1>1, <1>3, <2>1 DEF Signals, Manned, Alive
  <2> QED
    BY <2>2, <2>3
<1>6. CASE ResumeWait(c)
  <2>1. /\ pc[c] = "wait"
        /\ pc'[c] = "idle" \/ (pc'[c] = "ack" /\ captureStopped)
        /\ UNCHANGED <<lock, events>>
    BY <1>6 DEF ResumeWait, Parked, Goto, RequestsOK
  <2>2. paused /\ (captureStopped => ParkedWorker)
    BY <1>1, <2>1 DEF Served, Resumes, Signals
  <2>3. captureStopped => running
    <3>1. ParkedWorker => workerThread \in Epochs
      BY ServiceAssumption DEF ParkedWorker, Alive, NamesOK, Epochs, None
    <3>2. ParkedWorker => state = "paused"
      BY <1>1, <2>1, <3>1
      DEF Served, Resumes, ParkedWorker, Parking, Finishing
    <3> QED
      BY <1>3, <2>2, <3>2 DEF Manned
  <2>4. Served(c)'
    BY <1>1, <1>3, <2>1, <2>2, <2>3
    DEF Served, Starts, Stops, Resumes, StartSteps, StopSteps, ResumeSteps,
        Prepared, Acknowledged
  <2>5. Signals'
    BY <1>1, <1>3, <2>1 DEF Signals, Manned, Alive
  <2> QED
    BY <2>4, <2>5
<1>7. CASE pc[c] \in Acknowledged /\ pc'[c] \in Acknowledged
           /\ UNCHANGED <<state, paused>> /\ (captureStopped' => captureStopped)
  <2>1. Served(c)'
    BY <1>1, <1>3, <1>7 DEF Served, Starts, Stops, Resumes, StartSteps, StopSteps,
       ResumeSteps, Prepared, Acknowledged
  <2>2. Signals'
    BY <1>1, <1>3, <1>7 DEF Signals, Manned, Alive
  <2> QED
    BY <2>1, <2>2
<1>8. CASE pc'[c] = "idle" /\ state' = "error" /\ UNCHANGED events
  <2>1. Served(c)'
    BY <1>8 DEF Served, Starts, Stops, Resumes, StartSteps, StopSteps,
       ResumeSteps, Prepared, Acknowledged
  <2>2. Signals'
    BY <1>1, <1>3, <1>8 DEF Signals, Manned
  <2> QED
    BY <2>1, <2>2
<1>9. CASE ResumeAck(c) \/ FinalizeDangling(c, "res_finalize", "res_clear")
           \/ ClearSession(c, "res_clear", "res_make")
           \/ CreateSession(c, "res_session", "res_running")
  <2>1. /\ pc[c] \in Acknowledged /\ pc'[c] \in Acknowledged
        /\ UNCHANGED <<state, paused>> /\ (captureStopped' => captureStopped)
    BY <1>9 DEF ResumeAck, FinalizeDangling, ClearSession, CreateSession, Goto,
       RequestsOK, Acknowledged, ResumeSteps
  <2> QED
    BY <1>7, <2>1
<1>10. CASE ResumeMake(c) \/ ResumeOpen(c)
  <2>1. \/ /\ pc[c] \in Acknowledged /\ pc'[c] \in Acknowledged
           /\ UNCHANGED <<state, events>>
        \/ pc'[c] = "idle" /\ state' = "error" /\ UNCHANGED events
    BY <1>10 DEF ResumeMake, ResumeOpen, ResumeFails, Goto, RequestsOK,
       Acknowledged, ResumeSteps
  <2> QED
    BY <1>7, <1>8, <2>1
<1>11. CASE ResumeRunning(c)
  <2>1. /\ pc[c] = "res_running" /\ pc'[c] = "idle"
        /\ ~paused' /\ state' = "running"
    BY <1>11 DEF ResumeRunning, Return, Goto, RequestsOK
  <2>2. paused /\ running /\ ParkedWorker
    BY <1>1, <2>1 DEF Served, Resumes, Acknowledged, ResumeSteps
  <2>3. Served(c)'
    BY <2>1 DEF Served, Starts, Stops, Resumes, StartSteps, StopSteps,
       ResumeSteps, Prepared, Acknowledged
  <2>4. running' /\ ~stopEvent'
    BY <1>1, <2>2 DEF Signals
  <2>5. Alive(workerThread)' /\ wpc'[workerThread'] \notin Finishing
    BY <1>3, <2>2 DEF ParkedWorker, Parking, Finishing
  <2> QED
    BY <2>1, <2>3, <2>4, <2>5 DEF Signals, Manned
<1> QED
  BY <1>4, <1>5, <1>6, <1>9, <1>10, <1>11 DEF PauseStep

\* A parked worker stays parked under a pause; one that fails says so before it
\* ends, and one that ends otherwise was signalled.
LEMMA WorkerKeepsPhase ==
  ASSUME TypeInv, WorkerInv, PhaseInv, NEW w \in Epochs, WorkerStep(w)
  PROVE  PhaseInv'
<1> USE DEF TypeInv, TypeOK, lock, events, audio, session, worker
<1>1. Alive(w) /\ UNCHANGED <<workerThread, pc, ref, stopEvent, paused>>
  BY DEF Alive, Epochs, None, WorkerStep, WorkerEntry, WorkerTop, TakeCapture,
     WorkerParked, WorkerPoll, WorkerRequest, WorkerAnswer, WorkerRaised,
     WorkerFailing, WorkerFinal, WorkerClosing, WorkerExit
<1>2. /\ w = workerThread /\ w # None
      /\ \A v \in Epochs : v # w => ~Alive(v) /\ wpc'[v] = wpc[v]
  BY <1>1
  DEF WorkerInv, SingleWorker, Alive, WorkersOK, WGoto, WorkerStep, WorkerEntry,
      WorkerTop, TakeCapture, WorkerParked, WorkerPoll, WorkerRequest, WorkerAnswer,
      WorkerRaised, WorkerFailing, WorkerFinal, WorkerClosing, WorkerExit
<1>3. \A c \in Callers : pc[c] \notin StartSteps \cup {"release"}
  BY <1>1 DEF WorkerInv, Unmanned, NobodyRuns
<1>4. wpc[w] \in Parking /\ paused /\ ~stopEvent =>
        wpc'[w] \in Parking /\ UNCHANGED <<state, running>>
  BY DEF WorkersOK, WGoto, Parking, StopSeen, WorkerStep, WorkerEntry, WorkerTop,
     TakeCapture, WorkerParked, WorkerPoll, WorkerRequest, WorkerAnswer,
     WorkerRaised, WorkerFailing, WorkerFinal, WorkerClosing, WorkerExit
<1>5. wpc[w] \in Finishing =>
        wpc'[w] \in Finishing \cup {"dead"} /\ state' \in {state, "idle"}
  BY DEF WorkersOK, WGoto, Finishing, WorkerStep, WorkerEntry, WorkerTop,
     TakeCapture, WorkerParked, WorkerPoll, WorkerRequest, WorkerAnswer,
     WorkerRaised, WorkerFailing, WorkerFinal, WorkerClosing, WorkerExit
<1>6. wpc[w] \notin Finishing =>
        /\ UNCHANGED running
        /\ wpc'[w] \notin {"none", "new", "dead"}
        /\ \/ UNCHANGED state /\ (wpc'[w] \in Finishing => stopEvent)
           \/ state' = "error" /\ wpc'[w] \in Finishing
  BY DEF WorkersOK, WGoto, Finishing, StopSeen, StateAfterFailure, WorkerStep,
     WorkerEntry, WorkerTop, TakeCapture, WorkerParked, WorkerPoll, WorkerRequest,
     WorkerAnswer, WorkerRaised, WorkerFailing, WorkerFinal, WorkerClosing,
     WorkerExit
<1>7. captureStopped' => captureStopped \/ wpc'[w] = "poll"
  BY DEF WorkersOK, WGoto, WorkerStep, WorkerEntry, WorkerTop, TakeCapture,
     WorkerParked, WorkerPoll, WorkerRequest, WorkerAnswer, WorkerRaised,
     WorkerFailing, WorkerFinal, WorkerClosing, WorkerExit
<1>8. paused => ~stopEvent
  BY DEF PhaseInv, Signals
<1>9. paused /\ ParkedWorker => ParkedWorker' /\ UNCHANGED <<state, running>>
  BY <1>1, <1>2, <1>4, <1>8 DEF ParkedWorker, Alive, Parking
<1>10. ASSUME NEW c \in Callers
       PROVE  Served(c)'
  <2>1. Served(c)
    BY DEF PhaseInv
  <2>2. Starts(c)' /\ Stops(c)'
    BY <1>1, <1>3, <2>1 DEF Served, Starts, Stops, StartSteps, Prepared
  <2>3. ASSUME pc[c] = "wait"
        PROVE  state' = "paused" \/ \A v \in Epochs : ~Alive(v)' \/ wpc'[v] \in Finishing
    <3>1. CASE wpc[w] \in Finishing
      BY <1>2, <1>5, <3>1 DEF Alive
    <3>2. CASE wpc[w] \notin Finishing
      <4>1. state = "paused"
        BY <1>1, <2>1, <2>3, <3>2 DEF Served, Resumes
      <4> QED
        BY <1>2, <1>6, <3>2, <4>1 DEF Alive
    <3> QED
      BY <3>1, <3>2
  <2>4. Resumes(c)'
    BY <1>1, <1>9, <2>1, <2>3 DEF Served, Resumes
  <2> QED
    BY <2>2, <2>4 DEF Served
<1>11. Settled' => Manned'
  <2> SUFFICES ASSUME Settled', state' \in {"running", "paused"}
               PROVE  /\ running' /\ ~stopEvent'
                      /\ Alive(workerThread)' /\ wpc'[workerThread'] \notin Finishing
                      /\ state' = "paused" => paused'
    BY DEF Manned
  <2>1. Manned
    BY <1>1 DEF Settled, PhaseInv, Signals
  <2>2. wpc[w] \notin Finishing
    BY <1>2, <1>5, <2>1 DEF Manned
  <2>3. state' = state /\ running' = running /\ (wpc'[w] \in Finishing => stopEvent)
    BY <1>6, <2>2
  <2>4. wpc'[w] \notin {"none", "new", "dead"}
    BY <1>6, <2>2
  <2>5. running' /\ ~stopEvent' /\ (state' = "paused" => paused')
    BY <1>1, <2>1, <2>3 DEF Manned
  <2> QED
    BY <1>1, <1>2, <2>3, <2>4, <2>5 DEF Alive
<1>12. paused' /\ captureStopped' => ParkedWorker'
  <2>1. CASE captureStopped
    BY <1>1, <1>9, <2>1 DEF PhaseInv, Signals
  <2>2. CASE wpc'[w] = "poll"
    BY <1>1, <1>2, <2>2 DEF ParkedWorker, Alive, Parking
  <2> QED
    BY <1>7, <2>1, <2>2
<1> QED
  BY <1>1, <1>8, <1>10, <1>11, <1>12 DEF PhaseInv, Signals

\* No step leaves a phase without its worker.
LEMMA NextPhase ==
  ASSUME OneClient, TypeInv, WorkerInv, PhaseInv, [Next]_vars
  PROVE  PhaseInv'
<1> USE DEF TypeInv, TypeOK, lock, events, audio, session, worker
<1>1. CASE UpdateConfig \/ UNCHANGED vars
  BY <1>1 DEF UpdateConfig, vars, PhaseInv, Signals, Settled, Manned, ParkedWorker,
     Alive, Served, Starts, Stops, Resumes
<1>2. ASSUME NEW c \in Callers,
             Dispatch(c) \/ DispatchDelete(c) \/ DeleteStep(c)
      PROVE  PhaseInv'
  <2>1. /\ pc[c] \in {"idle", "check", "remove"}
        /\ pc'[c] \in {"idle", "check", "remove"} \cup Requests
        /\ UNCHANGED <<lock, events, workerThread, wpc>>
    BY <1>2 DEF Dispatch, DispatchDelete, DeleteStep, DeleteCheck, DeleteRow, Return,
       Goto, RequestsOK
  <2>2. Served(c)'
    BY <2>1, ServiceAssumption
    DEF Served, Starts, Stops, Resumes, StartSteps, StopSteps, ResumeSteps, Prepared,
        Acknowledged
  <2>3. Manned
    BY <2>1, OneRequest DEF PhaseInv, Signals, StartSteps, StopSteps
  <2>4. Signals'
    BY <2>1, <2>3 DEF PhaseInv, Signals, Manned, ParkedWorker, Alive
  <2> QED
    BY <2>2, <2>4, OneRequest
<1>3. ASSUME NEW c \in Callers, StartBegin(c)
      PROVE  PhaseInv'
  <2>1. /\ pc'[c] = "preflight" /\ ~captureStopped' /\ ref'[c] # None
        /\ state' = "preflight"
        /\ UNCHANGED <<stopEvent, paused>>
    BY <1>3 DEF StartBegin, NewEpoch, Goto, RequestsOK, NamesOK, None
  <2>2. Served(c)'
    BY <2>1 DEF Served, Starts, Stops, Resumes, StartSteps, StopSteps, ResumeSteps,
       Prepared, Acknowledged
  <2>3. Signals'
    BY <2>1, OneRequest DEF PhaseInv, Signals, StartSteps
  <2> QED
    BY <2>2, <2>3, OneRequest
<1> QED
  BY <1>1, <1>2, <1>3, StartKeepsPhase, StopKeepsPhase, PauseKeepsPhase,
     WorkerKeepsPhase
  DEF Next, RequestStep

\* Whenever no request is under way, a service that says running or paused has a
\* live worker, however many pauses, failures and timeouts there were before.
THEOREM PhasesHaveWorkers == ASSUME OneClient PROVE Spec => []NoZombie
<1>1. TypeInv /\ WorkerInv /\ PhaseInv /\ [Next]_vars => WorkerInv' /\ PhaseInv'
  BY OneClient, ClientDrives, NextWorkerInv, NextPhase
<1>2. PhaseInv => NoZombie
  BY DEF PhaseInv, Signals, Settled, Manned, NoZombie, Quiet, StartSteps, StopSteps
<1> QED
  BY <1>1, <1>2, InitTypes, InitWorkerInv, InitPhase, NextTypes, PTL DEF Spec

-----------------------------------------------------------------------------
(***************************************************************************)
(* One client: a text stays in its own session.  While a worker is alive   *)
(* and a session is current, the aggregator, the capture and the answer a  *)
(* worker waits for are all of that session.  A resume leaves no session   *)
(* current from res_clear on, until its aggregator and capture are there,  *)
(* and the parked worker waits for no answer meanwhile.                    *)
(***************************************************************************)
Owned(s) == /\ aggregator.text \subseteq {s}
            /\ capture \in {None, s}
            /\ \A w \in Epochs : wpc[w] = "awaiting" => heard[w] = s

Ownership == TextOwnership /\ (cur = None \/ NobodyRuns \/ Owned(cur))

\* What a start and a resume have prepared for the session they create.
Owning(c) ==
    /\ pc[c] \in Prepared => aggregator.text = {}
    /\ pc[c] \in {"open", "running", "session"} => capture = ref[c]
    /\ pc[c] \in {"thread", "spawn"} => cur = None \/ Owned(cur)
    /\ pc[c] \in {"res_make", "res_open", "res_session"} => cur = None
    /\ pc[c] = "res_open" => capture \in {None, ref[c]}
    /\ pc[c] = "res_session" => Owned(ref[c])

OwnInv == Ownership /\ \A c \in Callers : Owning(c)

\* A new service has no texts.
LEMMA InitOwn == Init => OwnInv
BY DEF Init, OwnInv, Ownership, TextOwnership, Owning, Prepared, StartSteps

\* A write that keeps the text of the current row, or an end of it, is harmless.
LEMMA StatusKeepsTexts ==
  ASSUME TypeInv, TextOwnership, NEW status, WriteRow([rows[cur] EXCEPT !.status = status])
  PROVE  TextOwnership'
<1>1. \A s \in Epochs : [rows[s] EXCEPT !.status = status].text = rows[s].text
  BY DEF TypeInv, TypeOK, RowsOK
<1>2. rows' = rows \/ rows' = [rows EXCEPT ![cur] = [rows[cur] EXCEPT !.status = status]]
  BY DEF WriteRow, Written
<1>3. \A s \in Epochs : rows'[s].text = rows[s].text
  BY <1>1, <1>2 DEF TypeInv, TypeOK, RowsOK
<1> QED
  BY <1>3 DEF TextOwnership

\* So is the end of a session that was left open.
LEMMA FinalizeKeepsTexts ==
  ASSUME TypeInv, TextOwnership, NEW c, NEW here, NEW next,
         FinalizeDangling(c, here, next)
  PROVE  TextOwnership' /\ UNCHANGED cur
BY StatusKeepsTexts DEF FinalizeDangling, WriteRow, TextOwnership, session

\* And a new row, which has no text of another session.
LEMMA CreateKeepsTexts ==
  ASSUME TypeInv, TextOwnership, NEW c \in Callers, NEW here, NEW next,
         CreateSession(c, here, next)
  PROVE  TextOwnership' /\ cur' \in {None, ref[c]}
<1>1. \A s \in Epochs : [rows[s] EXCEPT !.status = "open"].text = rows[s].text
  BY DEF TypeInv, TypeOK, RowsOK
<1>2. \/ rows' = [rows EXCEPT ![ref[c]] = [rows[ref[c]] EXCEPT !.status = "open"]]
      \/ rows' = rows
  BY DEF CreateSession
<1>3. \A s \in Epochs : rows'[s].text = rows[s].text
  BY <1>1, <1>2 DEF TypeInv, TypeOK, RowsOK
<1> QED
  BY <1>3 DEF TextOwnership, CreateSession

\* start prepares everything while nobody runs.
LEMMA StartKeepsOwn ==
  ASSUME OneClient, TypeInv, WorkerInv, OwnInv, NEW c \in Callers, StartStep(c)
  PROVE  OwnInv'
<1> USE DEF TypeInv, TypeOK, lock, events, audio, session, worker
<1>1. NobodyRuns /\ pc[c] \in StartSteps
  BY DEF WorkerInv, Unmanned, StartSteps, StartStep, StartPreflight, StartInit,
     StartMake, StartOpen, StartRollback, StartRunning, CreateSession,
     StartThread, StartSpawn
<1>2. Owning(c) /\ TextOwnership
  BY DEF OwnInv, Ownership
<1>3. \A w \in Epochs : wpc[w] # "awaiting"
  BY <1>1, ServiceAssumption DEF NobodyRuns, Alive, Epochs, None
<1>4. TextOwnership'
  <2>1. CASE CreateSession(c, "session", "thread")
    BY <1>2, <2>1, CreateKeepsTexts
  <2>2. CASE UNCHANGED rows
    BY <1>2, <2>2 DEF TextOwnership
  <2> QED
    BY <2>1, <2>2 DEF StartStep, StartPreflight, StartInit, StartMake, StartOpen,
       StartRollback, StartRunning, StartThread, StartSpawn
<1>5. CASE StartSpawn(c)
  <2>1. pc[c] = "spawn" /\ pc'[c] = "idle" /\ UNCHANGED <<aggregator, audio, cur, heard>>
    BY <1>5 DEF StartSpawn, Return, Goto, RequestsOK
  <2>2. \A w \in Epochs : wpc'[w] # "awaiting"
    BY <1>3, <1>5 DEF StartSpawn, WorkersOK
  <2>3. cur' = None \/ Owned(cur)'
    BY <1>2, <2>1, <2>2 DEF Owning, Owned
  <2>4. Owning(c)'
    BY <2>1 DEF Owning, Prepared, StartSteps
  <2> QED
    BY <1>4, <2>3, <2>4 DEF OneClient, OwnInv, Ownership
<1>6. CASE StartThread(c) \/ UNCHANGED wpc
  <2>1. NobodyRuns' /\ \A w \in Epochs : wpc'[w] # "awaiting"
    BY <1>1, <1>3, <1>6 DEF StartThread, NobodyRuns, Alive, WorkersOK
  <2>2. Owning(c)'
    <3>1. CASE StartPreflight(c) \/ StartRollback(c)
      <4>1. pc'[c] \in {"init", "idle"}
        BY <3>1 DEF StartPreflight, StartRollback, Return, Goto, RequestsOK
      <4> QED
        BY <4>1 DEF Owning, Prepared, StartSteps
    <3>2. CASE StartInit(c)
      <4>1. pc'[c] \in {"make", "rollback"} /\ aggregator'.text = {}
        BY <3>2 DEF StartInit, NewAggregator, Goto, RequestsOK
      <4> QED
        BY <4>1 DEF Owning, Prepared, StartSteps
    <3>3. CASE StartMake(c)
      <4>1. /\ pc[c] = "make" /\ UNCHANGED <<aggregator, ref>>
            /\ pc'[c] = "rollback" \/ (pc'[c] = "open" /\ capture' = ref[c])
        BY <3>3 DEF StartMake, MakeCapture, Goto, RequestsOK
      <4> QED
        BY <1>2, <4>1 DEF Owning, Prepared, StartSteps
    <3>4. CASE StartOpen(c) \/ StartRunning(c)
      <4>1. /\ pc[c] \in {"open", "running"} /\ pc'[c] \in {"running", "session", "rollback"}
            /\ UNCHANGED <<aggregator, ref, capture>>
        BY <3>4 DEF StartOpen, OpenCapture, OpenCaptureRaises, StartRunning, Goto,
           RequestsOK
      <4> QED
        BY <1>2, <4>1 DEF Owning, Prepared, StartSteps
    <3>5. CASE CreateSession(c, "session", "thread")
      <4>1. /\ pc[c] = "session" /\ pc'[c] = "thread" /\ UNCHANGED <<aggregator, capture>>
            /\ cur' \in {None, ref[c]}
        BY <3>5, <1>2, CreateKeepsTexts DEF CreateSession, Goto, RequestsOK
      <4>2. aggregator.text = {} /\ capture = ref[c]
        BY <1>2, <4>1 DEF Owning, Prepared, StartSteps
      <4> QED
        BY <2>1, <4>1, <4>2 DEF Owning, Owned, Prepared, StartSteps
    <3>6. CASE StartThread(c)
      <4>1. pc[c] = "thread" /\ pc'[c] = "spawn" /\ UNCHANGED <<aggregator, capture, cur>>
        BY <3>6 DEF StartThread, Goto, RequestsOK
      <4> QED
        BY <1>2, <2>1, <4>1 DEF Owning, Owned, Prepared, StartSteps
    <3>7. CASE StartSpawn(c)
      <4>1. pc'[c] = "idle"
        BY <3>7 DEF StartSpawn, Return, Goto, RequestsOK
      <4> QED
        BY <4>1 DEF Owning, Prepared, StartSteps
    <3> QED
      BY <3>1, <3>2, <3>3, <3>4, <3>5, <3>6, <3>7 DEF StartStep
  <2> QED
    BY <1>4, <2>1, <2>2 DEF OneClient, OwnInv, Ownership
<1> QED
  BY <1>5, <1>6 DEF StartStep, StartPreflight, StartInit, StartMake, StartOpen,
     StartRollback, StartRunning, CreateSession

\* stop only takes away: the capture, or the current session.
LEMMA StopKeepsOwn ==
  ASSUME OneClient, TypeInv, OwnInv, NEW c \in Callers, StopStep(c)
  PROVE  OwnInv'
<1> USE DEF TypeInv, TypeOK, lock, events, audio, session, worker
<1>1. UNCHANGED <<aggregator, wpc, heard>> /\ capture' \in {capture, None}
      /\ cur' \in {cur, None}
  BY DEF WriteRow, FinalizeDangling, StopStep, StopBegin, StopUnpause, StopSignal,
     StopJoin, StopAbandon, StopLateClose, ClearSession, StopLateDone, StopRelease,
     StopForget, StopDone
<1>2. TextOwnership'
  <2>1. CASE UNCHANGED rows
    BY <2>1 DEF OwnInv, Ownership, TextOwnership
  <2> QED
    BY <2>1, FinalizeKeepsTexts
    DEF OwnInv, Ownership, StopStep, StopBegin, StopUnpause, StopSignal, StopJoin,
        StopAbandon, StopLateClose, ClearSession, StopLateDone, StopRelease,
        StopForget, StopDone
<1>3. pc'[c] \notin StartSteps \cup ResumeSteps
  BY DEF StopStep, StopBegin, StopUnpause, StopSignal, StopJoin, StopAbandon,
     StopLateClose, FinalizeDangling, ClearSession, StopLateDone, StopRelease,
     StopForget, StopDone, Return, Goto, RequestsOK, StartSteps, ResumeSteps
<1>4. Owning(c)'
  BY <1>3 DEF Owning, Prepared, StartSteps, ResumeSteps
<1>5. cur' = None \/ NobodyRuns' \/ Owned(cur)'
  BY <1>1 DEF OwnInv, Ownership, NobodyRuns, Alive, Owned
<1> QED
  BY <1>2, <1>4, <1>5 DEF OneClient, OwnInv, Ownership

\* resume gives the next session its aggregator and capture before its name.
LEMMA PauseKeepsOwn ==
  ASSUME OneClient, TypeInv, WorkerInv, PhaseInv, OwnInv, NEW c \in Callers, PauseStep(c)
  PROVE  OwnInv'
<1> USE DEF TypeInv, TypeOK, lock, events, audio, session, worker
<1>1. Owning(c) /\ Ownership /\ UNCHANGED <<wpc, heard>>
  BY DEF OwnInv, PauseStep, Pause, ResumeBegin, ResumeWait, ResumeAck,
     FinalizeDangling, ClearSession, ResumeMake, ResumeOpen, CreateSession,
     ResumeRunning
<1>2. TextOwnership'
  <2>1. CASE UNCHANGED rows
    BY <1>1, <2>1 DEF Ownership, TextOwnership
  <2> QED
    BY <1>1, <2>1, FinalizeKeepsTexts, CreateKeepsTexts
    DEF Ownership, PauseStep, Pause, ResumeBegin, ResumeWait, ResumeAck, ClearSession,
        ResumeMake, ResumeOpen, ResumeRunning
<1>3. CASE pc'[c] \notin StartSteps \cup {"res_make", "res_open", "res_session"}
           /\ UNCHANGED <<aggregator, capture>> /\ cur' \in {cur, None}
  <2>1. Owning(c)'
    BY <1>3 DEF Owning, Prepared, StartSteps
  <2>2. cur' = None \/ NobodyRuns' \/ Owned(cur)'
    BY <1>1, <1>3 DEF Ownership, NobodyRuns, Alive, Owned
  <2> QED
    BY <1>2, <2>1, <2>2 DEF OneClient, OwnInv, Ownership
<1>4. CASE cur' = None /\ Owning(c)'
  BY <1>2, <1>4 DEF OneClient, OwnInv, Ownership
<1>5. CASE Pause(c) \/ ResumeBegin(c) \/ ResumeWait(c) \/ ResumeAck(c)
           \/ FinalizeDangling(c, "res_finalize", "res_clear") \/ ResumeRunning(c)
  <2>1. /\ pc'[c] \notin StartSteps \cup {"res_make", "res_open", "res_session"}
        /\ UNCHANGED <<aggregator, capture>>
    BY <1>5 DEF Pause, ResumeBegin, ResumeWait, ResumeAck, FinalizeDangling,
       ResumeRunning, Return, Goto, RequestsOK, StartSteps
  <2>2. UNCHANGED cur
    BY <1>1, <1>5, FinalizeKeepsTexts
    DEF Ownership, Pause, ResumeBegin, ResumeWait, ResumeAck, ResumeRunning
  <2> QED
    BY <1>3, <2>1, <2>2
<1>6. CASE ClearSession(c, "res_clear", "res_make")
  <2>1. pc'[c] = "res_make" /\ cur' = None
    BY <1>6 DEF ClearSession, Goto, RequestsOK
  <2> QED
    BY <1>4, <2>1 DEF Owning, Prepared, StartSteps
<1>7. CASE ResumeMake(c)
  <2>1. /\ pc[c] = "res_make" /\ UNCHANGED <<cur, ref>>
        /\ pc'[c] = "idle" \/ (pc'[c] = "res_open" /\ capture' = ref[c])
    BY <1>7 DEF ResumeMake, MakeCapture, ResumeFails, Goto, RequestsOK
  <2>2. cur' = None
    BY <1>1, <2>1 DEF Owning
  <2> QED
    BY <1>4, <2>1, <2>2 DEF Owning, Prepared, StartSteps
<1>8. CASE ResumeOpen(c)
  <2>1. /\ pc[c] = "res_open" /\ UNCHANGED <<cur, ref, capture>>
        /\ pc'[c] = "idle" \/ (pc'[c] = "res_session" /\ aggregator'.text = {})
    BY <1>8 DEF ResumeOpen, OpenCapture, OpenCaptureRaises, ResumeFails,
       NewAggregator, Goto, RequestsOK
  <2>2. cur' = None /\ capture \in {None, ref[c]}
    BY <1>1, <2>1 DEF Owning
  <2>3. ParkedWorker
    BY <2>1 DEF PhaseInv, Served, Resumes, Acknowledged, ResumeSteps
  <2>4. \A w \in Epochs : wpc[w] # "awaiting"
    BY <2>3, ServiceAssumption
    DEF WorkerInv, SingleWorker, ParkedWorker, Alive, Parking, Epochs, None
  <2>5. pc'[c] = "res_session" => Owned(ref[c])'
    BY <1>1, <2>1, <2>2, <2>4 DEF Owned
  <2> QED
    BY <1>4, <2>1, <2>2, <2>5 DEF Owning, Prepared, StartSteps
<1>9. CASE CreateSession(c, "res_session", "res_running")
  <2>1. /\ pc[c] = "res_session" /\ pc'[c] = "res_running"
        /\ UNCHANGED <<aggregator, capture>>
    BY <1>9 DEF CreateSession, Goto, RequestsOK
  <2>2. cur' = None \/ (cur' = ref[c] /\ Owned(ref[c]))
    BY <1>1, <1>9, <2>1, CreateKeepsTexts DEF Ownership, Owning
  <2>3. cur' = None \/ Owned(cur)'
    BY <1>1, <2>1, <2>2 DEF Owned
  <2>4. Owning(c)'
    BY <2>1 DEF Owning, Prepared, StartSteps
  <2> QED
    BY <1>2, <2>3, <2>4 DEF OneClient, OwnInv, Ownership
<1> QED
  BY <1>5, <1>6, <1>7, <1>8, <1>9 DEF PauseStep

\* A worker writes to the current row what it heard of the current session.
LEMMA WorkerKeepsOwn ==
  ASSUME TypeInv, WorkerInv, PhaseInv, OwnInv, NEW w \in Epochs, WorkerStep(w)
  PROVE  OwnInv'
<1> USE DEF TypeInv, TypeOK, lock, events, audio, session, worker
<1>1. Alive(w) /\ UNCHANGED <<pc, ref, cur>>
  BY DEF Alive, Epochs, None, WriteRow, WorkerStep, WorkerEntry, WorkerTop, TakeCapture,
     WorkerParked, WorkerPoll, WorkerRequest, WorkerAnswer, WorkerRaised,
     WorkerFailing, WorkerFinal, WorkerClosing, WorkerExit
<1>2. TextOwnership /\ (cur = None \/ Owned(cur))
  BY <1>1 DEF OwnInv, Ownership, NobodyRuns
<1>3. \A c \in Callers : pc[c] \notin StartSteps
  BY <1>1 DEF WorkerInv, Unmanned, NobodyRuns
<1>4. cur = None \/ (Owned(cur)' /\ (UNCHANGED aggregator \/ aggregator'.text \subseteq {cur}))
  <2> SUFFICES ASSUME cur # None, Owned(cur)
               PROVE  Owned(cur)' /\ (UNCHANGED aggregator \/ aggregator'.text \subseteq {cur})
    BY <1>2
  <2>1. capture' \in {capture, None}
    BY DEF WorkerStep, WorkerEntry, WorkerTop, TakeCapture, WorkerParked, WorkerPoll,
       WorkerRequest, WorkerAnswer, WorkerRaised, WorkerFailing, WorkerFinal,
       WorkerClosing, WorkerExit
  <2>2. aggregator'.text \subseteq {cur}
    <3>1. CASE UNCHANGED aggregator
      BY <3>1 DEF Owned
    <3>2. CASE WorkerAnswer(w) /\ ~UNCHANGED aggregator
      <4>1. heard[w] = cur
        BY <3>2 DEF WorkerAnswer, Owned
      <4>2. aggregator' = [aggregator EXCEPT !.last = tick[w],
                                             !.text = @ \cup {heard[w]}]
        BY <3>2 DEF WorkerAnswer
      <4>3. aggregator'.text = aggregator.text \cup {heard[w]}
        BY <4>2 DEF AggregatorOK
      <4> QED
        BY <4>1, <4>3 DEF Owned
    <3> QED
      BY <3>1, <3>2 DEF WorkerStep, WorkerEntry, WorkerTop, TakeCapture, WorkerParked,
         WorkerPoll, WorkerRequest, WorkerRaised, WorkerFailing, WorkerFinal,
         WorkerClosing, WorkerExit
  <2>3. \A v \in Epochs : wpc'[v] = "awaiting" => heard'[v] = cur
    <3>1. CASE WorkerRequest(w)
      BY <3>1 DEF WorkerRequest, Sendable, Owned, WGoto, WorkersOK
    <3>2. CASE UNCHANGED heard /\ wpc'[w] # "awaiting"
               /\ \A v \in Epochs : v # w => wpc'[v] = wpc[v]
      BY <3>2 DEF Owned
    <3> QED
      BY <3>1, <3>2 DEF WGoto, WorkersOK, WorkerStep, WorkerEntry, WorkerTop,
         TakeCapture, WorkerParked, WorkerPoll, WorkerAnswer, WorkerRaised,
         WorkerFailing, WorkerFinal, WorkerClosing, WorkerExit
  <2> QED
    BY <2>1, <2>2, <2>3, <1>1 DEF Owned
<1>5. TextOwnership'
  <2>1. CASE UNCHANGED rows
    BY <1>2, <2>1 DEF TextOwnership
  <2>2. CASE WorkerRaised(w)
    BY <1>2, <2>2, StatusKeepsTexts DEF WorkerRaised
  <2>3. ASSUME cur # None, NEW row, rows' = [rows EXCEPT ![cur] = row],
               row.text \subseteq {cur}
        PROVE  TextOwnership'
    BY <1>2, <2>3 DEF TextOwnership, RowsOK
  <2>4. CASE WorkerAnswer(w) /\ ~UNCHANGED rows
    <3>1. cur # None /\ rows' = [rows EXCEPT ![cur] = [rows[cur] EXCEPT !.text = aggregator'.text]]
      BY <2>4 DEF WorkerAnswer, WriteRow, Written
    <3>2. aggregator'.text \subseteq {cur}
      BY <1>1, <1>4, <3>1 DEF Owned
    <3>3. cur \in Epochs
      BY <3>1, ServiceAssumption DEF NamesOK, Epochs, None
    <3>4. [rows[cur] EXCEPT !.text = aggregator'.text].text = aggregator'.text
      BY <3>3 DEF RowsOK
    <3> QED
      BY <2>3, <3>1, <3>2, <3>4
  <2>5. CASE WorkerFinal(w) /\ ~UNCHANGED rows
    <3>1. cur # None /\ rows' = [rows EXCEPT ![cur] = [status |-> "ended", text |-> aggregator.text]]
      BY <2>5 DEF WorkerFinal, WriteRow, Written
    <3> QED
      BY <1>2, <2>3, <3>1 DEF Owned
  <2> QED
    BY <2>1, <2>2, <2>4, <2>5 DEF WorkerStep, WorkerEntry, WorkerTop, TakeCapture,
       WorkerParked, WorkerPoll, WorkerRequest, WorkerFailing, WorkerClosing, WorkerExit
<1>6. ASSUME NEW c \in Callers
      PROVE  Owning(c)'
  <2>1. Owning(c) /\ pc'[c] = pc[c] /\ pc[c] \notin StartSteps
    BY <1>1, <1>3 DEF OwnInv
  <2>2. CASE pc[c] \in Acknowledged
    <3>1. ParkedWorker /\ paused /\ ~stopEvent
      BY <2>2 DEF PhaseInv, Signals, Served, Resumes
    <3>2. wpc[w] \in Parking
      BY <1>1, <3>1 DEF ParkedWorker, WorkerInv, SingleWorker
    <3>3. /\ UNCHANGED <<aggregator, heard>> /\ capture' \in {capture, None}
          /\ wpc'[w] \in Parking /\ \A v \in Epochs : v # w => wpc'[v] = wpc[v]
      BY <3>1, <3>2
      DEF Parking, WGoto, WorkersOK, StopSeen, WorkerStep, WorkerEntry, WorkerTop,
          TakeCapture, WorkerParked, WorkerPoll, WorkerRequest, WorkerAnswer,
          WorkerRaised, WorkerFailing, WorkerFinal, WorkerClosing, WorkerExit
    <3>4. Owned(ref[c]) => Owned(ref[c])'
      BY <1>1, <3>3 DEF Owned, Parking
    <3> QED
      BY <1>1, <2>1, <3>3, <3>4 DEF Owning, Prepared, StartSteps
  <2>3. CASE pc[c] \notin Acknowledged
    BY <2>1, <2>3 DEF Owning, Prepared, Acknowledged, StartSteps, ResumeSteps
  <2> QED
    BY <2>2, <2>3
<1> QED
  BY <1>1, <1>4, <1>5, <1>6 DEF OwnInv, Ownership

\* No step mixes the texts of two sessions.
LEMMA NextOwn ==
  ASSUME OneClient, TypeInv, WorkerInv, PhaseInv, OwnInv, [Next]_vars
  PROVE  OwnInv'
<1> USE DEF TypeInv, TypeOK, lock, events, audio, session, worker
<1>1. CASE UpdateConfig \/ UNCHANGED vars
  BY <1>1 DEF UpdateConfig, vars, OwnInv, Ownership, TextOwnership, NobodyRuns, Alive,
     Owning, Owned
<1>2. ASSUME NEW c \in Callers,
             Dispatch(c) \/ DispatchDelete(c) \/ DeleteStep(c) \/ StartBegin(c)
      PROVE  OwnInv'
  <2>1. /\ pc'[c] \in {"idle", "check", "remove", "preflight"} \cup Requests
        /\ UNCHANGED <<aggregator, capture, cur, wpc, heard>>
    BY <1>2 DEF Dispatch, DispatchDelete, DeleteStep, DeleteCheck, DeleteRow,
       StartBegin, Return, Goto, RequestsOK
  <2>2. TextOwnership'
    BY <1>2 DEF OwnInv, Ownership, TextOwnership, RowsOK, Dispatch, DispatchDelete,
       DeleteStep, DeleteCheck, DeleteRow, StartBegin
  <2>3. Owning(c)'
    BY <2>1, ServiceAssumption DEF Owning, Prepared, StartSteps
  <2>4. cur' = None \/ NobodyRuns' \/ Owned(cur)'
    BY <2>1 DEF OwnInv, Ownership, NobodyRuns, Alive, Owned
  <2> QED
    BY <2>2, <2>3, <2>4 DEF OneClient, OwnInv, Ownership
<1> QED
  BY <1>1, <1>2, StartKeepsOwn, StopKeepsOwn, PauseKeepsOwn, WorkerKeepsOwn
  DEF Next, RequestStep

\* What is saved in a session's row was heard in that session, however late an
\* answer comes and whatever was paused, resumed or restarted in between.
THEOREM TextsAreOwned == ASSUME OneClient PROVE Spec => []TextOwnership
<1>1. TypeInv /\ WorkerInv /\ PhaseInv /\ OwnInv /\ [Next]_vars
        => WorkerInv' /\ PhaseInv' /\ OwnInv'
  BY OneClient, ClientDrives, NextWorkerInv, NextPhase, NextOwn
<1>2. OwnInv => TextOwnership
  BY DEF OwnInv, Ownership
<1> QED
  BY <1>1, <1>2, InitTypes, InitWorkerInv, InitPhase, InitOwn, NextTypes, PTL DEF Spec

-----------------------------------------------------------------------------
(***************************************************************************)
(* One client: windows reach the aggregator in time order.  The tick of    *)
(* the worker is ahead of the aggregator's last window; it goes back to 1  *)
(* only when a poll finds the pause over, and then the resume has made a   *)
(* new aggregator.  Epochs are handed out in order, so a new aggregator    *)
(* has a greater one.                                                      *)
(***************************************************************************)
Recorder == Settled /\ state \in {"running", "paused"} =>
    /\ tick[workerThread] > aggregator.last
    /\ ~paused /\ wpc[workerThread] \in {"pausing", "parking", "poll"} =>
         aggregator.last = 0

\* What a start and a resume rely on before and after they make an aggregator.
Ordered(c) ==
    /\ pc[c] \in StartSteps \cup ResumeSteps => ref[c] <= epoch
    /\ pc[c] \in {"preflight", "init"} \cup (ResumeSteps \ {"res_session", "res_running"}) =>
         aggregator.epoch < ref[c]
    /\ pc[c] \in Prepared \cup {"res_session", "res_running"} => aggregator.last = 0

OrderInv == /\ aggregator.epoch <= epoch
            /\ Recorder
            /\ \A c \in Callers : Ordered(c)

\* A new service has heard no window.
LEMMA InitOrder == Init => OrderInv
BY DEF Init, OrderInv, Recorder, Ordered, Prepared, StartSteps, ResumeSteps, None,
   Settled

\* A start or resume that is at work leaves a new aggregator or the one it found.
LEMMA StartKeepsOrder ==
  ASSUME OneClient, TypeInv, PhaseInv, OrderInv, NEW c \in Callers, StartStep(c)
  PROVE  OrderInv'
<1> USE OneRequest, ServiceAssumption
        DEF TypeInv, TypeOK, lock, events, audio, session, worker
<1>1. Ordered(c) /\ Served(c) /\ aggregator.epoch <= epoch
  BY DEF OrderInv, PhaseInv
<1>2. UNCHANGED <<ref, epoch, tick>>
  BY DEF StartStep, StartPreflight, StartInit, StartMake, StartOpen, StartRollback,
     StartRunning, CreateSession, StartThread, StartSpawn, Return
<1>3. CASE StartInit(c)
  <2>1. /\ pc[c] = "init" /\ pc'[c] \in {"make", "rollback"}
        /\ aggregator'.epoch = ref[c] /\ aggregator'.last = 0
    BY <1>3 DEF StartInit, NewAggregator, Goto, RequestsOK
  <2>2. Ordered(c)' /\ aggregator'.epoch <= epoch'
    BY <1>1, <1>2, <2>1 DEF Ordered, Prepared, StartSteps, ResumeSteps
  <2>3. Recorder'
    BY <2>1 DEF Recorder, StartSteps
  <2> QED
    BY <2>2, <2>3 DEF OneClient, OrderInv
<1>4. CASE UNCHANGED aggregator /\ pc[c] \in StartSteps /\ pc'[c] \in StartSteps \ {"preflight"}
           /\ (pc'[c] = "init" => pc[c] = "preflight")
           /\ (pc'[c] \in Prepared => pc[c] \in Prepared)
  <2>1. Ordered(c)' /\ aggregator'.epoch <= epoch'
    BY <1>1, <1>2, <1>4 DEF Ordered, Prepared, StartSteps, ResumeSteps
  <2>2. Recorder'
    BY <1>4 DEF Recorder, StartSteps
  <2> QED
    BY <2>1, <2>2 DEF OneClient, OrderInv
<1>5. CASE UNCHANGED aggregator /\ pc'[c] = "idle" /\ state' = "error"
  <2>1. Ordered(c)' /\ aggregator'.epoch <= epoch'
    BY <1>1, <1>2, <1>5 DEF Ordered, Prepared, StartSteps, ResumeSteps
  <2>2. Recorder'
    BY <1>5 DEF Recorder
  <2> QED
    BY <2>1, <2>2 DEF OneClient, OrderInv
<1>6. CASE StartSpawn(c)
  <2>1. /\ pc[c] = "spawn" /\ pc'[c] = "idle" /\ UNCHANGED <<aggregator, workerThread>>
        /\ workerThread \in Epochs /\ wpc'[workerThread] = "entry"
    BY <1>1, <1>6 DEF StartSpawn, Return, Goto, RequestsOK, WorkersOK, NamesOK, Served,
       Starts, Epochs, None
  <2>2. aggregator.last = 0 /\ tick[workerThread] > 0
    BY <1>1, <2>1 DEF Ordered, Prepared, StartSteps, WorkersOK
  <2>3. Ordered(c)' /\ aggregator'.epoch <= epoch'
    BY <1>1, <1>2, <2>1 DEF Ordered, Prepared, StartSteps, ResumeSteps
  <2>4. Recorder'
    BY <1>2, <2>1, <2>2 DEF Recorder
  <2> QED
    BY <2>3, <2>4 DEF OneClient, OrderInv
<1>7. CASE StartPreflight(c) \/ StartMake(c) \/ StartOpen(c) \/ StartRollback(c)
           \/ StartRunning(c) \/ CreateSession(c, "session", "thread") \/ StartThread(c)
  <2>1. /\ UNCHANGED aggregator
        /\ \/ /\ pc[c] \in StartSteps /\ pc'[c] \in StartSteps \ {"preflight"}
              /\ (pc'[c] = "init" => pc[c] = "preflight")
              /\ (pc'[c] \in Prepared => pc[c] \in Prepared)
           \/ pc'[c] = "idle" /\ state' = "error"
    BY <1>7 DEF StartPreflight, StartMake, StartOpen, StartRollback, StartRunning,
       CreateSession, StartThread, Return, Goto, RequestsOK, Prepared, StartSteps
  <2> QED
    BY <1>4, <1>5, <2>1
<1> QED
  BY <1>3, <1>6, <1>7 DEF StartStep

\* While a stop is at work, and after it, nobody counts on the order.
LEMMA StopKeepsOrder ==
  ASSUME OneClient, TypeInv, PhaseInv, OrderInv, NEW c \in Callers, StopStep(c)
  PROVE  OrderInv'
<1> USE OneRequest DEF TypeInv, TypeOK, lock, events, audio, session, worker
<1>1. UNCHANGED <<aggregator, epoch>>
  BY DEF StopStep, StopBegin, StopUnpause, StopSignal, StopJoin, StopAbandon,
     StopLateClose, FinalizeDangling, ClearSession, StopLateDone, StopRelease,
     StopForget, StopDone
<1>2. pc'[c] \notin StartSteps \cup ResumeSteps
  BY DEF StopStep, StopBegin, StopUnpause, StopSignal, StopJoin, StopAbandon,
     StopLateClose, FinalizeDangling, ClearSession, StopLateDone, StopRelease,
     StopForget, StopDone, Return, Goto, RequestsOK, StartSteps, ResumeSteps
<1>3. pc'[c] \in StopSteps \/ state' \notin {"running", "paused"}
  <2>1. pc[c] = "release" => capture # None
    BY DEF PhaseInv, Served, Stops
  <2> QED
    BY <2>1 DEF StopStep, StopBegin, StopUnpause, StopSignal, StopJoin, StopAbandon,
       StopLateClose, FinalizeDangling, ClearSession, StopLateDone, StopRelease,
       StopForget, StopDone, Return, Goto, RequestsOK, StopSteps
<1>4. Ordered(c)'
  BY <1>2 DEF Ordered, Prepared, StartSteps, ResumeSteps
<1>5. Recorder'
  BY <1>3 DEF Recorder
<1> QED
  BY <1>1, <1>4, <1>5 DEF OneClient, OrderInv

\* A resume makes its aggregator before it takes the pause back.
LEMMA PauseKeepsOrder ==
  ASSUME OneClient, TypeInv, PhaseInv, OrderInv, NEW c \in Callers, PauseStep(c)
  PROVE  /\ OrderInv'
         /\ aggregator' # aggregator => aggregator'.epoch > aggregator.epoch
<1> USE OneRequest, ServiceAssumption
        DEF TypeInv, TypeOK, lock, events, audio, session, worker
<1>1. /\ Ordered(c) /\ Served(c) /\ aggregator.epoch <= epoch
      /\ UNCHANGED <<tick, wpc, workerThread>>
  BY DEF OrderInv, PhaseInv, PauseStep, Pause, ResumeBegin, ResumeWait, ResumeAck,
     FinalizeDangling, ClearSession, ResumeMake, ResumeOpen, CreateSession,
     ResumeRunning
<1>2. Settled
  BY DEF PauseStep, Pause, ResumeBegin, ResumeWait, ResumeAck, FinalizeDangling,
     ClearSession, ResumeMake, ResumeOpen, CreateSession, ResumeRunning,
     StartSteps, StopSteps
<1>3. Recorder /\ Manned
  BY <1>2 DEF OrderInv, PhaseInv, Signals
<1>4. aggregator.epoch \in Nat /\ epoch \in Nat /\ ref[c] \in Nat
  BY DEF AggregatorOK, NamesOK, RequestsOK
<1>5. CASE Pause(c)
  <2>1. /\ pc'[c] = "idle" /\ UNCHANGED <<aggregator, epoch>>
        /\ \/ UNCHANGED <<state, paused>>
           \/ state = "running" /\ paused'
    BY <1>5 DEF Pause, Return, Goto, RequestsOK
  <2>2. Ordered(c)'
    BY <2>1 DEF Ordered, Prepared, StartSteps, ResumeSteps
  <2>3. Recorder'
    BY <1>1, <1>2, <1>3, <2>1 DEF Recorder
  <2> QED
    BY <1>1, <2>1, <2>2, <2>3 DEF OneClient, OrderInv
<1>6. CASE ResumeBegin(c)
  <2>1. /\ UNCHANGED <<aggregator, state, paused>>
        /\ \/ pc'[c] = "idle" /\ UNCHANGED epoch
           \/ pc'[c] = "wait" /\ epoch' = epoch + 1 /\ ref'[c] = epoch + 1
    BY <1>6 DEF ResumeBegin, NewEpoch, Return, Goto, RequestsOK
  <2>2. Ordered(c)' /\ aggregator'.epoch <= epoch'
    BY <1>1, <1>4, <2>1 DEF Ordered, Prepared, StartSteps, ResumeSteps
  <2>3. Recorder'
    BY <1>1, <1>2, <1>3, <2>1 DEF Recorder
  <2> QED
    BY <2>1, <2>2, <2>3 DEF OneClient, OrderInv
<1>7. CASE ResumeOpen(c)
  <2>1. /\ pc[c] = "res_open" /\ UNCHANGED <<epoch, ref, paused>>
        /\ \/ /\ pc'[c] = "res_session" /\ UNCHANGED state
              /\ aggregator'.epoch = ref[c] /\ aggregator'.last = 0
           \/ pc'[c] = "idle" /\ state' = "error" /\ UNCHANGED aggregator
    BY <1>7 DEF ResumeOpen, ResumeFails, NewAggregator, Goto, RequestsOK
  <2>2. aggregator.epoch < ref[c] /\ ref[c] <= epoch
    BY <1>1, <2>1 DEF Ordered, ResumeSteps
  <2>3. Ordered(c)' /\ aggregator'.epoch <= epoch'
    BY <1>1, <2>1, <2>2 DEF Ordered, Prepared, StartSteps, ResumeSteps
  <2>4. Recorder'
    <3>1. state' \in {"running", "paused"} => workerThread \in Epochs
      BY <1>3, <2>1 DEF Manned, Alive, NamesOK, Epochs, None
    <3>2. state' \in {"running", "paused"} => tick[workerThread] > 0
      BY <3>1 DEF WorkersOK
    <3> QED
      BY <1>1, <2>1, <3>2 DEF Recorder
  <2> QED
    BY <2>1, <2>2, <2>3, <2>4 DEF OneClient, OrderInv
<1>8. CASE ResumeWait(c) \/ ResumeAck(c)
           \/ FinalizeDangling(c, "res_finalize", "res_clear")
           \/ ClearSession(c, "res_clear", "res_make") \/ ResumeMake(c)
           \/ CreateSession(c, "res_session", "res_running")
  <2>1. /\ UNCHANGED <<aggregator, epoch, ref, paused>>
        /\ state' \in {state, "error"}
        /\ \/ pc'[c] = "idle"
           \/ /\ pc[c] \in ResumeSteps \ {"res_session", "res_running"}
              /\ pc'[c] \in ResumeSteps \ {"res_session", "res_running"}
           \/ pc[c] = "res_session" /\ pc'[c] = "res_running"
    BY <1>8 DEF ResumeWait, ResumeAck, FinalizeDangling, ClearSession, ResumeMake,
       ResumeFails, CreateSession, Goto, RequestsOK, ResumeSteps
  <2>2. Ordered(c)' /\ aggregator'.epoch <= epoch'
    BY <1>1, <2>1 DEF Ordered, Prepared, StartSteps, ResumeSteps
  <2>3. Recorder'
    BY <1>1, <1>2, <1>3, <2>1 DEF Recorder
  <2> QED
    BY <2>1, <2>2, <2>3 DEF OneClient, OrderInv
<1>9. CASE ResumeRunning(c)
  <2>1. /\ pc[c] = "res_running" /\ pc'[c] = "idle" /\ UNCHANGED <<aggregator, epoch>>
    BY <1>9 DEF ResumeRunning, Return, Goto, RequestsOK
  <2>2. aggregator.last = 0 /\ ParkedWorker
    BY <1>1, <2>1 DEF Ordered, Served, Resumes, Acknowledged, ResumeSteps
  <2>3. tick[workerThread] > 0
    <3>1. workerThread \in Epochs
      BY <2>2 DEF ParkedWorker, Alive, NamesOK, Epochs, None
    <3> QED
      BY <3>1 DEF WorkersOK
  <2>4. Ordered(c)'
    BY <2>1 DEF Ordered, Prepared, StartSteps, ResumeSteps
  <2>5. Recorder'
    BY <1>1, <2>1, <2>2, <2>3 DEF Recorder
  <2> QED
    BY <1>1, <2>1, <2>4, <2>5 DEF OneClient, OrderInv
<1> QED
  BY <1>5, <1>6, <1>7, <1>8, <1>9 DEF PauseStep

\* The worker ingests the window of its tick and goes on to the next.
LEMMA WorkerKeepsOrder ==
  ASSUME TypeInv, WorkerInv, PhaseInv, OrderInv, NEW w \in Epochs, WorkerStep(w)
  PROVE  /\ OrderInv'
         /\ aggregator' # aggregator /\ Recording => aggregator'.last > aggregator.last
<1> USE ServiceAssumption DEF TypeInv, TypeOK, lock, events, audio, session, worker
<1>1. Alive(w) /\ UNCHANGED <<workerThread, pc, ref, epoch, paused, stopEvent>>
  BY DEF Alive, Epochs, None, WorkerStep, WorkerEntry, WorkerTop, TakeCapture,
     WorkerParked, WorkerPoll, WorkerRequest, WorkerAnswer, WorkerRaised,
     WorkerFailing, WorkerFinal, WorkerClosing, WorkerExit
<1>2. w = workerThread /\ \A c \in Callers : pc[c] \notin StartSteps
  BY <1>1 DEF WorkerInv, SingleWorker, Unmanned, NobodyRuns
<1>3. state' \in {"running", "paused"} => state \in {"running", "paused"}
  BY DEF StateAfterFailure, WorkerStep, WorkerEntry, WorkerTop, TakeCapture,
     WorkerParked, WorkerPoll, WorkerRequest, WorkerAnswer, WorkerRaised,
     WorkerFailing, WorkerFinal, WorkerClosing, WorkerExit
<1>4. Recording => Settled /\ state \in {"running", "paused"}
  BY <1>2 DEF Recording, Settled
<1>5. aggregator.epoch \in Nat /\ aggregator.last \in Nat /\ tick[w] \in Nat
      /\ tick[w] > 0
  BY DEF AggregatorOK, WorkersOK
<1>6. CASE WorkerAnswer(w) /\ ~UNCHANGED aggregator
  <2>1. /\ aggregator'.epoch = aggregator.epoch /\ aggregator'.last = tick[w]
        /\ tick'[w] = tick[w] + 1 /\ wpc'[w] = "top" /\ wpc[w] = "awaiting"
    BY <1>6 DEF WorkerAnswer, WGoto, WorkersOK, AggregatorOK
  <2>2. \A c \in Callers : pc[c] \notin Acknowledged
    BY <1>2, <2>1 DEF PhaseInv, Served, Resumes, ParkedWorker, Parking
  <2>3. \A c \in Callers : Ordered(c)'
    BY <1>1, <1>2, <2>1, <2>2
    DEF OrderInv, Ordered, Prepared, Acknowledged, ResumeSteps, StartSteps
  <2>4. Recorder'
    BY <1>1, <1>2, <1>5, <2>1 DEF Recorder
  <2>5. Recording => aggregator'.last > aggregator.last
    BY <1>2, <1>4, <2>1 DEF OrderInv, Recorder
  <2> QED
    BY <1>1, <2>1, <2>3, <2>4, <2>5 DEF OrderInv
<1>7. CASE UNCHANGED aggregator
  <2>1. \A c \in Callers : Ordered(c)'
    BY <1>1, <1>7 DEF OrderInv, Ordered
  <2>2. Recorder'
    <3> SUFFICES ASSUME Settled', state' \in {"running", "paused"}
                 PROVE  /\ tick'[w] > aggregator.last
                        /\ ~paused /\ wpc'[w] \in {"pausing", "parking", "poll"} =>
                             aggregator.last = 0
      BY <1>1, <1>2, <1>7 DEF Recorder
    <3>1. Settled /\ Recorder /\ Manned
      BY <1>1 DEF Settled, OrderInv, PhaseInv, Signals
    <3>2. /\ tick[w] > aggregator.last
          /\ ~paused /\ wpc[w] \in {"pausing", "parking", "poll"} => aggregator.last = 0
      BY <1>2, <1>3, <3>1 DEF Recorder
    <3>3. CASE WorkerPoll(w)
      <4>1. ~stopEvent
        BY <1>3, <3>1 DEF Manned
      <4> QED
        BY <1>5, <3>2, <3>3, <4>1 DEF WorkerPoll, WGoto, WorkersOK
    <3>4. CASE WorkerAnswer(w)
      BY <1>5, <1>7, <3>2, <3>4 DEF WorkerAnswer, WGoto, WorkersOK
    <3>5. CASE UNCHANGED tick
      <4>1. ~paused /\ wpc'[w] \in {"pausing", "parking", "poll"}
              => wpc[w] \in {"pausing", "parking", "poll"}
        BY DEF WGoto, WorkersOK, WorkerStep, WorkerEntry, WorkerTop, TakeCapture,
           WorkerParked, WorkerPoll, WorkerRequest, WorkerAnswer, WorkerRaised,
           WorkerFailing, WorkerFinal, WorkerClosing, WorkerExit
      <4> QED
        BY <3>2, <3>5, <4>1
    <3> QED
      BY <3>3, <3>4, <3>5 DEF WorkerStep, WorkerEntry, WorkerTop, TakeCapture,
         WorkerParked, WorkerRequest, WorkerRaised, WorkerFailing, WorkerFinal,
         WorkerClosing, WorkerExit
  <2> QED
    BY <1>1, <1>7, <2>1, <2>2 DEF OrderInv
<1> QED
  BY <1>6, <1>7 DEF WorkerStep, WorkerEntry, WorkerTop, TakeCapture, WorkerParked,
     WorkerPoll, WorkerRequest, WorkerRaised, WorkerFailing, WorkerFinal,
     WorkerClosing, WorkerExit

\* Every step keeps the order, and while a session records it goes on.
LEMMA NextOrder ==
  ASSUME OneClient, TypeInv, WorkerInv, PhaseInv, OrderInv, [Next]_vars
  PROVE  /\ OrderInv'
         /\ aggregator' # aggregator /\ Recording =>
              \/ aggregator'.epoch > aggregator.epoch
              \/ aggregator'.last > aggregator.last
<1> USE DEF TypeInv, TypeOK, lock, events, audio, session, worker
<1>1. CASE UpdateConfig \/ UNCHANGED vars
  BY <1>1 DEF UpdateConfig, vars, OrderInv, Recorder, Ordered, Settled
<1>2. ASSUME NEW c \in Callers, Dispatch(c) \/ DispatchDelete(c) \/ DeleteStep(c)
      PROVE  OrderInv' /\ UNCHANGED aggregator
  <2>1. /\ pc[c] \in {"idle", "check", "remove"}
        /\ pc'[c] \in {"idle", "check", "remove"} \cup Requests
        /\ UNCHANGED <<lock, events, workerThread, wpc, tick, aggregator, epoch>>
    BY <1>2 DEF Dispatch, DispatchDelete, DeleteStep, DeleteCheck, DeleteRow, Return,
       Goto, RequestsOK
  <2>2. Ordered(c)'
    BY <2>1, ServiceAssumption DEF Ordered, Prepared, StartSteps, ResumeSteps
  <2>3. Settled
    BY <2>1, OneRequest DEF StartSteps, StopSteps
  <2>4. Recorder'
    BY <2>1, <2>3 DEF OrderInv, Recorder
  <2> QED
    BY <2>1, <2>2, <2>4 DEF OneClient, OrderInv
<1>3. ASSUME NEW c \in Callers, StartBegin(c)
      PROVE  OrderInv' /\ UNCHANGED aggregator
  <2>1. /\ pc'[c] = "preflight" /\ UNCHANGED aggregator
        /\ epoch' = epoch + 1 /\ ref'[c] = epoch + 1
    BY <1>3 DEF StartBegin, NewEpoch, Goto, RequestsOK
  <2>2. aggregator.epoch \in Nat /\ epoch \in Nat /\ aggregator.epoch <= epoch
    BY ServiceAssumption DEF AggregatorOK, NamesOK, OrderInv
  <2>3. Ordered(c)' /\ aggregator'.epoch <= epoch'
    BY <2>1, <2>2 DEF Ordered, Prepared, StartSteps, ResumeSteps
  <2>4. Recorder'
    BY <2>1, OneRequest DEF Recorder, StartSteps
  <2> QED
    BY <2>1, <2>3, <2>4 DEF OneClient, OrderInv
<1>4. ASSUME NEW c \in Callers, StartStep(c) \/ StopStep(c)
      PROVE  aggregator' # aggregator => ~Recording
  <2>1. pc[c] = "init" => state \notin {"running", "paused"}
    BY DEF PhaseInv, Served, Starts
  <2>2. aggregator' # aggregator => StartInit(c)
    BY <1>4 DEF StartStep, StartPreflight, StartMake, StartOpen, StartRollback,
       StartRunning, CreateSession, StartThread, StartSpawn, StopStep, StopBegin,
       StopUnpause, StopSignal, StopJoin, StopAbandon, StopLateClose,
       FinalizeDangling, ClearSession, StopLateDone, StopRelease, StopForget, StopDone
  <2> QED
    BY <2>1, <2>2 DEF StartInit, Recording
<1> QED
  BY <1>1, <1>2, <1>3, <1>4, StartKeepsOrder, StopKeepsOrder, PauseKeepsOrder,
     WorkerKeepsOrder
  DEF Next, RequestStep

\* While a session records, no window is heard twice or after a later one, over
\* any number of pauses, resumes and late answers.
THEOREM WindowsAreOrdered == ASSUME OneClient PROVE Spec => WindowsAdvance
<1>1. TypeInv /\ WorkerInv /\ PhaseInv /\ OrderInv /\ [Next]_vars
        => WorkerInv' /\ PhaseInv' /\ OrderInv'
  BY OneClient, ClientDrives, NextWorkerInv, NextPhase, NextOrder
<1>2. TypeInv /\ WorkerInv /\ PhaseInv /\ OrderInv /\ [Next]_vars
        => [aggregator' # aggregator /\ Recording =>
              \/ aggregator'.epoch > aggregator.epoch
              \/ aggregator'.last > aggregator.last]_vars
  BY OneClient, NextOrder
<1> QED
  BY <1>1, <1>2, InitTypes, InitWorkerInv, InitPhase, InitOrder, NextTypes, PTL
  DEF Spec, WindowsAdvance
=============================================================================
