--------------------------- MODULE SessionProofs ---------------------------
(***************************************************************************)
(* Theorems about sessions, for a client that sends one request at a time  *)
(* and for any number of sessions, windows and faults: the service follows *)
(* Lifecycle's phases and history, and its devices are given back; and,    *)
(* with any number of deletions beside, the row of a session that is being *)
(* recorded is not deleted.  They rest on what ServiceProofs knows of      *)
(* workers and phases (ClientInv).                                         *)
(***************************************************************************)
EXTENDS ServiceProofs

-----------------------------------------------------------------------------
(***************************************************************************)
(* The rows.  A store that does not fail has one open row at most, that of *)
(* the current session.  Whatever ends a session ends its row: the stop    *)
(* (Stopped), the worker that fails (Failed), and so a start finds none    *)
(* open (Unserved).                                                        *)
(***************************************************************************)
NoOpen == \A s \in Epochs : rows[s].status # "open"

\* Statements of a stop that has not yet ended the row.
Unfinished == {"signal", "join", "release", "forget", "finalize", "abandon",
               "late_close", "late_finalize"}

\* Statements of a start that has no row yet.
Fresh == {"preflight", "init", "make", "open", "rollback", "running", "session"}

\* Statements before which the row has been ended, or was never open.
Ended == Fresh \cup {"clear", "late_clear", "done", "late_done",
                     "res_clear", "res_make", "res_open", "res_session"}

\* Statements that work for a session that has no row yet.
Upcoming == Fresh \cup (ResumeSteps \ {"res_running"})

RowOrder      == \A s \in Epochs : rows[s].status # "absent" => s <= epoch
OpenIsCurrent == \A s \in Epochs : rows[s].status = "open" => cur = s
CurrentHasRow == cur # None => rows[cur].status # "absent"
Failed        == \A w \in Epochs :
    wpc[w] \in {"failing"} \cup Finishing /\ ~stopEvent => NoOpen

\* What the request of the client relies on, and leaves behind.
Stopped(c)  == stopEvent /\ pc[c] \notin Unfinished => NoOpen
Unserved(c) == NobodyRuns /\ ~stopEvent /\ pc[c] \notin {"thread", "spawn"} => NoOpen
Rowing(c)   ==
    /\ pc[c] \in Ended => NoOpen
    /\ pc[c] \in Upcoming =>
         ref[c] = epoch /\ epoch \in Epochs /\ rows[epoch].status = "absent"
    /\ pc[c] \in {"check", "remove"} =>
         ref[c] \in Epochs /\ rows[ref[c]].status # "absent"
    /\ pc[c] \in Acknowledged => state = "paused"
    /\ pc[c] \in Fresh \ {"session"} => state = "preflight"

RowInv == /\ RowOrder /\ OpenIsCurrent /\ CurrentHasRow /\ Failed
          /\ \A c \in Callers : Stopped(c) /\ Unserved(c) /\ Rowing(c)

\* What is known of every state of a service with one client.
ClientInv == TypeInv /\ WorkerInv /\ PhaseInv

\* A new service has no rows.
LEMMA InitRows == Init => RowInv
BY DEF Init, RowInv, RowOrder, OpenIsCurrent, CurrentHasRow, Failed, Finishing,
   Stopped, Unserved, NoOpen, Rowing, Fresh, Ended, Upcoming, Acknowledged,
   ResumeSteps

\* Rows are only ended or deleted.
Weakens == \A s \in Epochs :
    \/ rows'[s].status = rows[s].status
    \/ rows[s].status # "absent" /\ rows'[s].status \in {"ended", "deleted"}

\* What such a step keeps.
LEMMA WeakenedRows ==
  ASSUME Weakens
  PROVE  /\ NoOpen => NoOpen'
         /\ (RowOrder /\ UNCHANGED epoch) => RowOrder'
         /\ (OpenIsCurrent /\ UNCHANGED cur) => OpenIsCurrent'
         /\ (CurrentHasRow /\ UNCHANGED cur /\ (cur = None \/ cur \in Epochs))
              => CurrentHasRow'
BY DEF Weakens, NoOpen, RowOrder, OpenIsCurrent, CurrentHasRow

\* Where no row is open there is little to look at.
LEMMA ClosedRows ==
  ASSUME OneClient, NEW c \in Callers, NoOpen', RowOrder', CurrentHasRow', Rowing(c)'
  PROVE  RowInv'
BY DEF OneClient, NoOpen, RowInv, OpenIsCurrent, Failed, Stopped, Unserved

\* A write to the current row changes its text, or ends it.
LEMMA TextWrites ==
  ASSUME TypeInv, NEW text, WriteRow([rows[cur] EXCEPT !.text = text])
  PROVE  Weakens /\ UNCHANGED cur
<1> USE DEF TypeInv, TypeOK, RowsOK
<1>1. \A s \in Epochs : [rows[s] EXCEPT !.text = text].status = rows[s].status
  OBVIOUS
<1>2. rows' = rows \/ rows' = [rows EXCEPT ![cur] = [rows[cur] EXCEPT !.text = text]]
  BY DEF WriteRow, Written
<1>3. \A s \in Epochs : rows'[s].status = rows[s].status
  BY <1>1, <1>2
<1> QED
  BY <1>3 DEF Weakens, WriteRow

\* A write that ends the current row leaves no row open.
LEMMA EndWrites ==
  ASSUME TypeInv, OpenIsCurrent, CurrentHasRow, "store" \notin Faults,
         NEW row, row.status = "ended", WriteRow(row)
  PROVE  Weakens /\ NoOpen' /\ UNCHANGED cur
<1> USE DEF TypeInv, TypeOK, RowsOK
<1>1. rows' = Written(row) /\ UNCHANGED cur
  BY DEF WriteRow, Fault
<1>2. CASE cur # None /\ rows[cur].status # "deleted"
  <2>1. rows' = [rows EXCEPT ![cur] = row]
    BY <1>1, <1>2 DEF Written
  <2>2. \A s \in Epochs : rows'[s] = IF s = cur THEN row ELSE rows[s]
    BY <2>1
  <2>3. NoOpen'
    BY <2>2 DEF NoOpen, OpenIsCurrent
  <2>4. Weakens
    BY <1>2, <2>2 DEF Weakens, CurrentHasRow
  <2> QED
    BY <1>1, <2>3, <2>4
<1>3. CASE ~(cur # None /\ rows[cur].status # "deleted")
  <2>1. rows' = rows
    BY <1>1, <1>3 DEF Written
  <2>2. NoOpen
    BY <1>3 DEF NoOpen, OpenIsCurrent, Epochs, None
  <2> QED
    BY <1>1, <2>1, <2>2 DEF NoOpen, Weakens
<1> QED
  BY <1>2, <1>3

\* _finalize_dangling_session leaves no row open.
LEMMA FinalizeEnds ==
  ASSUME TypeInv, OpenIsCurrent, CurrentHasRow, "store" \notin Faults,
         NEW c, NEW here, NEW next, FinalizeDangling(c, here, next)
  PROVE  Weakens /\ NoOpen' /\ UNCHANGED cur
<1>1. CASE Dangling
  <2> DEFINE row == [rows[cur] EXCEPT !.status = "ended"]
  <2>1. cur \in Epochs
    BY <1>1 DEF Dangling, TypeInv, TypeOK, NamesOK, Epochs, None
  <2>2. row.status = "ended"
    BY <2>1 DEF TypeInv, TypeOK, RowsOK
  <2>3. WriteRow(row)
    BY <1>1 DEF FinalizeDangling
  <2> QED
    BY <2>2, <2>3, EndWrites
<1>2. CASE ~Dangling
  <2>1. UNCHANGED <<rows, cur>>
    BY <1>2 DEF FinalizeDangling, session
  <2>2. NoOpen
    BY <1>2 DEF Dangling, NoOpen, OpenIsCurrent, Epochs, None
  <2> QED
    BY <2>1, <2>2 DEF NoOpen, Weakens
<1> QED
  BY <1>1, <1>2

\* A new session has the one open row, if there was none.
LEMMA CreateOpens ==
  ASSUME TypeInv, RowOrder, NoOpen, "store" \notin Faults, NEW c \in Callers,
         NEW here, NEW next, CreateSession(c, here, next), ref[c] \in Epochs,
         ref[c] = epoch
  PROVE  /\ cur' = ref[c] /\ RowOrder' /\ OpenIsCurrent' /\ CurrentHasRow'
         /\ \A s \in Epochs : rows'[s].status =
                IF s = ref[c] THEN "open" ELSE rows[s].status
<1> USE DEF TypeInv, TypeOK, RowsOK
<1>1. /\ cur' = ref[c] /\ UNCHANGED epoch
      /\ rows' = [rows EXCEPT ![ref[c]].status = "open"]
  BY DEF CreateSession, Fault
<1>2. \A s \in Epochs : rows'[s].status = IF s = ref[c] THEN "open" ELSE rows[s].status
  BY <1>1
<1>3. RowOrder'
  BY <1>1, <1>2 DEF RowOrder, NamesOK, Epochs
<1> QED
  BY <1>1, <1>2, <1>3 DEF NoOpen, OpenIsCurrent, CurrentHasRow

-----------------------------------------------------------------------------
\* start finds no open row, and opens one when nobody runs.
LEMMA StartKeepsRows ==
  ASSUME OneClient, ClientInv, RowInv, "store" \notin Faults, NEW c \in Callers,
         StartStep(c)
  PROVE  RowInv'
<1> USE DEF ClientInv, TypeInv, TypeOK, lock, events, audio, session, worker
<1>1. /\ NobodyRuns /\ pc[c] \in StartSteps /\ UNCHANGED epoch
      /\ RowOrder /\ CurrentHasRow /\ Rowing(c) /\ Starts(c)
  BY DEF StartStep, StartPreflight, StartInit, StartMake, StartOpen,
     StartRollback, StartRunning, CreateSession, StartThread, StartSpawn,
     StartSteps, WorkerInv, Unmanned, RowInv, PhaseInv, Served
<1>2. CASE \/ StartPreflight(c) \/ StartInit(c) \/ StartMake(c) \/ StartOpen(c)
           \/ StartRollback(c) \/ StartRunning(c)
  <2>1. /\ pc[c] \in Fresh /\ pc'[c] \in Fresh \cup {"idle"}
        /\ UNCHANGED <<rows, cur, ref>>
        /\ pc'[c] \in Fresh \ {"session"} => pc[c] \in Fresh \ {"session"} /\ UNCHANGED state
    BY <1>2 DEF StartPreflight, StartInit, StartMake, StartOpen, StartRollback,
       StartRunning, Return, Goto, RequestsOK, Fresh
  <2>2. NoOpen'
    BY <1>1, <2>1 DEF Rowing, Fresh, Ended, NoOpen
  <2>3. RowOrder' /\ CurrentHasRow'
    BY <1>1, <2>1 DEF RowOrder, CurrentHasRow
  <2>4. pc'[c] \notin Acknowledged \cup {"check", "remove"}
    BY <2>1 DEF Fresh, Acknowledged, ResumeSteps
  <2>5. Rowing(c)'
    BY <1>1, <2>1, <2>2, <2>4 DEF Rowing, Fresh, Ended, Upcoming
  <2> QED
    BY <2>2, <2>3, <2>5, ClosedRows
<1>3. CASE CreateSession(c, "session", "thread")
  <2>1. pc[c] = "session" /\ pc'[c] = "thread" /\ UNCHANGED <<stopEvent, wpc>> /\ ~stopEvent
    BY <1>1, <1>3 DEF CreateSession, Goto, RequestsOK, Starts, Prepared,
       StartSteps
  <2>2. NoOpen /\ ref[c] = epoch /\ ref[c] \in Epochs
    BY <1>1, <2>1 DEF Rowing, Fresh, Ended, Upcoming, Starts, StartSteps,
       RequestsOK, Epochs, None
  <2>3. RowOrder' /\ OpenIsCurrent' /\ CurrentHasRow'
    BY <1>1, <1>3, <2>2, CreateOpens
  <2>4. Failed'
    BY <1>1, <2>1 DEF Failed, NobodyRuns, Alive, Finishing, Epochs, None
  <2>5. Stopped(c)' /\ Unserved(c)' /\ Rowing(c)'
    BY <2>1 DEF Stopped, Unserved, Rowing, Fresh, Ended, Upcoming, Acknowledged,
       ResumeSteps
  <2> QED
    BY <2>3, <2>4, <2>5 DEF OneClient, RowInv
<1>4. CASE StartThread(c) \/ StartSpawn(c)
  <2>1. /\ pc[c] \in {"thread", "spawn"} /\ UNCHANGED <<rows, cur, stopEvent>> /\ ~stopEvent
        /\ pc'[c] \in {"spawn", "idle"}
    BY <1>1, <1>4 DEF StartThread, StartSpawn, Goto, Return, RequestsOK, Starts,
       Prepared, StartSteps
  <2>2. RowOrder' /\ CurrentHasRow' /\ OpenIsCurrent'
    BY <1>1, <2>1 DEF RowInv, RowOrder, CurrentHasRow, OpenIsCurrent
  <2>3. \A w \in Epochs : wpc'[w] = wpc[w] \/ wpc'[w] \in {"new", "entry"}
    BY <1>4 DEF StartThread, StartSpawn, WorkersOK
  <2>4. Failed'
    BY <1>1, <2>1, <2>3 DEF Failed, NobodyRuns, Alive, Finishing, Epochs, None
  <2>5. pc'[c] = "idle" => ~NobodyRuns'
    <3>1. CASE StartThread(c)
      BY <3>1 DEF StartThread, Goto, RequestsOK
    <3>2. CASE StartSpawn(c)
      <4>1. workerThread # None /\ wpc[workerThread] = "new" /\ workerThread \in Epochs
        BY <1>1, <3>2 DEF StartSpawn, Starts, NamesOK, Epochs, None
      <4>2. wpc'[workerThread] = "entry"
        BY <3>2, <4>1 DEF StartSpawn, WorkersOK
      <4> QED
        BY <4>1, <4>2 DEF NobodyRuns, Alive
    <3> QED
      BY <1>4, <3>1, <3>2
  <2>6. Stopped(c)' /\ Unserved(c)' /\ Rowing(c)'
    BY <2>1, <2>5 DEF Stopped, Unserved, Rowing, Fresh, Ended, Upcoming,
       Acknowledged, ResumeSteps
  <2> QED
    BY <2>2, <2>4, <2>6 DEF OneClient, RowInv
<1> QED
  BY <1>2, <1>3, <1>4 DEF StartStep

\* A step that leaves rows, threads and stop_event alone.
LEMMA FramedRows ==
  ASSUME OneClient, RowInv,
         NEW c \in Callers, UNCHANGED <<rows, cur, epoch, wpc, stopEvent>>,
         pc[c] \notin Unfinished \cup {"thread", "spawn"} \/ pc'[c] \in Unfinished,
         pc[c] \notin {"thread", "spawn"}, Rowing(c)'
  PROVE  RowInv'
<1>1. RowOrder' /\ OpenIsCurrent' /\ CurrentHasRow' /\ Failed'
  BY DEF RowInv, RowOrder, OpenIsCurrent, CurrentHasRow, Failed, NoOpen
<1>2. Stopped(c)' /\ Unserved(c)'
  BY DEF RowInv, Stopped, Unserved, NobodyRuns, Alive, NoOpen
<1> QED
  BY <1>1, <1>2 DEF OneClient, RowInv

\* stop ends the row between its signal and its end.
LEMMA StopKeepsRows ==
  ASSUME OneClient, ClientInv, RowInv, "store" \notin Faults, NEW c \in Callers,
         StopStep(c)
  PROVE  RowInv'
<1> USE DEF ClientInv, TypeInv, TypeOK, lock, events, audio, session, worker
<1>1. /\ RowOrder /\ OpenIsCurrent /\ CurrentHasRow /\ Rowing(c) /\ Stops(c)
      /\ UNCHANGED epoch
  BY DEF StopStep, StopBegin, StopUnpause, StopSignal, StopJoin, StopAbandon,
     StopLateClose, FinalizeDangling, ClearSession, StopLateDone, StopRelease,
     StopForget, StopDone, RowInv, PhaseInv, Served
<1>2. ASSUME pc'[c] \in Unfinished \cup {"unpause", "idle"} PROVE Rowing(c)'
  BY <1>2 DEF Rowing, Unfinished, Fresh, Ended, Upcoming, Acknowledged,
     ResumeSteps
<1>3. CASE StopBegin(c) \/ StopUnpause(c)
  <2>1. /\ pc[c] \in {"stop", "unpause"} /\ pc'[c] \in {"unpause", "signal", "idle"}
        /\ UNCHANGED <<rows, cur, wpc, stopEvent>>
    BY <1>3 DEF StopBegin, StopUnpause, Goto, RequestsOK
  <2> QED
    BY <1>1, <1>2, <2>1, FramedRows DEF Unfinished
<1>4. CASE StopSignal(c)
  <2>1. pc'[c] \in Unfinished /\ UNCHANGED <<rows, cur>> /\ stopEvent'
    BY <1>4 DEF StopSignal, Goto, RequestsOK, Unfinished
  <2>2. RowOrder' /\ OpenIsCurrent' /\ CurrentHasRow'
    BY <1>1, <2>1 DEF RowOrder, OpenIsCurrent, CurrentHasRow
  <2>3. Failed' /\ Stopped(c)' /\ Unserved(c)'
    BY <2>1 DEF Failed, Stopped, Unserved
  <2> QED
    BY <1>2, <2>1, <2>2, <2>3 DEF OneClient, RowInv
<1>5. CASE StopJoin(c) \/ StopAbandon(c) \/ StopLateClose(c) \/ StopRelease(c) \/ StopForget(c)
  <2>1. /\ pc[c] \in Unfinished /\ pc'[c] \in Unfinished
        /\ UNCHANGED <<rows, cur, wpc, stopEvent>>
    BY <1>1, <1>5 DEF StopJoin, StopAbandon, StopLateClose, StopRelease,
       StopForget, Goto, RequestsOK, Unfinished, Stops
  <2> QED
    BY <1>1, <1>2, <2>1, FramedRows DEF Unfinished
<1>6. CASE \/ FinalizeDangling(c, "finalize", "clear")
           \/ FinalizeDangling(c, "late_finalize", "late_clear")
  <2>1. Weakens /\ NoOpen' /\ UNCHANGED cur
    BY <1>1, <1>6, FinalizeEnds
  <2>2. pc'[c] \in {"clear", "late_clear"}
    BY <1>6 DEF FinalizeDangling, Goto, RequestsOK
  <2>3. RowOrder' /\ CurrentHasRow'
    BY <1>1, <2>1, WeakenedRows DEF NamesOK, Epochs, None
  <2>4. Rowing(c)'
    BY <2>1, <2>2 DEF Rowing, Fresh, Ended, Upcoming, Acknowledged, ResumeSteps
  <2> QED
    BY <2>1, <2>3, <2>4, ClosedRows
<1>7. CASE \/ ClearSession(c, "clear", "done") \/ ClearSession(c, "late_clear", "late_done")
           \/ StopDone(c) \/ StopLateDone(c)
  <2>1. /\ pc[c] \in {"clear", "late_clear", "done", "late_done"} /\ UNCHANGED rows
        /\ pc'[c] \in {"done", "late_done", "idle"} /\ cur' \in {None, cur}
    BY <1>7 DEF ClearSession, StopDone, StopLateDone, Goto, Return, RequestsOK
  <2>2. NoOpen' /\ RowOrder' /\ CurrentHasRow'
    BY <1>1, <2>1 DEF Rowing, Fresh, Ended, NoOpen, RowOrder, CurrentHasRow
  <2>3. Rowing(c)'
    BY <2>1, <2>2 DEF Rowing, Fresh, Ended, Upcoming, Acknowledged, ResumeSteps
  <2> QED
    BY <2>2, <2>3, ClosedRows
<1> QED
  BY <1>3, <1>4, <1>5, <1>6, <1>7 DEF StopStep

\* resume ends the row it leaves, and opens the next while the worker is parked.
LEMMA PauseKeepsRows ==
  ASSUME OneClient, ClientInv, RowInv, "store" \notin Faults, NEW c \in Callers,
         PauseStep(c)
  PROVE  RowInv'
<1> USE DEF ClientInv, TypeInv, TypeOK, lock, events, audio, session, worker
<1>1. /\ RowOrder /\ OpenIsCurrent /\ CurrentHasRow /\ Rowing(c) /\ Resumes(c) /\ Signals
  BY DEF RowInv, PhaseInv, Served
<1>2. CASE Pause(c) \/ ResumeRunning(c)
  <2>1. /\ pc[c] \in {"pause", "res_running"} /\ pc'[c] = "idle"
        /\ UNCHANGED <<rows, cur, epoch, wpc, stopEvent>>
    BY <1>2 DEF Pause, ResumeRunning, Return, Goto, RequestsOK
  <2>2. Rowing(c)'
    BY <2>1 DEF Rowing, Fresh, Ended, Upcoming, Acknowledged, ResumeSteps
  <2> QED
    BY <2>1, <2>2, FramedRows DEF Unfinished
<1>3. CASE ResumeBegin(c)
  <2>1. pc[c] = "resume" /\ UNCHANGED <<rows, cur, wpc, stopEvent>>
    BY <1>3 DEF ResumeBegin
  <2>2. \/ pc'[c] = "idle" /\ UNCHANGED epoch
        \/ pc'[c] = "wait" /\ epoch' = epoch + 1 /\ ref'[c] = epoch' /\ epoch' \in Epochs
    <3>1. epoch < MaxEpoch => epoch + 1 \in Epochs
      BY ServiceAssumption DEF NamesOK, Epochs
    <3> QED
      BY <1>3, <3>1 DEF ResumeBegin, NewEpoch, Return, Goto, RequestsOK
  <2>3. Rowing(c)' /\ RowOrder'
    <3>1. epoch \in Nat
      BY DEF NamesOK
    <3>2. CASE pc'[c] = "idle" /\ UNCHANGED epoch
      BY <1>1, <2>1, <3>2 DEF Rowing, RowOrder, Fresh, Ended, Upcoming,
         Acknowledged, ResumeSteps
    <3>3. CASE pc'[c] = "wait" /\ epoch' = epoch + 1 /\ ref'[c] = epoch' /\ epoch' \in Epochs
      <4>1. rows'[epoch'].status = "absent"
        BY <1>1, <2>1, <3>1, <3>3 DEF RowOrder, Epochs
      <4>2. RowOrder'
        BY <1>1, <2>1, <3>1, <3>3 DEF RowOrder, Epochs
      <4> QED
        BY <3>3, <4>1, <4>2 DEF Rowing, Fresh, Ended, Upcoming, Acknowledged,
           ResumeSteps
    <3> QED
      BY <2>2, <3>2, <3>3
  <2>4. OpenIsCurrent' /\ CurrentHasRow' /\ Failed'
    BY <2>1 DEF RowInv, OpenIsCurrent, CurrentHasRow, Failed, NoOpen
  <2>5. Stopped(c)' /\ Unserved(c)'
    BY <2>1, <2>2 DEF RowInv, Stopped, Unserved, NobodyRuns, Alive, NoOpen,
       Unfinished
  <2> QED
    BY <2>3, <2>4, <2>5 DEF OneClient, RowInv
<1>4. CASE ResumeWait(c)
  <2>1. /\ pc[c] = "wait" /\ pc'[c] \in {"ack", "idle"}
        /\ UNCHANGED <<rows, cur, epoch, wpc, stopEvent, ref, state>>
    BY <1>4 DEF ResumeWait, Goto, RequestsOK
  <2>2. pc'[c] = "ack" => state = "paused"
    <3> SUFFICES ASSUME pc'[c] = "ack" PROVE state = "paused"
      OBVIOUS
    <3>1. ParkedWorker
      BY <1>1, <1>4, <2>1 DEF ResumeWait, Parked, Goto, RequestsOK, Resumes,
         Signals
    <3> QED
      BY <1>1, <2>1, <3>1 DEF Resumes, ParkedWorker, Parking, Finishing, Alive,
         NamesOK, Epochs, None
  <2>3. Rowing(c)'
    BY <1>1, <2>1, <2>2 DEF Rowing, Fresh, Ended, Upcoming, Acknowledged,
       ResumeSteps
  <2> QED
    BY <2>1, <2>3, FramedRows DEF Unfinished
<1>5. CASE ResumeAck(c)
  <2>1. /\ pc[c] = "ack" /\ pc'[c] = "res_finalize"
        /\ UNCHANGED <<rows, cur, epoch, wpc, stopEvent, ref, state>>
    BY <1>5 DEF ResumeAck, Goto, RequestsOK
  <2>2. Rowing(c)'
    BY <1>1, <2>1 DEF Rowing, Fresh, Ended, Upcoming, Acknowledged, ResumeSteps
  <2> QED
    BY <2>1, <2>2, FramedRows DEF Unfinished
<1>6. CASE FinalizeDangling(c, "res_finalize", "res_clear")
  <2>1. Weakens /\ NoOpen' /\ UNCHANGED cur
    BY <1>1, <1>6, FinalizeEnds
  <2>2. /\ pc[c] = "res_finalize" /\ pc'[c] = "res_clear" /\ UNCHANGED <<epoch, ref, state>>
    BY <1>6 DEF FinalizeDangling, Goto, RequestsOK, NamesOK
  <2>3. RowOrder' /\ CurrentHasRow'
    BY <1>1, <2>1, <2>2, WeakenedRows DEF NamesOK, Epochs, None
  <2>4. rows'[epoch].status = "absent"
    <3>1. epoch \in Epochs /\ rows[epoch].status = "absent"
      BY <1>1, <2>2 DEF Rowing, Fresh, Ended, Upcoming, Acknowledged,
         ResumeSteps
    <3> QED
      BY <2>1, <3>1 DEF Weakens
  <2>5. Rowing(c)'
    BY <1>1, <2>1, <2>2, <2>4 DEF Rowing, Fresh, Ended, Upcoming, Acknowledged,
       ResumeSteps
  <2> QED
    BY <2>1, <2>3, <2>5, ClosedRows
<1>7. CASE ClearSession(c, "res_clear", "res_make") \/ ResumeMake(c) \/ ResumeOpen(c)
  <2>1. /\ pc[c] \in {"res_clear", "res_make", "res_open"} /\ UNCHANGED <<rows, epoch, ref>>
        /\ pc'[c] \in {"res_make", "res_open", "res_session", "idle"} /\ cur' \in {None, cur}
        /\ pc'[c] # "idle" => UNCHANGED state
    BY <1>7 DEF ClearSession, ResumeMake, ResumeOpen, ResumeFails, Goto,
       RequestsOK
  <2>2. NoOpen' /\ RowOrder' /\ CurrentHasRow'
    BY <1>1, <2>1 DEF Rowing, Fresh, Ended, NoOpen, RowOrder, CurrentHasRow
  <2>3. Rowing(c)'
    BY <1>1, <2>1, <2>2 DEF Rowing, Fresh, Ended, Upcoming, Acknowledged,
       ResumeSteps
  <2> QED
    BY <2>2, <2>3, ClosedRows
<1>8. CASE CreateSession(c, "res_session", "res_running")
  <2>1. /\ pc[c] = "res_session" /\ pc'[c] = "res_running"
        /\ UNCHANGED <<stopEvent, wpc, workerThread, state>>
    BY <1>8 DEF CreateSession, Goto, RequestsOK
  <2>2. /\ NoOpen /\ ref[c] = epoch /\ ref[c] \in Epochs
        /\ state = "paused" /\ paused /\ ParkedWorker
    BY <1>1, <2>1 DEF Rowing, Fresh, Ended, Upcoming, Acknowledged, ResumeSteps,
       Resumes
  <2>4. RowOrder' /\ OpenIsCurrent' /\ CurrentHasRow'
    BY <1>1, <1>8, <2>2, CreateOpens
  <2>5. ~stopEvent'
    BY <1>1, <2>1, <2>2 DEF Signals
  <2>6. Failed'
    BY <2>1, <2>2 DEF Failed, WorkerInv, SingleWorker, ParkedWorker, Parking,
       Finishing, Alive, Epochs, None
  <2>7. Unserved(c)'
    BY <2>1, <2>2 DEF Unserved, NobodyRuns, ParkedWorker, Alive, NamesOK,
       Epochs, None
  <2>8. Stopped(c)' /\ Rowing(c)'
    BY <2>1, <2>2, <2>5 DEF Stopped, Rowing, Fresh, Ended, Upcoming,
       Acknowledged, ResumeSteps
  <2> QED
    BY <2>4, <2>6, <2>7, <2>8 DEF OneClient, RowInv
<1> QED
  BY <1>2, <1>3, <1>4, <1>5, <1>6, <1>7, <1>8 DEF PauseStep

\* A worker ends the row of the session it gives up, and opens none.
LEMMA WorkerWrites ==
  ASSUME ClientInv, RowInv, "store" \notin Faults, NEW w \in Epochs, WorkerStep(w)
  PROVE  /\ Weakens /\ UNCHANGED <<cur, epoch, stopEvent, pc, ref>>
         /\ WorkerRaised(w) => NoOpen'
<1> USE DEF ClientInv, TypeInv, TypeOK, lock, events, audio, session, worker
<1>1. UNCHANGED <<epoch, stopEvent, pc, ref>>
  BY DEF WorkerStep, WorkerEntry, WorkerTop, TakeCapture, WorkerParked,
     WorkerPoll, WorkerRequest, WorkerAnswer, WorkerRaised, WorkerFailing,
     WorkerFinal, WorkerClosing, WorkerExit
<1>2. OpenIsCurrent /\ CurrentHasRow
  BY DEF RowInv
<1>3. UNCHANGED <<rows, cur>> => Weakens
  BY DEF Weakens
<1>4. CASE WorkerAnswer(w)
  <2>1. UNCHANGED session \/ \E text : WriteRow([rows[cur] EXCEPT !.text = text])
    BY <1>4 DEF WorkerAnswer
  <2>2. Weakens /\ UNCHANGED cur
    BY <1>3, <2>1, TextWrites
  <2>3. ~WorkerRaised(w)
    BY <1>4 DEF WorkerAnswer, WorkerRaised
  <2> QED
    BY <1>1, <2>2, <2>3
<1>5. CASE WorkerRaised(w)
  <2>1. WriteRow([rows[cur] EXCEPT !.status = "ended"])
    BY <1>5 DEF WorkerRaised
  <2>2. CASE cur \in Epochs
    <3>1. [rows[cur] EXCEPT !.status = "ended"].status = "ended"
      BY <2>2 DEF RowsOK
    <3> QED
      BY <1>1, <1>2, <2>1, <3>1, EndWrites
  <2>3. CASE cur = None
    <3>1. UNCHANGED <<rows, cur>>
      BY <2>1, <2>3 DEF WriteRow, Written
    <3>2. NoOpen
      BY <1>2, <2>3 DEF NoOpen, OpenIsCurrent, Epochs, None
    <3> QED
      BY <1>1, <1>3, <3>1, <3>2 DEF NoOpen
  <2> QED
    BY <2>2, <2>3 DEF NamesOK, Epochs, None
<1>6. CASE WorkerFinal(w)
  <2>1. UNCHANGED session \/ WriteRow([status |-> "ended", text |-> aggregator.text])
    BY <1>6 DEF WorkerFinal
  <2>2. Weakens /\ UNCHANGED cur
    BY <1>2, <1>3, <2>1, EndWrites
  <2>3. ~WorkerRaised(w)
    BY <1>6 DEF WorkerFinal, WorkerRaised
  <2> QED
    BY <1>1, <2>2, <2>3
<1>7. CASE ~WorkerAnswer(w) /\ ~WorkerRaised(w) /\ ~WorkerFinal(w)
  <2>1. UNCHANGED <<rows, cur>>
    BY <1>7 DEF WorkerStep, WorkerEntry, WorkerTop, TakeCapture, WorkerParked,
       WorkerPoll, WorkerRequest, WorkerFailing, WorkerClosing, WorkerExit
  <2> QED
    BY <1>1, <1>3, <1>7, <2>1
<1> QED
  BY <1>4, <1>5, <1>6, <1>7

\* Where a worker's step takes it.
LEMMA WorkerMoves ==
  ASSUME TypeInv, NEW w \in Epochs, WorkerStep(w)
  PROVE  /\ wpc' = [wpc EXCEPT ![w] = wpc'[w]] /\ UNCHANGED workerThread /\ Alive(w)
         /\ wpc'[w] = "failing" => WorkerRaised(w)
         /\ wpc'[w] \in Finishing =>
              wpc[w] \in {"failing"} \cup Finishing \/ stopEvent
         /\ wpc'[w] = "dead" => wpc[w] = "exit"
         /\ wpc'[w] \notin {"none", "new"}
<1> DEFINE Moves(step) == /\ wpc' = [wpc EXCEPT ![w] = step] /\ UNCHANGED workerThread
                          /\ wpc[w] \notin {"none", "new", "dead"}
                          /\ step = "failing" => WorkerRaised(w)
                          /\ step \in Finishing =>
                               wpc[w] \in {"failing"} \cup Finishing \/ stopEvent
                          /\ step = "dead" => wpc[w] = "exit"
                          /\ step \notin {"none", "new"}
<1>1. \E step : Moves(step)
  <2>1. CASE WorkerEntry(w)
    <3>1. Moves("raised") \/ Moves("top")
      BY <2>1 DEF WorkerEntry, WGoto, Finishing
    <3> QED
      BY <3>1
  <2>2. CASE WorkerTop(w)
    <3>1. Moves("final") \/ Moves("pausing") \/ Moves("raised") \/ Moves("request")
      BY <2>2 DEF WorkerTop, WGoto, StopSeen, Finishing
    <3> QED
      BY <3>1
  <2>3. CASE TakeCapture(w, "pausing", "parking") \/ TakeCapture(w, "cleanup", "closing")
    <3>1. Moves("parking") \/ Moves("closing")
      BY <2>3 DEF TakeCapture, WGoto, Finishing
    <3> QED
      BY <3>1
  <2>4. CASE WorkerParked(w) \/ WorkerPoll(w)
    <3>1. Moves("poll") \/ Moves("top")
      BY <2>4 DEF WorkerParked, WorkerPoll, WGoto, Finishing
    <3> QED
      BY <3>1
  <2>5. CASE WorkerRequest(w) \/ WorkerAnswer(w)
    <3>1. Moves("awaiting") \/ Moves("top") \/ Moves("raised")
      BY <2>5 DEF WorkerRequest, WorkerAnswer, WGoto, Finishing
    <3> QED
      BY <3>1
  <2>6. CASE WorkerRaised(w) \/ WorkerFailing(w) \/ WorkerFinal(w)
    <3>1. Moves("failing") \/ Moves("final") \/ Moves("cleanup")
      BY <2>6 DEF WorkerRaised, WorkerFailing, WorkerFinal, WGoto, Finishing
    <3> QED
      BY <3>1
  <2>7. CASE WorkerClosing(w) \/ WorkerExit(w)
    <3>1. Moves("exit") \/ Moves("dead")
      BY <2>7 DEF WorkerClosing, WorkerExit, WGoto, Finishing
    <3> QED
      BY <3>1
  <2> QED
    BY <2>1, <2>2, <2>3, <2>4, <2>5, <2>6, <2>7 DEF WorkerStep
<1>2. PICK step : Moves(step)
  BY <1>1
<1>3. wpc'[w] = step
  BY <1>2 DEF TypeInv, TypeOK, WorkersOK
<1>4. Alive(w)
  BY <1>2 DEF Alive, Epochs, None
<1> QED
  BY <1>2, <1>3, <1>4

\* A worker that ends has ended its row, or was told to stop.
LEMMA WorkerKeepsRows ==
  ASSUME OneClient, ClientInv, RowInv, "store" \notin Faults, NEW w \in Epochs,
         WorkerStep(w)
  PROVE  RowInv'
<1>1. /\ RowOrder /\ OpenIsCurrent /\ CurrentHasRow /\ Failed
      /\ Weakens /\ UNCHANGED <<cur, epoch, stopEvent, pc, ref>>
      /\ WorkerRaised(w) => NoOpen'
  BY WorkerWrites DEF RowInv
<1>2. RowOrder' /\ OpenIsCurrent' /\ CurrentHasRow' /\ (NoOpen => NoOpen')
  BY <1>1, WeakenedRows DEF ClientInv, TypeInv, TypeOK, NamesOK, Epochs, None
<1>3. Failed'
  <2> SUFFICES ASSUME NEW v \in Epochs, wpc'[v] \in {"failing"} \cup Finishing, ~stopEvent'
               PROVE  NoOpen'
    BY DEF Failed
  <2>1. CASE v # w
    BY <1>1, <1>2, <2>1, WorkerMoves DEF Failed, ClientInv, TypeInv, TypeOK,
       WorkersOK
  <2>2. CASE v = w
    BY <1>1, <1>2, <2>2, WorkerMoves DEF Failed, ClientInv
  <2> QED
    BY <2>1, <2>2
<1>4. ASSUME NEW c \in Callers PROVE Stopped(c)' /\ Unserved(c)' /\ Rowing(c)'
  <2>1. Stopped(c) /\ Unserved(c) /\ Rowing(c) /\ Resumes(c)
    BY DEF RowInv, ClientInv, PhaseInv, Served
  <2>2. Stopped(c)'
    BY <1>1, <1>2, <2>1 DEF Stopped
  <2>3. Unserved(c)'
    <3> SUFFICES ASSUME NobodyRuns', ~stopEvent' PROVE NoOpen'
      BY DEF Unserved
    <3>1. wpc'[w] = "dead"
      BY WorkerMoves DEF NobodyRuns, Alive, ClientInv, Epochs, None
    <3> QED
      BY <1>1, <1>2, <3>1, WorkerMoves DEF Failed, Finishing, ClientInv
  <2>6. pc[c] \notin Fresh
    BY WorkerMoves DEF ClientInv, WorkerInv, Unmanned, NobodyRuns, StartSteps,
       Fresh
  <2>4. pc[c] \in Acknowledged => UNCHANGED state
    <3> SUFFICES ASSUME pc[c] \in Acknowledged PROVE UNCHANGED state
      OBVIOUS
    <3>1. w = workerThread /\ wpc[w] \in Parking
      BY <2>1, WorkerMoves DEF Resumes, ParkedWorker, ClientInv, WorkerInv,
         SingleWorker
    <3> QED
      BY <3>1 DEF Parking, WorkerStep, WorkerEntry, WorkerTop, TakeCapture,
         WorkerParked, WorkerPoll, WorkerRequest, WorkerAnswer, WorkerRaised,
         WorkerFailing, WorkerFinal, WorkerClosing, WorkerExit, lock
  <2>5. Rowing(c)'
    <3>1. \A s \in Epochs : (rows[s].status = "absent") <=> (rows'[s].status = "absent")
      BY <1>1 DEF Weakens
    <3>2. pc[c] \in Upcoming => epoch \in Epochs
      BY <2>1 DEF Rowing
    <3> QED
      BY <1>1, <1>2, <2>1, <2>4, <2>6, <3>1, <3>2 DEF Rowing
  <2> QED
    BY <2>2, <2>3, <2>5
<1> QED
  BY <1>2, <1>3, <1>4 DEF RowInv

\* A deletion opens no row.
LEMMA DeleteKeepsRows ==
  ASSUME OneClient, ClientInv, RowInv, NEW c \in Callers, DeleteStep(c)
  PROVE  RowInv' /\ Weakens
<1> USE DEF ClientInv, TypeInv, TypeOK, lock, events, audio, session, worker
<1>1. /\ RowOrder /\ OpenIsCurrent /\ CurrentHasRow /\ Rowing(c)
  BY DEF RowInv
<1>2. CASE DeleteCheck(c)
  <2>1. /\ pc[c] = "check" /\ pc'[c] \in {"remove", "idle"}
        /\ UNCHANGED <<rows, cur, epoch, wpc, stopEvent, ref>>
    BY <1>2 DEF DeleteCheck, Goto, RequestsOK
  <2>2. Rowing(c)'
    BY <1>1, <2>1 DEF Rowing, Fresh, Ended, Upcoming, Acknowledged, ResumeSteps
  <2> QED
    BY <2>1, <2>2, FramedRows DEF Unfinished, Weakens
<1>3. CASE DeleteRow(c)
  <2>1. /\ pc[c] = "remove" /\ pc'[c] = "idle" /\ UNCHANGED <<cur, epoch, wpc, stopEvent>>
        /\ rows' = [rows EXCEPT ![ref[c]] = [status |-> "deleted", text |-> {}]]
    BY <1>3 DEF DeleteRow, Return, Goto, RequestsOK
  <2>2. \A s \in Epochs :
          rows'[s].status = IF s = ref[c] THEN "deleted" ELSE rows[s].status
    BY <2>1 DEF RowsOK
  <2>3. ref[c] \in Epochs /\ rows[ref[c]].status # "absent"
    BY <1>1, <2>1 DEF Rowing
  <2>4. Weakens
    BY <2>2, <2>3 DEF Weakens
  <2>5. RowOrder' /\ OpenIsCurrent' /\ CurrentHasRow' /\ (NoOpen => NoOpen')
    BY <1>1, <2>1, <2>4, WeakenedRows DEF NamesOK, Epochs, None
  <2>6. Failed' /\ Stopped(c)' /\ Unserved(c)'
    BY <2>1, <2>5 DEF RowInv, Failed, Stopped, Unserved, NobodyRuns, Alive,
       Unfinished
  <2>7. Rowing(c)'
    BY <2>1 DEF Rowing, Fresh, Ended, Upcoming, Acknowledged, ResumeSteps
  <2> QED
    BY <2>4, <2>5, <2>6, <2>7 DEF OneClient, RowInv
<1> QED
  BY <1>2, <1>3 DEF DeleteStep

\* No step opens a row beside another.
LEMMA NextRows ==
  ASSUME OneClient, ClientInv, RowInv, "store" \notin Faults, [Next]_vars
  PROVE  RowInv'
<1> USE DEF ClientInv, TypeInv, TypeOK, lock, events, audio, session, worker
<1>1. CASE UpdateConfig \/ UNCHANGED vars
  <2>1. UNCHANGED <<rows, cur, epoch, wpc, stopEvent, pc, ref, state>>
    BY <1>1 DEF UpdateConfig, vars
  <2> QED
    BY <2>1 DEF RowInv, RowOrder, OpenIsCurrent, CurrentHasRow, Failed, Stopped,
       Unserved, NobodyRuns, Alive, NoOpen, Rowing
<1>2. ASSUME NEW c \in Callers, Dispatch(c) \/ DispatchDelete(c) PROVE RowInv'
  <2>1. /\ pc[c] = "idle" /\ pc'[c] \in {"check"} \cup (Requests \ {"delete"})
        /\ UNCHANGED <<rows, cur, epoch, wpc, stopEvent>>
        /\ pc'[c] = "check" => ref'[c] \in Epochs /\ rows[ref'[c]].status # "absent"
    BY <1>2, ServiceAssumption DEF Dispatch, DispatchDelete, Goto, RequestsOK
  <2>2. Rowing(c)'
    BY <2>1, ServiceAssumption DEF Rowing, Fresh, Ended, Upcoming, Acknowledged,
       ResumeSteps
  <2> QED
    BY <2>1, <2>2, FramedRows DEF Unfinished
<1>3. ASSUME NEW c \in Callers, StartBegin(c) PROVE RowInv'
  <2>1. /\ pc[c] = "idle" /\ pc'[c] = "preflight" /\ UNCHANGED <<rows, cur, wpc, stopEvent>>
        /\ epoch' = epoch + 1 /\ ref'[c] = epoch' /\ epoch' \in Epochs
        /\ state' = "preflight"
    <3>1. epoch < MaxEpoch => epoch + 1 \in Epochs
      BY ServiceAssumption DEF NamesOK, Epochs
    <3> QED
      BY <1>3, <3>1 DEF StartBegin, NewEpoch, Goto, RequestsOK
  <2>2. NobodyRuns
    BY <1>3, NoOtherWorker DEF StartBegin, MayStart, WorkerInv
  <2>3. NoOpen
    BY <2>1, <2>2 DEF RowInv, Stopped, Unserved, Unfinished
  <2>4. epoch \in Nat
    BY DEF NamesOK
  <2>5. RowOrder' /\ rows'[epoch'].status = "absent"
    BY <2>1, <2>4 DEF RowInv, RowOrder, Epochs
  <2>6. NoOpen' /\ CurrentHasRow'
    BY <2>1, <2>3 DEF RowInv, NoOpen, CurrentHasRow
  <2>7. Rowing(c)'
    BY <2>1, <2>5, <2>6 DEF Rowing, Fresh, Ended, Upcoming, Acknowledged,
       ResumeSteps
  <2> QED
    BY <2>5, <2>6, <2>7, ClosedRows
<1> QED
  BY <1>1, <1>2, <1>3, StartKeepsRows, StopKeepsRows, PauseKeepsRows,
     DeleteKeepsRows, WorkerKeepsRows DEF Next, RequestStep

-----------------------------------------------------------------------------
(***************************************************************************)
(* The contract.  OpenRow and LatestRow are what the rows say they are: a  *)
(* write that only ends or deletes rows closes the open session or changes *)
(* nothing, a new row opens the next session, and a step that leaves the   *)
(* rows alone is a move between two phases that Lifecycle knows.           *)
(***************************************************************************)
IsLatest(m) == /\ m \in 0 .. MaxEpoch
               /\ m = None \/ rows[m].status # "absent"
               /\ \A t \in Epochs : rows[t].status # "absent" => t <= m
HasLatest   == \E m \in 0 .. MaxEpoch : IsLatest(m)

\* Only a start that is not through is in "preflight".
Preflighting(c) == state = "preflight" => pc[c] \in Fresh \ {"session"}

HistoryInv == /\ HasLatest
              /\ state = "preflight" => \E c \in Callers : Preflighting(c)

Follows == [Contract!Next]_(Contract!vars)

\* A new service has neither.
LEMMA InitHistory == Init => HistoryInv
<1> SUFFICES ASSUME Init PROVE HistoryInv
  OBVIOUS
<1>1. IsLatest(0)
  BY ServiceAssumption DEF Init, IsLatest, None, Epochs
<1> QED
  BY <1>1, ServiceAssumption DEF Init, HistoryInv, HasLatest, Preflighting

\* The newest row is unique, before a step and after it.
LEMMA LatestIs ==
  ASSUME NEW m
  PROVE  /\ IsLatest(m) => LatestRow = m
         /\ IsLatest(m)' => LatestRow' = m
<1> USE ServiceAssumption
<1>1. ASSUME IsLatest(m) PROVE LatestRow = m
  <2>1. IsLatest(LatestRow)
    BY <1>1 DEF IsLatest, LatestRow
  <2> QED
    BY <1>1, <2>1 DEF IsLatest, Epochs, None
<1>2. ASSUME IsLatest(m)' PROVE LatestRow' = m
  <2>1. IsLatest(LatestRow)'
    BY <1>2 DEF IsLatest, LatestRow
  <2> QED
    BY <1>2, <2>1 DEF IsLatest, Epochs, None
<1> QED
  BY <1>1, <1>2

\* So is the open row.
LEMMA OpenIs ==
  /\ NoOpen => OpenRow = None
  /\ NoOpen' => OpenRow' = None
  /\ OpenIsCurrent => \A s \in Epochs : rows[s].status = "open" => OpenRow = s
  /\ OpenIsCurrent' => \A s \in Epochs : rows'[s].status = "open" => OpenRow' = s
BY DEF NoOpen, OpenIsCurrent, OpenRow

\* Ending and deleting rows closes the open session, or is not seen.
LEMMA ClosingFollows ==
  ASSUME HasLatest, OpenIsCurrent, OpenIsCurrent', Weakens, UNCHANGED state
  PROVE  Follows /\ HasLatest'
<1>1. PICK m \in 0 .. MaxEpoch : IsLatest(m)
  BY DEF HasLatest
<1>2. IsLatest(m)'
  BY <1>1, ServiceAssumption DEF IsLatest, Weakens, Epochs, None
<1>3. LatestRow' = LatestRow
  BY <1>1, <1>2, LatestIs
<1>4. OpenRow' = OpenRow \/ (OpenRow # 0 /\ OpenRow' = 0)
  <2>1. CASE NoOpen'
    BY <2>1, OpenIs DEF None
  <2>2. CASE ~NoOpen'
    <3>1. PICK s \in Epochs : rows'[s].status = "open"
      BY <2>2 DEF NoOpen
    <3>2. rows[s].status = "open"
      BY <3>1 DEF Weakens
    <3> QED
      BY <3>1, <3>2, OpenIs
  <2> QED
    BY <2>1, <2>2
<1>5. Follows
  BY <1>3, <1>4 DEF Follows, Contract!Next, Contract!vars, Contract!CloseSession
<1> QED
  BY <1>2, <1>5 DEF HasLatest

\* A new row opens the next session.
LEMMA OpeningFollows ==
  ASSUME TypeInv, HasLatest, RowOrder, NoOpen, "store" \notin Faults,
         NEW c \in Callers,
         NEW here, NEW next, CreateSession(c, here, next), ref[c] \in Epochs,
         ref[c] = epoch, rows[epoch].status = "absent", state \in {"running", "paused"}
  PROVE  Follows /\ HasLatest' /\ UNCHANGED state
<1>1. /\ UNCHANGED state /\ OpenIsCurrent'
      /\ \A s \in Epochs : rows'[s].status = IF s = epoch THEN "open" ELSE rows[s].status
  BY CreateOpens DEF CreateSession, lock
<1>2. OpenRow = 0 /\ OpenRow' = epoch
  BY <1>1, OpenIs DEF None
<1>3. PICK m \in 0 .. MaxEpoch : IsLatest(m)
  BY DEF HasLatest
<1>4. epoch \in 0 .. MaxEpoch /\ m < epoch
  BY <1>3, ServiceAssumption DEF IsLatest, RowOrder, Epochs, None
<1>5. IsLatest(epoch)'
  <2>1. UNCHANGED epoch
    BY DEF CreateSession
  <2>2. \A t \in Epochs : rows'[t].status # "absent" => t <= epoch
    BY <1>1, ServiceAssumption DEF RowOrder, Epochs
  <2> QED
    BY <1>1, <1>4, <2>1, <2>2 DEF IsLatest
<1>6. LatestRow' = epoch /\ LatestRow = m
  <2>1. UNCHANGED epoch
    BY DEF CreateSession
  <2>2. \E e : e = epoch /\ IsLatest(e)'
    BY <1>5, <2>1 DEF IsLatest
  <2> QED
    BY <1>3, <2>2, LatestIs
<1>7. LatestRow' \in LatestRow + 1 .. MaxEpoch
  BY <1>4, <1>6, ServiceAssumption
<1>8. Follows
  BY <1>1, <1>2, <1>6, <1>7 DEF Follows, Contract!Next, Contract!OpenSession
<1> QED
  BY <1>1, <1>4, <1>5, <1>8 DEF HasLatest, IsLatest

\* The other steps move between phases.
PhaseMoves ==
    \/ UNCHANGED state
    \/ state \in {"idle", "error"} /\ state' = "preflight"
    \/ state = "preflight" /\ state' \in {"running", "error"}
    \/ state = "running" /\ state' \in {"paused", "idle", "error"}
    \/ state = "paused" /\ state' \in {"running", "error"}
    \/ state = "idle" /\ state' = "error"
    \/ state \in {"running", "paused", "error"} /\ state' = "idle" /\ NoOpen

\* Such a step follows the contract.
LEMMA MovingFollows ==
  ASSUME HasLatest, UNCHANGED rows, PhaseMoves
  PROVE  Follows /\ HasLatest'
<1>1. OpenRow' = OpenRow /\ LatestRow' = LatestRow
  BY DEF OpenRow, LatestRow
<1>2. HasLatest'
  BY DEF HasLatest, IsLatest
<1>3. NoOpen => OpenRow = 0
  BY OpenIs DEF None
<1> QED
  BY <1>1, <1>2, <1>3 DEF PhaseMoves, Follows, Contract!Next, Contract!vars,
     Contract!Begin, Contract!Resolve, Contract!Pause, Contract!Resume,
     Contract!Fail, Contract!Wind, Contract!GiveUp, Contract!Stop

\* A request's step that writes to no row must move as Lifecycle does, and one
\* that ends or deletes rows must stay in its phase.
LEMMA RequestMoves ==
  ASSUME OneClient, HasLatest, NEW c \in Callers, UNCHANGED rows, PhaseMoves,
         state' = "preflight" => pc'[c] \in Fresh \ {"session"}
  PROVE  Follows /\ HistoryInv'
BY MovingFollows DEF OneClient, HistoryInv, Preflighting

LEMMA RequestCloses ==
  ASSUME HasLatest, RowInv, RowInv', Weakens, UNCHANGED state, state # "preflight"
  PROVE  Follows /\ HistoryInv'
BY ClosingFollows DEF RowInv, HistoryInv

\* start goes through "preflight" to "running" or "error", then opens a session.
LEMMA StartFollows ==
  ASSUME OneClient, ClientInv, RowInv, HistoryInv, "store" \notin Faults,
         NEW c \in Callers, StartStep(c), RowInv'
  PROVE  Follows /\ HistoryInv'
<1> USE DEF ClientInv, TypeInv, TypeOK, lock, events, audio, session, worker
<1>1. Rowing(c) /\ Starts(c) /\ RowOrder /\ Preflighting(c) /\ HasLatest
  BY DEF RowInv, PhaseInv, Served, HistoryInv, OneClient, Preflighting
<1>2. CASE \/ StartPreflight(c) \/ StartInit(c) \/ StartMake(c) \/ StartOpen(c)
           \/ StartRollback(c) \/ StartRunning(c)
  <2>1. pc[c] \in Fresh \ {"session"} /\ state = "preflight" /\ UNCHANGED rows
    BY <1>1, <1>2 DEF StartPreflight, StartInit, StartMake, StartOpen,
       StartRollback, StartRunning, Rowing, Fresh
  <2>2. /\ state' \in {"preflight", "running", "error"}
        /\ state' = "preflight" => pc'[c] \in Fresh \ {"session"}
    BY <1>2, <2>1 DEF StartPreflight, StartInit, StartMake, StartOpen,
       StartRollback, StartRunning, Return, Goto, RequestsOK, Fresh
  <2> QED
    BY <1>1, <2>1, <2>2, RequestMoves DEF PhaseMoves
<1>3. CASE CreateSession(c, "session", "thread")
  <2>1. pc[c] = "session" /\ state = "running"
    BY <1>1, <1>3 DEF CreateSession, Starts
  <2>2. /\ NoOpen /\ ref[c] = epoch /\ epoch \in Epochs
        /\ rows[epoch].status = "absent"
    BY <1>1, <2>1 DEF Rowing, Fresh, Ended, Upcoming
  <2> QED
    BY <1>1, <1>3, <2>1, <2>2, OpeningFollows DEF OneClient, HistoryInv,
       Preflighting
<1>4. CASE StartThread(c) \/ StartSpawn(c)
  <2>1. UNCHANGED <<rows, state>> /\ state = "running"
    BY <1>1, <1>4 DEF StartThread, StartSpawn, Starts
  <2> QED
    BY <1>1, <2>1, RequestMoves DEF PhaseMoves
<1> QED
  BY <1>2, <1>3, <1>4 DEF StartStep

\* stop reports "idle" after it has closed the session, or "error".
LEMMA StopFollows ==
  ASSUME OneClient, ClientInv, RowInv, HistoryInv, "store" \notin Faults,
         NEW c \in Callers, StopStep(c), RowInv'
  PROVE  Follows /\ HistoryInv'
<1> USE DEF ClientInv, TypeInv, TypeOK, lock, events, audio, session, worker
<1>1. /\ Rowing(c) /\ Preflighting(c) /\ HasLatest
      /\ OpenIsCurrent /\ CurrentHasRow
  BY DEF RowInv, HistoryInv, OneClient, Preflighting
<1>2. state # "preflight" /\ state \in ServiceState
  BY <1>1 DEF Preflighting, Fresh, StopStep, StopBegin, StopUnpause, StopSignal,
     StopJoin, StopAbandon, StopLateClose, FinalizeDangling, ClearSession,
     StopLateDone, StopRelease, StopForget, StopDone, ControlOK
<1>3. CASE \/ FinalizeDangling(c, "finalize", "clear")
           \/ FinalizeDangling(c, "late_finalize", "late_clear")
  <2>1. Weakens /\ UNCHANGED state
    BY <1>1, <1>3, FinalizeEnds DEF FinalizeDangling
  <2> QED
    BY <1>1, <1>2, <2>1, RequestCloses
<1>4. CASE StopDone(c) \/ StopLateDone(c)
  <2>1. UNCHANGED rows /\ state' \in {"idle", "error"}
    BY <1>4 DEF StopDone, StopLateDone
  <2>2. state' = "idle" => NoOpen
    BY <1>1, <1>4 DEF StopDone, StopLateDone, Rowing, Ended
  <2>3. PhaseMoves
    BY <1>2, <2>1, <2>2 DEF PhaseMoves, ServiceState
  <2> QED
    BY <1>1, <2>1, <2>3, RequestMoves
<1>5. CASE UNCHANGED <<rows, state>>
  BY <1>1, <1>2, <1>5, RequestMoves DEF PhaseMoves
<1> QED
  BY <1>3, <1>4, <1>5 DEF StopStep, StopBegin, StopUnpause, StopSignal,
     StopJoin, StopAbandon, StopLateClose, ClearSession, StopRelease, StopForget

\* pause and resume alternate, and a resume opens a session of its own.
LEMMA PauseFollows ==
  ASSUME OneClient, ClientInv, RowInv, HistoryInv, "store" \notin Faults,
         NEW c \in Callers, PauseStep(c), RowInv'
  PROVE  Follows /\ HistoryInv'
<1> USE DEF ClientInv, TypeInv, TypeOK, lock, events, audio, session, worker
<1>1. /\ Rowing(c) /\ Preflighting(c) /\ HasLatest
      /\ RowOrder /\ OpenIsCurrent /\ CurrentHasRow
  BY DEF RowInv, HistoryInv, OneClient, Preflighting
<1>2. state # "preflight"
  BY <1>1 DEF Preflighting, Fresh, PauseStep, Pause, ResumeBegin, ResumeWait,
     ResumeAck, FinalizeDangling, ClearSession, ResumeMake, ResumeOpen,
     CreateSession, ResumeRunning
<1>3. CASE FinalizeDangling(c, "res_finalize", "res_clear")
  <2>1. Weakens /\ UNCHANGED state
    BY <1>1, <1>3, FinalizeEnds DEF FinalizeDangling
  <2> QED
    BY <1>1, <1>2, <2>1, RequestCloses
<1>4. CASE CreateSession(c, "res_session", "res_running")
  <2>1. pc[c] = "res_session"
    BY <1>4 DEF CreateSession
  <2>2. /\ NoOpen /\ ref[c] = epoch /\ epoch \in Epochs /\ state = "paused"
        /\ rows[epoch].status = "absent"
    BY <1>1, <2>1 DEF Rowing, Fresh, Ended, Upcoming, Acknowledged, ResumeSteps
  <2> QED
    BY <1>1, <1>4, <2>2, OpeningFollows DEF OneClient, HistoryInv, Preflighting
<1>5. CASE ResumeMake(c) \/ ResumeOpen(c) \/ ResumeRunning(c)
  <2>1. UNCHANGED rows /\ state' \in {"running", "error", state}
    BY <1>5 DEF ResumeMake, ResumeOpen, ResumeRunning, ResumeFails
  <2>2. state = "paused"
    BY <1>1, <1>5 DEF ResumeMake, ResumeOpen, ResumeRunning, Rowing,
       Acknowledged, ResumeSteps
  <2> QED
    BY <1>1, <2>1, <2>2, RequestMoves DEF PhaseMoves
<1>6. CASE \/ Pause(c) \/ ResumeBegin(c) \/ ResumeWait(c) \/ ResumeAck(c)
           \/ ClearSession(c, "res_clear", "res_make")
  <2>1. /\ UNCHANGED rows
        /\ UNCHANGED state \/ (state = "running" /\ state' = "paused")
    BY <1>6 DEF Pause, ResumeBegin, ResumeWait, ResumeAck, ClearSession
  <2>2. PhaseMoves /\ state' # "preflight"
    BY <1>2, <2>1 DEF PhaseMoves
  <2> QED
    BY <1>1, <2>1, <2>2, RequestMoves
<1> QED
  BY <1>3, <1>4, <1>5, <1>6 DEF PauseStep

\* A worker closes the session it gives up, and ends in "error" or "idle".
LEMMA WorkerFollows ==
  ASSUME OneClient, ClientInv, RowInv, HistoryInv, "store" \notin Faults,
         NEW w \in Epochs, WorkerStep(w), RowInv'
  PROVE  Follows /\ HistoryInv'
<1> USE DEF ClientInv, TypeInv, TypeOK, lock, events, audio, session, worker
<1>1. Weakens /\ UNCHANGED pc /\ Alive(w) /\ HasLatest
  BY WorkerWrites, WorkerMoves DEF HistoryInv
<1>2. state # "preflight"
  BY <1>1 DEF HistoryInv, Preflighting, WorkerInv, Unmanned, NobodyRuns,
     StartSteps, Fresh
<1>3. CASE UNCHANGED state
  BY <1>1, <1>2, <1>3, ClosingFollows DEF RowInv, HistoryInv
<1>4. CASE WorkerFailing(w) \/ WorkerExit(w)
  <2>1. /\ UNCHANGED rows
        /\ state' \in {"error", state} \/ (state = "running" /\ state' = "idle")
    BY <1>4 DEF WorkerFailing, WorkerExit, StateAfterFailure
  <2>2. PhaseMoves /\ state' # "preflight"
    BY <1>2, <2>1 DEF PhaseMoves, ControlOK, ServiceState
  <2> QED
    BY <1>1, <2>1, <2>2, MovingFollows DEF HistoryInv
<1> QED
  BY <1>3, <1>4 DEF WorkerStep, WorkerEntry, WorkerTop, TakeCapture,
     WorkerParked, WorkerPoll, WorkerRequest, WorkerAnswer, WorkerRaised,
     WorkerFinal, WorkerClosing

\* No step of the client's one request or of a worker leaves the contract.
LEMMA NextFollows ==
  ASSUME OneClient, ClientInv, RowInv, HistoryInv, "store" \notin Faults, [Next]_vars
  PROVE  Follows /\ HistoryInv' /\ RowInv'
<1> USE DEF ClientInv, TypeInv, TypeOK, lock, events, audio, session, worker
<1>1. RowInv' /\ HasLatest
  BY NextRows DEF HistoryInv
<1>2. CASE UpdateConfig \/ UNCHANGED vars
  <2>1. UNCHANGED <<rows, state, pc>>
    BY <1>2 DEF UpdateConfig, vars
  <2> QED
    BY <1>1, <2>1, MovingFollows DEF PhaseMoves, HistoryInv, Preflighting
<1>3. ASSUME NEW c \in Callers, Dispatch(c) \/ DispatchDelete(c) \/ StartBegin(c)
      PROVE  Follows /\ HistoryInv'
  <2>1. UNCHANGED rows /\ pc[c] = "idle" /\ PhaseMoves
    BY <1>3 DEF Dispatch, DispatchDelete, StartBegin, MayStart, PhaseMoves
  <2>2. state' = "preflight" => StartBegin(c)
    BY <1>3, <2>1 DEF Dispatch, DispatchDelete, OneClient, HistoryInv,
       Preflighting, Fresh
  <2>3. state' = "preflight" => pc'[c] \in Fresh \ {"session"}
    BY <2>2 DEF StartBegin, Goto, RequestsOK, Fresh
  <2> QED
    BY <1>1, <2>1, <2>3, RequestMoves
<1>4. ASSUME NEW c \in Callers, DeleteStep(c) PROVE Follows /\ HistoryInv'
  <2>1. Weakens /\ UNCHANGED state /\ pc[c] \in {"check", "remove"}
    BY <1>4, DeleteKeepsRows DEF DeleteStep, DeleteCheck, DeleteRow
  <2>2. state # "preflight"
    BY <2>1 DEF OneClient, HistoryInv, Preflighting, Fresh
  <2> QED
    BY <1>1, <2>1, <2>2, RequestCloses
<1> QED
  BY <1>1, <1>2, <1>3, <1>4, StartFollows, StopFollows, PauseFollows,
     WorkerFollows DEF Next, RequestStep

\* Every step of the service is a step of Lifecycle or is not seen there: the
\* phases follow one another as promised, sessions open one after the other, and
\* stop reports "idle" only after it has closed the session (start 280-381, stop
\* 383-422, _finalize_dangling_session 424-439, pause and resume 441-502,
\* _persist_error 584-598).
THEOREM ServiceFollowsLifecycle ==
  ASSUME OneClient, "store" \notin Faults
  PROVE  Spec => Contract!Init /\ [][Contract!Next]_(Contract!vars)
<1>1. Init => Contract!Init
  <2> SUFFICES ASSUME Init PROVE Contract!Init
    OBVIOUS
  <2>1. NoOpen /\ IsLatest(0)
    BY ServiceAssumption DEF Init, NoOpen, IsLatest, None, Epochs
  <2> QED
    BY <2>1, OpenIs, LatestIs DEF Init, Contract!Init, None
<1>2. TypeInv /\ WorkerInv /\ PhaseInv /\ RowInv /\ HistoryInv /\ [Next]_vars
        => /\ WorkerInv' /\ PhaseInv' /\ RowInv' /\ HistoryInv'
           /\ [Contract!Next]_(Contract!vars)
  BY OneClient, ClientDrives, "store" \notin Faults, NextWorkerInv, NextPhase, NextFollows DEF
     ClientInv, Follows
<1> QED
  BY <1>1, <1>2, InitTypes, InitWorkerInv, InitPhase, InitRows, InitHistory,
     NextTypes, PTL DEF Spec

-----------------------------------------------------------------------------
(***************************************************************************)
(* Without resume, no session leaves a device open.  A capture is made     *)
(* where there is none, and one that is there is the charge of the start   *)
(* that opens it, of a worker that has yet to take it, or of the stop that *)
(* found no worker.  A worker holds a capture only while it stops it.      *)
(***************************************************************************)
InCharge == {"open", "rollback", "running", "session", "thread", "spawn", "release"}
Devoid   == {"preflight", "init", "make"}

HeldBriefly == \A w \in Epochs : held[w] # None => wpc[w] \in {"parking", "closing"}
Charged     == capture # None =>
    \/ \E w \in Epochs : Alive(w) /\ wpc[w] \notin {"closing", "exit"}
    \/ \E c \in Callers : pc[c] \in InCharge
Unoccupied(c) == /\ pc[c] \in Devoid => capture = None
                 /\ pc[c] \notin ResumeSteps \cup {"resume"}

DeviceInv == /\ NoCaptureLeak /\ HeldBriefly /\ Charged
             /\ \A c \in Callers : Unoccupied(c)

\* A new service has no capture.
LEMMA InitDevices == Init => DeviceInv
BY DEF Init, DeviceInv, NoCaptureLeak, HeldBriefly, Charged, Unoccupied,
   ResumeSteps

\* Closing a capture closes its device and no other.
LEMMA CloseCloses ==
  ASSUME MicOK, NEW e, Close(e)
  PROVE  \A d \in Epochs : mic'[d] = "open" => mic[d] = "open" /\ d # e
BY DEF MicOK, Close, Epochs, None

\* A step of a request that leaves captures and workers alone.
LEMMA SameDevices ==
  ASSUME OneClient, DeviceInv,
         NEW c \in Callers, UNCHANGED <<capture, mic, held, wpc>>,
         pc[c] # "late_close", pc[c] \in InCharge => pc'[c] \in InCharge,
         pc'[c] \in Devoid => capture = None, pc'[c] \notin ResumeSteps \cup {"resume"}
  PROVE  DeviceInv'
<1>1. NoCaptureLeak'
  BY DEF OneClient, DeviceInv, NoCaptureLeak
<1>2. HeldBriefly'
  BY DEF DeviceInv, HeldBriefly
<1>3. Charged'
  BY DEF OneClient, DeviceInv, Charged, Alive
<1>4. Unoccupied(c)'
  BY DEF Unoccupied
<1> QED
  BY <1>1, <1>2, <1>3, <1>4 DEF OneClient, DeviceInv

\* start makes a capture where there is none, and closes what it cannot open.
LEMMA StartKeepsDevices ==
  ASSUME OneClient, ClientInv, DeviceInv, NEW c \in Callers, StartStep(c)
  PROVE  DeviceInv'
<1> USE DEF ClientInv, TypeInv, TypeOK, lock, events, audio, session, worker
<1>1. /\ NobodyRuns /\ pc[c] \in StartSteps /\ Starts(c)
      /\ NoCaptureLeak /\ HeldBriefly /\ Unoccupied(c)
  BY DEF StartStep, StartPreflight, StartInit, StartMake, StartOpen,
     StartRollback, StartRunning, CreateSession, StartThread, StartSpawn,
     StartSteps, WorkerInv, Unmanned, PhaseInv, Served, DeviceInv
<1>2. CASE \/ StartPreflight(c) \/ StartInit(c) \/ StartRunning(c)
           \/ CreateSession(c, "session", "thread")
  <2>1. /\ pc[c] \in {"preflight", "init", "running", "session"}
        /\ pc[c] \in Devoid => pc'[c] \in Devoid \cup {"rollback", "idle"}
        /\ pc[c] \notin Devoid => pc'[c] \in InCharge \ Devoid
        /\ UNCHANGED <<capture, mic, held, wpc>>
    BY <1>2 DEF StartPreflight, StartInit, StartRunning, CreateSession, Goto,
       RequestsOK, Devoid, InCharge
  <2> QED
    BY <1>1, <2>1, SameDevices DEF Unoccupied, Devoid, InCharge, ResumeSteps
<1>3. CASE StartMake(c)
  <2>1. /\ pc[c] = "make" /\ capture = None /\ UNCHANGED <<held, wpc>>
        /\ pc'[c] \in {"open", "rollback"}
        /\ capture' # None => pc'[c] \in InCharge
    BY <1>1, <1>3 DEF StartMake, Unoccupied, Devoid, Goto, RequestsOK, InCharge
  <2>2. \A e \in Epochs : mic'[e] = "open" => mic[e] = "open"
    BY <1>3 DEF StartMake, MakeCapture, MicOK
  <2>3. NoCaptureLeak'
    BY <1>1, <2>1, <2>2 DEF OneClient, NoCaptureLeak, Epochs, None
  <2>4. HeldBriefly' /\ Charged' /\ Unoccupied(c)'
    BY <1>1, <2>1 DEF HeldBriefly, Charged, Unoccupied, Devoid, InCharge,
       ResumeSteps
  <2> QED
    BY <2>3, <2>4 DEF OneClient, DeviceInv
<1>4. CASE StartOpen(c)
  <2>1. /\ pc[c] = "open" /\ UNCHANGED <<capture, held, wpc>>
        /\ pc'[c] \in {"running", "rollback"}
    BY <1>4 DEF StartOpen, OpenCapture, OpenCaptureRaises, Goto, RequestsOK
  <2>2. \A e \in Epochs : mic'[e] = "open" => mic[e] = "open" \/ capture = e
    BY <1>4 DEF StartOpen, OpenCapture, OpenCaptureRaises, MicOK
  <2>3. NoCaptureLeak'
    BY <1>1, <2>1, <2>2 DEF OneClient, NoCaptureLeak
  <2>4. HeldBriefly' /\ Charged' /\ Unoccupied(c)'
    BY <1>1, <2>1 DEF HeldBriefly, Charged, Unoccupied, Devoid, InCharge,
       ResumeSteps
  <2> QED
    BY <2>3, <2>4 DEF OneClient, DeviceInv
<1>5. CASE StartRollback(c)
  <2>1. /\ pc[c] = "rollback" /\ pc'[c] = "idle" /\ capture' = None
        /\ UNCHANGED <<held, wpc>> /\ Close(capture)
    BY <1>5 DEF StartRollback, Return, Goto, RequestsOK
  <2>2. NoCaptureLeak'
    BY <1>1, <2>1, CloseCloses DEF OneClient, NoCaptureLeak
  <2>3. HeldBriefly' /\ Charged' /\ Unoccupied(c)'
    BY <1>1, <2>1 DEF HeldBriefly, Charged, Unoccupied, Devoid, ResumeSteps
  <2> QED
    BY <2>2, <2>3 DEF OneClient, DeviceInv
<1>6. CASE StartThread(c) \/ StartSpawn(c)
  <2>1. /\ pc[c] \in {"thread", "spawn"} /\ pc'[c] \in {"spawn", "idle"}
        /\ pc[c] = "thread" => pc'[c] = "spawn"
        /\ UNCHANGED <<capture, mic, held>>
    BY <1>6 DEF StartThread, StartSpawn, Return, Goto, RequestsOK
  <2>2. NoCaptureLeak'
    BY <1>1, <2>1 DEF OneClient, NoCaptureLeak
  <2>3. HeldBriefly'
    <3>1. \A w \in Epochs : held[w] = None
      BY <1>1 DEF HeldBriefly, NobodyRuns, Alive, Epochs, None
    <3> QED
      BY <2>1, <3>1 DEF HeldBriefly
  <2>4. Charged'
    <3>1. CASE StartThread(c)
      BY <2>1, <3>1 DEF StartThread, Charged, InCharge
    <3>2. CASE StartSpawn(c)
      <4>1. workerThread \in Epochs /\ wpc[workerThread] = "new"
        BY <1>1, <3>2 DEF StartSpawn, Starts, NamesOK, Epochs, None
      <4>2. wpc'[workerThread] = "entry"
        BY <3>2, <4>1 DEF StartSpawn, WorkersOK, Epochs, None
      <4> QED
        BY <4>1, <4>2 DEF Charged, Alive, Epochs, None
    <3> QED
      BY <1>6, <3>1, <3>2
  <2>5. Unoccupied(c)'
    BY <2>1 DEF Unoccupied, Devoid, ResumeSteps
  <2> QED
    BY <2>2, <2>3, <2>4, <2>5 DEF OneClient, DeviceInv
<1> QED
  BY <1>2, <1>3, <1>4, <1>5, <1>6 DEF StartStep

\* stop closes the capture itself if there is no worker to do it, or if it has
\* stopped waiting for the worker.
LEMMA StopKeepsDevices ==
  ASSUME OneClient, ClientInv, DeviceInv, NEW c \in Callers, StopStep(c)
  PROVE  DeviceInv'
<1> USE DEF ClientInv, TypeInv, TypeOK, lock, events, audio, session, worker
<1>1. NoCaptureLeak /\ HeldBriefly /\ Charged
  BY DEF DeviceInv
<1>2. CASE StopAbandon(c)
  <2>1. /\ pc[c] = "abandon" /\ pc'[c] = "late_close" /\ ref'[c] = capture
        /\ capture' = None /\ UNCHANGED <<mic, held, wpc>>
    BY <1>2 DEF StopAbandon, Goto, RequestsOK
  <2>2. NoCaptureLeak'
    BY <1>1, <2>1 DEF OneClient, NoCaptureLeak
  <2>3. HeldBriefly' /\ Charged' /\ Unoccupied(c)'
    BY <1>1, <2>1 DEF HeldBriefly, Charged, Unoccupied, Devoid, ResumeSteps
  <2> QED
    BY <2>2, <2>3 DEF OneClient, DeviceInv
<1>3. CASE StopLateClose(c)
  <2>1. /\ pc[c] = "late_close" /\ pc'[c] = "late_finalize" /\ Close(ref[c])
        /\ UNCHANGED <<capture, held, wpc>>
    BY <1>3 DEF StopLateClose, Goto, RequestsOK
  <2>2. NoCaptureLeak'
    BY <1>1, <2>1, CloseCloses DEF OneClient, NoCaptureLeak
  <2>3. HeldBriefly' /\ Charged' /\ Unoccupied(c)'
    BY <1>1, <2>1 DEF OneClient, HeldBriefly, Charged, Alive, Unoccupied,
       Devoid, InCharge, ResumeSteps
  <2> QED
    BY <2>2, <2>3 DEF OneClient, DeviceInv
<1>4. CASE StopRelease(c)
  <2>1. /\ pc[c] = "release" /\ pc'[c] \in {"forget", "idle"} /\ Close(capture)
        /\ capture' = None /\ UNCHANGED <<held, wpc>>
    BY <1>4 DEF StopRelease, Goto, RequestsOK
  <2>2. NoCaptureLeak'
    BY <1>1, <2>1, CloseCloses DEF OneClient, NoCaptureLeak
  <2>3. HeldBriefly' /\ Charged' /\ Unoccupied(c)'
    BY <1>1, <2>1 DEF HeldBriefly, Charged, Unoccupied, Devoid, ResumeSteps
  <2> QED
    BY <2>2, <2>3 DEF OneClient, DeviceInv
<1>5. CASE \/ StopBegin(c) \/ StopUnpause(c) \/ StopSignal(c) \/ StopJoin(c)
           \/ FinalizeDangling(c, "late_finalize", "late_clear")
           \/ ClearSession(c, "late_clear", "late_done") \/ StopLateDone(c)
           \/ StopForget(c) \/ FinalizeDangling(c, "finalize", "clear")
           \/ ClearSession(c, "clear", "done") \/ StopDone(c)
  <2>1. /\ pc[c] \in (StopSteps \cup {"stop"}) \ {"late_close", "release"}
        /\ UNCHANGED <<capture, mic, held, wpc>>
    BY <1>5 DEF StopBegin, StopUnpause, StopSignal, StopJoin, FinalizeDangling,
       ClearSession, StopLateDone, StopForget, StopDone, StopSteps
  <2>2. pc'[c] \in StopSteps \cup {"idle"}
    BY <1>5 DEF StopBegin, StopUnpause, StopSignal, StopJoin, FinalizeDangling,
       ClearSession, StopLateDone, StopForget, StopDone, Return, Goto,
       RequestsOK, StopSteps
  <2> QED
    BY <2>1, <2>2, SameDevices DEF StopSteps, InCharge, Devoid, ResumeSteps
<1> QED
  BY <1>2, <1>3, <1>4, <1>5 DEF StopStep

\* A worker takes the capture only to stop it.
LEMMA WorkerKeepsDevices ==
  ASSUME ClientInv, DeviceInv, NEW w \in Epochs, WorkerStep(w)
  PROVE  DeviceInv'
<1> USE DEF ClientInv, TypeInv, TypeOK, lock, events, audio, session, worker
<1>1. NoCaptureLeak /\ HeldBriefly /\ Charged
  BY DEF DeviceInv
<1>2. /\ UNCHANGED <<pc, ref>> /\ \A v \in Epochs \ {w} : wpc'[v] = wpc[v]
      /\ Alive(w) /\ (Alive(w)' \/ wpc'[w] = "dead")
  <2>1. UNCHANGED <<pc, ref>>
    BY DEF WorkerStep, WorkerEntry, WorkerTop, TakeCapture, WorkerParked,
       WorkerPoll, WorkerRequest, WorkerAnswer, WorkerRaised, WorkerFailing,
       WorkerFinal, WorkerClosing, WorkerExit
  <2>2. \A v \in Epochs \ {w} : wpc'[v] = wpc[v]
    BY WorkerMoves DEF WorkersOK
  <2>3. Alive(w) /\ (Alive(w)' \/ wpc'[w] = "dead")
    BY WorkerMoves DEF Alive
  <2> QED
    BY <2>1, <2>2, <2>3
<1>3. ASSUME \/ capture' = None
             \/ UNCHANGED capture /\ wpc'[w] \notin {"closing", "exit", "dead"}
      PROVE  Charged'
  <2> SUFFICES ASSUME capture' # None PROVE Charged'
    BY DEF Charged
  <2>1. Alive(w)' /\ wpc'[w] \notin {"closing", "exit"}
    BY <1>2, <1>3 DEF Alive
  <2> QED
    BY <2>1 DEF Charged
<1>4. ASSUME NEW c \in Callers, UNCHANGED capture \/ capture' = None PROVE Unoccupied(c)'
  BY <1>2, <1>4 DEF DeviceInv, Unoccupied
<1>5. CASE TakeCapture(w, "pausing", "parking") \/ TakeCapture(w, "cleanup", "closing")
  <2>1. /\ wpc[w] \in {"pausing", "cleanup"} /\ wpc'[w] \in {"parking", "closing"}
        /\ capture' = None /\ UNCHANGED mic
        /\ \A v \in Epochs : held'[v] = IF v = w THEN capture ELSE held[v]
    BY <1>5 DEF TakeCapture, WGoto, WorkersOK
  <2>2. held[w] = None
    BY <1>1, <2>1 DEF HeldBriefly
  <2>3. NoCaptureLeak'
    BY <1>1, <1>2, <2>1, <2>2 DEF NoCaptureLeak, Epochs, None
  <2>4. HeldBriefly'
    BY <1>1, <1>2, <2>1 DEF HeldBriefly
  <2> QED
    BY <1>3, <1>4, <2>1, <2>3, <2>4 DEF DeviceInv
<1>6. CASE WorkerParked(w) \/ WorkerClosing(w)
  <2>1. /\ wpc[w] \in {"parking", "closing"} /\ wpc'[w] \in {"poll", "exit"}
        /\ wpc'[w] = "exit" => wpc[w] = "closing"
        /\ UNCHANGED capture /\ Close(held[w])
        /\ \A v \in Epochs : held'[v] = IF v = w THEN None ELSE held[v]
    BY <1>6 DEF WorkerParked, WorkerClosing, WGoto, WorkersOK
  <2>2. NoCaptureLeak'
    BY <1>1, <1>2, <2>1, CloseCloses DEF NoCaptureLeak
  <2>3. HeldBriefly'
    BY <1>1, <1>2, <2>1 DEF HeldBriefly
  <2>4. Charged'
    <3>1. CASE wpc'[w] = "poll"
      BY <1>3, <2>1, <3>1
    <3>2. CASE wpc'[w] = "exit"
      BY <1>1, <1>2, <2>1, <3>2 DEF Charged, Alive
    <3> QED
      BY <2>1, <3>1, <3>2
  <2> QED
    BY <1>4, <2>1, <2>2, <2>3, <2>4 DEF DeviceInv
<1>7. CASE WorkerExit(w)
  <2>1. UNCHANGED <<capture, mic, held>> /\ wpc[w] = "exit"
    BY <1>7 DEF WorkerExit
  <2>2. NoCaptureLeak' /\ HeldBriefly'
    BY <1>1, <1>2, <2>1 DEF NoCaptureLeak, HeldBriefly
  <2>3. Charged'
    BY <1>1, <1>2, <2>1 DEF Charged, Alive
  <2> QED
    BY <1>4, <2>1, <2>2, <2>3 DEF DeviceInv
<1>8. CASE \/ WorkerEntry(w) \/ WorkerTop(w) \/ WorkerPoll(w) \/ WorkerRequest(w)
           \/ WorkerAnswer(w) \/ WorkerRaised(w) \/ WorkerFailing(w) \/ WorkerFinal(w)
  <2>1. /\ UNCHANGED <<capture, mic, held>> /\ wpc[w] \notin {"parking", "closing"}
    BY <1>8 DEF WorkerEntry, WorkerTop, WorkerPoll, WorkerRequest, WorkerAnswer,
       WorkerRaised, WorkerFailing, WorkerFinal
  <2>2. wpc'[w] \notin {"closing", "exit", "dead"}
    BY <1>8 DEF WorkerEntry, WorkerTop, WorkerPoll, WorkerRequest, WorkerAnswer,
       WorkerRaised, WorkerFailing, WorkerFinal, WGoto, WorkersOK
  <2>3. NoCaptureLeak' /\ HeldBriefly'
    BY <1>1, <1>2, <2>1 DEF NoCaptureLeak, HeldBriefly
  <2> QED
    BY <1>3, <1>4, <2>1, <2>2, <2>3 DEF DeviceInv
<1> QED
  BY <1>5, <1>6, <1>7, <1>8 DEF WorkerStep

\* No step leaves a device open.
LEMMA NextDevices ==
  ASSUME OneClient, ClientInv, DeviceInv, "resume" \notin Requests, [Next]_vars
  PROVE  DeviceInv'
<1> USE DEF ClientInv, TypeInv, TypeOK, lock, events, audio, session, worker
<1>1. CASE UpdateConfig \/ UNCHANGED vars
  <2>1. UNCHANGED <<capture, mic, held, wpc, pc, ref>>
    BY <1>1 DEF UpdateConfig, vars
  <2> QED
    BY <2>1 DEF DeviceInv, NoCaptureLeak, HeldBriefly, Charged, Alive,
       Unoccupied
<1>2. ASSUME NEW c \in Callers,
             Dispatch(c) \/ DispatchDelete(c) \/ DeleteStep(c) \/ Pause(c)
      PROVE  DeviceInv'
  <2>1. /\ pc[c] \in {"idle", "check", "remove", "pause"}
        /\ pc'[c] \in {"idle", "check", "remove"} \cup Requests
        /\ UNCHANGED <<capture, mic, held, wpc>>
    BY <1>2 DEF Dispatch, DispatchDelete, DeleteStep, DeleteCheck, DeleteRow,
       Pause, Return, Goto, RequestsOK
  <2> QED
    BY <2>1, "resume" \notin Requests, ServiceAssumption, SameDevices DEF
       InCharge, Devoid, ResumeSteps
<1>3. ASSUME NEW c \in Callers, StartBegin(c) PROVE DeviceInv'
  <2>1. /\ pc[c] = "idle" /\ pc'[c] = "preflight" /\ UNCHANGED <<capture, mic, held, wpc>>
    BY <1>3 DEF StartBegin, Goto, RequestsOK
  <2>2. NobodyRuns
    BY <1>3, NoOtherWorker DEF StartBegin, MayStart, WorkerInv
  <2>3. capture = None
    BY <2>1, <2>2 DEF OneClient, DeviceInv, Charged, NobodyRuns, InCharge
  <2> QED
    BY <2>1, <2>3, SameDevices DEF InCharge, Devoid, ResumeSteps
<1>4. ASSUME NEW c \in Callers, PauseStep(c), ~Pause(c) PROVE DeviceInv'
  <2>1. pc[c] \in ResumeSteps \cup {"resume"}
    BY <1>4 DEF PauseStep, ResumeBegin, ResumeWait, ResumeAck, FinalizeDangling,
       ClearSession, ResumeMake, ResumeOpen, CreateSession, ResumeRunning,
       ResumeSteps
  <2> QED
    BY <2>1 DEF DeviceInv, Unoccupied
<1> QED
  BY <1>1, <1>2, <1>3, <1>4, StartKeepsDevices, StopKeepsDevices,
     WorkerKeepsDevices DEF Next, RequestStep

\* A client that sends no resume gets every device back, over any number of
\* sessions, pauses, failures and timeouts (the rollback of start 345-357, stop
\* 383-422, _safe_stop_capture 622-631).
THEOREM DevicesAreReleased ==
  ASSUME OneClient, "resume" \notin Requests PROVE Spec => []NoCaptureLeak
<1>1. TypeInv /\ WorkerInv /\ PhaseInv /\ DeviceInv /\ [Next]_vars
        => WorkerInv' /\ PhaseInv' /\ DeviceInv'
  BY OneClient, ClientDrives, "resume" \notin Requests, NextWorkerInv, NextPhase, NextDevices
     DEF ClientInv
<1>2. DeviceInv => NoCaptureLeak
  BY DEF DeviceInv
<1> QED
  BY <1>1, <1>2, InitTypes, InitWorkerInv, InitPhase, InitDevices, NextTypes,
     PTL DEF Spec

-----------------------------------------------------------------------------
(***************************************************************************)
(* The deletion, beside one driver that sends no resume.  Any number of    *)
(* requests may start, stop, fail and pause sessions between the check of  *)
(* a deletion and the removal of the row.  A session that has a row is     *)
(* past its start, so it never becomes the current one again (Named), and  *)
(* one that was not active at the check stays so: only a start says        *)
(* running again, and a start finds its worker dead.                       *)
(***************************************************************************)
\* A start works for the session numbered last, and spawns its worker.
Numbered(c) ==
    /\ pc[c] \in StartSteps => ref[c] = epoch
    /\ pc[c] = "spawn" => workerThread = ref[c]

\* A deletion is of a session that has a row and is not being started.
Named(c) == pc[c] \in DeleteSteps =>
    /\ ref[c] \in Epochs /\ ref[c] <= epoch
    /\ \A d \in Callers : pc[d] \in StartSteps => ref[d] # ref[c]

Left(c)  == pc[c] = "remove" => ~Recorded(ref[c])

NoResume == \A c \in Callers : pc[c] \notin ResumeSteps \cup {"resume"}

DeletingInv == /\ NoResume /\ RowOrder /\ cur <= epoch
               /\ \A c \in Callers : Numbered(c) /\ Named(c) /\ Left(c)

NewlyGone(s) == rows'[s].status = "deleted" /\ rows[s].status # "deleted"

\* Nobody deletes anything at first.
LEMMA InitDeleting == Init => DeletingInv
BY DEF None, Init, DeletingInv, NoResume, RowOrder, Numbered, Named, Left, StartSteps,
       ResumeSteps, DeleteSteps

\* Only a deletion deletes.
LEMMA OnlyDeletes ==
  ASSUME TypeInv, [Next]_vars, NEW s \in Epochs, NewlyGone(s)
  PROVE  \E c \in Callers : DeleteRow(c) /\ ref[c] = s
<1> USE DEF TypeInv, TypeOK, RowsOK, session
<1>1. UNCHANGED rows => FALSE
  BY DEF NewlyGone
<1>2. ASSUME NEW row, WriteRow(row), row.status # "deleted" PROVE FALSE
  <2>1. rows' = rows \/ rows' = [rows EXCEPT ![cur] = row]
    BY <1>2 DEF WriteRow, Written
  <2> QED
    BY <1>1, <1>2, <2>1 DEF NewlyGone
<1>3. ASSUME NEW text, WriteRow([rows[cur] EXCEPT !.text = text]) PROVE FALSE
  <2>1. rows' = rows \/ rows' = [rows EXCEPT ![cur] = [rows[cur] EXCEPT !.text = text]]
    BY <1>3 DEF WriteRow, Written
  <2>2. [rows[s] EXCEPT !.text = text].status = rows[s].status
    OBVIOUS
  <2> QED
    BY <1>1, <2>1, <2>2 DEF NewlyGone
<1>4. ASSUME WriteRow([rows[cur] EXCEPT !.status = "ended"]) PROVE FALSE
  <2>1. rows' = rows \/ rows' = [rows EXCEPT ![cur] = [rows[cur] EXCEPT !.status = "ended"]]
    BY <1>4 DEF WriteRow, Written
  <2>2. [rows[s] EXCEPT !.status = "ended"].status = "ended"
    OBVIOUS
  <2> QED
    BY <1>1, <2>1, <2>2 DEF NewlyGone
<1>5. ASSUME NEW c \in Callers, NEW here, NEW next,
             \/ FinalizeDangling(c, here, next) \/ CreateSession(c, here, next)
             \/ ClearSession(c, here, next)
      PROVE  FALSE
  <2>1. CASE FinalizeDangling(c, here, next)
    BY <1>1, <1>4, <2>1 DEF FinalizeDangling
  <2>2. CASE ClearSession(c, here, next)
    BY <1>1, <2>2 DEF ClearSession
  <2>3. CASE CreateSession(c, here, next)
    <3>1. rows' = rows \/ rows' = [rows EXCEPT ![ref[c]].status = "open"]
      BY <2>3 DEF CreateSession
    <3> QED
      BY <1>1, <3>1 DEF NewlyGone
  <2> QED
    BY <1>5, <2>1, <2>2, <2>3
<1>6. ASSUME NEW c \in Callers, StartStep(c) \/ StopStep(c) \/ PauseStep(c) PROVE FALSE
  BY <1>1, <1>5, <1>6 DEF StartStep, StartPreflight, StartInit, StartMake,
     StartOpen, StartRollback, StartRunning, StartThread, StartSpawn, StopStep,
     StopBegin, StopUnpause, StopSignal, StopJoin, StopAbandon, StopLateClose,
     StopLateDone, StopRelease, StopForget, StopDone, PauseStep, Pause,
     ResumeBegin, ResumeWait, ResumeAck, ResumeMake, ResumeOpen, ResumeRunning
<1>7. ASSUME NEW w \in Epochs, WorkerStep(w) PROVE FALSE
  <2>1. \/ UNCHANGED rows \/ (\E text : WriteRow([rows[cur] EXCEPT !.text = text]))
        \/ WriteRow([rows[cur] EXCEPT !.status = "ended"])
        \/ WriteRow([status |-> "ended", text |-> aggregator.text])
    <3>1. CASE WorkerAnswer(w)
      BY <3>1 DEF WorkerAnswer
    <3>2. CASE WorkerRaised(w) \/ WorkerFinal(w)
      BY <3>2 DEF WorkerRaised, WorkerFinal
    <3>3. CASE ~(WorkerAnswer(w) \/ WorkerRaised(w) \/ WorkerFinal(w))
      BY <1>7, <3>3 DEF WorkerStep, WorkerEntry, WorkerTop, TakeCapture,
         WorkerParked, WorkerPoll, WorkerRequest, WorkerFailing, WorkerClosing,
         WorkerExit
    <3> QED
      BY <3>1, <3>2, <3>3
  <2> QED
    BY <1>1, <1>2, <1>3, <1>4, <2>1
<1>8. \E c \in Callers : DeleteRow(c)
  BY <1>1, <1>6, <1>7 DEF Next, RequestStep, UpdateConfig, Dispatch,
     DispatchDelete, StartBegin, DeleteStep, DeleteCheck, vars
<1> QED
  BY <1>8 DEF DeleteRow, NewlyGone

\* A row changes if it is the current one, or is made or deleted by a request.
LEMMA RowsChange ==
  ASSUME TypeInv, [Next]_vars, NEW s \in Epochs, rows'[s] # rows[s]
  PROVE  \/ s = cur
         \/ \E c \in Callers : s = ref[c] /\ pc[c] \in {"session", "res_session", "remove"}
<1> USE DEF TypeInv, TypeOK, RowsOK, session
<1>1. ASSUME NEW row, WriteRow(row) PROVE s = cur
  <2>1. rows' = rows \/ rows' = [rows EXCEPT ![cur] = row]
    BY <1>1 DEF WriteRow, Written
  <2> QED
    BY <2>1
<1>2. ASSUME NEW c \in Callers, NEW here, NEW next, FinalizeDangling(c, here, next)
      PROVE  s = cur
  BY <1>1, <1>2 DEF FinalizeDangling
<1>3. ASSUME NEW c \in Callers, NEW here, NEW next, CreateSession(c, here, next)
      PROVE  s = ref[c] /\ pc[c] = here
  <2>1. rows' = rows \/ rows' = [rows EXCEPT ![ref[c]].status = "open"]
    BY <1>3 DEF CreateSession
  <2> QED
    BY <1>3, <2>1 DEF CreateSession
<1>4. ASSUME NEW c \in Callers, StartStep(c) PROVE s = ref[c] /\ pc[c] = "session"
  BY <1>3, <1>4 DEF StartStep, StartPreflight, StartInit, StartMake, StartOpen,
     StartRollback, StartRunning, StartThread, StartSpawn
<1>5. ASSUME NEW c \in Callers, StopStep(c) PROVE s = cur
  BY <1>2, <1>5 DEF StopStep, StopBegin, StopUnpause, StopSignal, StopJoin,
     StopAbandon, StopLateClose, ClearSession, StopLateDone, StopRelease,
     StopForget, StopDone
<1>6. ASSUME NEW c \in Callers, PauseStep(c)
      PROVE  s = cur \/ (s = ref[c] /\ pc[c] = "res_session")
  BY <1>2, <1>3, <1>6 DEF PauseStep, Pause, ResumeBegin, ResumeWait, ResumeAck,
     ClearSession, ResumeMake, ResumeOpen, ResumeRunning
<1>7. ASSUME NEW c \in Callers, DeleteStep(c) PROVE s = ref[c] /\ pc[c] = "remove"
  <2>1. rows' = [rows EXCEPT ![ref[c]] = [status |-> "deleted", text |-> {}]]
        /\ pc[c] = "remove"
    BY <1>7 DEF DeleteStep, DeleteCheck, DeleteRow
  <2> QED
    BY <2>1
<1>8. ASSUME NEW w \in Epochs, WorkerStep(w) PROVE s = cur
  BY <1>1, <1>8 DEF WorkerStep, WorkerEntry, WorkerTop, TakeCapture,
     WorkerParked, WorkerPoll, WorkerRequest, WorkerAnswer, WorkerRaised,
     WorkerFailing, WorkerFinal, WorkerClosing, WorkerExit
<1>9. ~(UpdateConfig \/ UNCHANGED vars)
      /\ \A c \in Callers : ~(Dispatch(c) \/ DispatchDelete(c) \/ StartBegin(c))
  BY DEF UpdateConfig, vars, Dispatch, DispatchDelete, StartBegin
<1> QED
  BY <1>4, <1>5, <1>6, <1>7, <1>8, <1>9 DEF Next, RequestStep

\* The epochs only go up, and up to now all rows are of them.
LEMMA RowsStayInOrder ==
  ASSUME TypeInv, DeletingInv, [Next]_vars
  PROVE  RowOrder' /\ epoch <= epoch' /\ cur' <= epoch'
<1> USE DEF TypeInv, TypeOK, NamesOK, Epochs, session
<1>1. \A c \in Callers : ~(PauseStep(c) /\ ~Pause(c))
  BY DEF DeletingInv, NoResume, PauseStep, ResumeBegin, ResumeWait, ResumeAck,
     FinalizeDangling, ClearSession, ResumeMake, ResumeOpen, CreateSession,
     ResumeRunning, ResumeSteps
<1>2. epoch <= epoch' /\ epoch' \in Nat
  <2>1. UNCHANGED epoch \/ epoch' = epoch + 1
    BY <1>1 DEF Next, RequestStep, UpdateConfig, vars, Dispatch, DispatchDelete,
       StartBegin, NewEpoch, StartStep, StartPreflight, StartInit, StartMake,
       StartOpen, StartRollback, StartRunning, CreateSession, StartThread,
       StartSpawn, StopStep, StopBegin, StopUnpause, StopSignal, StopJoin,
       StopAbandon, StopLateClose, FinalizeDangling, ClearSession,
       StopLateDone, StopRelease, StopForget, StopDone, Pause, DeleteStep,
       DeleteCheck, DeleteRow, WorkerStep, WorkerEntry, WorkerTop, TakeCapture,
       WorkerParked, WorkerPoll, WorkerRequest, WorkerAnswer, WorkerRaised,
       WorkerFailing, WorkerFinal, WorkerClosing, WorkerExit
  <2> QED
    BY <2>1, ServiceAssumption
<1>3. \A c \in Callers : pc[c] = "session" => ref[c] = epoch
  BY DEF DeletingInv, Numbered, StartSteps
<1>4. \A s \in Epochs : rows'[s].status # "absent" => s <= epoch
  BY RowsChange, <1>3 DEF DeletingInv, RowOrder, NoResume, ResumeSteps, Named,
     DeleteSteps
<1>5. cur' \in {cur, None} \/ \E c \in Callers : cur' = ref[c] /\ pc[c] = "session"
  BY <1>1 DEF Next, RequestStep, UpdateConfig, vars, Dispatch, DispatchDelete,
     StartBegin, StartStep, StartPreflight, StartInit, StartMake, StartOpen,
     StartRollback, StartRunning, CreateSession, StartThread, StartSpawn,
     StopStep, StopBegin, StopUnpause, StopSignal, StopJoin, StopAbandon,
     StopLateClose, FinalizeDangling, ClearSession, StopLateDone, StopRelease,
     StopForget, StopDone, Pause, DeleteStep, DeleteCheck, DeleteRow,
     WorkerStep, WorkerEntry, WorkerTop, TakeCapture, WorkerParked, WorkerPoll,
     WorkerRequest, WorkerAnswer, WriteRow, WorkerRaised, WorkerFailing,
     WorkerFinal, WorkerClosing, WorkerExit
<1>6. cur' <= epoch'
  BY <1>2, <1>3, <1>5 DEF DeletingInv, None
<1> QED
  BY <1>2, <1>4, <1>6, ServiceAssumption DEF RowOrder

\* A session that is not recorded stays so in a step that does not make it the
\* current one, does not bring its worker to life and does not say running anew.
LEMMA StaysUnrecorded ==
  ASSUME NEW s, ~Recorded(s),
         cur' = s => cur = s, Alive(s)' => Alive(s),
         state' \in {"running", "paused"} => state \in {"running", "paused"}
  PROVE  ~Recorded(s)'
BY DEF Recorded

\* The driver leaves the deletions and what they name alone.
LEMMA DriverKeepsNames ==
  ASSUME OneDriver, TypeInv, DeletingInv, NEW c \in Callers,
         StartStep(c) \/ StopStep(c) \/ Pause(c)
  PROVE  /\ NoResume'
         /\ \A d \in Callers :
              /\ Numbered(d)' /\ Named(d)'
              /\ pc'[d] = "remove" =>
                   d # c /\ pc[d] = "remove" /\ ref'[d] = ref[d] /\ ref[d] \in Epochs
<1> USE DEF TypeInv, TypeOK, RequestsOK
<1>1. \A d \in Callers : d # c =>
        pc'[d] \in Passive /\ pc'[d] = pc[d] /\ ref'[d] = ref[d]
  <2>1. \A d \in Callers : d # c => pc'[d] \in Passive
    BY OthersWait DEF PauseStep
  <2>2. \A d \in Callers : d # c => pc'[d] = pc[d] /\ ref'[d] = ref[d]
    BY DEF Goto, Return, StartStep, StartPreflight, StartInit, StartMake,
       StartOpen, StartRollback, StartRunning, CreateSession, StartThread,
       StartSpawn, StopStep, StopBegin, StopUnpause, StopSignal, StopJoin,
       StopAbandon, StopLateClose, FinalizeDangling, ClearSession,
       StopLateDone, StopRelease, StopForget, StopDone, Pause
  <2> QED
    BY <2>1, <2>2
<1>2. pc'[c] \in StartSteps => pc[c] \in StartSteps /\ ref'[c] = ref[c]
  BY DEF Goto, Return, StartStep, StartPreflight, StartInit, StartMake,
     StartOpen, StartRollback, StartRunning, CreateSession, StartThread,
     StartSpawn, StopStep, StopBegin, StopUnpause, StopSignal, StopJoin,
     StopAbandon, StopLateClose, FinalizeDangling, ClearSession,
     StopLateDone, StopRelease, StopForget, StopDone, Pause, StartSteps
<1>3. pc'[c] \notin DeleteSteps \cup ResumeSteps \cup {"resume"}
  BY DEF Goto, Return, StartStep, StartPreflight, StartInit, StartMake,
     StartOpen, StartRollback, StartRunning, CreateSession, StartThread,
     StartSpawn, StopStep, StopBegin, StopUnpause, StopSignal, StopJoin,
     StopAbandon, StopLateClose, FinalizeDangling, ClearSession,
     StopLateDone, StopRelease, StopForget, StopDone, Pause, DeleteSteps,
     ResumeSteps
<1>4. pc'[c] = "spawn" => workerThread' = ref'[c]
  BY DEF Goto, Return, StartStep, StartPreflight, StartInit, StartMake,
     StartOpen, StartRollback, StartRunning, CreateSession, StartThread,
     StartSpawn, StopStep, StopBegin, StopUnpause, StopSignal, StopJoin,
     StopAbandon, StopLateClose, FinalizeDangling, ClearSession,
     StopLateDone, StopRelease, StopForget, StopDone, Pause
<1>5. UNCHANGED epoch
  BY DEF StartStep, StartPreflight, StartInit, StartMake,
     StartOpen, StartRollback, StartRunning, CreateSession, StartThread,
     StartSpawn, StopStep, StopBegin, StopUnpause, StopSignal, StopJoin,
     StopAbandon, StopLateClose, FinalizeDangling, ClearSession,
     StopLateDone, StopRelease, StopForget, StopDone, Pause
<1>6. NoResume'
  BY <1>1, <1>3 DEF DeletingInv, NoResume
<1>7. \A d \in Callers : Numbered(d)'
  BY <1>1, <1>2, <1>4, <1>5 DEF DeletingInv, Numbered, Passive, DeleteSteps,
     StartSteps
<1>8. \A d \in Callers : Named(d)'
  BY <1>1, <1>2, <1>3, <1>5 DEF DeletingInv, Named, Passive, DeleteSteps,
     StartSteps
<1>9. \A d \in Callers : pc'[d] = "remove" =>
        d # c /\ pc[d] = "remove" /\ ref'[d] = ref[d] /\ ref[d] \in Epochs
  BY <1>1, <1>3 DEF DeletingInv, Named, DeleteSteps
<1> QED
  BY <1>6, <1>7, <1>8, <1>9

\* What the driver does of a session that is being deleted.
LEMMA DriverKeepsLeft ==
  ASSUME OneDriver, TypeInv, WorkerInv, DeletingInv, NEW c \in Callers,
         StartStep(c) \/ StopStep(c) \/ Pause(c),
         NEW s \in Epochs, ~Recorded(s), pc[c] \in StartSteps => ref[c] # s
  PROVE  ~Recorded(s)'
<1> USE DEF TypeInv, TypeOK, lock, session, worker
<1>1. CASE StartStep(c)
  <2>1. pc[c] \in StartSteps /\ NobodyRuns
    BY <1>1 DEF WorkerInv, Unmanned, StartSteps, StartStep, StartPreflight,
       StartInit, StartMake, StartOpen, StartRollback, StartRunning,
       CreateSession, StartThread, StartSpawn
  <2>2. ~Alive(s) /\ ref[c] # s
    BY <2>1 DEF NobodyRuns
  <2>3. ~Alive(s)'
    <3>1. CASE StartThread(c)
      BY <2>2, <3>1 DEF StartThread, Alive, WorkersOK
    <3>2. CASE StartSpawn(c)
      <4>1. workerThread # s
        BY <2>2, <3>2 DEF StartSpawn, DeletingInv, Numbered
      <4> QED
        BY <2>2, <3>2, <4>1 DEF StartSpawn, Alive, WorkersOK
    <3>3. CASE ~StartThread(c) /\ ~StartSpawn(c)
      BY <1>1, <2>2, <3>3 DEF Alive, StartStep, StartPreflight, StartInit,
         StartMake, StartOpen, StartRollback, StartRunning, CreateSession
    <3> QED
      BY <3>1, <3>2, <3>3
  <2> QED
    BY <2>3 DEF Recorded
<1>2. CASE StopStep(c) \/ Pause(c)
  <2>1. cur' \in {cur, None} /\ UNCHANGED wpc
    BY <1>2 DEF StopStep, StopBegin, StopUnpause, StopSignal, StopJoin,
       StopAbandon, StopLateClose, FinalizeDangling, WriteRow, ClearSession,
       StopLateDone, StopRelease, StopForget, StopDone, Pause
  <2>2. state' \in {"running", "paused"} => state \in {"running", "paused"}
    BY <1>2 DEF StopStep, StopBegin, StopUnpause, StopSignal, StopJoin,
       StopAbandon, StopLateClose, FinalizeDangling, ClearSession,
       StopLateDone, StopRelease, StopForget, StopDone, Pause
  <2>3. s # None
    BY DEF Epochs, None
  <2> QED
    BY <2>1, <2>2, <2>3, StaysUnrecorded DEF Alive
<1> QED
  BY <1>1, <1>2

\* The check that a deletion has passed stays true until it is carried out.
LEMMA NextDeleting ==
  ASSUME OneDriver, TypeInv, WorkerInv, DeletingInv, "resume" \notin Requests,
         [Next]_vars
  PROVE  DeletingInv'
<1> USE DEF TypeInv, TypeOK, RequestsOK, lock, session
<1>0. RowOrder' /\ cur' <= epoch'
  BY RowsStayInOrder
<1>1. ASSUME UNCHANGED <<state, cur, epoch, pc, ref, workerThread, wpc>>
      PROVE  DeletingInv'
  BY <1>0, <1>1 DEF DeletingInv, NoResume, Numbered, Named, Left, Recorded, Alive
<1>2. ASSUME NEW c \in Callers, StartStep(c) \/ StopStep(c) \/ PauseStep(c)
      PROVE  DeletingInv'
  <2>1. StartStep(c) \/ StopStep(c) \/ Pause(c)
    BY <1>2 DEF DeletingInv, NoResume, PauseStep, ResumeBegin, ResumeWait,
       ResumeAck, FinalizeDangling, ClearSession, ResumeMake, ResumeOpen,
       CreateSession, ResumeRunning, ResumeSteps
  <2>2. \A d \in Callers : Left(d)'
    <3> SUFFICES ASSUME NEW d \in Callers, pc'[d] = "remove"
                 PROVE  ~Recorded(ref[d])'
      BY DEF Left
    <3>1. d # c /\ pc[d] = "remove" /\ ref'[d] = ref[d] /\ ref[d] \in Epochs
      BY <2>1, DriverKeepsNames
    <3>2. ~Recorded(ref[d]) /\ (pc[c] \in StartSteps => ref[c] # ref[d])
      BY <3>1 DEF DeletingInv, Left, Named, DeleteSteps
    <3>3. PICK s \in Epochs : s = ref[d]
      BY <3>1
    <3>4. ~Recorded(s)'
      BY <2>1, <3>2, <3>3, DriverKeepsLeft
    <3> QED
      BY <3>1, <3>3, <3>4 DEF Recorded, Alive
  <2> QED
    BY <1>0, <2>1, <2>2, DriverKeepsNames DEF DeletingInv
<1>3. ASSUME NEW c \in Callers, DeleteStep(c) PROVE DeletingInv'
  <2>1. /\ pc'[c] \in {"idle", "remove"} /\ pc[c] \in DeleteSteps /\ UNCHANGED ref
        /\ \A d \in Callers : d # c => pc'[d] = pc[d]
        /\ UNCHANGED <<state, cur, epoch, workerThread, wpc>>
    BY <1>3 DEF DeleteStep, DeleteCheck, DeleteRow, Return, Goto, DeleteSteps,
       worker
  <2>2. pc'[c] = "remove" => ~Recorded(ref[c])
    BY <1>3 DEF DeleteStep, DeleteCheck, DeleteRow, Return, Goto, MayDelete,
       Recorded
  <2>3. NoResume' /\ \A d \in Callers : Numbered(d)' /\ Named(d)'
    BY <2>1 DEF DeletingInv, NoResume, Numbered, Named, DeleteSteps, StartSteps,
       ResumeSteps
  <2>4. \A d \in Callers : Left(d)'
    BY <2>1, <2>2 DEF DeletingInv, Left, Recorded, Alive
  <2> QED
    BY <1>0, <2>3, <2>4 DEF DeletingInv
<1>4. ASSUME NEW c \in Callers, Dispatch(c) \/ DispatchDelete(c) \/ StartBegin(c)
      PROVE  DeletingInv'
  <2>1. /\ pc[c] = "idle" /\ LoopFree
        /\ \A d \in Callers : d # c => pc'[d] = pc[d] /\ ref'[d] = ref[d]
        /\ UNCHANGED <<cur, workerThread, wpc>>
    BY <1>4 DEF Dispatch, DispatchDelete, StartBegin, NewEpoch, Goto, worker
  <2>2. \/ pc'[c] \in Requests \ {"delete"} /\ UNCHANGED <<state, epoch>>
        \/ pc'[c] = "check" /\ UNCHANGED <<state, epoch>> /\ ref'[c] \in Epochs
             /\ rows[ref'[c]].status # "absent"
        \/ pc'[c] = "preflight" /\ state' = "preflight" /\ epoch' = epoch + 1
             /\ ref'[c] = epoch'
    BY <1>4 DEF Dispatch, DispatchDelete, StartBegin, NewEpoch, Goto
  <2>3. pc'[c] \notin ResumeSteps \cup {"resume", "spawn", "remove"}
    BY <2>2, "resume" \notin Requests, ServiceAssumption DEF ResumeSteps
  <2>4. NoResume' /\ \A d \in Callers : Numbered(d)'
    BY <2>1, <2>2, <2>3, ServiceAssumption DEF DeletingInv, NoResume, Numbered, LoopFree,
       StartSteps
  <2>5. \A d \in Callers : Named(d)'
    <3>1. CASE pc'[c] # "preflight"
      BY <2>1, <2>2, <3>1, ServiceAssumption DEF DeletingInv, Named, RowOrder,
         DeleteSteps, StartSteps, LoopFree
    <3>2. CASE pc'[c] = "preflight"
      <4>1. epoch \in Nat /\ epoch' = epoch + 1 /\ ref'[c] = epoch'
        BY <2>2, <3>2, ServiceAssumption DEF NamesOK
      <4> QED
        BY <2>1, <3>2, <4>1 DEF DeletingInv, Named, DeleteSteps, StartSteps,
           LoopFree, Epochs
    <3> QED
      BY <3>1, <3>2
  <2>6. \A d \in Callers : Left(d)'
    BY <2>1, <2>2, <2>3 DEF DeletingInv, Left, Recorded, Alive
  <2> QED
    BY <1>0, <2>4, <2>5, <2>6 DEF DeletingInv
<1>5. ASSUME NEW w \in Epochs, WorkerStep(w) PROVE DeletingInv'
  <2>1. UNCHANGED <<pc, ref, workerThread, cur, epoch>>
    BY <1>5 DEF WorkerStep, WorkerEntry, WorkerTop, TakeCapture, WorkerParked,
       WorkerPoll, WorkerRequest, WorkerAnswer, WriteRow, WorkerRaised,
       WorkerFailing, WorkerFinal, WorkerClosing, WorkerExit
  <2>2. state' \in {"running", "paused"} => UNCHANGED state
    BY <1>5 DEF WorkerStep, WorkerEntry, WorkerTop, TakeCapture, WorkerParked,
       WorkerPoll, WorkerRequest, WorkerAnswer, WorkerRaised, WorkerFailing,
       StateAfterFailure, WorkerFinal, WorkerClosing, WorkerExit
  <2>3. \A s \in Epochs : Alive(s)' => Alive(s)
    <3>1. Alive(w)
      BY <1>5 DEF Alive, Epochs, None, WorkerStep, WorkerEntry, WorkerTop,
         TakeCapture, WorkerParked, WorkerPoll, WorkerRequest, WorkerAnswer,
         WorkerRaised, WorkerFailing, WorkerFinal, WorkerClosing, WorkerExit
    <3>2. \A v \in Epochs : v # w => wpc'[v] = wpc[v]
      BY <1>5 DEF WorkersOK, WGoto, WorkerStep, WorkerEntry, WorkerTop,
         TakeCapture, WorkerParked, WorkerPoll, WorkerRequest, WorkerAnswer,
         WorkerRaised, WorkerFailing, WorkerFinal, WorkerClosing, WorkerExit
    <3> QED
      BY <3>1, <3>2 DEF Alive
  <2>4. NoResume' /\ \A d \in Callers : Numbered(d)' /\ Named(d)'
    BY <2>1 DEF DeletingInv, NoResume, Numbered, Named
  <2>5. \A d \in Callers : Left(d)'
    BY <2>1, <2>2, <2>3 DEF DeletingInv, Left, Named, DeleteSteps, Recorded
  <2> QED
    BY <1>0, <2>4, <2>5 DEF DeletingInv
<1>6. CASE UpdateConfig \/ UNCHANGED vars
  BY <1>1, <1>6 DEF UpdateConfig, vars, worker
<1> QED
  BY <1>2, <1>3, <1>4, <1>5, <1>6 DEF Next, RequestStep

\* As long as start, stop and pause wait for each other's answers, no deletion takes
\* the row of the session that is being recorded: however many deletions there are,
\* and whatever is started, stopped, paused or fails between the check of one and
\* its removal of the row (delete_session of api.py 221-229).
THEOREM ActiveRowsAreKept ==
  ASSUME "resume" \notin Requests
  PROVE  Spec /\ []OneDriver => ActiveRowKept
<1>1. OneDriver /\ TypeInv /\ WorkerInv /\ DeletingInv /\ [Next]_vars
        => WorkerInv' /\ DeletingInv'
  BY "resume" \notin Requests, NextWorkerInv, NextDeleting
<1>2. TypeInv /\ DeletingInv /\ [Next]_vars
        => \A s \in Epochs : Recorded(s) /\ rows'[s].status = "deleted"
                               => rows[s].status = "deleted"
  BY OnlyDeletes DEF NewlyGone, DeleteRow, DeletingInv, Left
<1> QED
  BY <1>1, <1>2, InitTypes, InitWorkerInv, InitDeleting, NextTypes,
     PTL DEF Spec, ActiveRowKept
=============================================================================
