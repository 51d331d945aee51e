--------------------------- MODULE CaptureProofs ---------------------------
(***************************************************************************)
(* Theorems about the audio capture for any devices, tracks, queue sizes,  *)
(* window, hop and retention that satisfy CaptureAssumption, and for every *)
(* kind of fault: its types, that stop leaves no stream open, that no      *)
(* audio is lost on its way to the store, that a track is never recorded   *)
(* twice, and that a window is whole.                                      *)
(*                                                                         *)
(* The order of the sections is the order of the argument: each invariant  *)
(* is proved to be kept by a step under those before it.                   *)
(***************************************************************************)
EXTENDS Capture, TLAPS

-----------------------------------------------------------------------------
(***************************************************************************)
(* Types.  A thread that opens streams has read a pair and has a           *)
(* generation, one that clears an attribute is at a track, and the threads *)
(* are spawned after a pair was noted (Known).                             *)
(***************************************************************************)
Opening  == {"generation", "open"}
Closing  == {"close", "clear"}

Known ==
    /\ pc["owner"] \in Opening => pair["owner"] \in Devices
    /\ pc["watch"] \in {"compare", "notify"} => pair["watch"] \in Devices
    /\ pc["maint"] \in Opening \cup Closing => pair["maint"] \in Devices
    /\ pc["owner"] \in {"spawn_watch", "spawn_maint"} => current # NoDevice
    /\ \A t \in Threads : /\ pc[t] = "clear" => at[t] \in TrackSet
                          /\ pc[t] = "open" => generation # None

TypeInv == TypeOK /\ Known

LEMMA InitTypes == Init => TypeInv
<1> SUFFICES ASSUME Init PROVE TypeInv
  OBVIOUS
<1> USE CaptureAssumption DEF Init
<1>1. WorldOK
  BY DEF WorldOK, Never
<1>2. StreamsOK
  BY DEF StreamsOK, None
<1>3. DevicesOK /\ ReadingOK
  BY DEF DevicesOK, ReadingOK
<1>7. EventsOK
  BY DEF EventsOK
<1>4. ChunksOK
  BY DEF ChunksOK
<1>5. StepsOK /\ AtOK
  BY DEF StepsOK, AtOK, OwnerSteps, MaintSteps, WatchSteps, ReaderSteps, Threads
<1>6. Known /\ ~Alive("maint")
  BY DEF Known, Alive, Threads, Opening, Closing
<1> QED
  BY <1>1, <1>2, <1>3, <1>4, <1>5, <1>6, <1>7 DEF TypeInv, TypeOK

\* A part of the invariant survives a step that leaves its variables alone.
LEMMA Frame ==
  ASSUME TypeOK
  PROVE  /\ UNCHANGED <<default, switches, now, startedAt>> => WorldOK'
         /\ UNCHANGED <<opened, generation, stream>> => StreamsOK'
         /\ UNCHANGED <<devices, pair>> => DevicesOK'
         /\ UNCHANGED <<events, terminated>> => EventsOK'
         /\ UNCHANGED <<queue, stored, recorded, taken>> => ChunksOK'
         /\ UNCHANGED reading => ReadingOK'
         /\ UNCHANGED pc => StepsOK'
         /\ UNCHANGED at => AtOK'
<1> USE DEF TypeOK
<1>1. UNCHANGED <<default, switches, now, startedAt>> => WorldOK'
  BY DEF WorldOK
<1>2. UNCHANGED <<opened, generation, stream>> => StreamsOK'
  BY DEF StreamsOK, Stream, TrackSet
<1>3. UNCHANGED <<devices, pair>> => DevicesOK'
  BY DEF DevicesOK, devices
<1>4. UNCHANGED <<events, terminated>> => EventsOK'
  BY DEF EventsOK, events
<1>5. UNCHANGED <<queue, stored, recorded, taken>> => ChunksOK'
  BY DEF ChunksOK
<1>6. UNCHANGED reading => ReadingOK'
  BY DEF ReadingOK, reading
<1>7. (UNCHANGED pc => StepsOK') /\ (UNCHANGED at => AtOK')
  BY DEF StepsOK, AtOK
<1> QED
  BY <1>1, <1>2, <1>3, <1>4, <1>5, <1>6, <1>7

\* One lemma for each kind of step, with one part for each part of TypeOK.
LEMMA CloseTypes ==
  ASSUME TypeInv, \/ CloseStream("owner", "drain")
                  \/ CloseStream("maint", "generation")
  PROVE  TypeInv'
<1> USE CaptureAssumption DEF TypeInv, TypeOK
<1>1. /\ UNCHANGED <<default, switches, now, startedAt, terminated, generation,
                     stream, pair, current>>
      /\ UNCHANGED <<devices, events, reading, queue, stored, recorded, taken>>
  BY DEF CloseStream, streams, devices, events, chunks, reading
<1>2. opened' \subseteq opened
  BY DEF CloseStream
<1>3. StepsOK' /\ AtOK'
  <2>1. CASE CloseStream("owner", "drain")
    BY <2>1 DEF CloseStream, StepsOK, AtOK, OwnerSteps, MaintSteps, WatchSteps,
       ReaderSteps, Goto, TrackSet, Threads
  <2>2. CASE CloseStream("maint", "generation")
    BY <2>2 DEF CloseStream, StepsOK, AtOK, OwnerSteps, MaintSteps, WatchSteps,
       ReaderSteps, Goto, TrackSet, Threads
  <2> QED
    BY <2>1, <2>2
<1>4. StreamsOK'
  BY <1>1, <1>2 DEF StreamsOK
<1>5. (Alive("maint") => current # NoDevice)'
  BY <1>1 DEF CloseStream, Alive, Goto, StepsOK, AtOK, OwnerSteps, MaintSteps,
     WatchSteps, ReaderSteps, Threads
<1>6. Known'
  BY <1>1 DEF CloseStream, Goto, StepsOK, AtOK, OwnerSteps, MaintSteps,
     WatchSteps, ReaderSteps, Threads, Known, Opening, Closing
<1> QED
  BY <1>1, <1>3, <1>4, <1>5, <1>6, Frame

LEMMA OpenTypes ==
  ASSUME TypeInv, NEW t \in {"owner", "maint"}, OpenStream(t)
  PROVE  TypeInv'
<1> USE CaptureAssumption DEF TypeInv, TypeOK
<1>1. /\ UNCHANGED <<default, switches, now, startedAt, terminated, generation,
                     pc, pair, current>>
      /\ UNCHANGED <<devices, events, reading, queue, stored, recorded, taken>>
  BY DEF OpenStream, streams, devices, events, chunks, reading
<1>2. generation \in 1 .. MaxGen /\ pair[t] \in Devices /\ at[t] \in TrackSet
  BY DEF OpenStream, Known, StreamsOK, StepsOK, AtOK, OwnerSteps, MaintSteps,
     WatchSteps, ReaderSteps, Threads, Opening, None
<1>3. StepsOK' /\ AtOK'
  BY <1>1, <1>2 DEF OpenStream, StepsOK, AtOK, OwnerSteps, MaintSteps,
     WatchSteps, ReaderSteps, TrackSet, Threads
<1>4. StreamsOK'
  BY <1>2 DEF OpenStream, StreamsOK, Stream, WorldOK, None
<1>5. (Alive("maint") => current # NoDevice)'
  BY <1>1 DEF Alive
<1>6. Known'
  BY <1>1 DEF OpenStream, StepsOK, AtOK, OwnerSteps, MaintSteps, WatchSteps,
     ReaderSteps, Threads, Known
<1> QED
  BY <1>1, <1>3, <1>4, <1>5, <1>6, Frame

LEMMA ClearTypes ==
  ASSUME TypeInv, NEW t \in {"owner", "maint"}, ClearStream(t)
  PROVE  TypeInv'
<1> USE CaptureAssumption DEF TypeInv, TypeOK
<1>1. /\ UNCHANGED <<default, switches, now, startedAt, terminated, opened,
                     generation, pair, current>>
      /\ UNCHANGED <<devices, events, reading, queue, stored, recorded, taken>>
  BY DEF ClearStream, world, devices, events, chunks, reading
<1>2. at[t] \in TrackSet /\ pc[t] = "clear"
  BY DEF ClearStream, Known, Threads
<1>3. StepsOK' /\ AtOK'
  BY <1>2 DEF ClearStream, StepsOK, AtOK, OwnerSteps, MaintSteps, WatchSteps,
     ReaderSteps, Goto, TrackSet, Threads
<1>4. StreamsOK'
  BY <1>1, <1>2 DEF ClearStream, StreamsOK, None
<1>5. (Alive("maint") => current # NoDevice)'
  BY <1>1, <1>2 DEF ClearStream, Alive, Goto, StepsOK, AtOK, OwnerSteps,
     MaintSteps, WatchSteps, ReaderSteps, Threads
<1>6. Known'
  BY <1>1, <1>2 DEF ClearStream, Goto, StepsOK, AtOK, OwnerSteps, MaintSteps,
     WatchSteps, ReaderSteps, Threads, Known, Opening, Closing
<1> QED
  BY <1>1, <1>3, <1>4, <1>5, <1>6, Frame

LEMMA GenerationTypes ==
  ASSUME TypeInv, NEW t \in {"owner", "maint"}, NextGeneration(t)
  PROVE  TypeInv'
<1> USE CaptureAssumption DEF TypeInv, TypeOK
<1>1. /\ UNCHANGED <<default, switches, now, startedAt, terminated, opened,
                     stream, pair, current>>
      /\ UNCHANGED <<devices, events, reading, queue, stored, recorded, taken>>
  BY DEF NextGeneration, world, devices, events, chunks, reading
<1>2. pc[t] = "generation" /\ generation' \in 1 .. MaxGen
  BY DEF NextGeneration, StreamsOK
<1>3. StepsOK' /\ AtOK'
  BY <1>2 DEF NextGeneration, StepsOK, AtOK, OwnerSteps, MaintSteps, WatchSteps,
     ReaderSteps, Goto, Threads
<1>4. StreamsOK'
  BY <1>1, <1>2 DEF StreamsOK
<1>5. (Alive("maint") => current # NoDevice)'
  BY <1>1, <1>2 DEF NextGeneration, Alive, Goto, StepsOK, AtOK, OwnerSteps,
     MaintSteps, WatchSteps, ReaderSteps, Threads
<1>6. Known'
  BY <1>1, <1>2 DEF NextGeneration, Goto, StepsOK, AtOK, OwnerSteps, MaintSteps,
     WatchSteps, ReaderSteps, Threads, Known, Opening, Closing, None
<1> QED
  BY <1>1, <1>3, <1>4, <1>5, <1>6, Frame

LEMMA RaisesTypes ==
  ASSUME TypeInv, OpenRaises("owner", "broken") \/ OpenRaises("maint", "dead")
  PROVE  TypeInv'
<1> USE CaptureAssumption DEF TypeInv, TypeOK
<1>1. /\ UNCHANGED <<default, switches, now, startedAt, terminated, opened,
                     generation, stream, pair, current>>
      /\ UNCHANGED <<devices, events, reading, queue, stored, recorded, taken, at>>
  BY DEF OpenRaises, world, streams, devices, events, chunks, reading, locals
<1>2. StepsOK' /\ AtOK'
  BY <1>1 DEF OpenRaises, StepsOK, AtOK, OwnerSteps, MaintSteps, WatchSteps,
     ReaderSteps, Goto, Threads
<1>3. (Alive("maint") => current # NoDevice)'
  BY <1>1 DEF OpenRaises, Alive, Goto, StepsOK, AtOK, OwnerSteps, MaintSteps,
     WatchSteps, ReaderSteps, Threads
<1>4. Known'
  BY <1>1 DEF OpenRaises, Goto, StepsOK, AtOK, OwnerSteps, MaintSteps,
     WatchSteps, ReaderSteps, Threads, Known, Opening, Closing
<1> QED
  BY <1>1, <1>2, <1>3, <1>4, Frame

LEMMA OpenedTypes ==
  ASSUME TypeInv, Opened("owner", "spawn_watch") \/ Opened("maint", "prune")
  PROVE  TypeInv'
<1> USE CaptureAssumption DEF TypeInv, TypeOK
<1>1. /\ UNCHANGED <<default, switches, now, startedAt, terminated, opened,
                     generation, stream, pair>>
      /\ UNCHANGED <<events, reading, queue, stored, recorded, taken>>
  BY DEF Opened, world, streams, events, chunks, reading
<1>2. current' \in Devices /\ pending' = NoDevice /\ signature' = current'
  BY DEF Opened, NotePair, Known, Opening
<1>3. DevicesOK'
  BY <1>1, <1>2 DEF DevicesOK
<1>4. StepsOK' /\ AtOK'
  BY DEF Opened, StepsOK, AtOK, OwnerSteps, MaintSteps, WatchSteps, ReaderSteps,
     Goto, Threads
<1>5. current' # NoDevice
  BY <1>2
<1>6. Known'
  BY <1>1, <1>5 DEF Opened, Goto, StepsOK, AtOK, OwnerSteps, MaintSteps,
     WatchSteps, ReaderSteps, Threads, Known, Opening, Closing
<1> QED
  BY <1>1, <1>3, <1>4, <1>5, <1>6, Frame

\* The threads that empty the queues, and what each does with them.
Drains == \/ Drain("owner", "drain", "store")
          \/ Drain("maint", "wait", "store") /\ ~stopEvent
          \/ Drain("maint", "redrain", "restore")
          \/ Drain("reader", "ask", "store")

LEMMA DrainTypes ==
  ASSUME TypeInv, Drains, ReadingOK'
  PROVE  TypeInv'
<1> USE CaptureAssumption DEF TypeInv, TypeOK
<1>1. /\ UNCHANGED <<default, switches, now, startedAt, terminated, opened,
                     generation, stream, pair, current, at>>
      /\ UNCHANGED <<devices, events, stored, recorded>>
  BY DEF Drains, Drain, world, streams, devices, events
<1>2. PICK t \in {"owner", "maint", "reader"} :
        /\ taken' = [taken EXCEPT ![t] = UNION {queue[k] : k \in TrackSet}]
        /\ queue' = [k \in TrackSet |-> {}]
  BY DEF Drains, Drain
<1>3. ChunksOK'
  BY <1>1, <1>2 DEF ChunksOK, Threads
<1>4. StepsOK' /\ AtOK'
  BY <1>1 DEF Drains, Drain, StepsOK, AtOK, OwnerSteps, MaintSteps, WatchSteps,
     ReaderSteps, Goto, Threads
<1>5. (Alive("maint") => current # NoDevice)'
  BY <1>1 DEF Drains, Drain, Alive, Goto, StepsOK, AtOK, OwnerSteps, MaintSteps,
     WatchSteps, ReaderSteps, Threads
<1>6. Known'
  BY <1>1 DEF Drains, Drain, Goto, StepsOK, AtOK, OwnerSteps, MaintSteps,
     WatchSteps, ReaderSteps, Threads, Known, Opening, Closing
<1> QED
  BY <1>1, <1>3, <1>4, <1>5, <1>6, Frame

Stores == \/ Store("owner", "store", "join_maint")
          \/ Store("maint", "store", "check") \/ Store("maint", "restore", "pick")
          \/ Store("reader", "store", "copy")

LEMMA StoreTypes ==
  ASSUME TypeInv, Stores
  PROVE  TypeInv'
<1> USE CaptureAssumption DEF TypeInv, TypeOK
<1>1. /\ UNCHANGED <<default, switches, now, startedAt, terminated, opened,
                     generation, stream, pair, current, at>>
      /\ UNCHANGED <<devices, events, queue, recorded, reading>>
  BY DEF Stores, Store, world, streams, devices, events, reading
<1>2. PICK t \in {"owner", "maint", "reader"} :
        /\ taken' = [taken EXCEPT ![t] = {}]
        /\ stored' = stored \cup taken[t]
  BY DEF Stores, Store, Extended
<1>3. ChunksOK'
  BY <1>1, <1>2 DEF ChunksOK, Threads
<1>4. StepsOK' /\ AtOK'
  BY <1>1 DEF Stores, Store, StepsOK, AtOK, OwnerSteps, MaintSteps, WatchSteps,
     ReaderSteps, Goto, Threads
<1>5. (Alive("maint") => current # NoDevice)'
  BY <1>1 DEF Stores, Store, Alive, Goto, StepsOK, AtOK, OwnerSteps, MaintSteps,
     WatchSteps, ReaderSteps, Threads
<1>6. Known'
  BY <1>1 DEF Stores, Store, Goto, StepsOK, AtOK, OwnerSteps, MaintSteps,
     WatchSteps, ReaderSteps, Threads, Known, Opening, Closing
<1> QED
  BY <1>1, <1>3, <1>4, <1>5, <1>6, Frame

LEMMA WorldTypes ==
  ASSUME TypeInv, World
  PROVE  TypeInv'
<1> USE CaptureAssumption DEF TypeInv, TypeOK
<1>1. /\ UNCHANGED <<pc, at, devices, pair, current, events, stored, taken,
                     reading>>
      /\ UNCHANGED <<generation, stream, opened, startedAt, terminated>>
  BY DEF World, Advance, Switch, Callback, world, streams, devices, events,
     chunks, locals, reading
<1>2. Known' /\ (Alive("maint") => current # NoDevice)'
  BY <1>1 DEF Known, Alive
<1>3. CASE Advance \/ Switch
  <2>1. WorldOK'
    BY <1>1, <1>3 DEF Advance, Switch, WorldOK
  <2>2. UNCHANGED <<queue, recorded>>
    BY <1>3 DEF Advance, Switch, chunks
  <2> QED
    BY <1>1, <1>2, <2>1, <2>2, Frame
<1>4. CASE \E o \in opened : Callback(o)
  <2>1. PICK o \in opened : Callback(o)
    BY <1>4
  <2> DEFINE chunk == [track |-> o.track, gen |-> o.gen, start |-> now - 1]
  <2>2. o.track \in TrackSet /\ o.gen \in 1 .. MaxGen /\ o.since \in 0 .. MaxTime
    BY DEF StreamsOK, Stream
  <2>3. chunk \in Chunk
    BY <2>1, <2>2 DEF Callback, Chunk, WorldOK
  <2>4. ChunksOK'
    <3>1. /\ queue' = [queue EXCEPT ![o.track] = @ \cup {chunk}]
          /\ recorded' = recorded \cup {chunk}
      BY <2>1 DEF Callback
    <3> HIDE DEF chunk
    <3> QED
      BY <1>1, <2>2, <2>3, <3>1 DEF ChunksOK
  <2>5. UNCHANGED <<default, switches, now>>
    BY <2>1 DEF Callback, world
  <2> QED
    BY <1>1, <1>2, <2>4, <2>5, Frame
<1> QED
  BY <1>3, <1>4 DEF World

\* The statements of start and stop that only the owner runs.
OwnerStep == \/ StartBegin \/ StartLookup \/ StartWatcher \/ StartMaintenance \/ StopBegin
             \/ StopJoin("maint", "join_maint", "join_watch")
             \/ StopJoin("watch", "join_watch", "terminate") \/ StopTerminate

LEMMA OwnerTypes ==
  ASSUME TypeInv, OwnerStep
  PROVE  TypeInv'
<1> USE CaptureAssumption DEF TypeInv, TypeOK, OwnerStep
<1>1. /\ UNCHANGED <<default, switches, now, devices, current>>
      /\ UNCHANGED <<queue, stored, recorded, taken, reading, generation, stream>>
  BY DEF StartBegin, StartLookup, StartWatcher, StartMaintenance, StopBegin,
     StopJoin, StopTerminate, world, streams, devices, events, chunks, locals,
     reading
<1>2. WorldOK'
  BY <1>1 DEF StartBegin, StartLookup, StartWatcher, StartMaintenance,
     StopBegin, StopJoin, StopTerminate, world, WorldOK, Never
<1>3. StreamsOK'
  <2>1. opened' \subseteq opened
    BY DEF StartBegin, StartLookup, StartWatcher, StartMaintenance, StopBegin,
       StopJoin, StopTerminate, world
  <2> QED
    BY <1>1, <2>1 DEF StreamsOK
<1>4. DevicesOK'
  BY <1>1 DEF StartBegin, StartLookup, StartWatcher, StartMaintenance,
     StopBegin, StopJoin, StopTerminate, locals, DevicesOK, WorldOK, Threads,
     devices
<1>5. EventsOK'
  BY DEF StartBegin, StartLookup, StartWatcher, StartMaintenance, StopBegin,
     StopJoin, StopTerminate, events, world, EventsOK
<1>6. StepsOK' /\ AtOK'
  BY DEF StartBegin, StartLookup, StartWatcher, StartMaintenance, StopBegin,
     StopJoin, StopTerminate, locals, StepsOK, AtOK, OwnerSteps, MaintSteps,
     WatchSteps, ReaderSteps, Threads, Goto
<1>7. (Alive("maint") => current # NoDevice)'
  BY <1>1 DEF StartBegin, StartLookup, StartWatcher, StartMaintenance,
     StopBegin, StopJoin, StopTerminate, Alive, Goto, StepsOK, AtOK, OwnerSteps,
     MaintSteps, WatchSteps, ReaderSteps, Threads, Known
<1>8. Known'
  BY <1>1 DEF StartBegin, StartLookup, StartWatcher, StartMaintenance,
     StopBegin, StopJoin, StopTerminate, locals, Goto, StepsOK, AtOK,
     OwnerSteps, MaintSteps, WatchSteps, ReaderSteps, Threads, Known, Opening,
     Closing, DevicesOK, WorldOK
<1> QED
  BY <1>1, <1>2, <1>3, <1>4, <1>5, <1>6, <1>7, <1>8, Frame

LEMMA WatcherTypes ==
  ASSUME TypeInv, Watcher
  PROVE  TypeInv'
<1> USE CaptureAssumption DEF TypeInv, TypeOK, Watcher
<1>1. /\ UNCHANGED <<default, switches, now, startedAt, terminated, opened,
                     current>>
      /\ UNCHANGED <<queue, stored, recorded, taken, reading, generation,
                     stream, at>>
  BY DEF WatchLookup, WatchCompare, WatchNotify, world, streams, devices,
     events, chunks, locals, reading
<1>2. DevicesOK'
  BY <1>1 DEF WatchLookup, WatchCompare, WatchNotify, locals, DevicesOK,
     WorldOK, Threads, devices
<1>3. EventsOK'
  BY <1>1 DEF WatchLookup, WatchCompare, WatchNotify, events, EventsOK
<1>4. StepsOK' /\ AtOK'
  BY <1>1 DEF WatchLookup, WatchCompare, WatchNotify, StepsOK, AtOK, OwnerSteps,
     MaintSteps, WatchSteps, ReaderSteps, Threads, Goto
<1>5. (Alive("maint") => current # NoDevice)'
  BY <1>1 DEF WatchLookup, WatchCompare, WatchNotify, Alive, Goto, StepsOK,
     AtOK, OwnerSteps, MaintSteps, WatchSteps, ReaderSteps, Threads
<1>6. Known'
  BY <1>1 DEF WatchLookup, WatchCompare, WatchNotify, locals, Goto, StepsOK,
     AtOK, OwnerSteps, MaintSteps, WatchSteps, ReaderSteps, Threads, Known,
     Opening, Closing, DevicesOK, WorldOK
<1> QED
  BY <1>1, <1>2, <1>3, <1>4, <1>5, <1>6, Frame

\* The statements that only the maintenance thread runs.
MaintStep == MaintEnd \/ MaintCheck \/ MaintPick \/ MaintPrune

LEMMA MaintTypes ==
  ASSUME TypeInv, MaintStep
  PROVE  TypeInv'
<1> USE CaptureAssumption DEF TypeInv, TypeOK, MaintStep
<1>1. /\ UNCHANGED <<default, switches, now, startedAt, terminated, opened,
                     devices, current>>
      /\ UNCHANGED <<queue, recorded, taken, reading, generation, stream>>
  BY DEF MaintEnd, MaintCheck, MaintPick, MaintPrune, world, streams, devices,
     events, chunks, locals, reading
<1>2. DevicesOK'
  BY <1>1 DEF MaintEnd, MaintCheck, MaintPick, MaintPrune, locals, DevicesOK,
     Threads, devices
<1>3. EventsOK'
  BY <1>1 DEF MaintEnd, MaintCheck, MaintPick, MaintPrune, events, EventsOK
<1>4. StepsOK' /\ AtOK'
  BY DEF MaintEnd, MaintCheck, MaintPick, MaintPrune, StepsOK, AtOK, OwnerSteps,
     MaintSteps, WatchSteps, ReaderSteps, Threads, Goto, locals
<1>5. (Alive("maint") => current # NoDevice)'
  BY <1>1 DEF MaintEnd, MaintCheck, MaintPick, MaintPrune, Alive, Goto, StepsOK,
     AtOK, OwnerSteps, MaintSteps, WatchSteps, ReaderSteps, Threads
<1>6. Known'
  BY <1>1 DEF MaintEnd, MaintCheck, MaintPick, MaintPrune, locals, Goto,
     StepsOK, AtOK, OwnerSteps, MaintSteps, WatchSteps, ReaderSteps, Threads,
     Known, Opening, Closing, DevicesOK
<1>7. ChunksOK'
  BY <1>1 DEF MaintEnd, MaintCheck, MaintPick, MaintPrune, chunks, ChunksOK
<1> QED
  BY <1>1, <1>2, <1>3, <1>4, <1>5, <1>6, <1>7, Frame

LEMMA CopyTypes ==
  ASSUME TypeInv, SnapshotCopy
  PROVE  TypeInv'
<1> USE CaptureAssumption DEF TypeInv, TypeOK
<1>1. /\ UNCHANGED <<default, switches, now, startedAt, terminated, opened,
                     devices, pair, current>>
      /\ UNCHANGED <<events, queue, stored, recorded, taken, generation,
                     stream, at>>
  BY DEF SnapshotCopy, world, streams, devices, events, chunks, locals
<1>2. ReadingOK'
  BY DEF SnapshotCopy, ReadingOK
<1>3. StepsOK' /\ AtOK'
  BY <1>1 DEF SnapshotCopy, StepsOK, AtOK, OwnerSteps, MaintSteps, WatchSteps,
     ReaderSteps, Threads, Goto
<1>4. (Alive("maint") => current # NoDevice)' /\ Known'
  BY <1>1 DEF SnapshotCopy, Alive, Known, Goto, StepsOK, AtOK, OwnerSteps,
     MaintSteps, WatchSteps, ReaderSteps, Threads, Opening, Closing
<1> QED
  BY <1>1, <1>2, <1>3, <1>4, Frame

\* Another thread than the reader empties the queues.
Unread == UNCHANGED reading /\ \E t \in {"owner", "maint"} : \E to : Goto(t, to)

\* Every step is one of these.
LEMMA Steps ==
  ASSUME [Next]_vars
  PROVE  \/ World \/ OwnerStep \/ Watcher \/ MaintStep \/ SnapshotCopy
         \/ CloseStream("owner", "drain") \/ CloseStream("maint", "generation")
         \/ \E t \in {"owner", "maint"} : ClearStream(t) \/ NextGeneration(t) \/ OpenStream(t)
         \/ OpenRaises("owner", "broken") \/ OpenRaises("maint", "dead")
         \/ Opened("owner", "spawn_watch") \/ Opened("maint", "prune")
         \/ Stores
         \/ Drains /\ (Unread \/ SnapshotBegin)
         \/ UNCHANGED vars
BY DEF Next, Owner, Maintenance, Reader, OwnerStep, MaintStep, Stores, Drains,
   Drain, MaintTop, SnapshotBegin, Unread

LEMMA NextTypes == TypeInv /\ [Next]_vars => TypeInv'
<1> SUFFICES ASSUME TypeInv, [Next]_vars PROVE TypeInv'
  OBVIOUS
<1>1. CASE Drains /\ (Unread \/ SnapshotBegin)
  <2>1. ReadingOK'
    BY <1>1 DEF Unread, SnapshotBegin, ReadingOK, reading, TypeInv, TypeOK,
       ChunksOK
  <2> QED
    BY <1>1, <2>1, DrainTypes
<1>2. CASE UNCHANGED vars
  BY <1>2, Frame DEF TypeInv, TypeOK, Known, Alive, vars, world, streams,
     devices, events, chunks, locals, reading
<1> QED
  BY <1>1, <1>2, Steps, WorldTypes, OwnerTypes, WatcherTypes, MaintTypes,
     CopyTypes, CloseTypes, ClearTypes, GenerationTypes, OpenTypes, RaisesTypes,
     OpenedTypes, StoreTypes

\* Every variable has its type, and the maintenance thread always knows a pair
\* to open again (open_streams, _restart_streams_if_needed 516-520).
THEOREM TypeCorrect == Spec => []TypeOK
<1>1. TypeInv => TypeOK
  BY DEF TypeInv
<1> QED
  BY <1>1, InitTypes, NextTypes, PTL DEF Spec

-----------------------------------------------------------------------------
(***************************************************************************)
(* The owner spawns the others last, and sets stop_event first.            *)
(***************************************************************************)
Starting == {"new", "lookup", "generation", "open", "broken", "spawn_watch", "spawn_maint"}
Stopping == {"close", "clear", "drain", "store", "join_maint", "join_watch", "terminate",
             "stopped"}

Phases == /\ pc["owner"] \in Stopping <=> stopEvent
          /\ pc["owner"] \in Starting => pc["maint"] = "new" /\ pc["reader"] = "new"

LEMMA NextPhases == TypeInv /\ Phases /\ [Next]_vars => Phases'
<1> SUFFICES ASSUME TypeInv, Phases, [Next]_vars PROVE Phases'
  OBVIOUS
<1> USE DEF TypeInv, TypeOK, StepsOK, Threads, Phases, Starting, Stopping
<1>1. CASE World
  <2>1. UNCHANGED <<stopEvent, pc>>
    BY <1>1 DEF World, Advance, Switch, Callback, events
  <2> QED
    BY <2>1
<1>2. CASE StartBegin \/ StartLookup \/ StartWatcher \/ StartMaintenance
  BY <1>2 DEF StartBegin, StartLookup, StartWatcher, StartMaintenance, Goto,
     events
<1>3. CASE \/ StopBegin \/ StopJoin("maint", "join_maint", "join_watch")
           \/ StopJoin("watch", "join_watch", "terminate") \/ StopTerminate
  BY <1>3 DEF StopBegin, StopJoin, StopTerminate, Goto, events
<1>4. CASE Watcher \/ MaintStep \/ SnapshotCopy
  BY <1>4 DEF Watcher, WatchLookup, WatchCompare, WatchNotify, MaintStep,
     MaintEnd, MaintCheck, MaintPick, MaintPrune, SnapshotCopy, Goto, events
<1>5. CASE CloseStream("owner", "drain") \/ CloseStream("maint", "generation")
  BY <1>5 DEF CloseStream, Goto, events
<1>6. CASE \E t \in {"owner", "maint"} : ClearStream(t) \/ NextGeneration(t) \/ OpenStream(t)
  BY <1>6 DEF ClearStream, NextGeneration, OpenStream, Goto, events
<1>7. CASE \/ OpenRaises("owner", "broken") \/ OpenRaises("maint", "dead")
           \/ Opened("owner", "spawn_watch") \/ Opened("maint", "prune")
  BY <1>7 DEF OpenRaises, Opened, Goto, events
<1>8. CASE Drains \/ Stores
  BY <1>8 DEF Drains, Drain, Stores, Store, Goto, events
<1>9. CASE UNCHANGED vars
  BY <1>9 DEF vars, events
<1> QED
  BY <1>1, <1>2, <1>3, <1>4, <1>5, <1>6, <1>7, <1>8, <1>9, Steps DEF OwnerStep

LEMMA InitPhases == Init => Phases
BY DEF Init, Phases, Threads, Starting, Stopping

-----------------------------------------------------------------------------
(***************************************************************************)
(* After stop no stream is open.  Whatever the other threads still do, the *)
(* last step of stop closes all streams and with terminate forbids to open *)
(* another.                                                                *)
(***************************************************************************)
Closed == /\ terminated => opened = {}
          /\ pc["owner"] = "stopped" => terminated

LEMMA NextClosed == TypeInv /\ Closed /\ [Next]_vars => Closed'
<1> SUFFICES ASSUME TypeInv, Closed, [Next]_vars PROVE Closed'
  OBVIOUS
<1> USE DEF Closed, TypeInv, TypeOK, StepsOK, Threads
<1>1. CASE World
  <2>1. UNCHANGED <<opened, terminated, pc>>
    BY <1>1 DEF World, Advance, Switch, Callback, world
  <2> QED
    BY <2>1
<1>2. CASE OwnerStep
  BY <1>2 DEF OwnerStep, StartBegin, StartLookup, StartWatcher,
     StartMaintenance, StopBegin, StopJoin, StopTerminate, Goto, world
<1>3. CASE Watcher \/ MaintStep \/ SnapshotCopy
  BY <1>3 DEF Watcher, WatchLookup, WatchCompare, WatchNotify, MaintStep,
     MaintEnd, MaintCheck, MaintPick, MaintPrune, SnapshotCopy, Goto, world
<1>4. CASE CloseStream("owner", "drain") \/ CloseStream("maint", "generation")
  BY <1>4 DEF CloseStream, Goto
<1>5. CASE \E t \in {"owner", "maint"} : ClearStream(t) \/ NextGeneration(t) \/ OpenStream(t)
  BY <1>5 DEF ClearStream, NextGeneration, OpenStream, Goto, world
<1>6. CASE \/ OpenRaises("owner", "broken") \/ OpenRaises("maint", "dead")
           \/ Opened("owner", "spawn_watch") \/ Opened("maint", "prune")
  BY <1>6 DEF OpenRaises, Opened, Goto, world
<1>7. CASE Drains \/ Stores
  BY <1>7 DEF Drains, Drain, Stores, Store, Goto, world
<1>8. CASE UNCHANGED vars
  BY <1>8 DEF vars, world
<1> QED
  BY <1>1, <1>2, <1>3, <1>4, <1>5, <1>6, <1>7, <1>8, Steps

\* After stop no stream is open (ContinuousDualAudioCapture.stop 888-898).
THEOREM StopClosesAll == Spec => []StoppedIsClosed
<1>1. Init => Closed
  BY DEF Init, Closed, Threads
<1>2. Closed => StoppedIsClosed
  BY DEF Closed, StoppedIsClosed
<1> QED
  BY <1>1, <1>2, InitTypes, NextTypes, NextClosed, PTL DEF Spec

-----------------------------------------------------------------------------
(***************************************************************************)
(* No audio is lost.  A thread holds chunks only between emptying the      *)
(* queues and storing them, so that no chunk is dropped by taking others.  *)
(***************************************************************************)
Storing  == {"store", "restore"}
Carrying == \A t \in Threads : pc[t] \notin Storing => taken[t] = {}
SafeInv  == AudioKept /\ Carrying

\* What is kept of a chunk does not change by a step that leaves audio alone.
LEMMA AudioStays ==
  ASSUME SafeInv, UNCHANGED <<queue, stored, recorded, taken, now>>
  PROVE  AudioKept'
BY DEF SafeInv, AudioKept, Queued, Held, Kept, EndOf

LEMMA NextSafe == TypeInv /\ Phases /\ SafeInv /\ [Next]_vars => SafeInv'
<1> SUFFICES ASSUME TypeInv, Phases, SafeInv, [Next]_vars PROVE SafeInv'
  OBVIOUS
<1> USE DEF TypeInv, TypeOK, StepsOK, Threads
<1>1. CASE Advance \/ Switch
  <2>1. UNCHANGED <<queue, stored, recorded, taken, pc>>
    BY <1>1 DEF Advance, Switch, chunks, locals
  <2>2. now' = now \/ now' = now + 1
    BY <1>1 DEF Advance, Switch
  <2>3. ASSUME NEW chunk \in recorded, Kept(chunk)' PROVE Kept(chunk)
    <3>1. chunk.start \in Nat /\ now \in Nat
      BY DEF ChunksOK, Chunk, WorldOK
    <3> QED
      BY <2>2, <2>3, <3>1, CaptureAssumption DEF Kept, EndOf
  <2> QED
    BY <2>1, <2>3 DEF SafeInv, AudioKept, Queued, Held, Carrying
<1>2. CASE \E o \in opened : Callback(o)
  <2>1. PICK o \in opened : Callback(o)
    BY <1>2
  <2>2. o.track \in TrackSet
    BY DEF StreamsOK, Stream
  <2>3. UNCHANGED <<stored, taken, now, pc>>
    BY <2>1 DEF Callback, world, locals
  <2>4. PICK new : /\ recorded' = recorded \cup {new} /\ new.track = o.track
                   /\ queue' = [queue EXCEPT ![o.track] = @ \cup {new}]
    BY <2>1 DEF Callback
  <2>5. \A chunk \in recorded : chunk.track \in TrackSet
    BY DEF ChunksOK, Chunk
  <2>6. \A chunk \in recorded : Queued(chunk) => Queued(chunk)'
    BY <2>2, <2>4, <2>5 DEF Queued, ChunksOK
  <2>7. Queued(new)'
    BY <2>2, <2>4 DEF Queued, ChunksOK
  <2> QED
    BY <2>3, <2>4, <2>6, <2>7 DEF SafeInv, AudioKept, Held, Carrying, Kept,
       EndOf
<1>3. CASE Drains
  <2>1. PICK t \in Threads :
          /\ pc[t] \notin Storing /\ pc' = [pc EXCEPT ![t] = pc'[t]] /\ pc'[t] \in Storing
          /\ taken' = [taken EXCEPT ![t] = UNION {queue[k] : k \in TrackSet}]
          /\ queue' = [k \in TrackSet |-> {}]
    BY <1>3 DEF Drains, Drain, Goto, Storing
  <2>2. UNCHANGED <<stored, recorded, now>>
    BY <1>3 DEF Drains, Drain, world
  <2>3. taken[t] = {}
    BY <2>1 DEF SafeInv, Carrying
  <2>4. \A chunk : Held(chunk) => Held(chunk)'
    BY <2>1, <2>3 DEF Held, ChunksOK
  <2>5. ASSUME NEW chunk \in recorded, Queued(chunk) PROVE Held(chunk)'
    <3>1. chunk.track \in TrackSet
      BY DEF ChunksOK, Chunk
    <3> QED
      BY <2>1, <2>5, <3>1 DEF Queued, Held, ChunksOK
  <2>6. Carrying'
    BY <2>1 DEF SafeInv, Carrying, ChunksOK
  <2> QED
    BY <2>2, <2>4, <2>5, <2>6 DEF SafeInv, AudioKept, Kept, EndOf
<1>4. CASE Stores
  <2>1. PICK t \in Threads :
          /\ pc' = [pc EXCEPT ![t] = pc'[t]]
          /\ taken' = [taken EXCEPT ![t] = {}]
          /\ stored' = stored \cup taken[t]
    BY <1>4 DEF Stores, Store, Goto, Extended
  <2>2. UNCHANGED <<queue, recorded, now>>
    BY <1>4 DEF Stores, Store, world
  <2>3. \A chunk : Held(chunk) => Held(chunk)' \/ chunk \in stored'
    BY <2>1 DEF Held, ChunksOK
  <2>4. Carrying'
    BY <2>1 DEF SafeInv, Carrying, ChunksOK
  <2> QED
    BY <2>1, <2>2, <2>3, <2>4 DEF SafeInv, AudioKept, Queued, Kept, EndOf
<1>5. CASE MaintPrune
  <2>1. /\ UNCHANGED <<queue, recorded, taken, now>>
        /\ stored' = {chunk \in stored : Kept(chunk)}
        /\ pc' = [pc EXCEPT !["maint"] = "wait"] /\ pc["maint"] = "prune"
    BY <1>5 DEF MaintPrune, world, locals, Goto
  <2>2. Carrying'
    BY <2>1 DEF SafeInv, Carrying, Storing
  <2> QED
    BY <2>1, <2>2 DEF SafeInv, AudioKept, Queued, Held, Kept, EndOf
<1>6. ASSUME UNCHANGED <<queue, stored, recorded, taken, now>>,
             \A t \in Threads : pc[t] \in Storing => pc'[t] \in Storing
      PROVE  SafeInv'
  BY <1>6, AudioStays DEF SafeInv, Carrying
<1>7. CASE OwnerStep
  <2>1. UNCHANGED <<queue, stored, recorded, taken, now>>
    BY <1>7 DEF OwnerStep, StartBegin, StartLookup, StartWatcher,
       StartMaintenance, StopBegin, StopJoin, StopTerminate, world, chunks,
       locals
  <2>2. \A t \in Threads : pc[t] \in Storing => pc'[t] \in Storing
    BY <1>7 DEF OwnerStep, StartBegin, StartLookup, StartWatcher,
       StartMaintenance, StopBegin, StopJoin, StopTerminate, Goto, Storing,
       WatchSteps, Phases, Starting
  <2> QED
    BY <2>1, <2>2, <1>6
<1>8. CASE Watcher \/ MaintEnd \/ MaintCheck \/ MaintPick \/ SnapshotCopy
  <2>1. UNCHANGED <<queue, stored, recorded, taken, now>>
    BY <1>8 DEF Watcher, WatchLookup, WatchCompare, WatchNotify, MaintEnd,
       MaintCheck, MaintPick, SnapshotCopy, world, chunks, locals
  <2>2. \A t \in Threads : pc[t] \in Storing => pc'[t] \in Storing
    BY <1>8 DEF Watcher, WatchLookup, WatchCompare, WatchNotify, MaintEnd,
       MaintCheck, MaintPick, SnapshotCopy, Goto, Storing
  <2> QED
    BY <2>1, <2>2, <1>6
<1>9. CASE \/ CloseStream("owner", "drain") \/ CloseStream("maint", "generation")
           \/ \E t \in {"owner", "maint"} : ClearStream(t) \/ NextGeneration(t) \/ OpenStream(t)
           \/ OpenRaises("owner", "broken") \/ OpenRaises("maint", "dead")
           \/ Opened("owner", "spawn_watch") \/ Opened("maint", "prune")
  <2>1. UNCHANGED <<queue, stored, recorded, taken, now>>
    BY <1>9 DEF CloseStream, ClearStream, NextGeneration, OpenStream,
       OpenRaises, Opened, world, chunks, locals
  <2>2. \A t \in Threads : pc[t] \in Storing => pc'[t] \in Storing
    BY <1>9 DEF CloseStream, ClearStream, NextGeneration, OpenStream,
       OpenRaises, Opened, Goto, Storing
  <2> QED
    BY <2>1, <2>2, <1>6
<1>10. CASE UNCHANGED vars
  BY <1>10, <1>6 DEF vars, world, chunks, locals
<1> QED
  BY <1>1, <1>2, <1>3, <1>4, <1>5, <1>7, <1>8, <1>9, <1>10, Steps DEF World,
     MaintStep

\* No audio is lost between the callbacks and the pruning (_flush_queues_to_storage
\* 492-508, _prune_old_chunks 865-875).
THEOREM NoAudioIsLost == Spec => []AudioKept
<1>1. Init => SafeInv
  BY DEF Init, SafeInv, AudioKept, Carrying
<1>2. SafeInv => AudioKept
  BY DEF SafeInv
<1> QED
  BY <1>1, <1>2, InitTypes, NextTypes, InitPhases, NextPhases, NextSafe, PTL DEF
     Spec

-----------------------------------------------------------------------------
(***************************************************************************)
(* One stream per track.  The thread that opens streams has closed the     *)
(* old ones (FreeOwner, FreeMaint), which takes that the attributes still  *)
(* name them (Attached).  Only a stop can clear the attribute of a stream  *)
(* that was opened meanwhile; but then the maintenance thread is past the  *)
(* closing of its last restart (Final) and closes nothing any more.        *)
(***************************************************************************)
Final == {"generation", "open", "prune", "wait", "dead"}

Attached == \A o \in opened : o.gen = stream[o.track]

FreeOwner ==
    /\ pc["owner"] \in {"new", "lookup", "generation"} => opened = {}
    /\ pc["owner"] = "open" => \A o \in opened : o.track < at["owner"]
    /\ pc["owner"] = "clear" /\ pc["maint"] \notin Final =>
         \A o \in opened : o.track # at["owner"]
FreeMaint ==
    /\ pc["maint"] = "close" => \A o \in opened : o.track >= at["maint"]
    /\ pc["maint"] = "clear" => \A o \in opened : o.track > at["maint"]
    /\ pc["maint"] = "generation" => opened = {}
    /\ pc["maint"] = "open"  => \A o \in opened : o.track < at["maint"]

StreamInv == /\ OneStreamPerTrack /\ FreeOwner /\ FreeMaint
             /\ ~stopEvent \/ pc["maint"] \notin Final => Attached

LEMMA InitStreams == Init => StreamInv
BY DEF Init, StreamInv, OneStreamPerTrack, FreeOwner, FreeMaint, Attached,
   Threads

\* What a step keeps that opens no stream and touches no attribute.
LEMMA StreamsStay ==
  ASSUME StreamInv, opened' \subseteq opened, UNCHANGED stream
  PROVE  /\ OneStreamPerTrack'
         /\ Attached => Attached'
         /\ (UNCHANGED <<pc, at>> \/
              /\ UNCHANGED at /\ pc'["owner"] = pc["owner"]
              /\ pc'["maint"] \in Final \/ pc["maint"] \notin Final) => FreeOwner'
         /\ (UNCHANGED at /\ pc'["maint"] = pc["maint"]) => FreeMaint'
BY DEF StreamInv, OneStreamPerTrack, Attached, FreeOwner, FreeMaint

LEMMA CloseStreams ==
  ASSUME TypeInv, Phases, StreamInv,
         \/ CloseStream("owner", "drain") \/ CloseStream("maint", "generation")
  PROVE  StreamInv'
<1> USE DEF TypeInv, TypeOK, StepsOK, AtOK, Threads
<1>1. /\ opened' \subseteq opened
      /\ UNCHANGED <<stream, stopEvent>>
  BY DEF CloseStream, streams, events
<1>2. \A o \in opened : o.track \in TrackSet /\ o.gen # None
  BY DEF StreamsOK, Stream, None
<1>3. CASE CloseStream("owner", "drain")
  <2>1. /\ pc["owner"] = "close" /\ pc'["owner"] \in {"close", "clear", "drain"}
        /\ pc'["maint"] = pc["maint"] /\ at'["maint"] = at["maint"]
    BY <1>3 DEF CloseStream, Goto
  <2>2. FreeMaint'
    BY <1>1, <2>1 DEF StreamInv, FreeMaint
  <2>3. FreeOwner'
    <3> SUFFICES ASSUME pc'["owner"] = "clear", pc'["maint"] \notin Final, NEW o \in opened'
                 PROVE  o.track # at'["owner"]
      BY <2>1 DEF FreeOwner
    <3>1. /\ UNCHANGED at
          /\ opened' = {q \in opened : ~(q.track = at["owner"] /\ q.gen = stream[at["owner"]])}
      BY <1>3, <2>1 DEF CloseStream, Goto
    <3> QED
      BY <2>1, <3>1 DEF StreamInv, Attached
  <2> QED
    BY <1>1, <2>1, <2>2, <2>3, StreamsStay DEF StreamInv
<1>4. CASE CloseStream("maint", "generation")
  <2>1. /\ pc["maint"] = "close" /\ pc'["maint"] \in {"close", "clear", "generation"}
        /\ pc'["owner"] = pc["owner"] /\ at'["owner"] = at["owner"]
    BY <1>4 DEF CloseStream, Goto
  <2>2. Attached /\ \A o \in opened : o.track >= at["maint"]
    BY <2>1 DEF StreamInv, FreeMaint, Final
  <2>3. FreeOwner'
    BY <1>1, <2>1 DEF StreamInv, FreeOwner, Final
  <2>4. FreeMaint'
    <3>1. CASE at["maint"] \notin TrackSet
      <4>1. at["maint"] = Tracks + 1 /\ pc'["maint"] = "generation"
        BY <1>4, <3>1, CaptureAssumption DEF CloseStream, Goto, TrackSet
      <4>2. opened = {}
        BY <1>2, <2>2, <4>1, CaptureAssumption DEF TrackSet
      <4> QED
        BY <1>1, <4>1, <4>2 DEF FreeMaint
    <3>2. CASE at["maint"] \in TrackSet
      <4>1. opened' = {o \in opened : ~(o.track = at["maint"] /\ o.gen = stream[at["maint"]])}
        BY <1>4, <3>2 DEF CloseStream
      <4>2. \A o \in opened' : o.track # at["maint"]
        BY <2>2, <4>1 DEF Attached
      <4>3. \A o \in opened' : o.track > at["maint"] /\ o.track >= at["maint"] + 1
        BY <1>1, <1>2, <2>2, <3>2, <4>2 DEF TrackSet
      <4>4. \/ pc'["maint"] = "close" /\ at'["maint"] = at["maint"] + 1
            \/ pc'["maint"] = "clear" /\ at'["maint"] = at["maint"]
        BY <1>4, <3>2 DEF CloseStream, Goto
      <4> QED
        BY <4>3, <4>4 DEF FreeMaint
    <3> QED
      BY <3>1, <3>2
  <2> QED
    BY <1>1, <2>2, <2>3, <2>4, StreamsStay DEF StreamInv
<1> QED
  BY <1>3, <1>4

LEMMA ClearStreams ==
  ASSUME TypeInv, Phases, StreamInv, NEW t \in {"owner", "maint"}, ClearStream(t)
  PROVE  StreamInv'
<1> USE DEF TypeInv, TypeOK, StepsOK, AtOK, Threads
<1>1. /\ UNCHANGED <<opened, stopEvent>>
      /\ pc[t] = "clear" /\ pc' = [pc EXCEPT ![t] = "close"]
      /\ stream' = [stream EXCEPT ![at[t]] = None]
      /\ at' = [at EXCEPT ![t] = @ + 1]
  BY DEF ClearStream, Goto, world, events
<1>2. \A o \in opened : o.track \in TrackSet
  BY DEF StreamsOK, Stream
<1>3. ASSUME ~stopEvent \/ pc["maint"] \notin Final PROVE Attached'
  <2>1. \A o \in opened : o.track # at[t]
    <3>1. CASE t = "owner"
      <4>1. stopEvent
        BY <1>1, <3>1 DEF Phases, Stopping
      <4> QED
        BY <1>1, <1>3, <3>1, <4>1 DEF StreamInv, FreeOwner
    <3>2. CASE t = "maint"
      BY <1>1, <1>2, <3>2 DEF StreamInv, FreeMaint, TrackSet
    <3> QED
      BY <3>1, <3>2
  <2> QED
    BY <1>1, <1>2, <1>3, <2>1 DEF StreamInv, Attached, StreamsOK
<1>4. FreeOwner'
  BY <1>1 DEF StreamInv, FreeOwner, Final
<1>5. FreeMaint'
  BY <1>1, <1>2 DEF StreamInv, FreeMaint, TrackSet
<1>6. OneStreamPerTrack'
  BY <1>1 DEF StreamInv, OneStreamPerTrack
<1>7. pc'["maint"] \notin Final => pc["maint"] \notin Final
  BY <1>1 DEF Final
<1> QED
  BY <1>1, <1>3, <1>4, <1>5, <1>6, <1>7 DEF StreamInv

LEMMA GenerationStreams ==
  ASSUME TypeInv, Phases, StreamInv, NEW t \in {"owner", "maint"}, NextGeneration(t)
  PROVE  StreamInv'
<1> USE DEF TypeInv, TypeOK, StepsOK, AtOK, Threads
<1>1. /\ UNCHANGED <<opened, stream, stopEvent>>
      /\ pc[t] = "generation" /\ pc' = [pc EXCEPT ![t] = "open"]
      /\ at' = [at EXCEPT ![t] = 1]
  BY DEF NextGeneration, Goto, world, events
<1>2. opened' = {}
  BY <1>1 DEF StreamInv, FreeOwner, FreeMaint
<1> QED
  BY <1>2 DEF StreamInv, OneStreamPerTrack, Attached, FreeOwner, FreeMaint

LEMMA OpenStreams ==
  ASSUME TypeInv, Phases, StreamInv, NEW t \in {"owner", "maint"}, OpenStream(t)
  PROVE  StreamInv'
<1> USE DEF TypeInv, TypeOK, StepsOK, AtOK, Threads
<1>1. /\ UNCHANGED <<pc, stopEvent>>
      /\ pc[t] = "open" /\ at[t] \in TrackSet
      /\ stream' = [stream EXCEPT ![at[t]] = generation]
      /\ at' = [at EXCEPT ![t] = @ + 1]
  BY DEF OpenStream, events
<1>2. PICK new : opened' = opened \cup {new} /\ new.track = at[t] /\ new.gen = generation
  <2> DEFINE o == [track |-> at[t], gen |-> generation, pair |-> pair[t], since |-> now]
  <2>1. opened' = opened \cup {o}
    BY DEF OpenStream
  <2>2. o.track = at[t] /\ o.gen = generation
    OBVIOUS
  <2> HIDE DEF o
  <2> QED
    BY <2>1, <2>2
<1>3. \A o \in opened : o.track \in TrackSet /\ o.track < at[t]
  <2>1. \A o \in opened : o.track \in TrackSet
    BY DEF StreamsOK, Stream
  <2>2. CASE t = "owner"
    BY <1>1, <2>1, <2>2 DEF StreamInv, FreeOwner
  <2>3. CASE t = "maint"
    BY <1>1, <2>1, <2>3 DEF StreamInv, FreeMaint
  <2> QED
    BY <2>2, <2>3
<1>4. OneStreamPerTrack'
  BY <1>1, <1>2, <1>3 DEF StreamInv, OneStreamPerTrack, TrackSet
<1>5. ASSUME ~stopEvent \/ pc["maint"] \notin Final PROVE Attached'
  BY <1>1, <1>2, <1>3, <1>5 DEF StreamInv, Attached, StreamsOK, TrackSet
<1>6. \A o \in opened' : o.track < at'[t]
  BY <1>1, <1>2, <1>3 DEF TrackSet
<1>7. CASE t = "owner"
  <2>1. pc["maint"] = "new"
    BY <1>1, <1>7 DEF Phases, Starting
  <2> QED
    BY <1>1, <1>4, <1>5, <1>6, <1>7, <2>1 DEF StreamInv, FreeOwner, FreeMaint
<1>8. CASE t = "maint"
  <2>1. pc["owner"] \notin Starting /\ pc["maint"] \in Final
    BY <1>1, <1>8 DEF Phases, Final
  <2> QED
    BY <1>1, <1>4, <1>5, <1>6, <1>8, <2>1 DEF StreamInv, FreeOwner, FreeMaint,
       Starting
<1> QED
  BY <1>7, <1>8

\* The steps of the owner that open nothing and clear nothing.
LEMMA OwnerStreams ==
  ASSUME TypeInv, Phases, StreamInv, OwnerStep
  PROVE  StreamInv'
<1> USE DEF TypeInv, TypeOK, StepsOK, AtOK, Threads, OwnerStep, OwnerSteps
<1>1. opened' \subseteq opened /\ UNCHANGED stream
  BY DEF StartBegin, StartLookup, StartWatcher, StartMaintenance, StopBegin,
     StopJoin, StopTerminate, world, streams
<1>2. \/ pc'["maint"] = pc["maint"]
      \/ pc["maint"] = "new" /\ pc'["maint"] = "wait" /\ ~stopEvent /\ ~stopEvent'
  BY DEF StartBegin, StartLookup, StartWatcher, StartMaintenance, StopBegin,
     StopJoin, StopTerminate, Goto, Phases, Starting, Stopping, events
<1>3. at'["maint"] = at["maint"]
  BY DEF StartBegin, StartLookup, StartWatcher, StartMaintenance, StopBegin,
     StopJoin, StopTerminate, locals
<1>4. stopEvent => stopEvent'
  BY DEF StartBegin, StartLookup, StartWatcher, StartMaintenance, StopBegin,
     StopJoin, StopTerminate, events
<1>5. FreeMaint'
  BY <1>1, <1>2, <1>3 DEF StreamInv, FreeMaint
<1>6. /\ pc'["owner"] \notin {"open", "clear"}
      /\ pc'["owner"] \in {"new", "lookup", "generation"}
           => pc["owner"] \in {"new", "lookup", "generation"}
  BY DEF StartBegin, StartLookup, StartWatcher, StartMaintenance, StopBegin,
     StopJoin, StopTerminate, Goto
<1>7. FreeOwner'
  BY <1>1, <1>6 DEF StreamInv, FreeOwner
<1>8. ASSUME ~stopEvent' \/ pc'["maint"] \notin Final PROVE Attached'
  <2>1. ~stopEvent \/ pc["maint"] \notin Final
    BY <1>2, <1>4, <1>8 DEF Final
  <2> QED
    BY <1>1, <2>1, StreamsStay DEF StreamInv
<1> QED
  BY <1>1, <1>5, <1>7, <1>8, StreamsStay DEF StreamInv

\* The maintenance thread comes to its last phases as it leaves the closing,
\* and starts another round only if it is not told to stop.
LEMMA MaintStreams ==
  ASSUME TypeInv, Phases, StreamInv,
         MaintStep \/ OpenRaises("maint", "dead") \/ Opened("maint", "prune")
  PROVE  StreamInv'
<1> USE DEF TypeInv, TypeOK, StepsOK, AtOK, Threads
<1>1. UNCHANGED <<opened, stream, stopEvent>>
  BY DEF MaintStep, MaintEnd, MaintCheck, MaintPick, MaintPrune, OpenRaises,
     Opened, world, streams, events
<1>2. pc'["owner"] = pc["owner"] /\ at'["owner"] = at["owner"]
  BY DEF MaintStep, MaintEnd, MaintCheck, MaintPick, MaintPrune, OpenRaises,
     Opened, Goto, locals
<1>3. /\ pc'["maint"] \in {"dead", "redrain", "prune", "close", "wait"}
      /\ pc'["maint"] = "close" => at'["maint"] = 1
      /\ pc'["maint"] \notin Final => pc["maint"] \notin Final
  BY DEF MaintStep, MaintEnd, MaintCheck, MaintPick, MaintPrune, OpenRaises,
     Opened, Goto, locals, Final
<1>4. \A o \in opened : o.track >= 1
  BY CaptureAssumption DEF StreamsOK, Stream, TrackSet
<1>5. FreeMaint'
  BY <1>1, <1>3, <1>4 DEF FreeMaint
<1>6. FreeOwner'
  BY <1>1, <1>2, <1>3 DEF StreamInv, FreeOwner
<1> QED
  BY <1>1, <1>3, <1>5, <1>6, StreamsStay DEF StreamInv

LEMMA QueueStreams ==
  ASSUME TypeInv, Phases, StreamInv, Drains \/ Stores
  PROVE  StreamInv'
<1> USE DEF TypeInv, TypeOK, StepsOK, AtOK, Threads
<1>1. UNCHANGED <<opened, stream, stopEvent, at>>
  BY DEF Drains, Drain, Stores, Store, world, streams, events
<1>2. pc'["owner"] = pc["owner"] \/ pc'["owner"] \in {"store", "join_maint"}
  BY DEF Drains, Drain, Stores, Store, Goto
<1>3. /\ pc'["maint"] = pc["maint"] \/ pc'["maint"] \in {"store", "restore", "check", "pick"}
      /\ pc'["maint"] \notin Final => pc["maint"] \notin Final \/ ~stopEvent
      /\ pc'["maint"] \notin Final /\ pc["maint"] \in Final => pc'["owner"] = pc["owner"]
  BY DEF Drains, Drain, Stores, Store, Goto, Final
<1>4. FreeMaint'
  BY <1>1, <1>3 DEF StreamInv, FreeMaint
<1>5. FreeOwner'
  <2>1. pc["owner"] = "clear" => stopEvent
    BY DEF Phases, Stopping
  <2> QED
    BY <1>1, <1>2, <1>3, <2>1 DEF StreamInv, FreeOwner
<1> QED
  BY <1>1, <1>3, <1>4, <1>5, StreamsStay DEF StreamInv

LEMMA NextStreams == TypeInv /\ Phases /\ StreamInv /\ [Next]_vars => StreamInv'
<1> SUFFICES ASSUME TypeInv, Phases, StreamInv, [Next]_vars PROVE StreamInv'
  OBVIOUS
<1>1. ASSUME UNCHANGED <<opened, stream, stopEvent, at>>,
             pc'["owner"] = pc["owner"], pc'["maint"] = pc["maint"]
      PROVE  StreamInv'
  BY <1>1 DEF StreamInv, OneStreamPerTrack, FreeOwner, FreeMaint, Attached
<1>2. CASE World \/ Watcher \/ SnapshotCopy \/ UNCHANGED vars
  <2>1. UNCHANGED <<opened, stream, stopEvent, at>>
    BY <1>2 DEF World, Advance, Switch, Callback, Watcher, WatchLookup,
       WatchCompare, WatchNotify, SnapshotCopy, vars, world, streams, events,
       locals
  <2>2. pc'["owner"] = pc["owner"] /\ pc'["maint"] = pc["maint"]
    BY <1>2 DEF World, Advance, Switch, Callback, Watcher, WatchLookup,
       WatchCompare, WatchNotify, SnapshotCopy, vars, Goto, TypeInv, TypeOK,
       StepsOK, Threads
  <2> QED
    BY <2>1, <2>2, <1>1
<1>3. CASE OpenRaises("owner", "broken") \/ Opened("owner", "spawn_watch")
  <2>1. UNCHANGED <<opened, stream, stopEvent>>
    BY <1>3 DEF OpenRaises, Opened, world, streams, events
  <2>2. /\ pc'["owner"] \in {"broken", "spawn_watch"} /\ pc'["maint"] = pc["maint"]
        /\ at'["maint"] = at["maint"]
    BY <1>3 DEF OpenRaises, Opened, Goto, locals, TypeInv, TypeOK, StepsOK,
       AtOK, Threads
  <2> QED
    BY <2>1, <2>2 DEF StreamInv, OneStreamPerTrack, FreeOwner, FreeMaint,
       Attached
<1> QED
  BY <1>2, <1>3, Steps, OwnerStreams, MaintStreams, QueueStreams, CloseStreams,
     ClearStreams, GenerationStreams, OpenStreams

\* A track is never recorded twice at a time (close_streams 476-490, open_streams
\* 399-474, _restart_streams_if_needed 510-528, stop 888-898).
THEOREM OneStreamEach == Spec => []OneStreamPerTrack
<1>1. StreamInv => OneStreamPerTrack
  BY DEF StreamInv
<1> QED
  BY <1>1, InitTypes, NextTypes, InitPhases, NextPhases, InitStreams,
     NextStreams, PTL DEF Spec

-----------------------------------------------------------------------------
(***************************************************************************)
(* A window is whole.  What was recorded of it when the worker asked is    *)
(* not queued any more, so by AudioKept it is stored or with a thread    *)
(* that is storing it, unless it is older than the retention, which no     *)
(* chunk of a window is that is asked for in time.                         *)
(***************************************************************************)
Asked == pc["reader"] \in {"store", "copy"} =>
    \A chunk \in known : chunk \in recorded /\ InWindow(chunk) /\ ~Queued(chunk)

LEMMA NextAsked == TypeInv /\ Phases /\ Asked /\ [Next]_vars => Asked'
<1> SUFFICES ASSUME TypeInv, Phases, Asked, [Next]_vars PROVE Asked'
  OBVIOUS
<1> USE DEF TypeInv, TypeOK, StepsOK, Threads
<1>1. ASSUME pc'["reader"] \in {"store", "copy"} => pc["reader"] \in {"store", "copy"},
             recorded \subseteq recorded', UNCHANGED <<tick, known, startedAt>>,
             \A chunk \in recorded : Queued(chunk)' => Queued(chunk)
      PROVE  Asked'
  <2>1. \A chunk : InWindow(chunk)' = InWindow(chunk)
    BY <1>1 DEF InWindow, EndOf, WindowStart, WindowEnd
  <2> QED
    BY <1>1, <2>1 DEF Asked
<1>2. UNCHANGED queue => \A chunk : Queued(chunk)' = Queued(chunk)
  BY DEF Queued
<1>3. CASE Advance \/ Switch
  BY <1>1, <1>2, <1>3 DEF Advance, Switch, chunks, reading
<1>4. CASE \E o \in opened : Callback(o)
  <2>1. PICK o \in opened : Callback(o)
    BY <1>4
  <2>2. UNCHANGED <<pc, tick, known, startedAt>>
    BY <2>1 DEF Callback, reading
  <2>3. PICK new : /\ new \notin recorded /\ recorded' = recorded \cup {new}
                   /\ queue' = [queue EXCEPT ![o.track] = @ \cup {new}]
    BY <2>1 DEF Callback
  <2>4. \A chunk \in recorded : chunk.track \in TrackSet
    BY DEF ChunksOK, Chunk
  <2>5. \A chunk \in recorded : Queued(chunk)' => Queued(chunk)
    BY <2>3, <2>4 DEF Queued, ChunksOK
  <2> QED
    BY <1>1, <2>2, <2>3, <2>5
<1>5. CASE Drains /\ Unread
  <2>1. \A chunk \in recorded : ~Queued(chunk)'
    <3>1. \A chunk \in recorded : chunk.track \in TrackSet
      BY DEF ChunksOK, Chunk
    <3> QED
      BY <1>5, <3>1 DEF Drains, Drain, Queued
  <2>2. pc'["reader"] = pc["reader"]
    BY <1>5 DEF Unread, Goto
  <2>3. UNCHANGED <<tick, known, startedAt, recorded>>
    BY <1>5 DEF Drains, Drain, Unread, reading
  <2> QED
    BY <1>1, <2>1, <2>2, <2>3
<1>6. CASE SnapshotBegin
  <2>1. UNCHANGED <<recorded, tick, startedAt>>
    BY <1>6 DEF SnapshotBegin, Drain
  <2>2. /\ known' = {chunk \in recorded : InWindow(chunk)}
        /\ queue' = [k \in TrackSet |-> {}]
    BY <1>6 DEF SnapshotBegin, Drain
  <2>3. \A chunk \in recorded : ~Queued(chunk)'
    BY <2>2 DEF ChunksOK, Chunk, Queued
  <2>4. \A chunk : InWindow(chunk)' = InWindow(chunk)
    BY <2>1 DEF InWindow, EndOf, WindowStart, WindowEnd
  <2> QED
    BY <2>1, <2>2, <2>3, <2>4 DEF Asked
<1>7. CASE Stores
  <2>1. UNCHANGED <<queue, recorded, tick, known, startedAt>>
    BY <1>7 DEF Stores, Store, reading
  <2>2. pc'["reader"] \in {"store", "copy"} => pc["reader"] \in {"store", "copy"}
    BY <1>7 DEF Stores, Store, Goto
  <2> QED
    BY <1>1, <1>2, <2>1, <2>2
<1>8. CASE SnapshotCopy
  BY <1>8 DEF SnapshotCopy, Goto, Asked
<1>9. CASE StartBegin
  <2>1. pc'["reader"] = "new"
    BY <1>9 DEF StartBegin, Goto, Phases, Starting
  <2> QED
    BY <2>1 DEF Asked
<1>10. CASE OwnerStep /\ ~StartBegin
  <2>1. UNCHANGED <<queue, recorded, tick, known, startedAt>>
    BY <1>10 DEF OwnerStep, StartLookup, StartWatcher, StartMaintenance,
       StopBegin, StopJoin, StopTerminate, chunks, reading
  <2>2. pc'["reader"] \in {"store", "copy"} => pc["reader"] \in {"store", "copy"}
    BY <1>10 DEF OwnerStep, StartLookup, StartWatcher, StartMaintenance,
       StopBegin, StopJoin, StopTerminate, Goto
  <2> QED
    BY <1>1, <1>2, <2>1, <2>2
<1>11. CASE Watcher \/ MaintStep
  <2>1. UNCHANGED <<queue, recorded, tick, known, startedAt>>
    BY <1>11 DEF Watcher, WatchLookup, WatchCompare, WatchNotify, MaintStep,
       MaintEnd, MaintCheck, MaintPick, MaintPrune, chunks, reading
  <2>2. pc'["reader"] = pc["reader"]
    BY <1>11 DEF Watcher, WatchLookup, WatchCompare, WatchNotify, MaintStep,
       MaintEnd, MaintCheck, MaintPick, MaintPrune, Goto
  <2> QED
    BY <1>1, <1>2, <2>1, <2>2
<1>12. CASE \/ CloseStream("owner", "drain") \/ CloseStream("maint", "generation")
            \/ \E t \in {"owner", "maint"} : ClearStream(t) \/ NextGeneration(t) \/ OpenStream(t)
            \/ OpenRaises("owner", "broken") \/ OpenRaises("maint", "dead")
            \/ Opened("owner", "spawn_watch") \/ Opened("maint", "prune")
  <2>1. UNCHANGED <<queue, recorded, tick, known, startedAt>>
    BY <1>12 DEF CloseStream, ClearStream, NextGeneration, OpenStream,
       OpenRaises, Opened, chunks, reading
  <2>2. pc'["reader"] = pc["reader"]
    BY <1>12 DEF CloseStream, ClearStream, NextGeneration, OpenStream,
       OpenRaises, Opened, Goto
  <2> QED
    BY <1>1, <1>2, <2>1, <2>2
<1>13. CASE UNCHANGED vars
  BY <1>1, <1>2, <1>13 DEF vars, chunks, reading
<1> QED
  BY <1>3, <1>4, <1>5, <1>6, <1>7, <1>8, <1>9, <1>10, <1>11, <1>12, <1>13, Steps
     DEF World

\* No chunk of a window that is asked for in time is older than the retention.
LEMMA InTime ==
  ASSUME TypeInv, NEW chunk \in Chunk, InWindow(chunk),
         now - WindowEnd <= Retention - Window
  PROVE  Kept(chunk)
<1>1. /\ chunk.start \in Nat /\ now \in Nat /\ startedAt \in Nat
      /\ Window \in Nat /\ Retention \in Nat
  BY CaptureAssumption DEF Chunk, TypeInv, TypeOK, WorldOK, Never
<1>2. tick * Hop \in Nat
  BY CaptureAssumption DEF TypeInv, TypeOK, ReadingOK
<1>3. PICK end \in Nat : end = WindowEnd
  BY <1>1, <1>2 DEF WindowEnd
<1>4. chunk.start + 1 > end - Window
  BY <1>1, <1>3 DEF InWindow, EndOf, WindowStart
<1> QED
  BY <1>1, <1>3, <1>4 DEF Kept, EndOf

\* A window the worker asks for holds all that was recorded of it
\* (snapshot_mixed_window 900-941, _flush_queues_to_storage 492-508,
\* _prune_old_chunks 865-875).
THEOREM WindowsAreWhole == Spec => []WindowWhole
<1>1. Init => SafeInv /\ Asked
  BY DEF Init, SafeInv, AudioKept, Carrying, Asked, Threads
<1>2. TypeInv /\ SafeInv /\ Asked => WindowWhole
  <2> SUFFICES ASSUME TypeInv, SafeInv, Asked, pc["reader"] = "copy",
                      now - WindowEnd <= Retention - Window, NEW chunk \in known
               PROVE  chunk \in Snapshot \/ Held(chunk)
    BY DEF WindowWhole
  <2>1. chunk \in recorded /\ InWindow(chunk) /\ ~Queued(chunk)
    BY DEF Asked
  <2>2. Kept(chunk)
    BY <2>1, InTime DEF TypeInv, TypeOK, ChunksOK
  <2>3. Held(chunk) \/ chunk \in stored
    BY <2>1, <2>2 DEF SafeInv, AudioKept
  <2> QED
    BY <2>1, <2>3 DEF Snapshot
<1> QED
  BY <1>1, <1>2, InitTypes, NextTypes, InitPhases, NextPhases, NextSafe,
     NextAsked, PTL DEF Spec
=============================================================================
