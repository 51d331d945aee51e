---------------------------- MODULE MCAlgorithms ----------------------------
(***************************************************************************)
(* The two algorithms that keep no state, over all short inputs, each      *)
(* built one element at a time: Align over tokens, against the definition  *)
(* the dynamic program stands for, and Window over chunks of audio,        *)
(* against the times they were recorded.                                   *)
(***************************************************************************)
EXTENDS Alignment, WindowAudio

CONSTANTS Norms, Starts, MaxLength,
          ChunkStarts, MaxChunks, Jitter, WindowStarts, WindowEnds

ASSUME StartsAssumption == Starts \subseteq Int

ASSUME AudioAssumption ==
    /\ FramesPerBuffer \in Nat \ {0} /\ Jitter \in Nat
    /\ Period \in Seq(Nat \ {0}) /\ OutPeriod \in Nat \ {0}
    /\ ChunkStarts \subseteq Int /\ WindowStarts \subseteq Int /\ WindowEnds \subseteq Int

VARIABLES nodes, observations, chunks

vars == <<nodes, observations, chunks>>

Init == nodes = <<>> /\ observations = <<>> /\ chunks = {}

AddNode ==
    \E norm \in Norms, start \in Starts :
        /\ chunks = {} /\ Len(nodes) < MaxLength
        /\ nodes' = Append(nodes, [norm |-> norm, start |-> start, end |-> start + 4])
        /\ UNCHANGED <<observations, chunks>>

AddObservation ==
    \E norm \in Norms, start \in Starts, score \in {0, Full} :
        /\ chunks = {} /\ Len(observations) < MaxLength
        /\ observations' = Append(observations,
               [norm |-> norm, start |-> start, end |-> start + 4, score |-> score])
        /\ UNCHANGED <<nodes, chunks>>

\* The times a device gives to its chunks are off by Jitter at most.
Collide(c, d) ==
    /\ c # d
    /\ c.generation = d.generation
    /\ c.start_time <= d.start_time
    /\ ChunkEndTime(c) > d.start_time + Jitter

AddChunkOfAudio ==
    \E generation \in DOMAIN Period, start \in ChunkStarts :
        LET chunk == [generation |-> generation, start_time |-> start,
                      frames |-> FramesPerBuffer]
        IN  /\ nodes = <<>> /\ observations = <<>>
            /\ Cardinality(chunks) < MaxChunks
            /\ chunks' = chunks \cup {chunk}
            /\ \A c, d \in chunks' : ~Collide(c, d)
            /\ UNCHANGED <<nodes, observations>>

Next == AddNode \/ AddObservation \/ AddChunkOfAudio

Spec == Init /\ [][Next]_vars

MCPeriod == <<2, 1, 3>>

\* The alignments: similar pairs, none of which cross or share an end.
Alignments ==
    {pairs \in SUBSET ((DOMAIN nodes) \X (DOMAIN observations)) :
        /\ \A p \in pairs : Similar(nodes[p[1]], observations[p[2]])
        /\ \A p, q \in pairs : p # q => (p[1] < q[1] <=> p[2] < q[2]) /\ p[1] # q[1]}

Score(pairs) ==
    SumFunctionOnSet([p \in pairs |-> MatchScore(nodes[p[1]], observations[p[2]])], pairs)
    + (Len(nodes) + Len(observations) - 2 * Cardinality(pairs)) * Gap

\* Of all the ways to tell the tokens known from the words just heard, the
\* code's table finds one with the highest score (_align_exact 743-811).
AlignmentIsBest ==
    /\ Align(nodes, observations) \in Alignments
    /\ \A pairs \in Alignments : Score(pairs) <= Score(Align(nodes, observations))

(***************************************************************************)
(* The silence between a chunk and the one its device delivered before it, *)
(* as far as both are recent; negative when the two overlap.               *)
(***************************************************************************)
Recent(from, to) == {c \in chunks : ChunkEndTime(c) > from /\ c.start_time < to}

Silence(chunk, recent) ==
    LET before == {d \in recent : /\ d.generation = chunk.generation
                                  /\ d.start_time < chunk.start_time}
    IN  IF before = {} THEN 0
        ELSE chunk.start_time - Max({ChunkEndTime(d) : d \in before})

\* The silence, if the code closes it.
Closed(chunk, recent) ==
    LET silence == Silence(chunk, recent)
    IN  IF silence > 0 /\ 2 * silence <= GapTolerance(chunk) THEN silence ELSE 0

Overlapping(chunk, recent) == Larger(0, -Silence(chunk, recent))

\* The chunks of the same device up to a sound.
UpTo(sound, recent) ==
    {c \in recent : c.generation = sound.generation /\ c.start_time <= sound.time}

ClosedUpTo(sound, recent) ==
    SumFunctionOnSet([c \in recent |-> Closed(c, recent)], UpTo(sound, recent))

OverlappingUpTo(sound, recent) ==
    SumFunctionOnSet([c \in recent |-> Overlapping(c, recent)], UpTo(sound, recent))

\* Twice the ticks a sound may be heard before or after its time.  A place rounded
\* to a frame is off by half of one.  Resampling rounds the length, stretches it to
\* its last frame, and takes the earlier frame.
Resampled(generation) == Period[generation] # OutPeriod

Rounding(generation) == Larger(Period[generation], OutPeriod)

SlackBefore(generation) == Rounding(generation) +
    IF Resampled(generation)
    THEN Larger(0, 3 * OutPeriod - 2 * Period[generation]) ELSE 0

SlackAfter(generation) == Rounding(generation) +
    IF Resampled(generation)
    THEN Larger(2 * Period[generation], 4 * Period[generation] - OutPeriod) ELSE 0

\* A sound is heard at the place of the window it was recorded at, but for the
\* rounding and the silences of its device that the code closed before it
\* (_chunks_to_segments 563-629, _trim_segment_to_window 812-841).
DriftBounded ==
    \A from \in WindowStarts, to \in WindowEnds :
        LET heard == Window(chunks, from, to)
        IN  \A place \in DOMAIN heard : \A sound \in heard[place] :
                LET drift == sound.time - (from + OutPeriod * place)
                    g == sound.generation
                IN  /\ 2 * drift <=
                         2 * ClosedUpTo(sound, Recent(from, to)) + SlackBefore(g)
                    /\ -2 * drift <=
                         2 * OverlappingUpTo(sound, Recent(from, to)) + SlackAfter(g)

\* Twice the ticks of a device's sound between two that are heard in a row, when
\* there are more than fit.
Skipped(generation) == Larger(2 * OutPeriod, 5 * OutPeriod - 4 * Period[generation])

\* Nothing recorded in the window is lost from it, unless overlapping chunks pushed
\* it off the end: of a device no faster than the output every frame is heard, and
\* of a faster one a frame close before it, but for the silences closed and the
\* chunks that overlap up to it
\* (snapshot_mixed_window 912-957, _render_track_from_segments 631-681).
EveryFrameHeard ==
    \A from \in WindowStarts, to \in WindowEnds :
        LET heard == Window(chunks, from, to)
        IN  \A chunk \in chunks : \A frame \in ToSet(Frames(chunk)) :
                LET g           == frame.generation
                    closed      == ClosedUpTo(frame, Recent(from, to))
                    overlapping == OverlappingUpTo(frame, Recent(from, to))
                IN  /\ from < frame.time
                    /\ 2 * (frame.time + overlapping) + SlackAfter(g) + OutPeriod < 2 * to
                    => \E sound \in UNION {heard[place] : place \in DOMAIN heard} :
                        /\ sound.generation = g
                        /\ Period[g] >= OutPeriod => sound.time = frame.time
                        /\ 2 * (frame.time - sound.time) <= Skipped(g) + 2 * closed
                        /\ sound.time - frame.time <= overlapping

=============================================================================
