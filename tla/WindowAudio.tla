---------------------------- MODULE WindowAudio ----------------------------
(***************************************************************************)
(* How audio_capture.py builds a track of the window it transcribes from   *)
(* the chunks a stream delivered: the chunks that follow each other become *)
(* a segment, the segments are cut to the window, and each is laid out at  *)
(* the place its first frame was recorded.                                 *)
(*                                                                         *)
(* A track's time is counted in ticks, as fine as one likes: a sample rate *)
(* is the number of ticks from one frame to the next.  A generation of the *)
(* streams has one sample rate, and stands for its channels too.  A        *)
(* frame's sound is named by its generation and the tick it was recorded   *)
(* at, so that what is heard at a place of the window says where it comes  *)
(* from.                                                                   *)
(***************************************************************************)
EXTENDS Integers, SequencesExt

CONSTANTS
    FramesPerBuffer, \* FRAMES_PER_BUFFER
    Period,          \* of each generation, the ticks from a frame to the next
    OutPeriod        \* of OUTPUT_RATE, the same

\* A ChunkRecord: [generation, start_time, frames].
Duration(chunk)     == chunk.frames * Period[chunk.generation]
ChunkEndTime(chunk) == chunk.start_time + Duration(chunk)

\* Frame k (from 0) of a chunk was recorded at this tick.
RecordedAt(chunk, k) == chunk.start_time + k * Period[chunk.generation]

Frames(chunk) ==
    [k \in 1 .. chunk.frames |->
        [generation |-> chunk.generation, time |-> RecordedAt(chunk, k - 1)]]

Larger(a, b)  == IF a > b THEN a ELSE b
Smaller(a, b) == IF a < b THEN a ELSE b

\* round(numerator / denominator): a half goes to the even neighbour.
Round(numerator, denominator) ==
    LET down  == numerator \div denominator
        twice == 2 * (numerator % denominator)
    IN  IF twice > denominator \/ (twice = denominator /\ down % 2 = 1)
        THEN down + 1 ELSE down

(***************************************************************************)
(* _chunks_to_segments: a chunk extends the segment before it when it is   *)
(* of the same generation and starts at most the tolerance after its end.  *)
(* The silence between the two, if any, is dropped.                        *)
(***************************************************************************)
GapTolerance(chunk) ==  \* twice it
    Larger(3 * Duration(chunk), 2 * FramesPerBuffer * Period[chunk.generation])

\* Mutant: a gap of any length is closed.
ClosesEveryGap(last, chunk) == chunk.generation = last.generation

\* Mutant: the generation is not compared.
MixesGenerations(last, chunk) ==
    2 * (chunk.start_time - ChunkEndTime(last)) <= GapTolerance(chunk)

Continues(last, chunk) ==
    /\ chunk.generation = last.generation
    /\ 2 * (chunk.start_time - ChunkEndTime(last)) <= GapTolerance(chunk)

SegmentOf(chunk) ==
    [generation |-> chunk.generation, start_time |-> chunk.start_time,
     audio |-> Frames(chunk)]

AddChunk(segments, last, chunk) ==
    IF segments # <<>> /\ Continues(last, chunk)
    THEN [segments EXCEPT ![Len(segments)].audio = @ \o Frames(chunk)]
    ELSE Append(segments, SegmentOf(chunk))

Earlier(a, b) ==
    \/ a.start_time < b.start_time
    \/ a.start_time = b.start_time /\ a.generation < b.generation

\* The chunks sorted: before the i-th are i - 1 others.
InOrder(chunks) ==
    [i \in 1 .. Cardinality(chunks) |->
        CHOOSE c \in chunks : Cardinality({d \in chunks : Earlier(d, c)}) = i - 1]

\* The segments after each chunk.
SegmentsAfter(ordered, n) ==
    LET after[i \in 0 .. n] ==
            IF i = 0 THEN <<>>
            ELSE AddChunk(after[i - 1], ordered[Larger(1, i - 1)], ordered[i])
    IN  after

ChunksToSegments(chunks) ==
    SegmentsAfter(InOrder(chunks), Cardinality(chunks))[Cardinality(chunks)]

(***************************************************************************)
(* _trim_segment_to_window: the part of a segment inside the window, none  *)
(* when it is empty.                                                       *)
(***************************************************************************)
FrameAt(segment, time) ==
    Larger(0, Smaller(Len(segment.audio),
        Round(time - segment.start_time, Period[segment.generation])))

Cut(segment, from, to) ==
    [segment EXCEPT
        !.start_time = from,
        !.audio = SubSeq(@, FrameAt(segment, from) + 1, FrameAt(segment, to))]

End(segment) ==
    segment.start_time + Len(segment.audio) * Period[segment.generation]

Part(segment, from, to) ==
    Cut(segment, Larger(segment.start_time, from), Smaller(End(segment), to))

Inside(segment, from, to) ==
    /\ Larger(segment.start_time, from) < Smaller(End(segment), to)
    /\ Part(segment, from, to).audio # <<>>

\* The segments that remain keep their numbers.
TrimToWindow(segments, from, to) ==
    [i \in {i \in DOMAIN segments : Inside(segments[i], from, to)} |->
        Part(segments[i], from, to)]

(***************************************************************************)
(* resample_linear: the places of the output are spread evenly from the    *)
(* first frame to the last, and each takes the frames around it; the       *)
(* earlier stands for the two.                                             *)
(***************************************************************************)
Resample(generation, audio) ==
    LET frames == Larger(1, Round(Len(audio) * Period[generation], OutPeriod))
    IN  IF Period[generation] = OutPeriod THEN audio
        ELSE [j \in 1 .. frames |->
                audio[1 + ((j - 1) * (Len(audio) - 1)) \div Larger(1, frames - 1)]]

(***************************************************************************)
(* _render_track_from_segments and _fit_track_length: each place of the    *)
(* window and the sounds heard there, which are averaged; none is silence. *)
(***************************************************************************)
Render(segments, from, to) ==
    LET first(i) == Larger(0, Round(segments[i].start_time - from, OutPeriod))
        audio    == [i \in DOMAIN segments |->
                        Resample(segments[i].generation, segments[i].audio)]
    IN  [place \in 0 .. Round(to - from, OutPeriod) - 1 |->
            {audio[i][place - first(i) + 1] :
                i \in {s \in DOMAIN segments : place - first(s) + 1 \in DOMAIN audio[s]}}]

\* snapshot_mixed_window, for one track.
Window(chunks, from, to) ==
    LET recent == {c \in chunks : ChunkEndTime(c) > from /\ c.start_time < to}
    IN  Render(TrimToWindow(ChunksToSegments(recent), from, to), from, to)
=============================================================================
