---------------------------- MODULE StablePrefix ----------------------------
(***************************************************************************)
(* StablePrefixAggregator of backend/src/groq_whisper_service/             *)
(* stable_prefix.py: the windows of a recording overlap, each transcribed  *)
(* on its own, and the aggregator turns them into one text of which a      *)
(* prefix is committed for good.                                           *)
(*                                                                         *)
(* The environment is the recording and the speech model: the words of     *)
(* Speech were spoken, and a window reports each of those it covers        *)
(* shifted in time, taken for another word, with little confidence, or not *)
(* at all.  A report lasts as long as the word, and all words last equally *)
(* long, so the median duration and with it the runtime geometry (Edge,    *)
(* Delta) are the same in every window.  Times are integers (tenths of a   *)
(* second, say), and a text is counted in words.                           *)
(***************************************************************************)
EXTENDS Alignment

CONSTANTS
    Speech,         \* the words spoken: [norm, start, end], in order
    Reports,        \* how a word is reported: [heard, shift, quality, low, wrong]
    Missed,         \* the report of a word that is not heard, one of Reports
    Wrong,          \* the text of a word taken for another
    Window, Hop,    \* window_seconds, hop_seconds
    CommitLag,      \* commit_lag_seconds
    CarryGrace,     \* carry_grace_ticks
    Edge,           \* edge_buffer_s
    MaxDelta,       \* max_match_delta_seconds
    MinSupport, MinScore, LowSupport,   \* the evidence a commit takes
    StaleAge,       \* stale_commit_age_seconds
    AnchorSpan,     \* anchor_seconds
    RequireFull,    \* require_full_window_before_commit
    MaxTick         \* bound: windows

\* A report's quality is what is left of the score, out of 10.
ASSUME PrefixAssumption ==
    /\ Full = 20 * Edge
    /\ Window \in Nat \ {0} /\ Hop \in Nat \ {0} /\ MaxTick \in Nat
    /\ CarryGrace \in Nat /\ MinSupport \in Nat
    /\ LowSupport \in Int /\ MinScore \in Int
    /\ Edge \in Nat /\ MaxDelta \in Int /\ AnchorSpan \in Int
    /\ Missed \in Reports /\ ~Missed.heard
    /\ \A r \in Reports : r.shift \in Int /\ r.quality \in Nat
    /\ Speech \in Seq([norm : {Speech[w].norm : w \in DOMAIN Speech},
                       start : Int, end : Int])

VARIABLES
    committed,      \* committed_tokens
    tail,           \* mutable_tail
    tick,           \* tick_index: windows ingested
    hasFull,        \* has_seen_full_window
    flushed,        \* flush was called
    lastCommitted,  \* _last_committed_char_count, counted in words
    shown,          \* history: the text of a client that applies every patch
    latest,         \* history: the words the last window reported
    reports         \* history: per word, how many windows reported it

vars == <<committed, tail, tick, hasFull, flushed, lastCommitted, shown,
          latest, reports>>

WindowEnd(k)   == k * Hop
WindowStart(k) == IF k * Hop > Window THEN k * Hop - Window ELSE 0

Smaller(s, t) == IF s < t THEN s ELSE t
Larger(s, t)  == IF s < t THEN t ELSE s

\* The elements of a sequence that pass a test, in their order: SelectSeq in
\* first-order terms, without its recursion.
Place(I, n)    == CHOOSE i \in I : Cardinality({j \in I : j <= i}) = n
Among(s, I)    == [n \in 1 .. Cardinality(I) |-> s[Place(I, n)]]
Kept(s, Test(_)) == Among(s, {i \in DOMAIN s : Test(s[i])})

Norms(tokens) == [i \in DOMAIN tokens |-> tokens[i].norm]

Init ==
    /\ committed = <<>> /\ tail = <<>> /\ tick = 0 /\ hasFull = FALSE
    /\ flushed = FALSE /\ lastCommitted = 0
    /\ shown = <<>> /\ latest = {}
    /\ reports = [w \in DOMAIN Speech |-> 0]

(***************************************************************************)
(* build_observations: what window k reports of the words spoken.          *)
(***************************************************************************)
\* Twice the distance of a word to the nearest cut: the start of the
\* recording is none.
SafeDistance(word, k) ==
    LET left  == IF WindowStart(k) > 0 THEN Center(word) - 2 * WindowStart(k)
                 ELSE 2 * Edge
        right == 2 * WindowEnd(k) - Center(word)
    IN  Smaller(left, right)

\* The last field is history: the word it comes from.
Observation(w, report, k) ==
    LET spoken == Speech[w]
        word   == [start |-> spoken.start + report.shift,
                   end   |-> spoken.end + report.shift]
        safe   == SafeDistance(word, k)
    IN  [norm   |-> IF report.wrong THEN Wrong ELSE spoken.norm,
         start  |-> word.start, end |-> word.end,
         score  |-> Larger(Smaller(safe, 2 * Edge), 0) * report.quality,
         center |-> safe >= 2 * Edge,
         low    |-> report.low,
         full   |-> WindowEnd(k) >= Window,
         of     |-> w]

Observations(hearing, k) ==
    Kept([w \in DOMAIN Speech |-> Observation(w, hearing[w], k)],
              LAMBDA obs : hearing[obs.of].heard)

(***************************************************************************)
(* The evidence for a token.                                               *)
(***************************************************************************)
NewToken(obs) ==
    [norm |-> obs.norm, start |-> obs.start, end |-> obs.end,
     total |-> obs.score, best |-> obs.score, support |-> 1,
     center |-> obs.center, low |-> obs.low, full |-> obs.full,
     seen |-> tick, miss |-> 0, of |-> {obs.of}]

\* Mutant: only a better report is support.
MergeIfBetter(token, obs) ==
    LET better == obs.score >= token.best
    IN  [norm    |-> token.norm,
         start   |-> IF better THEN obs.start ELSE token.start,
         end     |-> IF better THEN obs.end ELSE token.end,
         total   |-> token.total + obs.score,
         best    |-> Larger(token.best, obs.score),
         support |-> IF better THEN token.support + 1 ELSE token.support,
         center  |-> token.center \/ obs.center,
         low     |-> token.low \/ obs.low,
         full    |-> token.full \/ obs.full,
         seen    |-> tick, miss |-> 0,
         of      |-> token.of \cup {obs.of}]

Merge(token, obs) ==
    LET better == obs.score >= token.best
    IN  [norm    |-> token.norm,
         start   |-> IF better THEN obs.start ELSE token.start,
         end     |-> IF better THEN obs.end ELSE token.end,
         total   |-> token.total + obs.score,
         best    |-> Larger(token.best, obs.score),
         support |-> IF token.seen # tick THEN token.support + 1 ELSE token.support,
         center  |-> token.center \/ obs.center,
         low     |-> token.low \/ obs.low,
         full    |-> token.full \/ obs.full,
         seen    |-> tick, miss |-> 0,
         of      |-> token.of \cup {obs.of}]

\* Mutant: an absence is not counted.
CarryUncounted(token) == token

Carry(token) == [token EXCEPT !.miss = @ + 1]

\* Mutant: enough score needs no second window.
EvidenceByScore(token) ==
    IF token.low THEN token.support >= LowSupport ELSE token.total >= MinScore

EvidenceReady(token) ==
    /\ token.support >= MinSupport
    /\ IF token.low THEN token.support >= LowSupport
                    ELSE token.total >= MinScore

CanCommitAlone(token) ==
    token.center /\ (RequireFull => token.full) /\ EvidenceReady(token)

Ready(token, k) ==
    /\ CanCommitAlone(token)
    /\ \/ token.end <= WindowEnd(k) - CommitLag
       \/ token.seen < tick /\ WindowEnd(k) - token.end >= StaleAge

(***************************************************************************)
(* ingest, part by part.                                                   *)
(***************************************************************************)
StructuralDelta == Larger(MaxDelta, Delta)

NothingCommitted == committed = <<>>
CommittedEnd     == Last(committed).end

\* The committed tokens a window may still report.
Anchors == Kept(committed, LAMBDA t : t.end > CommittedEnd - AnchorSpan)

NearAnchors(obs) == /\ obs.end > Anchors[1].start - StructuralDelta
                    /\ obs.start <= CommittedEnd

\* An observation that overlaps a committed token of the same text is it.
Absorbs(anchor, obs) ==
    LET overlap == Smaller(anchor.end, obs.end) - Larger(anchor.start, obs.start)
        shorter == Smaller(anchor.end - anchor.start, obs.end - obs.start)
    IN  /\ obs.norm = anchor.norm
        /\ obs.start < CommittedEnd
        /\ overlap > 0 /\ 10 * overlap >= 12 /\ 2 * overlap >= shorter

\* Mutant: however little it reaches past.
PastAtAll(obs) == obs.end > CommittedEnd

\* A matched observation that reaches far enough past the committed text is a
\* repetition all the same.
PostBoundary(obs) ==
    LET past     == Larger(0, obs.end - CommittedEnd)
        mostPast == 4 * past >= 3 * (obs.end - obs.start)
    IN  mostPast /\ (past >= MaxDelta \/ obs.start = CommittedEnd)

\* Mutant: with the tolerance of a match.
BehindNearly(obs) == obs.start <= CommittedEnd + StructuralDelta

Behind(obs) == obs.end <= CommittedEnd

\* The observations that are new: neither committed already nor before the
\* committed text.
TailObservations(observations) ==
    LET near     == Kept(observations, NearAnchors)
        matched  == {near[p[2]] : p \in Align(Anchors, near)}
        absorbed == {obs \in Range(near) : \E i \in DOMAIN Anchors :
                         Absorbs(Anchors[i], obs)}
        old(obs) == \/ Behind(obs)
                    \/ /\ obs \in matched \cup absorbed
                       /\ ~PostBoundary(obs)
    IN  IF NothingCommitted THEN observations
        ELSE Kept(observations, LAMBDA obs : ~old(obs))

\* A token left of the window waits for its turn, for a while.
SlidOut(token, k) == token.end <= WindowStart(k)

CarriedForward(k) ==
    LET slid == Kept(tail, LAMBDA t : SlidOut(t, k))
        kept == Kept(slid, LAMBDA t : CanCommitAlone(t)
                                           \/ t.miss + 1 <= CarryGrace)
    IN  [i \in DOMAIN kept |-> Carry(kept[i])]

\* Another word now stands where the token stood.
Contradicts(obs, token) ==
    /\ obs.norm # token.norm
    /\ Distance(Center(token), Center(obs)) <= 2 * StructuralDelta
    /\ 2 * (Smaller(token.end, obs.end) - Larger(token.start, obs.start))
         >= Smaller(token.end - token.start, obs.end - obs.start)

\* Mutant: wherever it stands.
PreservedAnywhere(token, observations, newObs, k) ==
    /\ \A i \in DOMAIN newObs : ~Contradicts(newObs[i], token)
    /\ token.miss + 1 <= CarryGrace

\* A token this window should show and does not is kept at its right edge.
Preserved(token, observations, newObs, k) ==
    /\ \A i \in DOMAIN newObs : ~Contradicts(newObs[i], token)
    /\ token.start >= Max({WindowStart(k)} \cup
                          {observations[i].end : i \in DOMAIN observations})
                        - StructuralDelta
    /\ token.miss + 1 <= CarryGrace

NewTail(observations, k) ==
    LET new      == TailObservations(observations)
        old      == Kept(tail, LAMBDA t : ~SlidOut(t, k))
        pairs    == Align(old, new)
        of(j)    == {i \in DOMAIN old : <<i, j>> \in pairs}
        token(j) == IF of(j) # {} THEN Merge(old[CHOOSE i \in of(j) : TRUE], new[j])
                                  ELSE NewToken(new[j])
        matched  == {old[p[1]] : p \in pairs}
        lost     == Kept(old, LAMBDA t :
                        t \notin matched /\ Preserved(t, observations, new, k))
    IN  CarriedForward(k)
        \o [j \in DOMAIN new |-> token(j)]
        \o [i \in DOMAIN lost |-> Carry(lost[i])]

\* commit_ready takes tokens from the head of the tail while they are ready.
ReadyCount(tokens, k) ==
    LET stuck == {i \in DOMAIN tokens : ~Ready(tokens[i], k)}
    IN  IF RequireFull /\ ~hasFull /\ WindowEnd(k) < Window THEN 0
        ELSE Min(stuck \cup {Len(tokens) + 1}) - 1

Render(tokens) ==
    [i \in DOMAIN tokens |-> [norm |-> tokens[i].norm, start |-> tokens[i].start,
                              end |-> tokens[i].end, of |-> tokens[i].of]]

\* Mutant: the count of committed words takes in the tail.
EmitCountingTail(newCommitted, newTail) ==
    LET display     == Norms(newCommitted) \o Norms(newTail)
        replacement == SubSeq(display, lastCommitted + 1, Len(display))
    IN  /\ committed' = newCommitted /\ tail' = newTail
        /\ shown' = SubSeq(shown, 1, lastCommitted) \o replacement
        /\ lastCommitted' = Len(display)

\* build_patch_event: the text from the end of what the event before called
\* committed.  A client replaces its own text from there.
Emit(newCommitted, newTail) ==
    LET display     == Norms(newCommitted) \o Norms(newTail)
        replacement == SubSeq(display, lastCommitted + 1, Len(display))
    IN  /\ committed' = newCommitted /\ tail' = newTail
        /\ shown' = SubSeq(shown, 1, lastCommitted) \o replacement
        /\ lastCommitted' = Len(newCommitted)

\* Once a token is committed, those that end before it are gone.
Pruned(tokens, newCommitted) ==
    Kept(tokens, LAMBDA t :
        newCommitted # <<>> => t.end > Last(newCommitted).end)

Ingest(hearing) ==
    LET k     == tick + 1
        next  == NewTail(Observations(hearing, k), k)
        count == ReadyCount(next, k)
        grown == committed \o Render(SubSeq(next, 1, count))
    IN  /\ ~flushed /\ tick < MaxTick
        /\ hasFull' = (hasFull \/ WindowEnd(k) >= Window)
        /\ Emit(grown, Pruned(SubSeq(next, count + 1, Len(next)), grown))
        /\ tick' = k
        /\ latest' = {w \in DOMAIN Speech : hearing[w].heard}
        /\ reports' = [w \in DOMAIN Speech |->
                          IF w \in latest' THEN reports[w] + 1 ELSE reports[w]]
        /\ UNCHANGED flushed

\* The recording ends, and with it the aggregator's life: what the last window
\* showed is kept, and what needs no further window.
Flushable(token) ==
    \/ ~hasFull
    \/ token.seen = tick - 1
    \/ Hop >= Window /\ SlidOut(token, tick)
    \/ CanCommitAlone(token)

\* Mutant: the tail is left as it is.
FlushForgetsTail ==
    /\ ~flushed /\ flushed' = TRUE
    /\ UNCHANGED <<committed, tail, shown, lastCommitted, tick, hasFull, latest,
                   reports>>

Flush ==
    /\ ~flushed /\ flushed' = TRUE
    /\ Emit(committed \o Render(Kept(tail, Flushable)), <<>>)
    /\ UNCHANGED <<tick, hasFull, latest, reports>>

\* Speech that lies in the window can be heard.
Covered(k) == {w \in DOMAIN Speech : /\ Speech[w].start >= WindowStart(k)
                                     /\ Speech[w].end <= WindowEnd(k)}

Hear ==
    \E hearing \in [Covered(tick + 1) -> Reports] :
        Ingest([w \in DOMAIN Speech |->
                  IF w \in DOMAIN hearing THEN hearing[w] ELSE Missed])

Next == Hear \/ Flush

Spec == Init /\ [][Next]_vars

(***************************************************************************)
(* Conditions on the speech and its reports.  The code does not see to     *)
(* them: a property that needs one holds for such speech only.  Where and  *)
(* with which text a word is reported does not depend on the window.       *)
(***************************************************************************)
HeardReports == {r \in Reports : r.heard}

\* No report of a word can be taken for one of another: the texts differ, or
\* the times are too far apart.
WordsApart ==
    \A v, w \in DOMAIN Speech : \A q, r \in HeardReports :
        LET a == Observation(v, q, 1)
            b == Observation(w, r, 1)
        IN  v # w /\ a.norm = b.norm => Distance(Center(a), Center(b)) > 2 * Delta

\* However two words are reported, the later one ends later, and by more than
\* a match may be off after the earlier one starts; a report is not so early
\* that it ends before the word started.
WordsInOrder ==
    \A w \in DOMAIN Speech : \A r \in HeardReports :
        LET b == Observation(w, r, 1)
        IN  /\ Speech[w].start < b.end
            /\ \A v \in DOMAIN Speech : \A q \in HeardReports :
                 LET a == Observation(v, q, 1)
                 IN  v < w => a.end < b.end /\ a.start + StructuralDelta < b.end

\* All reports of a word overlap, and are about as late.
WordsSteady ==
    \A w \in DOMAIN Speech : \A q, r \in HeardReports :
        LET a == Observation(w, q, 1)
            b == Observation(w, r, 1)
            overlap == Smaller(a.end, b.end) - Larger(a.start, b.start)
            shorter == Smaller(a.end - a.start, b.end - b.start)
        IN  /\ Distance(Center(a), Center(b)) <= 2 * Delta
            /\ 10 * overlap >= 12 /\ 2 * overlap >= shorter
            /\ b.end - a.end < AnchorSpan
            /\ 4 * (b.end - a.end) < 3 * (b.end - b.start)

\* The reports of two words with the same text do not overlap.
WordsDisjoint ==
    \A v, w \in DOMAIN Speech : \A q, r \in HeardReports :
        LET a == Observation(v, q, 1)
            b == Observation(w, r, 1)
        IN  v < w /\ a.norm = b.norm => a.end <= b.start

\* A window that shows a word well: in its middle, and with enough score.
ShownWell(w, k) ==
    \A r \in HeardReports :
        LET b == Observation(w, r, k)
        IN  b.center /\ (RequireFull => b.full) /\ b.score >= MinScore

\* The window is the last that covers the word.
LastCovered(w, k) == w \in Covered(k) /\ Speech[w].start < WindowStart(k + 1)

\* The last window that covers a word ends late enough to commit it, and by
\* then as many windows have covered it as a commit takes, and one of them well.
\* No word is too long for a window, and each is heard as what it is.
WordsSettle ==
    /\ \A w \in DOMAIN Speech :
        /\ Speech[w].start < Speech[w].end
        /\ \A v \in DOMAIN Speech : v < w => Speech[v].start <= Speech[w].start
        /\ \A r \in HeardReports : Observation(w, r, 1).norm = Speech[w].norm
        /\ Speech[w].end <= WindowStart(MaxTick) =>
             \E k \in 1 .. MaxTick : w \in Covered(k)
    /\ \A w \in DOMAIN Speech, k \in 1 .. MaxTick : LastCovered(w, k) =>
        LET before == {j \in 1 .. k : w \in Covered(j)}
        IN  /\ Cardinality(before) >= Larger(MinSupport, LowSupport)
            /\ \E j \in before : ShownWell(w, j)
            /\ \A r \in HeardReports :
                 Observation(w, r, 1).end <= WindowEnd(k) - CommitLag

(***************************************************************************)
(* Properties.                                                             *)
(***************************************************************************)
\* A token of the tail has been seen by as many windows as support it, by the
\* one it was last seen in, and is absent for longer than the grace only if it
\* could be committed anyway (ingest 488-497, 553-556).
TypeOK ==
    /\ tick \in 0 .. MaxTick /\ hasFull \in BOOLEAN /\ flushed \in BOOLEAN
    /\ lastCommitted = Len(committed)
    /\ \A t \in Range(tail) :
          /\ t.seen \in 0 .. tick - 1 /\ t.support \in 1 .. t.seen + 1
          /\ t.seen + t.miss = tick - 1
          /\ t.miss <= CarryGrace \/ CanCommitAlone(t)

\* A client that only ever applies the patches (replace_from_char and
\* replacement_text, build_patch_event 943-964) has the aggregator's text.
PatchesReplay == shown = Norms(committed) \o Norms(tail)

\* The evidence for a word of the final text holds for the word and not only
\* for the counters of its token: while the recording goes on, a word is
\* committed after that many windows reported it (evidence_ready 859-863).
Evidence ==
    ~flushed => \A token \in Range(committed) : \A w \in token.of :
        reports[w] >= MinSupport

\* The windows overlap, and still no word is final twice with the same text
\* (the anchors, 421-487).
CommittedOnce ==
    \A i, j \in DOMAIN committed :
        i # j /\ committed[i].norm = committed[j].norm =>
            committed[i].of \cap committed[j].of = {}

\* A word repeated by the speaker is not taken for a second report of the
\* first: a token stands for one word (align_exact 775-792).
OneWord == \A token \in Range(committed) \cup Range(tail) : Cardinality(token.of) = 1

\* The final text has the words in the order they were spoken in, whatever
\* the order the windows brought them in (commit_ready 821-851).
SpokenOrder ==
    \A i, j \in DOMAIN committed : i < j =>
        \A v \in committed[i].of, w \in committed[j].of : v <= w

\* What the last window reported is in the text, unless a later word has been
\* final before (474-487, prune_tail_before_committed 919-931).
NothingLost ==
    \A w \in latest :
        \/ \E token \in Range(committed) \cup Range(tail) : w \in token.of
        \/ \E token \in Range(committed) : \E v \in token.of : v > w

\* Nothing blocks the head of the tail: if every window reports all the words
\* it covers, a word that left the window is final (commit_ready 826-851).
Windows(w) == {k \in 1 .. tick : w \in Covered(k)}

HeardIsCommitted ==
    (\A w \in DOMAIN Speech : reports[w] = Cardinality(Windows(w))) =>
        \A w \in DOMAIN Speech : Speech[w].end <= WindowStart(tick) =>
            \E token \in Range(committed) : w \in token.of

Promise == INSTANCE Transcript WITH
    Words  <- {Speech[w].norm : w \in DOMAIN Speech} \cup {Wrong},
    final  <- Norms(committed),
    text   <- shown,
    closed <- flushed

\* On the client's screen the committed text is never taken back.
RefinesTranscript == Promise!Spec
=============================================================================
