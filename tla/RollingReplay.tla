--------------------------- MODULE RollingReplay ---------------------------
(***************************************************************************)
(* The command line's rolling transcription of a file                      *)
(* (backend/src/groq_whisper_service/rolling_transcriber.py): windows of   *)
(* the file are sent one after the other, every answer is saved in a       *)
(* directory before it is ingested, and a run that is started again, or a  *)
(* replay, takes the saved answers instead.  A process may die at any      *)
(* moment; the directory stays.                                            *)
(*                                                                         *)
(* Data: a recording is its duration (its content stays the same); hop     *)
(* stands for the three settings of the aggregator and model for the       *)
(* settings that are only compared.  Times are integers, and a file name   *)
(* keeps multiples of Precision ("%.2f").                                  *)
(***************************************************************************)
EXTENDS Integers, Sequences, FiniteSets, SequencesExt

CONSTANTS
    Recordings,  \* durations of the audio files
    Hops,        \* values of --hop-seconds
    Window,      \* --window-seconds
    Models,      \* values of --model, --prompt, --language
    Precision,   \* what a file name keeps of a time
    MaxAsked     \* bound: requests to the API

ASSUME RollingAssumption ==
    /\ Recordings \subseteq Nat /\ Hops \subseteq Nat \ {0}
    /\ Window \in Nat \ {0}
    /\ Precision \in Nat /\ Precision % 2 = 1
    /\ MaxAsked \in Nat

VARIABLES
    manifest,   \* rolling-manifest.json: NoFile, Torn, or the arguments
    files,      \* the saved windows: from names to Torn or an answer
    pc,         \* the statement the process is at
    args,       \* its arguments
    tick,       \* tick_index
    answer,     \* transcription
    ingested,   \* what the aggregator has been given
    asked,      \* requests so far (history)
    told,       \* per tick, what runs in this directory ingested (history)
    replayed    \* the last replay: its aggregator's hop and what it ingested

directory == <<manifest, files>>
process   == <<pc, args, tick, answer, ingested>>
history   == <<asked, told, replayed>>
vars      == <<directory, process, history>>

NoFile == [file |-> "none"]
Torn   == [file |-> "torn"]

Args == [recording : Recordings, hop : Hops, model : Models, saves : BOOLEAN]

(***************************************************************************)
(* generate_tick_ends and the names of the windows                         *)
(***************************************************************************)
\* How many hops end before the recording does.
Before(duration, hop) == IF duration <= 0 THEN 0 ELSE (duration - 1) \div hop

\* Those, and the recording's end.
TickEnds(duration, hop) ==
    Append([i \in 1 .. Before(duration, hop) |-> i * hop], duration)

\* Faulty variant: the name keeps the time as it is.
Unnamed(time) == time

\* A time as a file name gives it.
Named(time) == ((time + Precision \div 2) \div Precision) * Precision

Ends      == TickEnds(args.recording, args.hop)
Name      == [tick |-> tick, end |-> Named(Ends[tick])]
StartOf(end) == IF end < Window THEN 0 ELSE end - Window

\* What the manifest keeps of the arguments.
Settings(a) == [recording |-> a.recording, hop |-> a.hop, model |-> a.model]

\* What is asked of the API for the window that ends there.
Question(a, end) == [recording |-> a.recording, model |-> a.model,
                     start |-> StartOf(end), end |-> end]

(***************************************************************************)
(* Initial states                                                          *)
(***************************************************************************)
NoArgs == [recording |-> CHOOSE r \in Recordings : TRUE,
           hop |-> CHOOSE h \in Hops : TRUE,
           model |-> CHOOSE m \in Models : TRUE, saves |-> FALSE]

\* The windows a version without manifests has saved.
SavedBy(a, count) ==
    LET ends == TickEnds(a.recording, a.hop)
        names == {[tick |-> i, end |-> Named(ends[i])] : i \in 1 .. count}
    IN  [n \in names |-> [file |-> "answer", nr |-> 0,
                          to |-> Question(a, ends[n.tick])]]

Init ==
    /\ manifest = NoFile
    /\ \E a \in Args : \E count \in 0 .. Len(TickEnds(a.recording, a.hop)) :
            files = SavedBy(a, count)
    /\ pc = "none" /\ args = NoArgs
    /\ tick = 1 /\ answer = NoFile /\ ingested = <<>>
    /\ asked = 0 /\ told = <<>> /\ replayed = [hop |-> 0, ingested |-> <<>>]

(***************************************************************************)
(* A run: run_rolling without --rolling-from-dir                           *)
(***************************************************************************)
Goto(label) == pc' = label

RunBegin(a) ==
    /\ pc = "none"
    /\ args' = a /\ tick' = 1 /\ answer' = NoFile /\ ingested' = <<>>
    /\ Goto(IF a.saves THEN "manifest" ELSE "window")
    /\ UNCHANGED <<directory, history>>

\* The end of the process, also by a RuntimeError or a JSON error.
Exit ==
    /\ Goto("none")
    /\ args' = NoArgs /\ tick' = 1 /\ answer' = NoFile /\ ingested' = <<>>
    /\ UNCHANGED <<directory, history>>

\* Faulty variant: only what _validate_manifest_matches_args compares.
SameFlags == manifest.settings.hop = args.hop
             /\ manifest.settings.model = args.model

\* existing_manifest = manifest
SameManifest == manifest.settings = Settings(args)

Readable == manifest.file = "manifest"

\* ensure_rolling_manifest, with a manifest in the directory
ManifestFound ==
    /\ pc = "manifest" /\ manifest # NoFile
    /\ Readable /\ SameManifest
    /\ Goto("window")
    /\ UNCHANGED <<directory, args, tick, answer, ingested, history>>

ManifestRefused ==
    /\ pc = "manifest" /\ manifest # NoFile
    /\ ~(Readable /\ SameManifest)
    /\ Exit

\* ensure_rolling_manifest, without one
WindowsRefused ==
    /\ pc = "manifest" /\ manifest = NoFile
    /\ DOMAIN files # {}
    /\ Exit

\* write_text makes the file, or empties it, before it writes.
ManifestCreate ==
    /\ pc = "manifest" /\ manifest = NoFile
    /\ DOMAIN files = {}
    /\ manifest' = Torn
    /\ Goto("write_manifest")
    /\ UNCHANGED <<files, args, tick, answer, ingested, history>>

ManifestWrite ==
    /\ pc = "write_manifest"
    /\ manifest' = [file |-> "manifest", settings |-> Settings(args)]
    /\ Goto("window")
    /\ UNCHANGED <<files, args, tick, answer, ingested, history>>

\* Faulty variant: saved windows are not looked for.
NeverExists == FALSE

\* saved_window_path.exists()
Exists == args.saves /\ Name \in DOMAIN files

WindowReused ==
    /\ pc = "window" /\ tick <= Len(Ends)
    /\ Exists /\ files[Name] # Torn
    /\ answer' = files[Name]
    /\ Goto("ingest")
    /\ UNCHANGED <<directory, args, tick, ingested, history>>

WindowRefused ==
    /\ pc = "window" /\ tick <= Len(Ends)
    /\ Exists /\ files[Name] = Torn
    /\ Exit

WindowAnswered ==
    /\ pc = "window" /\ tick <= Len(Ends)
    /\ ~Exists /\ asked < MaxAsked
    /\ asked' = asked + 1
    /\ answer' = [file |-> "answer", nr |-> asked',
                  to |-> Question(args, Ends[tick])]
    /\ Goto(IF args.saves THEN "create_window" ELSE "ingest")
    /\ UNCHANGED <<directory, args, tick, ingested, told, replayed>>

\* ffmpeg or the request fails: nothing is saved.
WindowUnanswered ==
    /\ pc = "window" /\ tick <= Len(Ends)
    /\ ~Exists
    /\ Exit

WriteFile(name, content) ==
    files' = [n \in DOMAIN files \cup {name} |->
                IF n = name THEN content ELSE files[n]]

WindowCreate ==
    /\ pc = "create_window"
    /\ WriteFile(Name, Torn)
    /\ Goto("write_window")
    /\ UNCHANGED <<manifest, args, tick, answer, ingested, history>>

WindowWrite ==
    /\ pc = "write_window"
    /\ WriteFile(Name, answer)
    /\ Goto("ingest")
    /\ UNCHANGED <<manifest, args, tick, answer, ingested, history>>

Heard == [answer |-> answer, end |-> Ends[tick]]

Ingest ==
    /\ pc = "ingest"
    /\ ingested' = Append(ingested, Heard)
    /\ tick' = tick + 1
    /\ told' = IF args.saves /\ tick > Len(told) THEN Append(told, Heard)
               ELSE told
    /\ Goto("window")
    /\ UNCHANGED <<directory, args, answer, asked, replayed>>

\* flush, and the end of the process
RunEnd ==
    /\ pc = "window" /\ tick > Len(Ends)
    /\ Exit

(***************************************************************************)
(* A replay: run_rolling with --rolling-from-dir                           *)
(***************************************************************************)
\* How many of the three flags of the aggregator are given.
Flags == {"none", "some", "all"}

\* Faulty variant: the arguments decide, as without a manifest.
HopOfArgs(a) == a.hop

HopOf(a) == IF Readable THEN manifest.settings.hop ELSE a.hop

MayReplay(a, given) ==
    IF manifest = NoFile
    THEN given = "all"
    ELSE /\ Readable
         /\ given # "none" => /\ manifest.settings.hop = a.hop
                              /\ manifest.settings.model = a.model

\* load_saved_rolling_responses reads all of them and sorts by (tick, end).
Loadable  == DOMAIN files # {} /\ \A n \in DOMAIN files : files[n] # Torn
Earlier(m, n) == m.tick < n.tick \/ (m.tick = n.tick /\ m.end < n.end)
Place(name) == 1 + Cardinality({n \in DOMAIN files : Earlier(n, name)})
Responses ==
    [i \in 1 .. Cardinality(DOMAIN files) |->
        LET name == CHOOSE n \in DOMAIN files : Place(n) = i
        IN  [answer |-> files[name], end |-> name.end]]

\* A replay reads only; one that is refused leaves no trace.
Replay(a, given) ==
    /\ pc = "none"
    /\ MayReplay(a, given) /\ Loadable
    /\ replayed' = [hop |-> HopOf(a), ingested |-> Responses]
    /\ UNCHANGED <<directory, process, asked, told>>

(***************************************************************************)
(* The world, and the next-state relation                                  *)
(***************************************************************************)
\* The process is killed, or a write fails half way.
Crash ==
    /\ pc # "none"
    /\ Exit

\* The user removes a file that cannot be read.
Discard ==
    /\ pc = "none"
    /\ \/ manifest = Torn /\ manifest' = NoFile /\ UNCHANGED files
       \/ \E name \in {n \in DOMAIN files : files[n] = Torn} :
            /\ files' = [n \in DOMAIN files \ {name} |-> files[n]]
            /\ UNCHANGED manifest
    /\ UNCHANGED <<process, history>>

Run ==
    \/ \E a \in Args : RunBegin(a)
    \/ ManifestFound \/ ManifestRefused \/ WindowsRefused
    \/ ManifestCreate \/ ManifestWrite
    \/ WindowReused \/ WindowRefused \/ WindowAnswered \/ WindowUnanswered
    \/ WindowCreate \/ WindowWrite \/ Ingest \/ RunEnd

Next ==
    \/ Run \/ Crash \/ Discard
    \/ \E a \in Args, given \in Flags : Replay(a, given)

Spec == Init /\ [][Next]_vars

(***************************************************************************)
(* Properties                                                              *)
(***************************************************************************)
Answers == [file : {"answer"}, nr : 0 .. MaxAsked,
            to : [recording : Recordings, model : Models,
                  start : Int, end : Int]]
Names   == [tick : Nat \ {0}, end : {t \in Nat : t % Precision = 0}]
Told    == [answer : Answers, end : Int]

\* Every variable and every file has the type the code gives it; what a name
\* says can be read back.
TypeOK ==
    /\ \/ manifest \in {NoFile, Torn}
       \/ manifest \in [file : {"manifest"}, settings :
                         [recording : Recordings, hop : Hops, model : Models]]
    /\ \A n \in DOMAIN files :
            n \in Names /\ (files[n] = Torn \/ files[n] \in Answers)
    /\ pc \in {"none", "manifest", "write_manifest", "window", "create_window",
               "write_window", "ingest"}
    /\ args \in Args /\ tick \in Nat \ {0}
    /\ answer = NoFile \/ answer \in Answers
    /\ asked \in 0 .. MaxAsked
    /\ \A heard \in {ingested, told, replayed.ingested} :
            \A i \in DOMAIN heard : heard[i] \in Told
    /\ replayed.hop \in Hops \cup {0}

\* A run that saves hears, window by window, the answers that earlier runs in
\* its directory have heard, and only answers to what it would ask itself:
\* crashes, torn files and other settings in between change nothing of it.
OneSource == args.saves =>
    /\ IsPrefix(ingested, told)
    /\ \A i \in DOMAIN ingested :
            ingested[i].answer.to = Question(args, Ends[i])

\* A replay gives the aggregator what the runs gave it, as far as it is saved,
\* under the settings of the runs whatever its own are; the ends of the
\* windows differ by what a name cannot keep.
AnswersOf(heard) == [i \in DOMAIN heard |-> heard[i].answer]
Close(s, t)      == s - t <= Precision \div 2 /\ t - s <= Precision \div 2
ReplayIsTheRun == Readable /\ replayed.hop # 0 =>
    LET saved == AnswersOf(replayed.ingested)
        heard == AnswersOf(told)
    IN  /\ replayed.hop = manifest.settings.hop
        /\ IsPrefix(saved, heard) \/ IsPrefix(heard, saved)
        /\ \A i \in DOMAIN saved \cap DOMAIN heard :
                Close(replayed.ingested[i].end, told[i].end)

\* An answer that is saved is never lost or asked for again.
KeepsAnswers == [][\A n \in DOMAIN files : files[n] # Torn =>
    n \in DOMAIN files' /\ files'[n] = files[n]]_vars

=============================================================================
