------------------------ MODULE RollingReplayProofs ------------------------
(***************************************************************************)
(* What is saved stays saved, for all recordings, settings and precisions  *)
(* of names, and for any number of requests.  The argument: a run writes a *)
(* file only after it has found that there is none (Fresh), and between    *)
(* the two steps of a write the file is the one that run has made.         *)
(*                                                                         *)
(* And a run hears what the runs before it have heard: a directory keeps   *)
(* one manifest once it has windows, so that a name and the question it    *)
(* answers do not change from run to run (SourceInv, below).               *)
(*                                                                         *)
(* And a replay gives the aggregator what the runs gave it: the windows of *)
(* a directory have no gap, so sorting their names by tick and end puts    *)
(* them in the order they were heard (ReplayInv, at the end).              *)
(***************************************************************************)
EXTENDS RollingReplay, SequenceTheorems, FiniteSetTheorems, TLAPS

\* A window that is about to be written has no file yet, or the empty one.
Fresh ==
    /\ pc = "create_window" => Name \notin DOMAIN files
    /\ pc = "write_window"  => Name \in DOMAIN files /\ files[Name] = Torn

Saved(n) == n \in DOMAIN files /\ files[n] # Torn

\* The name of a window depends on the arguments and the tick alone.
LEMMA NameStays ==
    ASSUME UNCHANGED <<args, tick>>
    PROVE  Name' = Name /\ Ends' = Ends
BY DEF Name, Ends

\* Nothing is about to be written at first.
LEMMA InitFresh == Init => Fresh
BY DEF Init, Fresh

\* A process that ends writes nothing more.
LEMMA ExitKeeps == Exit => Fresh' /\ UNCHANGED files
BY DEF Exit, Goto, Fresh, directory

\* Every step keeps the invariant and the saved answers.
LEMMA StepKeeps ==
    ASSUME Fresh, [Next]_vars
    PROVE  Fresh' /\ \A n : Saved(n) => n \in DOMAIN files' /\ files'[n] = files[n]
<1>1. CASE UNCHANGED vars
  BY <1>1, NameStays DEF Fresh, Saved, vars, directory, process, history
<1>2. CASE \E a \in Args : RunBegin(a)
  BY <1>2 DEF RunBegin, Goto, Fresh, Saved, directory
<1>3. CASE ManifestFound
  BY <1>3 DEF ManifestFound, Goto, Fresh, Saved, directory
<1>4. CASE ManifestRefused
  BY <1>4, ExitKeeps DEF ManifestRefused, Saved
<1>5. CASE WindowsRefused
  BY <1>5, ExitKeeps DEF WindowsRefused, Saved
<1>6. CASE ManifestCreate \/ ManifestWrite
  BY <1>6 DEF ManifestCreate, ManifestWrite, Goto, Fresh, Saved
<1>7. CASE WindowReused
  BY <1>7 DEF WindowReused, Goto, Fresh, Saved, directory
<1>8. CASE WindowRefused
  BY <1>8, ExitKeeps DEF WindowRefused, Saved
<1>9. CASE WindowAnswered
  <2>1. UNCHANGED <<files, args, tick>>
    BY <1>9 DEF WindowAnswered, directory
  <2>2. pc' = "create_window" => Name \notin DOMAIN files
    BY <1>9 DEF WindowAnswered, Goto, Exists
  <2>3. pc' # "write_window"
    BY <1>9 DEF WindowAnswered, Goto
  <2> QED
    BY <2>1, <2>2, <2>3, NameStays DEF Fresh, Saved
<1>10. CASE WindowUnanswered
  BY <1>10, ExitKeeps DEF WindowUnanswered, Saved
<1>11. CASE WindowCreate
  <2>1. Name \notin DOMAIN files /\ pc' = "write_window" /\ Name' = Name
    BY <1>11, NameStays DEF WindowCreate, Goto, Fresh
  <2>2. files' = [n \in DOMAIN files \cup {Name} |->
                    IF n = Name THEN Torn ELSE files[n]]
    BY <1>11 DEF WindowCreate, WriteFile
  <2> QED
    BY <2>1, <2>2 DEF Fresh, Saved
<1>12. CASE WindowWrite
  <2>1. Name \in DOMAIN files /\ files[Name] = Torn /\ pc' = "ingest"
    BY <1>12 DEF WindowWrite, Goto, Fresh
  <2>2. files' = [n \in DOMAIN files \cup {Name} |->
                    IF n = Name THEN answer ELSE files[n]]
    BY <1>12 DEF WindowWrite, WriteFile
  <2> QED
    BY <2>1, <2>2 DEF Fresh, Saved
<1>13. CASE Ingest
  BY <1>13 DEF Ingest, Goto, Fresh, Saved, directory
<1>14. CASE RunEnd
  BY <1>14, ExitKeeps DEF RunEnd, Saved
<1>15. CASE Crash
  BY <1>15, ExitKeeps DEF Crash, Saved
<1>16. CASE Discard
  <2>1. pc' = "none"
    BY <1>16 DEF Discard, process
  <2>2. CASE UNCHANGED files
    BY <2>1, <2>2 DEF Fresh, Saved
  <2>3. CASE \E name \in {n \in DOMAIN files : files[n] = Torn} :
                files' = [n \in DOMAIN files \ {name} |-> files[n]]
    BY <2>1, <2>3 DEF Fresh, Saved
  <2> QED
    BY <1>16, <2>2, <2>3 DEF Discard
<1>17. CASE \E a \in Args, given \in Flags : Replay(a, given)
  <2>1. UNCHANGED <<files, pc, args, tick>>
    BY <1>17 DEF Replay, directory, process
  <2> QED
    BY <2>1, NameStays DEF Fresh, Saved
<1> QED
  BY <1>1, <1>2, <1>3, <1>4, <1>5, <1>6, <1>7, <1>8, <1>9, <1>10, <1>11,
     <1>12, <1>13, <1>14, <1>15, <1>16, <1>17 DEF Next, Run

\* An answer that is saved is never lost or overwritten, whatever crashes,
\* reruns, replays and removals of torn files come after it.
THEOREM AnswersAreKept == Spec => KeepsAnswers
<1>1. Fresh /\ [Next]_vars => Fresh'
  BY StepKeeps
<1>2. Fresh /\ [Next]_vars =>
        [\A n \in DOMAIN files : files[n] # Torn =>
            n \in DOMAIN files' /\ files'[n] = files[n]]_vars
  BY StepKeeps DEF Saved
<1> QED
  BY InitFresh, <1>1, <1>2, PTL DEF Spec, KeepsAnswers

-----------------------------------------------------------------------------
(***************************************************************************)
(* OneSource.  The argument: the manifest fixes the settings under which   *)
(* the directory was begun (Manifested), every window saved beside it      *)
(* answers what these settings ask (Answering), what was ever ingested is  *)
(* still there (Kept), and a run takes or makes the same (Running).        *)
(***************************************************************************)
EndsOf(a)    == TickEnds(a.recording, a.hop)
NameOf(a, i) == [tick |-> i, end |-> Named(EndsOf(a)[i])]

Typed ==
    /\ pc \in {"none", "manifest", "write_manifest", "window", "create_window",
               "write_window", "ingest"}
    /\ asked \in 0 .. MaxAsked /\ tick \in Nat \ {0}
    /\ told \in Seq(Told) /\ ingested \in Seq(Told)
    /\ pc # "none" => args \in Args
    /\ pc \in {"create_window", "write_window", "ingest"} => answer \in Answers
    /\ \A n \in DOMAIN files : files[n] = Torn \/ files[n] \in Answers

Manifested ==
    /\ manifest \in {NoFile, Torn} \/ Readable
    /\ ~Readable => told = <<>>
    /\ manifest = Torn => DOMAIN files = {}
    /\ pc = "write_manifest" => manifest = Torn

Answering == Readable => \A n \in DOMAIN files : files[n] # Torn =>
    files[n].to = Question(manifest.settings, EndsOf(manifest.settings)[n.tick])

Kept == Readable => \A i \in 1 .. Len(told) :
    LET n == NameOf(manifest.settings, i)
    IN  /\ n \in DOMAIN files /\ files[n] # Torn
        /\ told[i] = [answer |-> files[n], end |-> EndsOf(manifest.settings)[i]]

Saving == args.saves /\ pc \in {"window", "create_window", "write_window", "ingest"}

Running ==
    /\ pc = "none" => ~args.saves
    /\ pc \in {"manifest", "write_manifest"} =>
            args.saves /\ tick = 1 /\ ingested = <<>>
    /\ pc \in {"create_window", "write_window"} => args.saves
    /\ pc \in {"create_window", "write_window", "ingest"} =>
            tick <= Len(Ends) /\ answer.to = Question(args, Ends[tick])
    /\ pc = "ingest" /\ args.saves => Name \in DOMAIN files /\ files[Name] = answer
    /\ Saving => /\ Readable /\ manifest.settings = Settings(args)
                 /\ Len(ingested) = tick - 1 /\ Len(ingested) <= Len(told)
                 /\ \A i \in 1 .. Len(ingested) : ingested[i] = told[i]

SourceInv == Fresh /\ Typed /\ Manifested /\ Answering /\ Kept /\ Running

\* Windows end at integers.
LEMMA EndsType ==
    ASSUME NEW a, a.recording \in Recordings, a.hop \in Hops
    PROVE  EndsOf(a) \in Seq(Int) /\ Len(EndsOf(a)) \in Nat
<1>1. a.recording \in Nat /\ a.hop \in Nat \ {0}
  BY RollingAssumption
<1>2. Before(a.recording, a.hop) \in Nat
  BY <1>1 DEF Before
<1> DEFINE hops == [i \in 1 .. Before(a.recording, a.hop) |-> i * a.hop]
<1>3. hops \in Seq(Int)
  BY <1>1, <1>2
<1> HIDE DEF hops
<1>4. Append(hops, a.recording) \in Seq(Int)
  BY <1>1, <1>3
<1>5. EndsOf(a) = Append(hops, a.recording)
  BY DEF EndsOf, TickEnds, hops
<1> QED
  BY <1>4, <1>5

\* A prefix, place by place.
LEMMA PrefixByPlace ==
    ASSUME NEW S, NEW s \in Seq(S), NEW t \in Seq(S), Len(s) <= Len(t),
           \A i \in 1 .. Len(s) : s[i] = t[i]
    PROVE  IsPrefix(s, t)
<1>1. /\ SubSeq(s, 1, Len(s)) \in Seq(S) /\ SubSeq(t, 1, Len(s)) \in Seq(S)
      /\ Len(SubSeq(s, 1, Len(s))) = Len(s) /\ Len(SubSeq(t, 1, Len(s))) = Len(s)
  OBVIOUS
<1>2. \A i \in 1 .. Len(s) : SubSeq(s, 1, Len(s))[i] = SubSeq(t, 1, Len(s))[i]
  OBVIOUS
<1>3. SubSeq(s, 1, Len(s)) = SubSeq(t, 1, Len(s))
  BY <1>1, <1>2, SeqEqual
<1> QED
  BY <1>3 DEF IsPrefix

\* The answers of what was heard.
LEMMA AnswersType ==
    ASSUME NEW heard \in Seq(Told)
    PROVE  /\ AnswersOf(heard) \in Seq(Answers) /\ Len(AnswersOf(heard)) = Len(heard)
           /\ DOMAIN AnswersOf(heard) = 1 .. Len(heard)
           /\ \A i \in 1 .. Len(heard) : AnswersOf(heard)[i] = heard[i].answer
<1>1. /\ Len(heard) \in Nat /\ DOMAIN heard = 1 .. Len(heard)
      /\ \A i \in 1 .. Len(heard) : heard[i] \in Told
  OBVIOUS
<1>2. \A i \in 1 .. Len(heard) : heard[i].answer \in Answers
  BY <1>1 DEF Told
<1>3. AnswersOf(heard) = [i \in 1 .. Len(heard) |-> heard[i].answer]
  BY <1>1, Zenon DEF AnswersOf
<1>4. AnswersOf(heard) \in [1 .. Len(heard) -> Answers]
  BY <1>2, <1>3
<1> QED
  BY <1>1, <1>3, <1>4

\* The window a run is at, in the words of the invariant.
LEMMA OwnNames == Ends = EndsOf(args) /\ Name = NameOf(args, tick)
BY DEF Ends, EndsOf, Name, NameOf

\* Two runs with the same settings are at the same windows.
LEMMA SameWindows ==
    ASSUME manifest.settings = Settings(args)
    PROVE  /\ EndsOf(manifest.settings) = Ends
           /\ \A i : NameOf(manifest.settings, i) = NameOf(args, i)
           /\ \A end : Question(manifest.settings, end) = Question(args, end)
BY DEF Settings, EndsOf, Ends, NameOf, Question

\* At first there is no manifest, and nothing has been ingested.
LEMMA InitSource == Init => SourceInv
<1> SUFFICES ASSUME Init
             PROVE  SourceInv
  OBVIOUS
<1> USE DEF Init
<1>1. Typed
  <2>1. ASSUME NEW a \in Args, NEW count \in 0 .. Len(TickEnds(a.recording, a.hop)),
               files = SavedBy(a, count)
        PROVE  \A n \in DOMAIN files : files[n] \in Answers
    <3>1. EndsOf(a) \in Seq(Int) /\ a.recording \in Recordings /\ a.model \in Models
      BY EndsType DEF Args
    <3>2. \A n \in DOMAIN files : n.tick \in 1 .. Len(EndsOf(a)) /\ files[n] =
            [file |-> "answer", nr |-> 0, to |-> Question(a, EndsOf(a)[n.tick])]
      <4> DEFINE names == {[tick |-> i, end |-> Named(EndsOf(a)[i])] : i \in 1 .. count}
      <4>1. files = [n \in names |-> [file |-> "answer", nr |-> 0,
                                     to |-> Question(a, EndsOf(a)[n.tick])]]
        BY <2>1 DEF SavedBy, EndsOf
      <4>2. \A n \in names : n.tick \in 1 .. count
        OBVIOUS
      <4>3. 1 .. count \subseteq 1 .. Len(EndsOf(a))
        BY <3>1 DEF EndsOf
      <4> HIDE DEF names
      <4> QED
        BY <4>1, <4>2, <4>3
    <3>3. \A i \in 1 .. Len(EndsOf(a)) : EndsOf(a)[i] \in Int
      BY <3>1
    <3>4. \A i \in 1 .. Len(EndsOf(a)) :
            Question(a, EndsOf(a)[i]) \in
                [recording : Recordings, model : Models, start : Int, end : Int]
      BY <3>1, <3>3, RollingAssumption DEF Question, StartOf
    <3> TAKE n \in DOMAIN files
    <3>5. Question(a, EndsOf(a)[n.tick]) \in
                [recording : Recordings, model : Models, start : Int, end : Int]
      BY <3>2, <3>4
    <3> QED
      BY <3>2, <3>5, RollingAssumption DEF Answers
  <2>2. \A n \in DOMAIN files : files[n] \in Answers
    BY <2>1
  <2> QED
    BY <2>2, RollingAssumption DEF Typed
<1>2. Manifested /\ Answering /\ Kept
  BY DEF Manifested, Answering, Kept, Readable, NoFile, Torn
<1>3. Running
  BY DEF Running, Saving, NoArgs
<1> QED
  BY <1>1, <1>2, <1>3, InitFresh DEF SourceInv

\* A process that ends takes nothing with it but its memory.
LEMMA ExitSource == SourceInv /\ Exit => SourceInv'
<1> SUFFICES ASSUME SourceInv, Exit
             PROVE  SourceInv'
  OBVIOUS
<1> USE DEF SourceInv, Exit, Goto, directory, history
<1>1. Typed'
  BY DEF Typed
<1>2. Manifested' /\ Answering' /\ Kept'
  BY DEF Manifested, Answering, Kept, Readable
<1>3. Running'
  BY DEF Running, Saving, NoArgs
<1> QED
  BY <1>1, <1>2, <1>3, ExitKeeps

\* Beginning a run and checking the manifest.
LEMMA BeginSource ==
    ASSUME SourceInv,
           (\E a \in Args : RunBegin(a)) \/ ManifestFound \/ ManifestCreate
             \/ ManifestWrite
    PROVE  SourceInv'
<1> USE DEF SourceInv, Goto, directory, history
<1>0. Fresh'
  BY StepKeeps DEF Next, Run
<1>1. CASE \E a \in Args : RunBegin(a)
  <2>1. Typed'
    BY <1>1 DEF RunBegin, Typed
  <2>2. Manifested' /\ Answering' /\ Kept'
    BY <1>1 DEF RunBegin, Manifested, Answering, Kept, Readable
  <2>3. Running'
    BY <1>1 DEF RunBegin, Running, Saving, Args
  <2> QED
    BY <1>0, <2>1, <2>2, <2>3
<1>2. CASE ManifestFound
  <2>1. Typed'
    BY <1>2 DEF ManifestFound, Typed
  <2>2. Manifested' /\ Answering' /\ Kept'
    BY <1>2 DEF ManifestFound, Manifested, Answering, Kept, Readable
  <2>3. Running'
    BY <1>2 DEF ManifestFound, Running, Saving, SameManifest, Readable, Typed
  <2> QED
    BY <1>0, <2>1, <2>2, <2>3
<1>3. CASE ManifestCreate
  <2>1. Typed'
    BY <1>3 DEF ManifestCreate, Typed
  <2>2. Manifested' /\ Answering' /\ Kept'
    BY <1>3
    DEF ManifestCreate, Manifested, Answering, Kept, Readable, NoFile, Torn
  <2>3. Running'
    BY <1>3 DEF ManifestCreate, Running, Saving
  <2> QED
    BY <1>0, <2>1, <2>2, <2>3
<1>4. CASE ManifestWrite
  <2>1. Typed'
    BY <1>4 DEF ManifestWrite, Typed
  <2>2. /\ Readable' /\ manifest'.settings = Settings(args) /\ told = <<>>
        /\ DOMAIN files = {} /\ args' = args
    BY <1>4 DEF ManifestWrite, Manifested, Readable, Torn
  <2>3. Manifested' /\ Answering' /\ Kept'
    BY <1>4, <2>2 DEF ManifestWrite, Manifested, Answering, Kept, NoFile, Torn, Readable
  <2>4. Running'
    BY <1>4, <2>2 DEF ManifestWrite, Running, Saving
  <2> QED
    BY <1>0, <2>1, <2>3, <2>4
<1> QED
  BY <1>1, <1>2, <1>3, <1>4

\* A window answers the question the arguments ask, from its file or from the API.
LEMMA AnswerSource ==
    ASSUME SourceInv, WindowReused \/ WindowAnswered
    PROVE  SourceInv'
<1> USE DEF SourceInv, Goto, directory, history
<1>1. Fresh'
  BY StepKeeps DEF Next, Run
<1>2. /\ args \in Args /\ tick \in 1 .. Len(Ends) /\ pc = "window"
      /\ UNCHANGED <<manifest, files, args, tick, ingested, told>>
      /\ Name' = Name /\ Ends' = Ends
  <2>1. Len(Ends) \in Nat /\ args \in Args
    BY EndsType, OwnNames DEF WindowReused, WindowAnswered, Typed, Args
  <2> QED
    BY <2>1, NameStays DEF WindowReused, WindowAnswered, Typed
<1>3. Ends[tick] \in Int
  BY <1>2, EndsType, OwnNames DEF Args
<1>4. Manifested' /\ Answering' /\ Kept'
  BY <1>2 DEF WindowReused, WindowAnswered, Manifested, Answering, Kept, Readable
<1>5. CASE WindowReused
  <2>1. /\ Name \in DOMAIN files /\ files[Name] # Torn /\ answer' = files[Name]
        /\ pc' = "ingest" /\ args.saves /\ asked' = asked
    BY <1>5 DEF WindowReused, Exists
  <2>2. Typed'
    BY <1>2, <2>1 DEF Typed
  <2>3. answer'.to = Question(args, Ends[tick])
    <3>1. Readable /\ manifest.settings = Settings(args)
      BY <1>2, <2>1 DEF Running, Saving
    <3>2. Name.tick = tick
      BY DEF Name
    <3> QED
      BY <2>1, <3>1, <3>2, SameWindows DEF Answering
  <2>4. Running'
    BY <1>2, <2>1, <2>3 DEF Running, Saving, Readable
  <2> QED
    BY <1>1, <1>4, <2>2, <2>4
<1>6. CASE WindowAnswered
  <2>1. answer' \in Answers /\ answer'.to = Question(args, Ends[tick])
            /\ asked' \in 0 .. MaxAsked
    <3>1. Question(args, Ends[tick]) \in
                [recording : Recordings, model : Models, start : Int, end : Int]
      BY <1>2, <1>3, RollingAssumption DEF Question, StartOf, Args
    <3>2. asked' \in 0 .. MaxAsked
      BY <1>6, RollingAssumption DEF WindowAnswered, Typed
    <3> QED
      BY <1>6, <3>1, <3>2 DEF WindowAnswered, Answers
  <2>2. Typed'
    <3>1. pc' \in {"create_window", "ingest"}
      BY <1>6 DEF WindowAnswered
    <3> QED
      BY <1>2, <2>1, <3>1 DEF Typed
  <2>3. Running'
    BY <1>2, <1>6, <2>1 DEF WindowAnswered, Running, Saving, Readable
  <2> QED
    BY <1>1, <1>4, <2>2, <2>3
<1> QED
  BY <1>5, <1>6

\* Saving an answer in a file that was not there changes no other file.
LEMMA SaveSource ==
    ASSUME SourceInv, WindowCreate \/ WindowWrite
    PROVE  SourceInv'
<1> USE DEF SourceInv, Goto, history
<1> DEFINE content == IF pc = "write_window" THEN answer ELSE Torn
<1>1. Fresh' /\ \A n : Saved(n) => n \in DOMAIN files' /\ files'[n] = files[n]
  BY StepKeeps DEF Next, Run
<1>2. /\ pc \in {"create_window", "write_window"} /\ args \in Args /\ args.saves
      /\ pc' \in {"write_window", "ingest"} /\ (pc' = "ingest" <=> pc = "write_window")
      /\ UNCHANGED <<manifest, args, tick, answer, ingested, told, asked>>
      /\ files' = [n \in DOMAIN files \cup {Name} |->
                     IF n = Name THEN content ELSE files[n]]
  BY DEF WindowCreate, WindowWrite, WriteFile, Running, Typed
<1>3. /\ Readable /\ manifest.settings = Settings(args)
      /\ answer.to = Question(args, Ends[tick]) /\ answer \in Answers
      /\ Readable' /\ Name' = Name /\ Ends' = Ends
  BY <1>2, NameStays DEF Running, Saving, Readable, Typed
<1> HIDE DEF content
<1>4. content = Torn \/ content = answer
  BY DEF content
<1>5. Typed'
  BY <1>2, <1>3, <1>4 DEF Typed
<1>6. Manifested'
  BY <1>2, <1>3 DEF Manifested, Readable, Torn
<1>7. Answering'
  <2> SUFFICES ASSUME NEW n \in DOMAIN files', files'[n] # Torn
               PROVE  files'[n].to =
                        Question(manifest.settings, EndsOf(manifest.settings)[n.tick])
    BY <1>2 DEF Answering
  <2>1. CASE n = Name
    <3>1. files'[n] = answer /\ n.tick = tick
      BY <1>2, <1>4, <2>1 DEF Name
    <3> QED
      BY <1>3, <3>1, SameWindows
  <2>2. CASE n # Name
    BY <1>2, <1>3, <2>2 DEF Answering
  <2> QED
    BY <2>1, <2>2
<1>8. Kept'
  BY <1>1, <1>2, <1>3 DEF Kept, Saved
<1>9. Running'
  <2>1. pc' = "ingest" => Name \in DOMAIN files' /\ files'[Name] = answer
    BY <1>2 DEF content
  <2> QED
    BY <1>2, <1>3, <2>1 DEF Running, Saving
<1> QED
  BY <1>1, <1>5, <1>6, <1>7, <1>8, <1>9

\* What a run that saves ingests is what is in the window's file: what was
\* ingested from it before, or the next of what is told.
LEMMA IngestSource == SourceInv /\ Ingest => SourceInv'
<1> SUFFICES ASSUME SourceInv, Ingest
             PROVE  SourceInv'
  OBVIOUS
<1> USE DEF SourceInv, Ingest, Goto, directory
<1>1. Fresh'
  BY StepKeeps DEF Next, Run
<1>2. Heard \in Told /\ args \in Args /\ tick \in 1 .. Len(Ends)
  <2>1. args \in Args /\ Ends \in Seq(Int) /\ Len(Ends) \in Nat
    BY EndsType, OwnNames DEF Typed, Args
  <2>2. tick \in 1 .. Len(Ends)
    BY <2>1 DEF Typed, Running
  <2>3. Ends[tick] \in Int
    BY <2>1, <2>2
  <2> QED
    BY <2>1, <2>2, <2>3 DEF Heard, Told, Typed
<1>3. Typed'
  BY <1>2 DEF Typed
<1>4. CASE ~args.saves
  <2>1. Manifested' /\ Answering' /\ Kept'
    BY <1>4 DEF Manifested, Answering, Kept, Readable
  <2>2. Running'
    BY <1>4 DEF Running, Saving
  <2> QED
    BY <1>1, <1>3, <2>1, <2>2
<1>5. CASE args.saves
  <2>1. /\ Readable /\ manifest.settings = Settings(args)
        /\ Len(ingested) = tick - 1 /\ Len(ingested) <= Len(told)
        /\ \A i \in 1 .. Len(ingested) : ingested[i] = told[i]
        /\ Name \in DOMAIN files /\ files[Name] = answer
    BY <1>5 DEF Running, Saving
  <2>2. Heard = [answer |-> files[Name], end |-> Ends[tick]] /\ files[Name] # Torn
    BY <2>1 DEF Heard, Typed, Answers, Torn
  <2>3. Name = NameOf(manifest.settings, tick)
            /\ Ends[tick] = EndsOf(manifest.settings)[tick]
    BY <2>1, SameWindows, OwnNames
  <2>4. CASE tick <= Len(told)
    <3>1. told' = told
      BY <2>4 DEF Typed
    <3>2. told[tick] = Heard
      BY <2>1, <2>2, <2>3, <2>4 DEF Kept, Typed
    <3>3. Len(ingested') = tick /\ \A i \in 1 .. tick : ingested'[i] = told[i]
      <4>1. Len(ingested') = tick /\ ingested'[tick] = Heard
        BY <2>1, <1>2 DEF Typed
      <4>2. \A i \in 1 .. tick - 1 : ingested'[i] = ingested[i]
        BY <2>1, <1>2 DEF Typed
      <4> QED
        BY <2>1, <3>2, <4>1, <4>2 DEF Typed
    <3>4. Running'
      BY <1>5, <2>1, <2>4, <3>1, <3>3 DEF Running, Saving, Readable, Typed
    <3>5. Manifested' /\ Answering' /\ Kept'
      BY <3>1 DEF Manifested, Answering, Kept, Readable
    <3> QED
      BY <1>1, <1>3, <3>4, <3>5
  <2>5. CASE tick > Len(told)
    <3>1. told' = Append(told, Heard) /\ Len(told) = tick - 1 /\ Len(told') = tick
      BY <1>2, <1>5, <2>1, <2>5 DEF Typed
    <3>2. told'[tick] = Heard /\ \A i \in 1 .. tick - 1 : told'[i] = told[i]
      BY <1>2, <3>1 DEF Typed
    <3>3. Len(ingested') = tick /\ \A i \in 1 .. tick : ingested'[i] = told'[i]
      <4>1. Len(ingested') = tick /\ ingested'[tick] = Heard
        BY <2>1, <1>2 DEF Typed
      <4>2. \A i \in 1 .. tick - 1 : ingested'[i] = ingested[i]
        BY <2>1, <1>2 DEF Typed
      <4> QED
        BY <2>1, <3>2, <4>1, <4>2 DEF Typed
    <3>4. Running'
      BY <1>5, <2>1, <3>1, <3>3 DEF Running, Saving, Readable, Typed
    <3>5. Manifested' /\ Answering'
      BY <2>1 DEF Manifested, Answering, Readable
    <3>6. Kept'
      <4> SUFFICES ASSUME NEW i \in 1 .. tick
                   PROVE  LET n == NameOf(manifest.settings, i)
                          IN  /\ n \in DOMAIN files /\ files[n] # Torn
                              /\ told'[i] = [answer |-> files[n],
                                            end |-> EndsOf(manifest.settings)[i]]
        BY <3>1 DEF Kept
      <4>1. CASE i = tick
        BY <2>1, <2>2, <2>3, <3>2, <4>1
      <4>2. CASE i \in 1 .. tick - 1
        BY <2>1, <3>1, <3>2, <4>2 DEF Kept
      <4>3. i = tick \/ i \in 1 .. tick - 1
        BY DEF Typed
      <4> QED
        BY <4>1, <4>2, <4>3
    <3> QED
      BY <1>1, <1>3, <3>4, <3>5, <3>6
  <2> QED
    BY <2>4, <2>5 DEF Typed
<1> QED
  BY <1>4, <1>5

\* Removing a torn file, and a replay, leave what is saved.
LEMMA OutsideSource ==
    ASSUME SourceInv, Discard \/ \E a \in Args, given \in Flags : Replay(a, given)
    PROVE  SourceInv'
<1> USE DEF SourceInv, process
<1>1. Fresh' /\ \A n : Saved(n) => n \in DOMAIN files' /\ files'[n] = files[n]
  BY StepKeeps DEF Next
<1>2. /\ pc = "none" /\ UNCHANGED <<pc, args, tick, answer, ingested, told, asked>>
      /\ \A n \in DOMAIN files' : n \in DOMAIN files /\ files'[n] = files[n]
  BY DEF Discard, Replay, directory, history
<1>3. manifest' = manifest \/ (manifest = Torn /\ manifest' = NoFile)
  BY DEF Discard, Replay, directory
<1>4. Typed'
  BY <1>2 DEF Typed
<1>5. Running'
  BY <1>2 DEF Running, Saving
<1>6. Manifested'
  <2>1. DOMAIN files = {} => DOMAIN files' = {}
    BY <1>2
  <2> QED
    BY <1>2, <1>3, <2>1 DEF Manifested, Readable, NoFile, Torn
<1>7. Readable' => Readable /\ manifest' = manifest
  BY <1>3 DEF Readable, NoFile
<1>8. Answering'
  BY <1>2, <1>7 DEF Answering
<1>9. Kept'
  BY <1>1, <1>2, <1>7 DEF Kept, Saved
<1> QED
  BY <1>1, <1>4, <1>5, <1>6, <1>8, <1>9

\* Every step keeps the invariant.
LEMMA NextSource == SourceInv /\ [Next]_vars => SourceInv'
<1> SUFFICES ASSUME SourceInv, [Next]_vars
             PROVE  SourceInv'
  OBVIOUS
<1>1. CASE UNCHANGED vars
  <2>1. Fresh'
    BY StepKeeps DEF SourceInv
  <2> QED
    BY <1>1, <2>1, NameStays
    DEF vars, directory, process, history, SourceInv, Typed, Manifested,
        Answering, Kept, Running, Saving, Readable
<1>2. ManifestRefused \/ WindowsRefused \/ WindowRefused \/ WindowUnanswered
        \/ RunEnd \/ Crash => Exit
  BY DEF ManifestRefused, WindowsRefused, WindowRefused, WindowUnanswered,
         RunEnd, Crash
<1> QED
  BY <1>1, <1>2, ExitSource, BeginSource, AnswerSource, SaveSource, IngestSource,
     OutsideSource
  DEF Next, Run

\* A run that saves hears what earlier runs in its directory have heard, and only
\* answers to what it would ask itself, over any crashes, torn files, other
\* settings and replays, for all recordings and any number of requests.
THEOREM RunsHaveOneSource == Spec => []OneSource
<1>1. SourceInv => OneSource
  <2> SUFFICES ASSUME SourceInv, args.saves
               PROVE  /\ IsPrefix(ingested, told)
                      /\ \A i \in DOMAIN ingested :
                            ingested[i].answer.to = Question(args, Ends[i])
    BY DEF OneSource
  <2> USE DEF SourceInv
  <2>1. CASE ~Saving
    <3>1. ingested = <<>>
      BY <2>1 DEF Running, Saving, Typed
    <3> QED
      BY <3>1 DEF IsPrefix, Typed
  <2>2. CASE Saving
    <3>1. /\ Readable /\ manifest.settings = Settings(args)
          /\ Len(ingested) <= Len(told)
          /\ \A i \in 1 .. Len(ingested) : ingested[i] = told[i]
      BY <2>2 DEF Running
    <3>2. IsPrefix(ingested, told)
      BY <3>1, PrefixByPlace DEF Typed
    <3>3. ASSUME NEW i \in 1 .. Len(ingested)
          PROVE  ingested[i].answer.to = Question(args, Ends[i])
      <4> DEFINE n == NameOf(manifest.settings, i)
      <4>1. i \in 1 .. Len(told)
        BY <3>1 DEF Typed
      <4>2. /\ n \in DOMAIN files /\ files[n] # Torn
            /\ told[i] = [answer |-> files[n], end |-> EndsOf(manifest.settings)[i]]
        BY <3>1, <4>1 DEF Kept
      <4>3. n.tick = i
        BY DEF NameOf
      <4> HIDE DEF n
      <4>4. files[n].to = Question(manifest.settings, EndsOf(manifest.settings)[i])
        BY <3>1, <4>2, <4>3 DEF Answering
      <4> QED
        BY <3>1, <4>2, <4>4, SameWindows
    <3> QED
      BY <3>2, <3>3 DEF Typed
  <2> QED
    BY <2>1, <2>2
<1> QED
  BY <1>1, InitSource, NextSource, PTL DEF Spec

-----------------------------------------------------------------------------
(***************************************************************************)
(* ReplayIsTheRun and TypeOK.  The argument: the windows of a directory    *)
(* are the first ones of one recording under one hop, without a gap, and   *)
(* only the last of them can be torn (InOrder).  So the order of their     *)
(* names is the order of their ticks, and what a replay reads of the       *)
(* directory stays there (Repeated).                                       *)
(***************************************************************************)
Filled(a, count) == DOMAIN files = {NameOf(a, i) : i \in 1 .. count}

InOrder ==
    /\ Readable =>
        LET a == manifest.settings
        IN  \E count \in {Len(told), Len(told) + 1} :
                count <= Len(EndsOf(a)) /\ Filled(a, count)
    /\ ~Readable => /\ \E a \in Args : \E count \in 0 .. Len(EndsOf(a)) : Filled(a, count)
                    /\ \A n \in DOMAIN files : files[n] # Torn

Repeated == replayed.hop # 0 =>
    /\ Readable \/ DOMAIN files # {}
    /\ Readable =>
        /\ replayed.hop = manifest.settings.hop
        /\ \A i \in 1 .. Len(replayed.ingested) :
              LET n == NameOf(manifest.settings, i)
              IN  /\ Saved(n)
                  /\ replayed.ingested[i] = [answer |-> files[n], end |-> n.end]

Shapes ==
    /\ Readable => manifest \in [file : {"manifest"}, settings :
                        [recording : Recordings, hop : Hops, model : Models]]
    /\ args \in Args
    /\ answer = NoFile \/ answer \in Answers
    /\ replayed.hop \in Hops \cup {0} /\ replayed.ingested \in Seq(Told)

ReplayInv == SourceInv /\ InOrder /\ Repeated /\ Shapes

\* Windows end at natural numbers.
LEMMA EndsNat ==
    ASSUME NEW a, a.recording \in Recordings, a.hop \in Hops
    PROVE  EndsOf(a) \in Seq(Nat)
<1>1. a.recording \in Nat /\ a.hop \in Nat \ {0}
  BY RollingAssumption
<1>2. Before(a.recording, a.hop) \in Nat
  BY <1>1 DEF Before
<1> DEFINE hops == [i \in 1 .. Before(a.recording, a.hop) |-> i * a.hop]
<1>3. hops \in Seq(Nat)
  BY <1>1, <1>2
<1> HIDE DEF hops
<1>4. Append(hops, a.recording) \in Seq(Nat)
  BY <1>1, <1>3
<1> QED
  BY <1>4 DEF EndsOf, TickEnds, hops

\* A name keeps a time to half of its precision.
LEMMA NamedTime ==
    ASSUME NEW time \in Nat
    PROVE  /\ Named(time) \in Nat /\ Named(time) % Precision = 0
           /\ Close(Named(time), time)
<1> DEFINE half == Precision \div 2
           q    == (time + half) \div Precision
<1>1. Precision \in Nat \ {0} /\ half \in Nat /\ Precision = 2 * half + 1
  BY RollingAssumption
<1>2. q \in Nat /\ Precision * q <= time + half /\ time + half < Precision * q + Precision
  BY <1>1
<1>3. (q * Precision) % Precision = 0
  BY <1>1, <1>2
<1>4. Named(time) = q * Precision
  BY DEF Named
<1> HIDE DEF q, half
<1>5. q * Precision \in Nat /\ q * Precision = Precision * q
  BY <1>1, <1>2
<1>6. Named(time) - time <= half /\ time - Named(time) <= half
  BY <1>1, <1>2, <1>4, <1>5
<1> QED
  BY <1>3, <1>4, <1>5, <1>6 DEF Close, half

\* The name of a window, and what is kept in it of the window's end.
LEMMA NameType ==
    ASSUME NEW a, a.recording \in Recordings, a.hop \in Hops,
           NEW i \in 1 .. Len(EndsOf(a))
    PROVE  /\ NameOf(a, i) \in Names /\ NameOf(a, i).tick = i
           /\ EndsOf(a)[i] \in Nat /\ Close(NameOf(a, i).end, EndsOf(a)[i])
<1>1. EndsOf(a)[i] \in Nat /\ i \in Nat \ {0}
  BY EndsNat
<1> QED
  BY <1>1, NamedTime DEF NameOf, Names

\* A name is that of one window.
LEMMA NamesCount ==
    ASSUME NEW a, NEW count \in Nat
    PROVE  LET names == {NameOf(a, i) : i \in 1 .. count}
           IN  IsFiniteSet(names) /\ Cardinality(names) = count
<1> DEFINE names == {NameOf(a, i) : i \in 1 .. count}
           name  == [i \in 1 .. count |-> NameOf(a, i)]
<1>1. \A i \in 1 .. count : name[i] = NameOf(a, i) /\ NameOf(a, i).tick = i
  BY DEF NameOf
<1>2. name \in Injection(1 .. count, names) /\ name \in Surjection(1 .. count, names)
  BY <1>1 DEF Injection, Surjection, IsInjective
<1>3. ExistsBijection(1 .. count, names)
  BY <1>2 DEF ExistsBijection, Bijection
<1>4. IsFiniteSet(1 .. count) /\ Cardinality(1 .. count) = count
  BY FS_Interval
<1> HIDE DEF names
<1> QED
  BY <1>3, <1>4, FS_Bijection DEF names

\* What a replay reads of a directory without a gap, in the order of the ticks.
LEMMA InOrderOfTicks ==
    ASSUME NEW a, a.recording \in Recordings, a.hop \in Hops,
           NEW count \in Nat, count <= Len(EndsOf(a)), Filled(a, count)
    PROVE  Responses = [i \in 1 .. count |->
                [answer |-> files[NameOf(a, i)], end |-> NameOf(a, i).end]]
<1>1. Cardinality(DOMAIN files) = count
  BY NamesCount DEF Filled
<1>2. \A i \in 1 .. count : NameOf(a, i).tick = i /\ NameOf(a, i) \in DOMAIN files
  BY DEF NameOf, Filled
<1>3. ASSUME NEW j \in 1 .. count
      PROVE  Place(NameOf(a, j)) = j
  <2> DEFINE before == {n \in DOMAIN files : Earlier(n, NameOf(a, j))}
  <2>1. before = {NameOf(a, i) : i \in 1 .. j - 1}
    <3>1. ASSUME NEW i \in 1 .. count
          PROVE  Earlier(NameOf(a, i), NameOf(a, j)) <=> i < j
      <4>1. CASE i = j
        <5>1. NameOf(a, j).end \in Nat
          BY EndsType, NameType DEF Names
        <5> QED
          BY <1>2, <4>1, <5>1 DEF Earlier
      <4>2. CASE i # j
        BY <1>2, <4>2 DEF Earlier
      <4> QED
        BY <4>1, <4>2
    <3>2. ASSUME NEW n
          PROVE  n \in before <=> n \in {NameOf(a, i) : i \in 1 .. j - 1}
      <4>1. n \in DOMAIN files <=> \E i \in 1 .. count : n = NameOf(a, i)
        BY DEF Filled
      <4> QED
        BY <3>1, <4>1
    <3> QED
      BY <3>2
  <2>2. Cardinality(before) = j - 1
    <3>1. j - 1 \in Nat
      OBVIOUS
    <3> QED
      BY <2>1, <3>1, NamesCount
  <2>3. Place(NameOf(a, j)) = 1 + Cardinality(before)
    BY DEF Place
  <2> HIDE DEF before
  <2> QED
    BY <2>1, <2>2, <2>3
<1>4. ASSUME NEW j \in 1 .. count
      PROVE  (CHOOSE n \in DOMAIN files : Place(n) = j) = NameOf(a, j)
  <2>1. \A n \in DOMAIN files : \E i \in 1 .. count : n = NameOf(a, i)
    BY DEF Filled
  <2> QED
    BY <1>2, <1>3, <2>1
<1> QED
  BY <1>1, <1>4 DEF Responses

\* With a manifest or without, the windows are those of one recording and hop.
LEMMA SomeOrder ==
    ASSUME SourceInv, Shapes, InOrder
    PROVE  \E a : /\ a.recording \in Recordings /\ a.hop \in Hops
                  /\ \E count \in Nat : count <= Len(EndsOf(a)) /\ Filled(a, count)
<1>1. CASE Readable
  <2>1. manifest.settings.recording \in Recordings /\ manifest.settings.hop \in Hops
    BY <1>1 DEF Shapes
  <2>2. Len(told) \in Nat /\ Len(told) + 1 \in Nat
    BY DEF SourceInv, Typed
  <2> QED
    BY <1>1, <2>1, <2>2 DEF InOrder
<1>2. CASE ~Readable
  BY <1>2, EndsType DEF InOrder, Args
<1> QED
  BY <1>1, <1>2

\* The names of a directory, and the windows they are of.
LEMMA InOrderNames ==
    ASSUME SourceInv, Shapes, InOrder
    PROVE  /\ \A n \in DOMAIN files : n \in Names
           /\ Readable => Len(told) <= Len(EndsOf(manifest.settings))
<1>1. PICK a : /\ a.recording \in Recordings /\ a.hop \in Hops
               /\ \E count \in Nat : count <= Len(EndsOf(a)) /\ Filled(a, count)
  BY SomeOrder
<1>2. PICK count \in Nat : count <= Len(EndsOf(a)) /\ Filled(a, count)
  BY <1>1
<1>3. \A i \in 1 .. count : NameOf(a, i) \in Names
  <2>1. 1 .. count \subseteq 1 .. Len(EndsOf(a))
    BY <1>1, <1>2, EndsType
  <2> QED
    BY <1>1, <2>1, NameType
<1>4. Readable => Len(told) <= Len(EndsOf(manifest.settings))
  <2> SUFFICES ASSUME Readable
               PROVE  Len(told) <= Len(EndsOf(manifest.settings))
    OBVIOUS
  <2>1. Len(told) \in Nat /\ Len(EndsOf(manifest.settings)) \in Nat
    BY EndsType DEF Shapes, SourceInv, Typed
  <2> QED
    BY <2>1 DEF InOrder
<1> QED
  BY <1>2, <1>3, <1>4 DEF Filled

\* The steps that change the directory, or what is told of it.
LEMMA Changes ==
    ASSUME [Next]_vars
    PROVE  \/ UNCHANGED <<files, manifest, told>>
           \/ ManifestCreate \/ ManifestWrite \/ WindowCreate \/ WindowWrite
           \/ Ingest \/ Discard
BY DEF Next, Run, vars, directory, history, RunBegin, Exit, ManifestFound,
       ManifestRefused, WindowsRefused, WindowReused, WindowRefused,
       WindowAnswered, WindowUnanswered, RunEnd, Crash, Replay

\* At first the windows are those a version without manifests has saved.
LEMMA InitReplay == Init => InOrder /\ Repeated /\ Shapes
<1> SUFFICES ASSUME Init
             PROVE  InOrder /\ Repeated /\ Shapes
  OBVIOUS
<1> USE DEF Init
<1>1. PICK a \in Args : \E count \in 0 .. Len(EndsOf(a)) : files = SavedBy(a, count)
  BY DEF EndsOf
<1>2. PICK count \in 0 .. Len(EndsOf(a)) : files = SavedBy(a, count)
  BY <1>1
<1>3. Filled(a, count) /\ \A n \in DOMAIN files : files[n].file = "answer"
  BY <1>2 DEF SavedBy, Filled, NameOf, EndsOf
<1>4. InOrder
  BY <1>2, <1>3 DEF InOrder, Readable, NoFile, Torn
<1>5. NoArgs \in Args
  BY <1>1 DEF NoArgs, Args
<1> QED
  BY <1>4, <1>5 DEF Shapes, Repeated, Readable, NoFile

\* Every step keeps the shapes.
LEMMA NextShapes ==
    ASSUME SourceInv, SourceInv', Shapes, InOrder, [Next]_vars
    PROVE  Shapes'
<1>1. (Readable => manifest \in [file : {"manifest"}, settings :
                    [recording : Recordings, hop : Hops, model : Models]])'
  <2>1. CASE UNCHANGED manifest
    BY <2>1 DEF Shapes, Readable
  <2>2. CASE ManifestWrite
    BY <2>2 DEF ManifestWrite, Settings, Shapes, Args
  <2>3. CASE manifest' \in {Torn, NoFile}
    BY <2>3 DEF Readable, Torn, NoFile
  <2> QED
    BY <2>1, <2>2, <2>3, Changes
    DEF ManifestCreate, WindowCreate, WindowWrite, Ingest, Discard, directory
<1>2. args' \in Args
  <2>1. Exit => args' \in Args
    BY DEF Exit, NoArgs, Shapes, Args
  <2> QED
    BY <2>1
    DEF Shapes, Next, Run, vars, process, RunBegin, ManifestFound, ManifestRefused,
        WindowsRefused, ManifestCreate, ManifestWrite, WindowReused, WindowRefused,
        WindowAnswered, WindowUnanswered, WindowCreate, WindowWrite, Ingest,
        RunEnd, Crash, Discard, Replay
<1>3. (answer = NoFile \/ answer \in Answers)'
  <2>1. CASE WindowReused
    BY <2>1 DEF WindowReused, Exists, SourceInv, Typed
  <2>2. CASE WindowAnswered
    <3>1. pc' \in {"create_window", "ingest"}
      BY <2>2 DEF WindowAnswered, Goto
    <3> QED
      BY <3>1 DEF SourceInv, Typed
  <2>3. CASE UNCHANGED answer
    BY <2>3 DEF Shapes
  <2>4. CASE answer' = NoFile
    BY <2>4
  <2> QED
    BY <2>1, <2>2, <2>3, <2>4
    DEF Next, Run, vars, process, Exit, RunBegin, ManifestFound, ManifestRefused,
        WindowsRefused, ManifestCreate, ManifestWrite, WindowRefused,
        WindowUnanswered, WindowCreate, WindowWrite, Ingest,
        RunEnd, Crash, Discard, Replay
<1>4. (replayed.hop \in Hops \cup {0} /\ replayed.ingested \in Seq(Told))'
  <2>1. CASE \E a \in Args, given \in Flags : Replay(a, given)
    <3>1. PICK b \in Args, given \in Flags : Replay(b, given)
      BY <2>1
    <3>2. HopOf(b) \in Hops /\ replayed' = [hop |-> HopOf(b), ingested |-> Responses]
      BY <3>1 DEF Replay, HopOf, Shapes, Args
    <3>3. PICK a : /\ a.recording \in Recordings /\ a.hop \in Hops
                   /\ \E count \in Nat : count <= Len(EndsOf(a)) /\ Filled(a, count)
      BY SomeOrder
    <3>4. PICK count \in Nat : count <= Len(EndsOf(a)) /\ Filled(a, count)
      BY <3>3
    <3>5. Responses = [i \in 1 .. count |->
                [answer |-> files[NameOf(a, i)], end |-> NameOf(a, i).end]]
      BY <3>3, <3>4, InOrderOfTicks
    <3>6. \A i \in 1 .. count : [answer |-> files[NameOf(a, i)],
                                 end |-> NameOf(a, i).end] \in Told
      <4> TAKE i \in 1 .. count
      <4>1. i \in 1 .. Len(EndsOf(a))
        BY <3>3, <3>4, EndsType
      <4>2. NameOf(a, i).end \in Int
        BY <3>3, <4>1, NameType DEF Names
      <4>3. files[NameOf(a, i)] \in Answers
        BY <3>1, <3>4 DEF Replay, Loadable, Filled, SourceInv, Typed
      <4> QED
        BY <4>2, <4>3 DEF Told
    <3> QED
      BY <3>2, <3>5, <3>6
  <2>2. CASE UNCHANGED replayed
    BY <2>2 DEF Shapes
  <2> QED
    BY <2>1, <2>2
    DEF Next, Run, vars, history, RunBegin, Exit, ManifestFound, ManifestRefused,
        WindowsRefused, ManifestCreate, ManifestWrite, WindowReused, WindowRefused,
        WindowAnswered, WindowUnanswered, WindowCreate, WindowWrite, Ingest,
        RunEnd, Crash, Discard
<1> QED
  BY <1>1, <1>2, <1>3, <1>4 DEF Shapes

\* Every step keeps the windows without a gap: a run that finds no file for its
\* window is at the first tick of which nothing is told, and a file that is
\* removed is the last.
LEMMA NextInOrder ==
    ASSUME SourceInv, SourceInv', Shapes, InOrder, [Next]_vars
    PROVE  InOrder'
<1> USE DEF SourceInv
<1> DEFINE s == manifest.settings
<1>1. CASE UNCHANGED <<files, manifest, told>>
  BY <1>1 DEF InOrder, Readable, Filled, NameOf, EndsOf
<1>2. CASE ManifestCreate
  <2>1. manifest' = Torn /\ files' = files /\ ~Readable /\ ~Readable'
    BY <1>2 DEF ManifestCreate, Readable, NoFile, Torn
  <2> QED
    BY <2>1 DEF InOrder, Filled, NameOf, EndsOf
<1>3. CASE ManifestWrite
  <2>1. /\ Readable' /\ told' = <<>> /\ files' = files /\ DOMAIN files = {}
        /\ manifest'.settings = Settings(args)
    BY <1>3 DEF ManifestWrite, Readable, Manifested, Torn, history
  <2>2. Filled(s, 0)' /\ Len(told') = 0
    BY <2>1 DEF Filled
  <2>3. Len(EndsOf(s))' \in Nat
    <3>1. Len(EndsOf(Settings(args))) \in Nat
      BY EndsType DEF Settings, Shapes, Args
    <3> QED
      BY <2>1, <3>1 DEF EndsOf
  <2> QED
    BY <2>1, <2>2, <2>3 DEF InOrder
<1>4. CASE WindowCreate
  <2>1. /\ Readable /\ s = Settings(args) /\ Name \notin DOMAIN files
        /\ tick <= Len(Ends) /\ Len(told) \in Nat /\ tick \in Nat \ {0}
        /\ tick <= Len(told) + 1
    BY <1>4 DEF WindowCreate, Running, Saving, Fresh, Typed
  <2>2. Name = NameOf(s, tick) /\ Ends = EndsOf(s)
    BY <2>1, SameWindows, OwnNames
  <2>3. PICK count \in {Len(told), Len(told) + 1} :
            count <= Len(EndsOf(s)) /\ Filled(s, count)
    BY <2>1 DEF InOrder
  <2>4. count = Len(told) /\ tick = Len(told) + 1
    BY <2>1, <2>2, <2>3 DEF Filled
  <2>5. DOMAIN files' = DOMAIN files \cup {Name} /\ UNCHANGED <<manifest, told>>
    BY <1>4 DEF WindowCreate, WriteFile, history
  <2>6. DOMAIN files' = {NameOf(s, i) : i \in 1 .. tick}
    <3>1. 1 .. tick = 1 .. count \cup {tick}
      BY <2>1, <2>4
    <3> QED
      BY <2>2, <2>3, <2>5, <3>1 DEF Filled
  <2>7. Filled(s, Len(told) + 1)' /\ Readable' /\ EndsOf(s)' = EndsOf(s)
    BY <2>1, <2>4, <2>5, <2>6 DEF Filled, NameOf, EndsOf, Readable
  <2> QED
    BY <2>1, <2>2, <2>4, <2>5, <2>7 DEF InOrder
<1>5. CASE WindowWrite
  <2>1. Readable /\ Name \in DOMAIN files
    BY <1>5 DEF WindowWrite, Running, Saving, Fresh
  <2>2. DOMAIN files' = DOMAIN files /\ UNCHANGED <<manifest, told>>
    BY <1>5, <2>1 DEF WindowWrite, WriteFile, history
  <2> QED
    BY <2>1, <2>2 DEF InOrder, Readable, Filled, NameOf, EndsOf
<1>6. CASE Ingest
  <2>1. UNCHANGED <<files, manifest>>
    BY <1>6 DEF Ingest, directory
  <2>2. CASE told' = told
    BY <2>1, <2>2, <1>1
  <2>3. CASE told' # told
    <3>1. /\ Readable /\ s = Settings(args) /\ Name \in DOMAIN files
          /\ told' = Append(told, Heard) /\ tick > Len(told)
          /\ tick \in Nat /\ Len(told) \in Nat
      BY <1>6, <2>3 DEF Ingest, Running, Saving, Typed
    <3>2. Name = NameOf(s, tick) /\ Name.tick = tick
      BY <3>1, SameWindows, OwnNames DEF Name
    <3>3. PICK count \in {Len(told), Len(told) + 1} :
              count <= Len(EndsOf(s)) /\ Filled(s, count)
      BY <3>1 DEF InOrder
    <3>4. \A i \in 1 .. count : NameOf(s, i).tick = i
      BY DEF NameOf
    <3>5. count = Len(told) + 1
      BY <3>1, <3>2, <3>3, <3>4 DEF Filled
    <3>6. Len(told') = Len(told) + 1
      BY <3>1 DEF Typed
    <3>7. Filled(s, Len(told))' /\ Readable' /\ EndsOf(s)' = EndsOf(s)
      BY <2>1, <3>1, <3>3, <3>5, <3>6 DEF Filled, NameOf, EndsOf, Readable
    <3> QED
      BY <2>1, <3>3, <3>5, <3>6, <3>7 DEF InOrder
  <2> QED
    BY <2>2, <2>3
<1>7. CASE Discard
  <2>1. told' = told
    BY <1>7 DEF Discard, history
  <2>2. CASE manifest = Torn /\ manifest' = NoFile /\ UNCHANGED files
    <3>1. ~Readable /\ ~Readable'
      BY <2>2 DEF Readable, NoFile, Torn
    <3> QED
      BY <2>2, <3>1 DEF InOrder, Filled, NameOf, EndsOf
  <2>3. CASE /\ UNCHANGED manifest
             /\ \E name \in {n \in DOMAIN files : files[n] = Torn} :
                    files' = [n \in DOMAIN files \ {name} |-> files[n]]
    <3>1. PICK name \in DOMAIN files :
            /\ files[name] = Torn /\ manifest' = manifest
            /\ files' = [n \in DOMAIN files \ {name} |-> files[n]]
      BY <2>3
    <3>2. Readable
      BY <3>1 DEF InOrder
    <3>3. PICK count \in {Len(told), Len(told) + 1} :
              count <= Len(EndsOf(s)) /\ Filled(s, count)
      BY <3>2 DEF InOrder
    <3>4. PICK last \in 1 .. count : name = NameOf(s, last)
      BY <3>1, <3>3 DEF Filled
    <3>5. Len(told) \in Nat
      BY DEF Typed
    <3>6. last \notin 1 .. Len(told)
      BY <3>1, <3>2, <3>4 DEF Kept
    <3>7. count = Len(told) + 1 /\ last = count
      BY <3>3, <3>4, <3>5, <3>6
    <3>8. \A i \in 1 .. count : NameOf(s, i) = name <=> i = count
      BY <3>4, <3>7 DEF NameOf
    <3>9. DOMAIN files' = {NameOf(s, i) : i \in 1 .. Len(told)}
      <4>1. 1 .. Len(told) = 1 .. count \ {count}
        BY <3>5, <3>7
      <4>2. DOMAIN files' = DOMAIN files \ {name}
        BY <3>1
      <4> QED
        BY <3>3, <3>8, <4>1, <4>2 DEF Filled
    <3>10. Filled(s, Len(told))' /\ Readable' /\ EndsOf(s)' = EndsOf(s)
      BY <2>1, <3>1, <3>2, <3>9 DEF Filled, NameOf, EndsOf, Readable
    <3>11. Len(told) <= Len(EndsOf(s))
      <4>1. Len(EndsOf(s)) \in Nat
        BY <3>2, EndsType DEF Shapes
      <4> QED
        BY <3>3, <3>5, <3>7, <4>1
    <3> QED
      BY <2>1, <3>1, <3>10, <3>11 DEF InOrder
  <2> QED
    BY <1>7, <2>2, <2>3 DEF Discard
<1> QED
  BY <1>1, <1>2, <1>3, <1>4, <1>5, <1>6, <1>7, Changes

\* What a replay has read stays, and it read under the settings of the runs.
LEMMA NextRepeated ==
    ASSUME SourceInv, SourceInv', Shapes, InOrder, Repeated, [Next]_vars
    PROVE  Repeated'
<1> DEFINE s == manifest.settings
           r == replayed.ingested
<1>1. \A n : Saved(n) => Saved(n)' /\ files'[n] = files[n]
  BY StepKeeps DEF SourceInv, Saved
<1>2. CASE \E a \in Args, given \in Flags : Replay(a, given)
  <2>1. PICK b \in Args, given \in Flags : Replay(b, given)
    BY <1>2
  <2>2. /\ replayed' = [hop |-> HopOf(b), ingested |-> Responses] /\ DOMAIN files # {}
        /\ UNCHANGED <<files, manifest>> /\ \A n \in DOMAIN files : Saved(n)
    BY <2>1 DEF Replay, Loadable, Saved, directory
  <2>3. ASSUME Readable
        PROVE  /\ HopOf(b) = s.hop
               /\ \A i \in 1 .. Len(Responses) :
                    LET n == NameOf(s, i)
                    IN  Saved(n) /\ Responses[i] = [answer |-> files[n], end |-> n.end]
    <3>1. s.recording \in Recordings /\ s.hop \in Hops /\ Len(told) \in Nat
      BY <2>3 DEF Shapes, SourceInv, Typed
    <3>2. PICK count \in Nat : count <= Len(EndsOf(s)) /\ Filled(s, count)
      BY <2>3, <3>1 DEF InOrder
    <3>3. Responses = [i \in 1 .. count |->
                [answer |-> files[NameOf(s, i)], end |-> NameOf(s, i).end]]
      BY <3>1, <3>2, InOrderOfTicks
    <3>4. Len(Responses) = count
      BY <3>2, <3>3
    <3>5. \A i \in 1 .. count : Saved(NameOf(s, i))
      BY <2>2, <3>2 DEF Filled
    <3> QED
      BY <2>3, <3>3, <3>4, <3>5 DEF HopOf
  <2> QED
    BY <2>2, <2>3 DEF Repeated, Readable, Saved, NameOf, EndsOf
<1>3. CASE UNCHANGED replayed
  <2> SUFFICES ASSUME replayed.hop # 0
               PROVE  Repeated'
    BY <1>3 DEF Repeated
  <2>1. CASE UNCHANGED manifest /\ (DOMAIN files # {} => DOMAIN files' # {} \/ Readable)
    <3>1. Readable' \/ DOMAIN files' # {}
      BY <2>1 DEF Repeated, Readable
    <3>2. Readable' => (\A i \in 1 .. Len(r) :
                LET n == NameOf(s, i)
                IN  Saved(n) /\ r[i] = [answer |-> files[n], end |-> n.end])'
      <4> SUFFICES ASSUME Readable', NEW i \in 1 .. Len(r)
                   PROVE  (LET n == NameOf(s, i)
                           IN  /\ Saved(n)
                               /\ r[i] = [answer |-> files[n], end |-> n.end])'
        BY <1>3
      <4> DEFINE n == NameOf(s, i)
      <4>1. n' = n /\ Readable
        BY <2>1 DEF NameOf, EndsOf, Readable
      <4>2. Saved(n) /\ r[i] = [answer |-> files[n], end |-> n.end]
        BY <4>1 DEF Repeated
      <4> HIDE DEF n
      <4>3. n \in DOMAIN files' /\ files'[n] # Torn /\ files'[n] = files[n]
        BY <1>1, <4>2 DEF Saved
      <4>4. Saved(n)' /\ r'[i] = [answer |-> files'[n'], end |-> n'.end]
        BY <1>3, <4>1, <4>2, <4>3 DEF Saved
      <4> QED
        BY <4>4 DEF n
    <3>3. Readable' => replayed'.hop = s'.hop
      BY <1>3, <2>1 DEF Repeated, Readable
    <3> QED
      BY <3>1, <3>2, <3>3 DEF Repeated
  <2>2. CASE ManifestCreate \/ ManifestWrite
    <3>1. DOMAIN files = {} /\ ~Readable
      BY <2>2 DEF ManifestCreate, ManifestWrite, SourceInv, Manifested, Readable,
                  NoFile, Torn
    <3> QED
      BY <3>1 DEF Repeated
  <2>3. CASE Discard /\ manifest = Torn
    <3>1. DOMAIN files = {} /\ ~Readable
      BY <2>3 DEF SourceInv, Manifested, Readable, Torn
    <3> QED
      BY <3>1 DEF Repeated
  <2>4. CASE Discard /\ manifest # Torn
    <3>1. PICK name \in DOMAIN files :
            /\ files[name] = Torn /\ manifest' = manifest
      BY <2>4 DEF Discard
    <3>2. Readable
      BY <3>1 DEF InOrder
    <3> QED
      BY <2>1, <3>1, <3>2
  <2>5. CASE WindowCreate \/ WindowWrite
    <3>1. UNCHANGED manifest /\ DOMAIN files' # {}
      BY <2>5 DEF WindowCreate, WindowWrite, WriteFile
    <3> QED
      BY <2>1, <3>1
  <2>6. CASE UNCHANGED <<files, manifest>>
    BY <2>1, <2>6
  <2> QED
    BY <2>2, <2>3, <2>4, <2>5, <2>6, Changes DEF Ingest, directory
<1> QED
  BY <1>2, <1>3
  DEF Next, Run, vars, history, RunBegin, Exit, ManifestFound, ManifestRefused,
      WindowsRefused, ManifestCreate, ManifestWrite, WindowReused, WindowRefused,
      WindowAnswered, WindowUnanswered, WindowCreate, WindowWrite, Ingest,
      RunEnd, Crash, Discard

\* The whole invariant.
LEMMA NextReplay == ReplayInv /\ [Next]_vars => ReplayInv'
BY NextSource, NextShapes, NextInOrder, NextRepeated DEF ReplayInv

LEMMA InitReplayInv == Init => ReplayInv
BY InitSource, InitReplay DEF ReplayInv

\* Every variable and every saved window has the type the code gives it: what a
\* name says can be read back, however runs, crashes and removals follow each other.
THEOREM TypeCorrect == Spec => []TypeOK
<1>1. ReplayInv => TypeOK
  <2> SUFFICES ASSUME ReplayInv
               PROVE  TypeOK
    OBVIOUS
  <2>1. \A n \in DOMAIN files :
            n \in Names /\ (files[n] = Torn \/ files[n] \in Answers)
    BY InOrderNames DEF ReplayInv, SourceInv, Typed
  <2>2. \A heard \in {ingested, told, replayed.ingested} :
            \A i \in DOMAIN heard : heard[i] \in Told
    BY DEF ReplayInv, SourceInv, Typed, Shapes
  <2>3. \/ manifest \in {NoFile, Torn}
        \/ manifest \in [file : {"manifest"}, settings :
                          [recording : Recordings, hop : Hops, model : Models]]
    BY DEF ReplayInv, SourceInv, Manifested, Shapes
  <2> QED
    BY <2>1, <2>2, <2>3 DEF ReplayInv, SourceInv, Typed, Shapes, TypeOK
<1> QED
  BY <1>1, InitReplayInv, NextReplay, PTL DEF Spec

\* A replay gives the aggregator what the runs gave it, as far as it is saved, in
\* their order, under the settings of the runs whatever its own are, and with the
\* ends of the windows to half of what a name keeps; for all recordings, hops and
\* precisions, whatever happened to the directory before and after the replay.
THEOREM ReplayRepeatsTheRun == Spec => []ReplayIsTheRun
<1>1. ReplayInv => ReplayIsTheRun
  <2> DEFINE s     == manifest.settings
             r     == replayed.ingested
             saved == AnswersOf(r)
             heard == AnswersOf(told)
  <2> SUFFICES ASSUME ReplayInv, Readable, replayed.hop # 0
               PROVE  /\ replayed.hop = s.hop
                      /\ IsPrefix(saved, heard) \/ IsPrefix(heard, saved)
                      /\ \A i \in DOMAIN saved \cap DOMAIN heard :
                            Close(r[i].end, told[i].end)
    BY DEF ReplayIsTheRun
  <2>1. /\ replayed.hop = s.hop
        /\ \A i \in 1 .. Len(r) :
              LET n == NameOf(s, i)
              IN  Saved(n) /\ r[i] = [answer |-> files[n], end |-> n.end]
    BY DEF ReplayInv, Repeated
  <2>2. /\ s.recording \in Recordings /\ s.hop \in Hops
        /\ r \in Seq(Told) /\ told \in Seq(Told) /\ Len(told) <= Len(EndsOf(s))
    BY InOrderNames DEF ReplayInv, Shapes, SourceInv, Typed
  <2>3. \A i \in 1 .. Len(told) :
            told[i] = [answer |-> files[NameOf(s, i)], end |-> EndsOf(s)[i]]
    BY DEF ReplayInv, SourceInv, Kept
  <2>4. /\ saved \in Seq(Answers) /\ Len(saved) = Len(r) /\ DOMAIN saved = 1 .. Len(r)
        /\ heard \in Seq(Answers) /\ Len(heard) = Len(told)
        /\ DOMAIN heard = 1 .. Len(told)
        /\ \A i \in 1 .. Len(r) : saved[i] = r[i].answer
        /\ \A i \in 1 .. Len(told) : heard[i] = told[i].answer
    BY <2>2, AnswersType
  <2>5. ASSUME NEW i \in 1 .. Len(r), i \in 1 .. Len(told)
        PROVE  saved[i] = heard[i] /\ Close(r[i].end, told[i].end)
    <3>1. /\ r[i] = [answer |-> files[NameOf(s, i)], end |-> NameOf(s, i).end]
          /\ told[i] = [answer |-> files[NameOf(s, i)], end |-> EndsOf(s)[i]]
      BY <2>1, <2>3, <2>5
    <3>2. i \in 1 .. Len(EndsOf(s))
      <4>1. Len(EndsOf(s)) \in Nat /\ Len(told) \in Nat
        BY <2>2, EndsType
      <4> QED
        BY <2>2, <2>5, <4>1
    <3>3. saved[i] = r[i].answer /\ heard[i] = told[i].answer
      BY <2>4, <2>5
    <3> QED
      BY <2>2, <3>1, <3>2, <3>3, NameType
  <2> HIDE DEF saved, heard
  <2>6. IsPrefix(saved, heard) \/ IsPrefix(heard, saved)
    <3>1. CASE Len(r) <= Len(told)
      <4>1. \A i \in 1 .. Len(saved) : saved[i] = heard[i]
        BY <2>2, <2>4, <2>5, <3>1
      <4> QED
        BY <2>4, <3>1, <4>1, PrefixByPlace
    <3>2. CASE Len(told) <= Len(r)
      <4>1. \A i \in 1 .. Len(heard) : heard[i] = saved[i]
        BY <2>2, <2>4, <2>5, <3>2
      <4> QED
        BY <2>4, <3>2, <4>1, PrefixByPlace
    <3>3. Len(r) \in Nat /\ Len(told) \in Nat
      BY <2>2
    <3> QED
      BY <3>1, <3>2, <3>3
  <2> QED
    BY <2>1, <2>4, <2>5, <2>6
<1> QED
  BY <1>1, InitReplayInv, NextReplay, PTL DEF Spec
=============================================================================
