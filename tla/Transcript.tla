----------------------------- MODULE Transcript -----------------------------
(***************************************************************************)
(* What a reader of the transcript is promised: a part of the text is      *)
(* final, it only ever grows, it stays in front of what is still open to   *)
(* change, and at the end all of the text is final.                        *)
(***************************************************************************)
EXTENDS SequencesExt

CONSTANT Words

VARIABLES
    final,  \* the part of the text that will not change
    text,   \* the text on the screen
    closed  \* the recording has ended

vars == <<final, text, closed>>

Init == final = <<>> /\ text = <<>> /\ closed = FALSE

Update ==
    /\ ~closed
    /\ final' \in Seq(Words) /\ text' \in Seq(Words)
    /\ IsPrefix(final, final') /\ IsPrefix(final', text')
    /\ UNCHANGED closed

Close ==
    /\ ~closed /\ closed' = TRUE
    /\ final' \in Seq(Words)
    /\ IsPrefix(final, final') /\ text' = final'

Next == Update \/ Close

Spec == Init /\ [][Next]_vars
=============================================================================
