--------------------------- MODULE MCStablePrefix ---------------------------
(***************************************************************************)
(* Words of 0.4 s (in tenths of a second), for which the code derives an   *)
(* edge buffer of 1.6 s and a match delta of 0.6 s.                        *)
(***************************************************************************)
EXTENDS StablePrefix

ASSUME SpeechAssumption ==
    /\ WordsApart /\ WordsInOrder /\ WordsSteady /\ WordsDisjoint
    /\ (\A r \in Reports : ~r.wrong) => WordsSettle

Word(norm, start) == [norm |-> norm, start |-> start, end |-> start + 4]

Heard(shift, quality, low, wrong) ==
    [heard |-> TRUE, shift |-> shift, quality |-> quality, low |-> low,
     wrong |-> wrong]

MCMissed == [Heard(0, 0, FALSE, FALSE) EXCEPT !.heard = FALSE]

MCFull     == 20 * Edge
MCMinScore == 4 * Edge

\* Four words, one of them said twice, heard early, late, or not at all.
RepeatedSpeech == <<Word("so", 6), Word("no", 24), Word("no", 34), Word("yes", 40)>>
Jittered       == {MCMissed, Heard(-1, 10, FALSE, FALSE), Heard(1, 5, FALSE, FALSE)}

\* Three words, which may be heard badly or as another word.
ShortSpeech == <<Word("so", 6), Word("no", 38), Word("yes", 46)>>
Misheard    == {MCMissed, Heard(-1, 10, FALSE, FALSE), Heard(1, 5, TRUE, FALSE),
                Heard(1, 5, FALSE, TRUE), Heard(0, 0, FALSE, FALSE)}
=============================================================================
