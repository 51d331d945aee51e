---------------------------- MODULE MCClientPool ----------------------------
EXTENDS ClientPool, SequencesExt

\* Two spellings of one key, two other keys and white space, in lists of up to
\* four entries: rings of no, one, two and three keys.
Spellings  == [text : Keys, padded : {FALSE}]
              \cup [text : {CHOOSE k \in Keys : TRUE, Blank}, padded : {TRUE}]
SavedLists == BoundedSeq(Spellings, 4)
=============================================================================
