----------------------------- MODULE Alignment -----------------------------
(***************************************************************************)
(* _align_exact of backend/src/groq_whisper_service/stable_prefix.py: the  *)
(* alignment of the tokens already known with the words just heard, by     *)
(* dynamic programming.                                                    *)
(*                                                                         *)
(* Times are integers, and a centre is doubled (start + end).  Scores are  *)
(* the code's, times 20 * Delta * Full, so that they are integers: an      *)
(* observation's own score is a number up to Full.                         *)
(***************************************************************************)
EXTENDS Integers, SequencesExt

CONSTANTS
    Delta,  \* match_delta_s: how far apart the centres of one word may be
    Full    \* the score of a perfect observation

ASSUME AlignmentAssumption == Delta \in Nat \ {0} /\ Full \in Nat \ {0}

Center(token)  == token.start + token.end
Distance(s, t) == IF s < t THEN t - s ELSE s - t

\* Mutant: whatever the time.
SameText(node, obs) == node.norm = obs.norm

\* Two tokens can be the same word: the same text at about the same time.
Similar(node, obs) ==
    /\ node.norm = obs.norm
    /\ Distance(Center(node), Center(obs)) <= 2 * Delta

Gap == -16 * Delta * Full

MatchScore(node, obs) ==
    40 * Delta * Full
    + 10 * (2 * Delta - Distance(Center(node), Center(obs))) * Full
    + 10 * Delta * obs.score

(***************************************************************************)
(* The table: entry <<i, j>> is the best alignment of the first i nodes    *)
(* with the first j observations, its score and the pairs of indices it    *)
(* matches.                                                                *)
(***************************************************************************)
Skip(entry) == [score |-> entry.score + Gap, pairs |-> entry.pairs]

Match(entry, node, obs, pair) ==
    [score |-> entry.score + MatchScore(node, obs),
     pairs |-> entry.pairs \cup {pair}]

\* A tie goes to the older candidate: skip the node, skip the observation,
\* match.
Better(new, old) == IF new.score > old.score THEN new ELSE old

\* Mutant: a match is taken where there is one.
Greedy(matched, gap) == matched

MatchOrGap(matched, gap) == Better(matched, gap)

Entry(best, nodes, observations, i, j) ==
    LET gap     == Better(Skip(best[<<i, j - 1>>]), Skip(best[<<i - 1, j>>]))
        matched == Match(best[<<i - 1, j - 1>>], nodes[i], observations[j], <<i, j>>)
    IN  IF i = 0 \/ j = 0 THEN [score |-> (i + j) * Gap, pairs |-> {}]
        ELSE IF Similar(nodes[i], observations[j]) THEN MatchOrGap(matched, gap)
        ELSE gap

Table(nodes, observations) ==
    LET best[ij \in (0 .. Len(nodes)) \X (0 .. Len(observations))] ==
            Entry(best, nodes, observations, ij[1], ij[2])
    IN  best

\* The pairs <<node, observation>> of the best alignment.
Align(nodes, observations) ==
    Table(nodes, observations)[<<Len(nodes), Len(observations)>>].pairs
=============================================================================
