----------------------------- MODULE RoundRobin -----------------------------
(***************************************************************************)
(* What the key pool promises a session: the answers come from distinct    *)
(* keys in cyclic order, one request at a time, and a request that fails   *)
(* over skips one key.                                                     *)
(***************************************************************************)
EXTENDS Naturals, Sequences

CONSTANTS Keys, NoKey

VARIABLES
    ring,  \* the keys in order, <<>> before the pool exists
    turn,  \* the position of the key whose turn it is, from 0
    last   \* the key that gave the last answer

vars == <<ring, turn, last>>

Init == ring = <<>> /\ turn = 0 /\ last = NoKey

Supply ==
    /\ ring = <<>>
    /\ ring' \in Seq(Keys) /\ ring' # <<>>
    /\ \A i, j \in 1 .. Len(ring') : ring'[i] = ring'[j] => i = j
    /\ UNCHANGED <<turn, last>>

\* The key whose turn it is answers, or the one after it does.
Answer(skip) ==
    /\ skip < Len(ring)
    /\ last' = ring[((turn + skip) % Len(ring)) + 1]
    /\ turn' = (turn + skip + 1) % Len(ring)
    /\ UNCHANGED ring

Next == Supply \/ \E skip \in {0, 1} : Answer(skip)

Spec == Init /\ [][Next]_vars
=============================================================================
