----------------------------- MODULE Lifecycle -----------------------------
(***************************************************************************)
(* What the service promises to a client that sends one request at a time: *)
(* the phases GET /state may go through, and how they line up with the     *)
(* rows of the session history.  Service implements it (RefinesLifecycle). *)
(***************************************************************************)
EXTENDS Naturals

CONSTANT MaxSession  \* bound: sessions opened

VARIABLES
    phase,  \* what GET /state shows
    open,   \* the session whose row has no end yet, or 0
    last    \* the newest session

vars == <<phase, open, last>>

Init == phase = "idle" /\ open = 0 /\ last = 0

\* A start is checked in "preflight", which it always leaves again.
Begin == /\ phase \in {"idle", "error"}
         /\ phase' = "preflight"
         /\ UNCHANGED <<open, last>>

Resolve == /\ phase = "preflight"
           /\ phase' \in {"running", "error"}
           /\ UNCHANGED <<open, last>>

Pause  == phase = "running" /\ phase' = "paused" /\ UNCHANGED <<open, last>>
Resume == phase = "paused" /\ phase' = "running" /\ UNCHANGED <<open, last>>
Fail   == /\ phase \in {"running", "paused"}
          /\ phase' = "error"
          /\ UNCHANGED <<open, last>>

\* A worker that was told to stop shows "idle" before stop returns.
Wind == phase = "running" /\ phase' = "idle" /\ UNCHANGED <<open, last>>

\* A stop that stopped waiting for the worker reports an error, even when the
\* worker has wound up in the meantime.
GiveUp == phase = "idle" /\ phase' = "error" /\ UNCHANGED <<open, last>>

\* stop leaves "idle" only once the session's row is closed.
Stop == /\ phase \in {"running", "paused", "error"}
        /\ open = 0
        /\ phase' = "idle"
        /\ UNCHANGED <<open, last>>

\* Sessions follow one another: the next one opens after the last one closed,
\* and only to record.
OpenSession == /\ phase \in {"running", "paused"}
               /\ open = 0
               /\ last' \in last + 1 .. MaxSession
               /\ open' = last'
               /\ UNCHANGED phase

CloseSession == open # 0 /\ open' = 0 /\ UNCHANGED <<phase, last>>

Next == \/ Begin \/ Resolve \/ Pause \/ Resume \/ Fail \/ Wind \/ GiveUp \/ Stop
        \/ OpenSession \/ CloseSession

Spec == Init /\ [][Next]_vars /\ WF_vars(Resolve)
=============================================================================
