----------------------------- MODULE MCCapture -----------------------------
EXTENDS Capture

\* Either devices change while no time passes, or audio is recorded from
\* devices that stay: the two meet in the generation of a chunk only.
AudioOrSwitches == now # MaxTime =>
    now = 0 /\ switches = MaxSwitch /\ default = CHOOSE d \in Devices : TRUE

MCInit == Init /\ AudioOrSwitches

MCSpec == MCInit /\ [][Next]_vars /\ Fairness
=============================================================================
