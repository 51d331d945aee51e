CONSTANTS
    Recordings = {0, 4, 7}
    Hops = {2, 4}
    Window = 4
    Models = {m1, m2}
    Precision = 3
    MaxAsked = 5
SPECIFICATION Spec
INVARIANTS TypeOK OneSource ReplayIsTheRun
PROPERTY KeepsAnswers
