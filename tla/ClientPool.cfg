SPECIFICATION Spec
CONSTANTS
    Keys = {a, b, c}
    Blank = blank
    Saved <- SavedLists
    Callers = {t1, t2}
    Nobody = nobody
    MaxTurns = 3
INVARIANTS TypeOK
PROPERTIES RefinesRoundRobin
CHECK_DEADLOCK FALSE
