CONSTANTS
    Callers = {c1}
    Requests = {"stop", "pause", "resume"}
    MaxEpoch = 2
    MaxTick = 1
    MaxConfig = 0
    Faults = {}
SPECIFICATION Spec
PROPERTIES RunningSurvives
