CONSTANTS
    Callers = {c1, c2}
    Requests = {"stop", "pause", "delete"}
    MaxEpoch = 1
    MaxTick = 1
    MaxConfig = 0
    Faults = {"preflight", "client", "capture", "snapshot", "transcribe", "store", "slow"}
SPECIFICATION Spec
INVARIANTS NoCaptureLeak
PROPERTIES ActiveRowKept PauseReleasesMic SignalEndsWorker
