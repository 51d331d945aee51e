CONSTANTS
    Callers = {c1}
    Requests = {"stop", "pause", "resume"}
    MaxEpoch = 3
    MaxTick = 1
    MaxConfig = 1
    Faults = {"preflight", "client", "capture", "snapshot", "transcribe", "slow"}
SPECIFICATION Spec
INVARIANTS TypeOK SingleWorker NoZombie TextOwnership
PROPERTIES WindowsAdvance RefinesLifecycle
