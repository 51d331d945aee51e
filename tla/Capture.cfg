CONSTANTS
    Devices = {d1, d2}
    NoDevice = none
    Tracks = 2
    Sounding = {1}
    QueueSize = 1
    Window = 1
    Hop = 2
    Retention = 2
    MaxTime = 4
    MaxSwitch = 2
    MaxGen = 3
    Faults = {"lookup", "open", "slow"}
SPECIFICATION MCSpec
INVARIANTS TypeOK AudioKept WindowWhole OneStreamPerTrack StoppedIsClosed
PROPERTY FollowsDefault
CHECK_DEADLOCK FALSE
