CONSTANTS
    Devices = {d1, d2}
    NoDevice = none
    Tracks = 2
    Sounding = {1}
    QueueSize = 1
    Window = 1
    Hop = 2
    Retention = 2
    MaxTime = 0
    MaxSwitch = 1
    MaxGen = 3
    Faults = {"open"}
SPECIFICATION MCSpec
PROPERTY ReopensStreams
CHECK_DEADLOCK FALSE
