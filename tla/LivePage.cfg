CONSTANTS
    MaxStreams = 2
    MaxTexts = 1
    QueueLimit = 4
    MaxTasks = 1
SPECIFICATION Spec
INVARIANTS TypeOK Controllable NewestReachable FreshStream
PROPERTIES FinalIsShown ErrorIsShown
CHECK_DEADLOCK FALSE
