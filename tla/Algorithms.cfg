CONSTANTS
    Delta = 6
    Full = 10
    Norms = {"no", "yes"}
    Starts = {0, 5}
    MaxLength = 3
    FramesPerBuffer = 2
    Period <- MCPeriod
    OutPeriod = 2
    ChunkStarts = {0, 1, 2, 3, 4, 5, 6, 7, 8, 9, 10, 11, 12, 13, 14, 15, 16}
    MaxChunks = 3
    Jitter = 1
    WindowStarts = {0, 3, 8}
    WindowEnds = {12, 17, 20}
SPECIFICATION Spec
INVARIANTS AlignmentIsBest DriftBounded EveryFrameHeard
CHECK_DEADLOCK FALSE
