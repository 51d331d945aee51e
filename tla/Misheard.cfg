CONSTANTS
    Speech <- ShortSpeech
    Reports <- Misheard
    Missed <- MCMissed
    Wrong = "what"
    Window = 60
    Hop = 20
    CommitLag = 20
    CarryGrace = 1
    Edge = 16
    Delta = 6
    MaxDelta = 4
    Full <- MCFull
    MinSupport = 2
    MinScore <- MCMinScore
    LowSupport = 3
    StaleAge = 40
    AnchorSpan = 20
    RequireFull = TRUE
    MaxTick = 6
SPECIFICATION Spec
INVARIANTS TypeOK PatchesReplay Evidence SpokenOrder
PROPERTIES RefinesTranscript
CHECK_DEADLOCK FALSE
