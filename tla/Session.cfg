SPECIFICATION FairSession
CONSTANTS
    MaxRuns = 2
    Slots = 1
    MaxMessages = 2
    MaxProbes = 2
    Kills = TRUE
    Control = TRUE
INVARIANTS
    SessionTypeOK
    FirstRunNoSigbus
    ReadsTheLiveRing
    NobodyTooEarly
    OnlyTheBeginningIsMissed
PROPERTY EveryoneEnds
CHECK_DEADLOCK FALSE
