SPECIFICATION FairSpec
CONSTANTS
    SlotCount = 2
    Count = 6
    Readers = {r1}
INVARIANTS
    TypeOK
    OnlyTheLapMixes
    ForeignOnlyWhenLapped
PROPERTIES
    NeverBackward
    NoNeedlessSkip
    ReadsAsOneStep
    ImplementsBroadcastLog
    CatchesUp
CHECK_DEADLOCK FALSE
