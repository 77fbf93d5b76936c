SPECIFICATION Spec
CONSTANTS
    TxSlots = 4
    Count = 4
    SenderCount = 0
    Streams = 1
    Dests = {d1}
    MaxBatch = 2
    MaxStalls = 1
    Signals = FALSE
    TornReads = FALSE
PROPERTY IdleMeansDone
CHECK_DEADLOCK FALSE
