SPECIFICATION Spec
CONSTANTS
    TxSlots = 2
    Count = 4
    SenderCount = 3
    Streams = 2
    Dests = {d1}
    MaxBatch = 2
    MaxStalls = 1
    Signals = TRUE
    TornReads = FALSE
INVARIANTS
    TypeOK
    EveryIndexCounted
    DrainedInOrder
    NothingHeldBack
CHECK_DEADLOCK FALSE
