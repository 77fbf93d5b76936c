SPECIFICATION FairSpec
CONSTANTS
    TxSlots = 1
    Count = 2
    SenderCount = 0
    Streams = 2
    Dests = {d1}
    MaxBatch = 1
    MaxStalls = 0
    Signals = FALSE
    TornReads = TRUE
    Me = d1
    Window = 2
    RxMax = 1
    ReceiverCount = 0
    Drops = FALSE
    RxSignals = FALSE
    RxSlots = 1
    ConsumerCount = 0
PROPERTIES
    OneCopyArrives
    AllEnd
CHECK_DEADLOCK FALSE
