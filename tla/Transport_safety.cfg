SPECIFICATION Spec
CONSTANTS
    TxSlots = 2
    Count = 3
    SenderCount = 0
    Streams = 2
    Dests = {d1}
    MaxBatch = 2
    MaxStalls = 0
    Signals = FALSE
    TornReads = FALSE
    Me = d1
    Window = 2
    RxMax = 1
    ReceiverCount = 0
    Drops = FALSE
    RxSignals = FALSE
    RxSlots = 2
    ConsumerCount = 3
INVARIANTS
    LossesAddUp
    DropsExact
PROPERTY ImplementsOnceDelivery
CHECK_DEADLOCK FALSE
