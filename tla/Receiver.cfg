SPECIFICATION Spec
CONSTANTS
    Me = d1
    Window = 4
    RxMax = 2
    ReceiverCount = 4
    Drops = TRUE
    RxSignals = TRUE
    Streams = 2
INVARIANTS
    ReceiverTypeOK
    PublishedOnce
    EveryFrameAccounted
    OneCopySuffices
CHECK_DEADLOCK FALSE
