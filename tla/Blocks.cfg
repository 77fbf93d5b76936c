SPECIFICATION BlocksSpec
CONSTANTS
    Window = 4
    Seqs <- MCSeqs
    MaxOffers = 5
    HeaderSize = 3
    RecordSize = 2
    FrameCap = 4
    Cap = 15
    FrameLens <- MCFrameLens
    SubBits = 2
    MaxPow2 = 5
    Values <- MCValues
    Denominator = 4
    MaxSamples = 3
    N = 3
    MaxCalls = 7
    Freq = 3
    Tries = 2
    Baseline = 4
    MaxGap = 2
    Second = 11
    Rates <- MCRates
    PCount = 4
    Epoch = 4
    MaxClock = 20
    MaxStep = 3
INVARIANTS
    BlocksTypeOK
    AtMostOnce
    BitsExact
    YieldsWhatArrived
    BucketsPartition
    PercentilesClose
    ServedInTurn
    SlopeError
    PaceKept
PROPERTY ImplementsOnceFilter
CHECK_DEADLOCK FALSE
