SPECIFICATION SessionSpec
CONSTANTS
    MaxRuns = 2
    Slots = 1
    MaxMessages = 2
    MaxProbes = 2
    Kills = FALSE
    Control = TRUE
INVARIANT ReceivedIsCount
CHECK_DEADLOCK FALSE
