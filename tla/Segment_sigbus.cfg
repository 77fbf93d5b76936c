SPECIFICATION Spec
CONSTANTS
    MaxRuns = 2
    Slots = 1
    MaxMessages = 2
    MaxProbes = 3
    Kills = TRUE
INVARIANT SizeCheckClosesWindow
CHECK_DEADLOCK FALSE
