SPECIFICATION FairSpec
CONSTANTS
    Senders = {"a", "b", "skewed"}
    Speaks <- MCSpeaks
    MaxTries = 2
    Backlog = 2
    Crashes = TRUE
INVARIANTS
    TypeOK
    OneAgreedSender
PROPERTY EverySenderEnds
CHECK_DEADLOCK FALSE
