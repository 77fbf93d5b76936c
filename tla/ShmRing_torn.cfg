SPECIFICATION Spec
CONSTANTS
    SlotCount = 2
    Count = 4
    Readers = {r1}
INVARIANT NoTornRead
CHECK_DEADLOCK FALSE
