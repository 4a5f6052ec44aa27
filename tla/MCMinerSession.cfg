\* A chunk or two with a few reports; the miner may leave for good.
SPECIFICATION Spec
CONSTANTS
    MaxBuffer = 4
    MaxSent = 19
CHECK_DEADLOCK FALSE
INVARIANTS
    TypeOK
    LinesIntact
    NothingHeldBack
    WorkIsAwaited
PROPERTIES
    ClosedForAReason
    WaitingEnds
