\* A miner that finds a block.
SPECIFICATION Spec
CONSTANTS
    MaxBuffer = 4
    MaxSent = 13
CHECK_DEADLOCK FALSE
INVARIANT LineIsAMessage
