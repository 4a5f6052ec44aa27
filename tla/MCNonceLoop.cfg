\* The loops of CMiner.cpp. The program may exit.
SPECIFICATION Spec
CONSTANTS
    Base = 2
    Length = 3
    WordSize = 65536
    Strict = FALSE
    Kinds = {"DSHA256", "BLAKE3", "DUCOSHA1", "unknown"}
    ChainNums = 2
    Chain = 1
    MaxNonce = 2
    MaxWorks = 2
INVARIANTS
    TypeOK
    NoMissedBlock
    DistanceIsBest
    LoopInv
CHECK_DEADLOCK FALSE
