\* Four-byte numbers of two byte values; all 256 exponents.
SPECIFICATION HashSpec
CONSTANTS
    Base = 2
    Length = 4
    WordSize = 65536
    MaxExponent = 255
INVARIANTS
    CheckValidIsNumeric
    DistanceIsMonotone
    TargetIsCompact
