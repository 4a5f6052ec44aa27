\* Chunks of up to three nonces, some of them wrapped; two chunks in a row.
SPECIFICATION Spec
CONSTANTS
    NonceSpace = 4
    MaxDistance = 1
    TargetDistance = 1
    MaxWorks = 2
CHECK_DEADLOCK FALSE
INVARIANTS
    TypeOK
    HalvesCover
    NoTaskOutlivesItsChunk
PROPERTIES
    ChunkIsReported
