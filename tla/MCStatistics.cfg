\* Two sessions, three time entries of which two are kept, rates whose sum
\* exceeds the space of a uint32.
SPECIFICATION Spec
CONSTANTS
    Clients = {c1, c2}
    Extranonce2s = {e1}
    Distances = {1}
    Rates = {1}
    Space = 2
    Period = 2
    Ring = 2
    MaxTime = 6
    MaxChunks = 1
    MaxJobs = 1
    MaxBlocks = 1
CHECK_DEADLOCK FALSE
SYMMETRY Symmetry
INVARIANTS
    TypeOK
    PublishedIsConsistent
