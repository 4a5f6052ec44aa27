\* Two sessions, two extranonce2 values, one of them usable up to its last
\* nonce and one step beyond.
SPECIFICATION Spec
CONSTANTS
    Clients = {c1, c2}
    Extranonce2s = {e1, e2}
    None = None
    NonceSpace = 8
    IterationsPerMiner = 2
    DifficultyStep = 1
    IncreaseThreshold = 60
    ChunkTimes = {59, 60}
    Distances = {0}
    MaxJobs = 2
    MaxIssued = 10
    MaxDifficulty = 1
SYMMETRY Symmetry
INVARIANTS
    TypeOK
    ChunksDisjoint
    NothingSkipped
    LiveWorkDisjoint
    IndInv
