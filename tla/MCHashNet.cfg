\* Two miners, two places on the server, two jobs and one failure; the nonces
\* of the one extranonce2 value are enough for two chunks.
SPECIFICATION HashNetSpec
CONSTANTS
    Clients = {c1, c2}
    Miners = {m1, m2}
    Extranonce2s = {e1}
    None = None
    NoSession = NoSession
    NonceSpace = 4
    IterationsPerMiner = 2
    DifficultyStep = 1
    IncreaseThreshold = 60
    ChunkTimes = {60}
    Distances = {0}
    MaxJobs = 2
    MaxIssued = 4
    MaxDifficulty = 0
    MaxOutbox = 2
    MaxFailures = 1
CHECK_DEADLOCK FALSE
INVARIANTS
    HashNetTypeOK
    InStep
    SearchedOnce
    HandedIsSearched
PROPERTIES
    ImplementsLedger
    EveryMinerWorks
