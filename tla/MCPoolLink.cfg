\* Two connections, messages cut and run together. The server may exit or crash.
SPECIFICATION Spec
CONSTANTS
    MaxConns = 2
    MaxJobs = 4
    MaxStream = 3
CHECK_DEADLOCK FALSE
INVARIANTS
    LinkInv
    JobOfThisConnection

    
