\* The pool closes the connection.
SPECIFICATION Spec
CONSTANTS
    MaxConns = 2
    MaxJobs = 4
    MaxStream = 3
CHECK_DEADLOCK FALSE
PROPERTY CloseIsNoticed
