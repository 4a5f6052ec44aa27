\* Two places, and fewer descriptors than sessions and a pool that reconnects
\* may take: the table fills up, accept and socket fail. Two connections wait at
\* once, two commands arrive at once. The server stops on SIGINT.
SPECIFICATION Spec
CONSTANTS
    MaxSessions = 2
    MaxFds = 3
    NoFd = NoFd
    IPs = {LocalIP, ip1}
    LocalIP = LocalIP
    SessionTimeout = 1
    MaxBatch = 2
    MaxBacklog = 2
CHECK_DEADLOCK FALSE
INVARIANTS
    TypeOK
    SocketOwnership
    ThrottledHasOneSession
    SweptBeforeAccept
PROPERTIES
    ClosedForAReason
    PlaceIsReclaimed
    BacklogMoves
