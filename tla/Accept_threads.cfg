\* Three clients for two places; one can be parked.
SPECIFICATION FairSpec
CONSTANTS
    Client = {c1, c2, c3}
    NoClient = NoClient
    Fd = {f1, f2, f3}
    NoFd = NoFd
    MaxClient = 2
    MaxInfo = 1
INVARIANTS TypeOK Registered ClientLimit
PROPERTY StopEnds
\* The worker may end.
CHECK_DEADLOCK FALSE
