\* Two workers, and the stop command.
SPECIFICATION FairSpec
CONSTANTS
    NNode = 2
    Sizes = {2}
    MaxHups = 0
    MaxFd = 1
    Env = {"stop"}
PROPERTY StopEnds
\* The master may end, or wait for its workers for ever.
CHECK_DEADLOCK FALSE
