\* One worker: commands come when it and the master are at rest.
SPECIFICATION FairSpec
CONSTANTS
    NNode = 4
    Sizes = {1}
    MaxHups = 2
    MaxFd = 1
    Env = {"exit", "signal", "pipe", "error", "stop"}
PROPERTIES StopEnds NoIdleMaster RestartRenews
\* The master may end, or wait for its workers for ever.
CHECK_DEADLOCK FALSE
