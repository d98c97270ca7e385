\* One worker or two: they fail in every way, and both commands come at any
\* time.
SPECIFICATION Spec
CONSTANTS
    NNode = 5
    Sizes = {1, 2}
    MaxHups = 2
    MaxFd = 2
    Env = {"exit", "signal", "pipe", "error", "stop", "fork_fails", "anytime", "early"}
INVARIANTS TypeOK Tracked EndsLast
\* The master may end, or wait for its workers for ever.
CHECK_DEADLOCK FALSE
