\* One command at a time; everything may fail.
SPECIFICATION Spec
CONSTANTS
    MinNum = 2
    MaxNum = 3
    NRedis = 3
    Client = {c1, c2}
    NoClient = NoClient
    MaxCmd = 3
    Window = 1
    Env = {"client_closes", "redis_drops", "idle_drops", "send_blocks", "malformed", "garbage"}
INVARIANTS TypeOK MapsInverse NoDangling RepliesAwaited
SYMMETRY ClientSymmetry
PROPERTY KeepsSession
\* Every client may be done: nothing is left to do then.
CHECK_DEADLOCK FALSE
