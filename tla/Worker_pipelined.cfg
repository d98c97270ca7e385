\* Two commands at a time, transactions, and Redis closes connections.
SPECIFICATION Spec
CONSTANTS
    MinNum = 2
    MaxNum = 3
    NRedis = 3
    Client = {c1, c2}
    NoClient = NoClient
    MaxCmd = 2
    Window = 2
    Env = {"client_closes", "redis_drops", "multi"}
INVARIANTS OnlyOwn
SYMMETRY ClientSymmetry
\* Every client may be done: nothing is left to do then.
CHECK_DEADLOCK FALSE
