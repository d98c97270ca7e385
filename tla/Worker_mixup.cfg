\* min = 3 and a client that disconnects while it waits.
SPECIFICATION Spec
CONSTANTS
    MinNum = 3
    MaxNum = 4
    NRedis = 4
    Client = {c1, c2, c3}
    NoClient = NoClient
    MaxCmd = 1
    Window = 1
    Env = {"client_closes"}
INVARIANTS OnlyOwn
\* Every client may be done: nothing is left to do then.
CHECK_DEADLOCK FALSE
