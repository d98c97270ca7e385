\* Liveness with one command at a time, refusals and blocked sends included.
SPECIFICATION FairSpec
CONSTANTS
    MinNum = 2
    MaxNum = 3
    NRedis = 3
    Client = {c1, c2}
    NoClient = NoClient
    MaxCmd = 2
    Window = 1
    Env = {"client_closes", "send_blocks", "malformed", "garbage"}
PROPERTY Answered
\* Every client may be done: nothing is left to do then.
CHECK_DEADLOCK FALSE
