\* min = 2, and every connection may fail.
SPECIFICATION Spec
CONSTANTS
    MinNum = 2
    MaxNum = 5
    NRedis = 6
    Owner = {o1, o2, o3, o4}
INVARIANTS TypeOK Exclusive HeadUsable NoCrash Accounting ConnectionLimit NoLeak
PROPERTY StackSpec
\* A worker whose pool is closed, or that crashed, does nothing more.
CHECK_DEADLOCK FALSE
