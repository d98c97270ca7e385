\* Keys come and go in any order.
SPECIFICATION Spec
CONSTANTS
    NNode = 7
    MaxKey = 7
    MaxSize = 6
INVARIANTS TypeOK RedBlack NothingStale KeysKept Counted
CHECK_DEADLOCK FALSE
