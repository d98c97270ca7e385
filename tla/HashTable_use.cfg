\* Keys come and go, three of them in one bucket, and the table grows once.
SPECIFICATION Spec
CONSTANTS
    Key = {0, 1, 4, 8}
    Value = {v1}
    NoValue = NoValue
    DefaultMax = 4
    MaxNodes = 8
INVARIANTS TypeOK Faithful WalksEnd NodesPartition
\* A table that is full at the bound, hangs or crashes does nothing more.
CHECK_DEADLOCK FALSE
