\* Commands with every length text, and pipelines of up to three messages,
\* cut anywhere.
SPECIFICATION Spec
CONSTANTS
    Bits = 7
    PerIobuf = 4
    Zeroed = 2
    Scripts <- MCScripts
INVARIANTS TypeOK InOrder AllThrough EndsOnly NumbersRight CleanReturn
\* The stream ends.
CHECK_DEADLOCK FALSE
