CONSTANTS
    MaxSkippedKeys = 2
    WithOneTimeKey = TRUE
    MaxSends = 6
    MaxPairs = 4
SPECIFICATION Spec
CHECK_DEADLOCK FALSE
INVARIANTS
    TypeOK
    OpenedOnce
    MessageKeyUnique
    ForwardSecrecy
    InOrderReadable
    SkippedBound
