CONSTANTS
    MaxSkippedKeys = 2
    WithOneTimeKey = TRUE
    MaxSends = 4
    MaxPairs = 4
SPECIFICATION Spec
CHECK_DEADLOCK FALSE
INVARIANT OutOfOrderReadable
