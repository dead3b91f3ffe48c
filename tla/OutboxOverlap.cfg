SPECIFICATION Spec
CONSTANTS
    Messages = {m1}
    Devices = {d1}
    Malformed = {}
    Flushers = {f1, f2}
    MaxAttempts = 2
    FlushLimit = 1
    MaxSends = 1
    MaxCrashes = 0
    MaxInFlight = 1
INVARIANT AttemptCap
