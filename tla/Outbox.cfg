SPECIFICATION FairSpec
CONSTANTS
    Messages = {m1, m2}
    Devices = {d1}
    Malformed = {m2}
    Flushers = {f1}
    MaxAttempts = 2
    FlushLimit = 1
    MaxSends = 2
    MaxCrashes = 1
    MaxInFlight = 1
INVARIANTS NothingLost TransmissionsCapped
PROPERTIES FailedStaysFailed PendingResolves
