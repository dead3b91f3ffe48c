CONSTANTS
    Accounts = {a1, a2}
    Conversations = {c1}
    MessageIds = {m1}
    Devices = {d1}
    NoDevice = NoDevice
    Requests = {r1, r2}
    ReadMarks <- Marks
    DedupWindow = 2
    PageLimit = 2
    Backend = "memory"
    MaxCrashes = 0
SPECIFICATION Spec
SYMMETRY RequestSymmetry
CHECK_DEADLOCK FALSE
INVARIANT DeviceReceiptAccepted
