CONSTANTS
    Accounts = {a1}
    Conversations = {c1}
    MessageIds = {m1}
    Devices = {}
    NoDevice = NoDevice
    Requests = {r1, r2}
    ReadMarks <- Marks
    DedupWindow = 2
    PageLimit = 2
    Backend = "supabase"
    MaxCrashes = 0
SPECIFICATION Spec
SYMMETRY RequestSymmetry
CHECK_DEADLOCK FALSE
INVARIANT NothingSkipped
