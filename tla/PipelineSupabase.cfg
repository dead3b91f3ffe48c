CONSTANTS
    Accounts = {a1, a2}
    Conversations = {c1}
    MessageIds = {m1}
    Devices = {d1}
    NoDevice = NoDevice
    Requests = {r1, r2, r3}
    ReadMarks <- Marks
    DedupWindow = 1
    PageLimit = 1
    Backend = "supabase"
    MaxCrashes = 1
SPECIFICATION Spec
SYMMETRY RequestSymmetry
CHECK_DEADLOCK FALSE
INVARIANTS
    TypeOK
    EmittedIsLogged
    LoggedOnce
    AcksAgree
    LogSeqUnique
    PageSkipsNothingLogged
    ReceiptNamesMessage
    ReadMarkExists
PROPERTY ImplementsExactlyOnceLog
