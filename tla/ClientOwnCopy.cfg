SPECIFICATION Spec
CONSTANTS
    Messages = {m1, m2}
    Devices = {local, other}
    Local = local
    Copies <- SomeCopies
    m1 = m1
    m2 = m2
    other = other
    Expiring = {m2}
    Workers = {w1, w2}
    PageLimit = 1
    ResumeLimit = 1
    MaxLog = 2
    MaxFaults = 0
INVARIANT OwnCopyKept
SYMMETRY WorkerSymmetry
