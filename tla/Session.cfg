CONSTANTS
    Sockets = {s1, s2}
    Devices = {d1}
    ChallengeTtl = 0
    SessionTtl = 0
    MaxAuthAttempts = 2
    MaxTime = 1
    MaxPending = 1
    DirectoryMayFail = TRUE
SPECIFICATION PresenceSpec
INVARIANTS
    OneSessionPerDevice
    RegistryMatchesSockets
    ChallengeSingleUse
    RevocationHolds
    
PROPERTIES
    SessionLossIsCaused
    SessionlessSocketIsClosed
