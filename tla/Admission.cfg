CONSTANTS
    Sockets = {s1, s2}
    TheIp = ip1
    Ips = {ip1}
    IpOf <- OneAddress
    Devices = {"d1"}
    Domains = {"message"}
    PerMinute <- Rates
    Minute = 2
    MaxAuthAttempts = 2
    LockoutThreshold = 2
    LockoutMs = 1
    LockoutScopes = {"device", "ip"}
    MaxTime = 2
SPECIFICATION Spec
CHECK_DEADLOCK FALSE
SYMMETRY SocketSymmetry
INVARIANTS TypeOK RateBound 
