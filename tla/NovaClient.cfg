CONSTANTS
    Own = {m1}
    Peer = {p1, p2}
    PageLimit = 1
    MaxConnects = 2
    MaxUp = 1
    MaxDown = 1
    MaxLate = 1
SPECIFICATION Spec
SYMMETRY PeerSymmetry
CHECK_DEADLOCK FALSE
INVARIANTS
    TypeOK
    SessionIsCurrent
    AppliedOnce
    
    
 
