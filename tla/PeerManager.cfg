SPECIFICATION Spec
CONSTANTS
    p = p  q = q  a1 = a1  a2 = a2
    None = None
    Conn = {p, q}
    AddrOf <- MCAddrOf
    Good = {p}
    TargetOutbound = 2
    TrustedPeer = FALSE
    Caller = {u}
    u = u
INVARIANTS NoPeerLost
PROPERTIES CallsReturn DepartedForgotten StopEntered
CHECK_DEADLOCK FALSE
