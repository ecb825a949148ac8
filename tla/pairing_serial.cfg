SPECIFICATION FairSpec
CONSTANTS
    k1 = k1
    k2 = k2
    u1 = u1
    p1 = p1
    p2 = p2
    h1 = h1
    h2 = h2
    c1 = c1
    c2 = c2
    r1 = r1
    r2 = r2
    None = None
    Cmdr = {k1}
    Pilot = {u1}
    Plugin = {p1, p2}
    CmdrOf <- TwoPCs
    Hash = {h1, h2}
    Owner <- OwnSecret
    Code = {c1, c2}
    Req = {r1}
    MaxDevices = 1
    MaxPending = 2
    KvFails = FALSE
INVARIANTS NothingHidden RevokedStaysDead
PROPERTIES RevokeHidesNothing LockoutNoticed ApprovalNoticed
CHECK_DEADLOCK FALSE
