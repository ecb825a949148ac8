SPECIFICATION Spec
CONSTANTS
    k1 = k1
    k2 = k2
    u1 = u1
    p1 = p1
    p2 = p2
    h1 = h1
    h2 = h2
    c1 = c1
    c2 = c2
    r1 = r1
    r2 = r2
    None = None
    Cmdr = {k1, k2}
    Pilot = {u1}
    Plugin = {p1}
    CmdrOf <- OneEntry
    Hash = {h1}
    Owner <- OneSecret
    Code = {c1, c2}
    Req = {r1, r2}
    MaxDevices = 1
    MaxPending = 2
    KvFails = TRUE
SYMMETRY SlotsAndCodes
INVARIANTS TypeOK OwnDevicesOnly NoSelfLockout
CHECK_DEADLOCK FALSE
