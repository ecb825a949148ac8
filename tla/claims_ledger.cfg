SPECIFICATION Spec
CONSTANTS
    None = None
    Cmdr = {k1, k2}
    System = {s1, s2}
    Req = {r1, r2}
    MaxClock = 2
    Window = 0
SYMMETRY Symmetric
INVARIANTS TypeOK FirstParty NewestClaimStands HotReflectsEdits
CHECK_DEADLOCK FALSE
