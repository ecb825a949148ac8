SPECIFICATION Spec
CONSTANTS
    None = None
    Plugin = {p1}
    Market = {m1}
    Build = {b1, b2}
    Thread = {t1, t2}
    Slot = {s1, s2}
    RavenFails = TRUE
    ActsLate = TRUE
    KvFails = TRUE
SYMMETRY BuildSymmetry
INVARIANTS TypeOK SeenMeansListed
CHECK_DEADLOCK FALSE
