CONSTANTS
    m1 = m1
    m2 = m2
    h1 = h1
    h2 = h2
    Owner = Owner
    Member = {m1, m2}
    Slot = {h1, h2}
    MaxRequests = 4
    MaxGlitches = 1
SPECIFICATION Spec
INVARIANTS TypeOK OwnSwitch ArmedMeansCleared
PROPERTIES AdminsKeepTheDoor
SYMMETRY MCSymmetry
CHECK_DEADLOCK FALSE
