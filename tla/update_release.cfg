CONSTANTS
    s1 = s1
    s2 = s2
    b1 = b1
    b3 = b3
    Build = {s1, s2, b1, b3}
    Version <- MCVersion
    Factory = s1
    None = None
    MaxEvents = 7
    MaxGlitches = 2
SPECIFICATION Spec
INVARIANTS TypeOK OnlyCutCode
PROPERTIES RetailMovesForward NagEnds
