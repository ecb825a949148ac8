CONSTANTS
    a = a
    c1 = c1
    c2 = c2
    x = x
    site = site
    b = b
    h1 = h1
    h2 = h2
    Cmdr = {a}
    Squadron = {c1, c2}
    Owner <- MCOwner
    Outsider = {x}
    Thing = {site}
    Build = {b}
    Slot = {h1, h2}
    None = None
    MaxTs = 2
SPECIFICATION Spec
INVARIANTS TypeOK IndexLeadsHome SweepIsExact
PROPERTIES NewestWins
SYMMETRY MCSymmetry
