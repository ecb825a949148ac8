CONSTANTS
    sol = sol
    steel = steel
    h1 = h1
    h2 = h2
    System = {sol}
    Commodity = {steel}
    Slot = {h1, h2}
    None = None
    Fresh = 0
    ActTTL = 1
    NavTTL = 1
    MaxTime = 2
    MaxDeeds = 2
    MaxMishaps = 1
SPECIFICATION Spec
INVARIANTS TypeOK IntentIsItsOwn
PROPERTIES NoSnatch TargetPlotted
CHECK_DEADLOCK FALSE
