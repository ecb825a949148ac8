SPECIFICATION Spec
CONSTANTS
    k1 = k1
    k2 = k2
    Cmdr = {k1, k2}
INVARIANT ReadyMeansPaired
