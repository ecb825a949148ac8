SPECIFICATION AlertSpec
CONSTANTS
    h1 = h1
    h2 = h2
    Slot = {h1, h2}
    Nothing = Nothing
    Ring = 2
    Long = {1, 2}
    Room = 1
    Show = 2
    Keep = 2
    BootTries = 0
    MaxAlerts = 3
    MaxMishaps = 2
INVARIANTS AlertTypeOK NoFalseAlarm
PROPERTY AlertHeard
