CONSTANTS
    rig = rig
    p1 = p1
    p2 = p2
    honk = honk
    alarm = alarm
    roster = roster
    discord = discord
    h1 = h1
    h2 = h2
    Pilot = {p1, p2}
    PC = {rig}
    Nobody = Nobody
    Order = {honk, alarm}
    Pressing = {honk}
    OpenPref = {roster}
    ClosedPref = {discord}
    Slot = {h1, h2}
    NoRow = NoRow
    Unset = Unset
    MaxEvents = 4
    MaxGlitches = 1
SPECIFICATION Spec
INVARIANTS TypeOK OnlyByChoice SwitchTellsTruth
PROPERTIES BothSidesLearn
CHECK_DEADLOCK FALSE
