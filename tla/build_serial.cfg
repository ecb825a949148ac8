SPECIFICATION FairSpec
CONSTANTS
    None = None
    Plugin = {p1}
    Market = {m1}
    Build = {b1, b2}
    Thread = {t1, t2}
    Slot = {s1}
    RavenFails = FALSE
    ActsLate = FALSE
    KvFails = FALSE
INVARIANT RetryMakesNoTwin
PROPERTIES CompletionStands EventuallyListed
CHECK_DEADLOCK FALSE
