CONSTANTS
    c1 = c1
    c2 = c2
    dm = dm
    w1 = w1
    w2 = w2
    w3 = w3
    guild = guild
    None = None
    Messages = {m1, m2, m3}
    Channels = {c1, c2}
    Servers = {guild}
    LearningChannels = {c1, c2}
    Words = {w1, w2}
    AutoWords = {w1, w2}
    MinuteLen = 1
    CooldownLen = 2
    DbMayFail = FALSE
    Horizon = 5
    LastArrival = 3
    MaxCrashes = 1
    ServerOf <- MCServerOf
    Inputs <- StopInputs
SYMMETRY Symmetry
SPECIFICATION Spec
INVARIANTS
    OneMinuteAtATime
    OwedConclusionsAreHeld
    CooldownsRespected
    CooldownOutlivesRestart
    RowMirrorsManager
    CountsTellOutputs
