CONSTANTS
    c1 = c1
    c2 = c2
    dm = dm
    w1 = w1
    w2 = w2
    w3 = w3
    guild = guild
    None = None
    Messages = {m1, m2}
    Channels = {c1, c2, dm}
    Servers = {guild}
    LearningChannels = {c1, c2, dm}
    Words = {w1, w2, w3}
    AutoWords = {w1, w2}
    MinuteLen = 1
    CooldownLen = 2
    DbMayFail = TRUE
    Horizon = 4
    LastArrival = 2
    MaxCrashes = 1
    ServerOf <- MCServerOf
    Inputs <- AllInputs
SYMMETRY Symmetry
SPECIFICATION Spec
INVARIANTS
    IInv
PROPERTIES
    ImplementsContract
