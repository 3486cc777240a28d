CONSTANTS
    c1 = c1
    c2 = c2
    w1 = w1
    w2 = w2
    guild = guild
    None = None
    Messages = {m1, m2}
    Channels = {c1, c2}
    Servers = {guild}
    LearningChannels = {c1, c2}
    Words = {w1, w2}
    AutoWords = {w1, w2}
    MinuteLen = 1
    CooldownLen = 5
    DbMayFail = FALSE
    Horizon = 4
    LastArrival = 2
    MaxCrashes = 1
    MaxCommands = 2
    ServerOf <- MCServerOf
    Inputs <- WordInputs
SPECIFICATION FairWordSpec
PROPERTIES
    DownBotLoadsOrderedWord
    MinutesAreConcluded
