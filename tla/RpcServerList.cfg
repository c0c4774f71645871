CONSTANTS
    Keys = {s1, s2}
    Usages = {1, 2}
    NoUsage = 0
    NoServer = NoServer
    MaxStarts = 3
    MaxEvents = 3
SPECIFICATION FairSpec
INVARIANT StoreReflected
PROPERTIES RegisteredIsFound NewServerListed
