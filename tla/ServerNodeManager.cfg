CONSTANTS
    Keys = {k1, k2}
    Usages = {1, 2}
    NoUsage = NoUsage
    NoServer = NoServer
    staleCountThreshold = 2
    MaxNodes = 5
SPECIFICATION FairSpec
INVARIANTS HeapBounded ListedInHeap
PROPERTIES ImplementsDirectory QueryReturns
