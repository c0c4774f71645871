CONSTANTS
    Workers = {w1, w2, w3}
    Loops = {l1}
    Requests = {r1, r2, r3}
    NoOne = NoOne
    NoTask = NoTask
    Garbage = Garbage
SPECIFICATION FairSpec
INVARIANTS NoLostWakeup EachTaskOnce
PROPERTIES QueuedStarts StopReachesWorkers
