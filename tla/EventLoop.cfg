CONSTANTS
    Threads = {t1, t2}
    Loop = loop
    MaxTasks = 2
SPECIFICATION FairSpec
INVARIANTS NoLostTask NoLostStop TasksInOrder
PROPERTIES QueuedRuns StopEndsRun
