CONSTANTS
    Calls = {c1, c2}
    Loop = loop
    Threads = {c1, c2, loop}
    SndCap = 1
SPECIFICATION FairSpec
INVARIANTS ClosureAtMostOnce SuccessIsServed ResponseExpected ExecutedAtMostOnce
PROPERTIES OutcomeFinal CallReports
