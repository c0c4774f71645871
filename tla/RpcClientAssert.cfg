CONSTANTS
    Calls = {c1, c2}
    Loop = loop
    Threads = {c1, c2, loop}
    SndCap = 1
SPECIFICATION FairSpec
INVARIANT EpollCtlSucceeds
