CONSTANTS
    keepalive = keepalive
    short = short
    long = long
    Events = {keepalive, short, long}
    Repeated = {keepalive}
    Interval <- MCInterval
    timeout_ = 2
    Loop = loop
SPECIFICATION FairSpec
INVARIANTS NeverUnarmed OneShotOnce RepeatedKept
PROPERTIES CancelledSilent EventFires
