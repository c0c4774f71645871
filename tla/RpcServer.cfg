CONSTANTS
    order = order
    other = other
    Requests = {order, other}
    Packet <- CallAndBadBody
    service_map_ <- OrderService
    Main = main
    Loop = loop
    Workers = {w1, w2}
    Threads = {main, loop, w1, w2}
    SndCap = 1
SPECIFICATION Spec
INVARIANTS AtMostOnce NothingLost CodeTruthful
