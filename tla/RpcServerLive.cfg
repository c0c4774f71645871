CONSTANTS
    order = order
    other = other
    Requests = {order, other}
    Packet <- CallAndKeepalive
    service_map_ <- OrderService
    Main = main
    Loop = loop
    Workers = {w1}
    Threads = {main, loop, w1}
    SndCap = 1
SPECIFICATION FairSpec
PROPERTIES RequestAnswered ConnectionReleased
