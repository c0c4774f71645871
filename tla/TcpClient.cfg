CONSTANTS
    Callers = {c1, c2}
    Conns = {k1, k2}
    NoConn = NoConn
SPECIFICATION CacheFairSpec
PROPERTIES DropsOnlySilent DeadIsDropped
