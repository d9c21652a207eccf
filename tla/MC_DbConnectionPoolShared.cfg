\* The same threads and connections: a worker uses a connection that the
\* check thread copied from connections_ before the worker took it.
CONSTANTS
    w1 = w1
    w2 = w2
    w3 = w3
    c1 = c1
    c2 = c2
    none = none
    Workers = {w1, w2, w3}
    Conns = {c1, c2}
    NoConn = none
    MaxReqs = 2
    MaxDrops = 2
SPECIFICATION Spec
INVARIANT ExclusiveUse
