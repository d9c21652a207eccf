\* Three worker threads share two connections (MySqlUtil::init's poolSize
\* scaled down), two requests each, and the server drops up to two
\* connections.  The check thread runs as in init().
CONSTANTS
    w1 = w1
    w2 = w2
    w3 = w3
    c1 = c1
    c2 = c2
    none = none
    Workers = {w1, w2, w3}
    Conns = {c1, c2}
    NoConn = none
    MaxReqs = 2
    MaxDrops = 2
SPECIFICATION Spec
INVARIANT TypeOK
INVARIANT PoolConservation
INVARIANT NoLostWakeup
