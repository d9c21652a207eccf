\* One worker thread (IOManager default).  A timed connect() and a timed read
\* on socket 5 (both directions armed), a timed read of socket 6, which
\* another fiber closes, and a sleep().
CONSTANTS
    f1 = f1
    f2 = f2
    f3 = f3
    f4 = f4
    NoFiber = NoFiber
    Callers <- MCCallers
    FdOf <- MCFdOf
    DirOf <- MCDirOf
    Timed = {f1, f2, f3}
    CloseFds = {6}
    MaxAttempts = 3
    MaxSends = 3
    NThreads = 1
    Connectors = {f2}
    Sleepers = {f4}
SPECIFICATION Spec
INVARIANT TypeOK
INVARIANT ArmedWaiterReachable
INVARIANT TimerCancelledOnReturn
PROPERTY TimedCallsReturn
CHECK_DEADLOCK FALSE
