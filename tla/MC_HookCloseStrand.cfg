\* Two worker threads: f1 reads socket 5 while another fiber closes it.
CONSTANTS
    f1 = f1
    f2 = f2
    f3 = f3
    f4 = f4
    NoFiber = NoFiber
    Callers <- MCOneCaller
    FdOf <- MCOneFdOf
    DirOf <- MCOneDirOf
    Timed = {}
    CloseFds = {5}
    MaxAttempts = 3
    MaxSends = 3
    Connectors = {}
    Sleepers = {}
    NThreads = 2
SPECIFICATION Spec
INVARIANT ArmedWaiterReachable
CHECK_DEADLOCK FALSE
