\* Two worker threads: f1 reads socket 5 with a finite timeout; the peer may never send.
CONSTANTS
    f1 = f1
    f2 = f2
    f3 = f3
    f4 = f4
    NoFiber = NoFiber
    Callers <- MCOneCaller
    FdOf <- MCOneFdOf
    DirOf <- MCOneDirOf
    Timed = {f1}
    CloseFds = {}
    MaxAttempts = 3
    MaxSends = 3
    Connectors = {}
    Sleepers = {}
    NThreads = 2
SPECIFICATION Spec
PROPERTY TimedCallsReturn
CHECK_DEADLOCK FALSE
