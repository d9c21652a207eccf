\* IOManager's default: one thread, use_caller = true, so the caller t1 is
\* the only worker and runs every task once stop() resumes its scheduler
\* fiber.  Two fibers wait on sockets; pools start with 2 fibers.
CONSTANTS
    c1 = c1  c2 = c2  c3 = c3  t0 = t0  t1 = t1  t2 = t2
    Threads = {t1}
    Main = t1
    Callbacks <- MCCallbacks
    Work <- MCWork
    Affinity <- MCPinnedAffinity
    AnyThread = AnyThread
    InitPoolSize = 2
    MaxFibers = 4
    NoThread = NoThread
    NoCb = NoCb
SPECIFICATION Spec
INVARIANT TypeOK
INVARIANT NoIdleInUse
INVARIANT JoinedOnlyWhenDrained
PROPERTY StopReturns
