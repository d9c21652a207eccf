\* A worker thread running Scheduler::run (hooked) and a thread outside it,
\* one fd number, sockets created blocking, F_SETFL both ways, FIONBIO(1)
\* only (FIONBIO(0) reaches the violation in one call), every timeval.
CONSTANTS
    h1 = h1
    u1 = u1
    Threads = {h1, u1}
    HookedThreads = {h1}
    Fds = {7}
    Tvs <- MCTvs
    SockNonblock = {FALSE}
    IoctlArgs = {TRUE}
SPECIFICATION Spec
INVARIANT HookedPathNonblocking
