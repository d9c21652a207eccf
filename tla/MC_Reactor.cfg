\* One worker thread (IOManager's default: threads = 1, use_caller = true):
\* idle() works off a whole epoll batch before any task runs again.
\* Two sockets, both directions, three registrations, three peer edges.
CONSTANTS
    Threads = {t1}
    Fds = {f1, f2}
    Waiters = {w1, w2, w3}
    MaxEdges = 3
    NoWaiter = NoWaiter
SPECIFICATION Spec
INVARIANT TypeOK
INVARIANT KernelMirrorsArmed
INVARIANT PendingMatchesArmed
INVARIANT WakeExactlyOnce
PROPERTY ReadyWaiterWoken
CHECK_DEADLOCK FALSE
PROPERTY RefinesRegistry
