-------------------------------- MODULE Hook --------------------------------
(***************************************************************************)
(* The hooked blocking socket calls of src/co-pro/corotinue-fiber-pool/    *)
(* hook.cpp: do_io (read, recv, accept, write, send, ...), with the        *)
(* conditional timeout timer of the fd's FdCtx, connect_with_timeout, the  *)
(* sleep family, and the hooked close().                                   *)
(* The IOManager side is kept to what these calls reach: addEvent,         *)
(* cancelEvent and cancelAll with their epoll_ctl outcomes, idle()'s       *)
(* trigger of a ready direction, and the TimerManager's expiry of timers  *)
(* whose callbacks go through scheduleLock.                                *)
(*                                                                         *)
(* Each caller is a fiber doing one call on one fd in one direction.       *)
(* Fibers, timer callbacks, idle() and the closing fiber run on the        *)
(* IOManager's NThreads worker threads.  A fiber runs from a resume to its *)
(* next suspension without being interrupted on its thread, so a step of   *)
(* another task needs a thread that is not running such a segment.  Time is*)
(* abstract: an armed timer may expire at any moment, which covers every   *)
(* ordering of a deadline against readiness.                               *)
(***************************************************************************)
EXTENDS Naturals, FiniteSets

CONSTANTS
    Callers,     \* fibers, each making one hooked call
    FdOf,        \* FdOf[f]: the fd f reads or writes
    DirOf,       \* DirOf[f]: "READ" (read/recv/accept...) or "WRITE" (write/send...)
    Timed,       \* callers whose FdCtx has a finite recv/send timeout
    CloseFds,    \* fds that some other fiber close()s once
    MaxAttempts, \* bound on the EAGAIN rounds of one call
    MaxSends,    \* bound on readiness made by the peers
    NoFiber,     \* an empty EventContext
    NThreads,    \* worker threads of the IOManager
    Connectors,  \* callers whose call is connect() on a blocking socket (DirOf WRITE)
    Sleepers     \* callers whose call is sleep/usleep/nanosleep (no fd)

READ  == "READ"
WRITE == "WRITE"
Dirs  == {READ, WRITE}
Fds   == {FdOf[f] : f \in Callers \ Sleepers} \cup CloseFds
ETIMEDOUT == 110   \* errno value on Linux, stored in tinfo->cancelled

\* What a call returns: data moved, or -1 with errno.  "ECTL" is -1 with
\* the errno of a failed epoll_ctl inside addEvent.
Results == {"none", "ok", "EAGAIN", "EBADF", "ECTL", "ETIMEDOUT", "ECONNREFUSED"}
\* Timer of one EAGAIN round: not added, in the heap, expired with its
\* callback queued by idle(), callback ran, or cancelled.
TStates == {"none", "armed", "queued", "ran", "cancelled"}

VARIABLES
    pc,        \* pc[f]: where f is in do_io
    attempt,   \* attempt[f]: EAGAIN rounds so far
    timer,     \* timer[f]: round whose timer is do_io's local `timer`, 0 if none
    tstate,    \* tstate[f][k]: the timer added in round k
    cancelled, \* cancelled[f]: tinfo->cancelled, shared by all rounds of f
    result,    \* result[f]: what f's call returned
    slot,      \* slot[fd][d]: the fiber held by the EventContext
    kreg,      \* kreg[fd]: fd is in the epoll interest list
    open,      \* open[fd]: the fd is open
    ctx,       \* ctx[fd]: FdManager holds an FdCtx for fd
    ready,     \* ready[fd][d]: the socket can be read / written
    runq,      \* fibers handed to scheduleLock and not yet resumed
    sends,     \* readiness made by the peers so far
    cpc,       \* cpc[fd]: progress of close(fd)
    conn       \* conn[fd]: the socket's TCP connect: idle, pending, up or refused

vars == <<pc, attempt, timer, tstate, cancelled, result, slot, kreg, open,
          ctx, ready, runq, sends, cpc, conn>>

Rounds == 1..MaxAttempts
PCs == {"start", "fun", "timer", "addevent", "suspended", "sockopt", "done"}

TypeOK ==
    /\ pc \in [Callers -> PCs]
    /\ attempt \in [Callers -> 0..MaxAttempts]
    /\ timer \in [Callers -> 0..MaxAttempts]
    /\ tstate \in [Callers -> [Rounds -> TStates]]
    /\ cancelled \in [Callers -> {0, ETIMEDOUT}]
    /\ result \in [Callers -> Results]
    /\ slot \in [Fds -> [Dirs -> Callers \cup {NoFiber}]]
    /\ kreg \in [Fds -> BOOLEAN]
    /\ open \in [Fds -> BOOLEAN]
    /\ ctx \in [Fds -> BOOLEAN]
    /\ ready \in [Fds -> [Dirs -> BOOLEAN]]
    /\ runq \subseteq Callers
    /\ sends \in 0..MaxSends
    /\ cpc \in [Fds -> {"idle", "cancelled", "deleted", "closed"}]
    /\ conn \in [Fds -> {"idle", "pending", "up", "refused"}]

\* Every fd is an open socket with an FdCtx made by the hooked socket()/accept();
\* a socket a connector connects starts unconnected, the others are connected.
Init ==
    /\ pc = [f \in Callers |-> "start"]
    /\ attempt = [f \in Callers |-> 0]
    /\ timer = [f \in Callers |-> 0]
    /\ tstate = [f \in Callers |-> [k \in Rounds |-> "none"]]
    /\ cancelled = [f \in Callers |-> 0]
    /\ result = [f \in Callers |-> "none"]
    /\ slot = [fd \in Fds |-> [d \in Dirs |-> NoFiber]]
    /\ kreg = [fd \in Fds |-> FALSE]
    /\ open = [fd \in Fds |-> TRUE]
    /\ ctx = [fd \in Fds |-> TRUE]
    /\ ready = [fd \in Fds |-> [d \in Dirs |-> FALSE]]
    /\ runq = {}
    /\ sends = 0
    /\ cpc = [fd \in Fds |-> "idle"]
    /\ conn = [fd \in Fds |-> IF \E f \in Connectors : FdOf[f] = fd THEN "idle" ELSE "up"]

Armed(fd) == {d \in Dirs : slot[fd][d] # NoFiber}

(* Threads running a fiber between a resume and its next suspension: the   *)
(* callers inside do_io and the fibers inside close().                     *)
Busy ==
    Cardinality({f \in Callers : pc[f] \in {"fun", "timer", "addevent", "sockopt"}})
      + Cardinality({fd \in Fds : cpc[fd] \in {"cancelled", "deleted"}})

(* Some thread can take a task or run idle().                              *)
FreeThread == Busy < NThreads

(* do_io returns r: the frame, and with it tinfo, is gone.                 *)
Return(f, r) ==
    /\ pc' = [pc EXCEPT ![f] = "done"]
    /\ result' = [result EXCEPT ![f] = r]

(* timer->cancel(): takes an armed timer out of the heap; a timer whose    *)
(* callback idle() has already queued is not affected.                     *)
CancelTimer(f) ==
    tstate' = IF timer[f] # 0 /\ tstate[f][timer[f]] = "armed"
              THEN [tstate EXCEPT ![f][timer[f]] = "cancelled"]
              ELSE tstate

(* epoll_ctl(op, fd): fails with EBADF on a closed fd, EEXIST on ADD of a  *)
(* registered fd, ENOENT on MOD/DEL of an unregistered one.               *)
EpollCtlOk(fd, op) ==
    /\ open[fd]
    /\ op = "ADD" => ~kreg[fd]
    /\ op # "ADD" => kreg[fd]

(* triggerEvent on the directions D of fd: each EventContext's fiber goes  *)
(* to scheduleLock and the EventContext is reset.                          *)
Wake(fd, D) ==
    /\ runq' = runq \cup {slot[fd][d] : d \in D}
    /\ slot' = [slot EXCEPT ![fd] = [d \in Dirs |-> IF d \in D THEN NoFiber ELSE @[d]]]

(* The real syscall fun(fd, ...) on a nonblocking socket.                  *)
FunResult(fd, d) ==
    IF ~open[fd] THEN "EBADF" ELSE IF ready[fd][d] THEN "ok" ELSE "EAGAIN"

(* A read that returns data drains the socket; a write fills its buffer.   *)
Consume(fd, d) ==
    ready' = IF open[fd] /\ ready[fd][d] THEN [ready EXCEPT ![fd][d] = FALSE] ELSE ready

(* do_io's entry: FdMgr->get(fd).  Without an FdCtx the call goes straight *)
(* to the syscall.  (isClosed() is never set by the code, and every fd     *)
(* here is a socket the application left blocking.)  Otherwise tinfo is   *)
(* created with cancelled = 0.                                             *)
Start(f) ==
    LET fd == FdOf[f]  d == DirOf[f] IN
    /\ f \notin Connectors \cup Sleepers
    /\ pc[f] = "start"
    /\ FreeThread
    /\ IF ~ctx[fd]
       THEN /\ Return(f, FunResult(fd, d))
            /\ Consume(fd, d)
       ELSE /\ pc' = [pc EXCEPT ![f] = "fun"]
            /\ UNCHANGED <<result, ready>>
    /\ UNCHANGED <<attempt, timer, tstate, cancelled, slot, kreg, open, ctx, runq, sends, cpc, conn>>

(* retry: n = fun(fd, ...).  Anything but EAGAIN is returned (EINTR's loop *)
(* is not modelled: no signals).                                          *)
Fun(f) ==
    LET fd == FdOf[f]  d == DirOf[f]  r == FunResult(fd, d) IN
    /\ pc[f] = "fun"
    /\ IF r = "EAGAIN"
       THEN /\ attempt[f] < MaxAttempts
            /\ pc' = [pc EXCEPT ![f] = "timer"]
            /\ UNCHANGED <<result, ready>>
       ELSE /\ Return(f, r)
            /\ Consume(fd, d)
    /\ UNCHANGED <<attempt, timer, tstate, cancelled, slot, kreg, open, ctx, runq, sends, cpc, conn>>

(* On EAGAIN with a finite timeout: addConditionTimer guarded by winfo.    *)
ArmTimer(f) ==
    LET k == attempt[f] + 1 IN
    /\ pc[f] = "timer"
    /\ attempt' = [attempt EXCEPT ![f] = k]
    /\ IF f \in Timed
       THEN /\ tstate' = [tstate EXCEPT ![f][k] = "armed"]
            /\ timer' = [timer EXCEPT ![f] = k]
       ELSE /\ timer' = [timer EXCEPT ![f] = 0]
            /\ UNCHANGED tstate
    /\ pc' = [pc EXCEPT ![f] = "addevent"]
    /\ UNCHANGED <<cancelled, result, slot, kreg, open, ctx, ready, runq, sends, cpc, conn>>

(* iom->addEvent(fd, event) capturing this fiber.  It fails when the       *)
(* direction is already armed or epoll_ctl fails; do_io then cancels its   *)
(* timer and returns -1 with errno as left (EAGAIN from fun, or            *)
(* epoll_ctl's), and connect_with_timeout cancels its timer and goes on to *)
(* getsockopt.  On success the fiber suspends.                             *)
AddEvent(f) ==
    LET fd == FdOf[f]  d == DirOf[f]
        op == IF Armed(fd) = {} THEN "ADD" ELSE "MOD" IN
    /\ pc[f] = "addevent"
    /\ IF slot[fd][d] # NoFiber \/ ~EpollCtlOk(fd, op)
       THEN /\ CancelTimer(f)
            /\ IF f \in Connectors
               THEN /\ pc' = [pc EXCEPT ![f] = "sockopt"]
                    /\ UNCHANGED result
               ELSE Return(f, IF slot[fd][d] # NoFiber THEN "EAGAIN" ELSE "ECTL")
            /\ UNCHANGED <<slot, kreg>>
       ELSE /\ slot' = [slot EXCEPT ![fd][d] = f]
            /\ kreg' = [kreg EXCEPT ![fd] = TRUE]
            /\ pc' = [pc EXCEPT ![f] = "suspended"]
            /\ UNCHANGED <<tstate, result>>
    /\ UNCHANGED <<attempt, timer, cancelled, open, ctx, ready, runq, sends, cpc, conn>>

\* Where a woken caller goes on: do_io retries, connect asks SO_ERROR.
AfterWake(f) == IF f \in Connectors THEN "sockopt" ELSE "fun"

(* Mutant: the resumed fiber does not cancel its timer.                   *)
ResumeNoCancel(f) ==
    /\ f \notin Sleepers
    /\ pc[f] = "suspended"
    /\ f \in runq
    /\ FreeThread
    /\ runq' = runq \ {f}
    /\ UNCHANGED tstate
    /\ IF cancelled[f] = ETIMEDOUT
       THEN Return(f, "ETIMEDOUT")
       ELSE /\ pc' = [pc EXCEPT ![f] = AfterWake(f)]
            /\ UNCHANGED result
    /\ UNCHANGED <<attempt, timer, cancelled, slot, kreg, open, ctx, ready, sends, cpc, conn>>

(* A worker's run() resumes the scheduled fiber.  do_io cancels its timer; *)
(* if tinfo->cancelled is ETIMEDOUT it returns -1, else goto retry (do_io) *)
(* or on to getsockopt (connect_with_timeout).                             *)
Resume(f) ==
    /\ f \notin Sleepers
    /\ pc[f] = "suspended"
    /\ f \in runq
    /\ FreeThread
    /\ runq' = runq \ {f}
    /\ CancelTimer(f)
    /\ IF cancelled[f] = ETIMEDOUT
       THEN Return(f, "ETIMEDOUT")
       ELSE /\ pc' = [pc EXCEPT ![f] = AfterWake(f)]
            /\ UNCHANGED result
    /\ UNCHANGED <<attempt, timer, cancelled, slot, kreg, open, ctx, ready, sends, cpc, conn>>

(* Mutant: cancelEvent always uses EPOLL_CTL_DEL.                         *)
CancelEventAlwaysDel(fd, d) ==
    IF slot[fd][d] # NoFiber /\ EpollCtlOk(fd, "DEL")
    THEN /\ Wake(fd, {d})
         /\ kreg' = [kreg EXCEPT ![fd] = FALSE]
    ELSE UNCHANGED <<slot, kreg, runq>>

(* cancelEvent(fd, event): nothing if the direction is not armed, and      *)
(* nothing (return -1) if epoll_ctl fails; else the direction is removed   *)
(* (MOD if the other one stays, DEL if not) and triggered.  This is the   *)
(* NDEBUG build: the assert of triggerEvent (ioscheduler.cpp:39), which    *)
(* fails on every cancel because line 278 clears the bit first, is out.   *)
CancelEvent(fd, d) ==
    LET op == IF Armed(fd) = {d} THEN "DEL" ELSE "MOD" IN
    IF slot[fd][d] # NoFiber /\ EpollCtlOk(fd, op)
    THEN /\ Wake(fd, {d})
         /\ kreg' = [kreg EXCEPT ![fd] = Armed(fd) # {d}]
    ELSE UNCHANGED <<slot, kreg, runq>>

(* TimerManager::listExpiredCb in idle(): the deadline passed, the timer   *)
(* leaves the heap and its callback is handed to scheduleLock.            *)
Expire(f, k) ==
    /\ tstate[f][k] = "armed"
    /\ FreeThread
    /\ tstate' = [tstate EXCEPT ![f][k] = "queued"]
    /\ UNCHANGED <<pc, attempt, timer, cancelled, result, slot, kreg, open, ctx, ready, runq, sends, cpc, conn>>

(* Mutant: the callback marks the timeout but does not call cancelEvent.  *)
TimerCbNoCancelEvent(f, k) ==
    /\ tstate[f][k] = "queued"
    /\ FreeThread
    /\ tstate' = [tstate EXCEPT ![f][k] = "ran"]
    /\ IF pc[f] # "done" /\ cancelled[f] = 0
       THEN cancelled' = [cancelled EXCEPT ![f] = ETIMEDOUT]
       ELSE UNCHANGED cancelled
    /\ UNCHANGED <<pc, attempt, timer, result, slot, kreg, open, ctx, ready, runq, sends, cpc, conn>>

(* The timeout callback of round k, run later as a task: winfo.lock()      *)
(* fails once do_io has returned; a set `cancelled` makes it a no-op;      *)
(* otherwise cancelled = ETIMEDOUT and cancelEvent(fd, event).             *)
TimerCb(f, k) ==
    /\ f \notin Sleepers
    /\ tstate[f][k] = "queued"
    /\ FreeThread
    /\ tstate' = [tstate EXCEPT ![f][k] = "ran"]
    /\ IF pc[f] # "done" /\ cancelled[f] = 0
       THEN /\ cancelled' = [cancelled EXCEPT ![f] = ETIMEDOUT]
            /\ CancelEvent(FdOf[f], DirOf[f])
       ELSE UNCHANGED <<cancelled, slot, kreg, runq>>
    /\ UNCHANGED <<pc, attempt, timer, result, open, ctx, ready, sends, cpc, conn>>

(* One reported event in idle(): the armed directions that are ready are   *)
(* removed from the registration (MOD or DEL) and triggered.  Readiness    *)
(* stays until a syscall consumes it; the edge bookkeeping of epoll is     *)
(* checked in Reactor.                                                     *)
IdleTrigger(fd) ==
    LET D == {d \in Armed(fd) : ready[fd][d]} IN
    /\ D # {}
    /\ FreeThread
    /\ EpollCtlOk(fd, IF Armed(fd) = D THEN "DEL" ELSE "MOD")
    /\ Wake(fd, D)
    /\ kreg' = [kreg EXCEPT ![fd] = Armed(fd) # D]
    /\ UNCHANGED <<pc, attempt, timer, tstate, cancelled, result, open, ctx, ready, sends, cpc, conn>>

(* The peer of a connected socket sends data, or drains its send buffer.  *)
Send(fd, d) ==
    /\ open[fd]
    /\ conn[fd] = "up"
    /\ ~ready[fd][d]
    /\ sends < MaxSends
    /\ ready' = [ready EXCEPT ![fd][d] = TRUE]
    /\ sends' = sends + 1
    /\ UNCHANGED <<pc, attempt, timer, tstate, cancelled, result, slot, kreg, open, ctx, runq, cpc, conn>>

(* The handshake of a pending connect ends, accepted or refused; either   *)
(* way the socket becomes writable.                                        *)
Handshake(fd) ==
    /\ conn[fd] = "pending"
    /\ open[fd]
    /\ \E r \in {"up", "refused"} : conn' = [conn EXCEPT ![fd] = r]
    /\ ready' = [ready EXCEPT ![fd][WRITE] = TRUE]
    /\ UNCHANGED <<pc, attempt, timer, tstate, cancelled, result, slot, kreg, open, ctx, runq, sends, cpc>>

(* connect_with_timeout's entry: without an FdCtx, EBADF.  (isSocket and  *)
(* a blocking user flag hold for these sockets.)  connect_f on the        *)
(* nonblocking socket returns 0 when it connects at once, -1 with an      *)
(* errno other than EINPROGRESS (returned as is), or EINPROGRESS, after   *)
(* which the timer and addEvent(WRITE) follow as in do_io; a socket in    *)
(* SYN_SENT is not writable.                                               *)
ConnectStart(f) ==
    LET fd == FdOf[f] IN
    /\ f \in Connectors
    /\ pc[f] = "start"
    /\ FreeThread
    /\ IF ~ctx[fd] \/ ~open[fd]
       THEN /\ Return(f, "EBADF")
            /\ UNCHANGED conn
       ELSE \/ /\ conn' = [conn EXCEPT ![fd] = "up"]
               /\ Return(f, "ok")
            \/ /\ conn' = [conn EXCEPT ![fd] = "refused"]
               /\ Return(f, "ECONNREFUSED")
            \/ /\ conn' = [conn EXCEPT ![fd] = "pending"]
               /\ pc' = [pc EXCEPT ![f] = "timer"]
               /\ UNCHANGED result
    /\ ready' = [ready EXCEPT ![FdOf[f]][WRITE] = conn'[FdOf[f]] # "pending"]
    /\ UNCHANGED <<attempt, timer, tstate, cancelled, slot, kreg, open, ctx, runq, sends, cpc>>

(* getsockopt(SO_ERROR) after the wait: -1 when the call fails on a closed *)
(* fd; else 0 if SO_ERROR is 0 and -1 with errno = SO_ERROR if not.  A     *)
(* connect still in progress has SO_ERROR 0.                               *)
GetSockOpt(f) ==
    LET fd == FdOf[f] IN
    /\ pc[f] = "sockopt"
    /\ Return(f, CASE ~open[fd]              -> "EBADF"
                   [] conn[fd] = "refused"  -> "ECONNREFUSED"
                   [] OTHER                 -> "ok")
    /\ UNCHANGED <<attempt, timer, tstate, cancelled, slot, kreg, open, ctx, ready, runq, sends, cpc, conn>>

(* sleep, usleep or nanosleep on a hooked thread: addTimer with a callback *)
(* that hands the fiber to scheduleLock, then yield.                       *)
SleepStart(f) ==
    /\ f \in Sleepers
    /\ pc[f] = "start"
    /\ FreeThread
    /\ attempt' = [attempt EXCEPT ![f] = 1]
    /\ timer' = [timer EXCEPT ![f] = 1]
    /\ tstate' = [tstate EXCEPT ![f][1] = "armed"]
    /\ pc' = [pc EXCEPT ![f] = "suspended"]
    /\ UNCHANGED <<cancelled, result, slot, kreg, open, ctx, ready, runq, sends, cpc, conn>>

(* The sleep timer's callback, run as a task: iom->scheduleLock(fiber).    *)
SleepTimerCb(f, k) ==
    /\ f \in Sleepers
    /\ tstate[f][k] = "queued"
    /\ FreeThread
    /\ tstate' = [tstate EXCEPT ![f][k] = "ran"]
    /\ runq' = runq \cup {f}
    /\ UNCHANGED <<pc, attempt, timer, cancelled, result, slot, kreg, open, ctx, ready, sends, cpc, conn>>

(* The resumed sleeper returns 0.                                          *)
SleepResume(f) ==
    /\ f \in Sleepers
    /\ pc[f] = "suspended"
    /\ f \in runq
    /\ FreeThread
    /\ runq' = runq \ {f}
    /\ Return(f, "ok")
    /\ UNCHANGED <<attempt, timer, tstate, cancelled, slot, kreg, open, ctx, ready, sends, cpc, conn>>

(* Mutant: cancelAll triggers both directions, armed or not.              *)
CloseCancelAllBothDirs(fd) ==
    /\ cpc[fd] = "idle"
    /\ FreeThread
    /\ ctx[fd]
    /\ IF Armed(fd) # {} /\ EpollCtlOk(fd, "DEL")
       THEN /\ Wake(fd, Dirs)
            /\ kreg' = [kreg EXCEPT ![fd] = FALSE]
       ELSE UNCHANGED <<slot, kreg, runq>>
    /\ cpc' = [cpc EXCEPT ![fd] = "cancelled"]
    /\ UNCHANGED <<pc, attempt, timer, tstate, cancelled, result, open, ctx, ready, sends, conn>>

(* close(fd), step 1: FdCtx found, so iom->cancelAll(fd): if any           *)
(* direction is armed and epoll_ctl(DEL) succeeds, every armed direction   *)
(* is triggered.                                                           *)
CloseCancelAll(fd) ==
    /\ cpc[fd] = "idle"
    /\ FreeThread
    /\ ctx[fd]
    /\ IF Armed(fd) # {} /\ EpollCtlOk(fd, "DEL")
       THEN /\ Wake(fd, Armed(fd))
            /\ kreg' = [kreg EXCEPT ![fd] = FALSE]
       ELSE UNCHANGED <<slot, kreg, runq>>
    /\ cpc' = [cpc EXCEPT ![fd] = "cancelled"]
    /\ UNCHANGED <<pc, attempt, timer, tstate, cancelled, result, open, ctx, ready, sends, conn>>

(* close(fd), step 2: FdMgr->del(fd).                                      *)
CloseDel(fd) ==
    /\ cpc[fd] = "cancelled"
    /\ ctx' = [ctx EXCEPT ![fd] = FALSE]
    /\ cpc' = [cpc EXCEPT ![fd] = "deleted"]
    /\ UNCHANGED <<pc, attempt, timer, tstate, cancelled, result, slot, kreg, open, ready, runq, sends, conn>>

(* close(fd), step 3: close_f(fd).  The kernel drops the file from the     *)
(* epoll interest list; the FdContext keeps whatever is armed.            *)
CloseF(fd) ==
    /\ cpc[fd] = "deleted"
    /\ open' = [open EXCEPT ![fd] = FALSE]
    /\ kreg' = [kreg EXCEPT ![fd] = FALSE]
    /\ ready' = [ready EXCEPT ![fd] = [d \in Dirs |-> FALSE]]
    /\ cpc' = [cpc EXCEPT ![fd] = "closed"]
    /\ UNCHANGED <<pc, attempt, timer, tstate, cancelled, result, slot, ctx, runq, sends, conn>>

Caller(f) ==
    \/ Start(f) \/ Fun(f) \/ ArmTimer(f) \/ AddEvent(f) \/ Resume(f)
    \/ ConnectStart(f) \/ GetSockOpt(f)
    \/ SleepStart(f) \/ SleepResume(f)

Timers(f) == \E k \in Rounds : Expire(f, k) \/ TimerCb(f, k) \/ SleepTimerCb(f, k)

Close(fd) == CloseCancelAll(fd) \/ CloseDel(fd) \/ CloseF(fd)

Next ==
    \/ \E f \in Callers : Caller(f) \/ Timers(f)
    \/ \E fd \in Fds : IdleTrigger(fd)
    \/ \E fd \in Fds, d \in Dirs : Send(fd, d)
    \/ \E fd \in Fds : Handshake(fd)
    \/ \E fd \in CloseFds : Close(fd)

(* Worker threads keep running scheduled fibers and their idle() keeps     *)
(* polling; a deadline eventually passes and its callback runs; a close()  *)
(* that has begun runs to its end.  Peers need not act, nor need anyone    *)
(* call close().                                                           *)
Fairness ==
    /\ \A f \in Callers : WF_vars(Caller(f))
    /\ \A fd \in CloseFds : WF_vars(CloseDel(fd) \/ CloseF(fd))
    /\ \A f \in Callers, k \in Rounds :
          WF_vars(Expire(f, k)) /\ WF_vars(TimerCb(f, k)) /\ WF_vars(SleepTimerCb(f, k))
    /\ \A fd \in Fds : WF_vars(IdleTrigger(fd))

Spec == Init /\ [][Next]_vars /\ Fairness

-----------------------------------------------------------------------------
(* A fiber held by an EventContext can still be woken by the reactor: its  *)
(* fd is open and in the epoll interest list.  Otherwise neither readiness *)
(* nor its timer's cancelEvent (whose epoll_ctl fails) reaches it, and     *)
(* m_pendingEventCount never drops (do_io's addEvent against close()).     *)
ArmedWaiterReachable ==
    \A fd \in Fds : Armed(fd) # {} => open[fd] /\ kreg[fd]

(* When do_io has returned, none of its timers is left in the heap: each   *)
(* round's timer is cancelled on every return path and before each retry  *)
(* (a leftover timer would keep IOManager::stopping() false).             *)
TimerCancelledOnReturn ==
    \A f \in Callers : pc[f] = "done" => \A k \in Rounds : tstate[f][k] # "armed"

(* A call on an fd with a finite timeout returns: either the data comes,   *)
(* or its timer's callback forces the wake-up and ETIMEDOUT.  A sleep      *)
(* returns once its timer's callback has rescheduled the fiber.            *)
TimedCallsReturn ==
    \A f \in Timed \cup Sleepers : <>(pc[f] = "done")
=============================================================================
