------------------------------ MODULE Scheduler ------------------------------
(***************************************************************************)
(* The N:M scheduler of src/co-pro/corotinue-fiber-pool/scheduler.cpp as   *)
(* IOManager runs it: worker threads in Scheduler::run() take tasks from   *)
(* the shared queue, run callback tasks on a fiber leased from their       *)
(* thread-local FiberPool, resume fiber tasks under the fiber's m_mutex,   *)
(* and after resume() returns release the fiber to the local pool unless   *)
(* it is SUSPENDed.  With no task a thread resumes its idle fiber,         *)
(* IOManager::idle(), which exits once IOManager::stopping() holds and     *)
(* otherwise waits in epoll and schedules the fibers whose socket became   *)
(* ready, then yields.                                                     *)
(*                                                                         *)
(* The workload is the main fiber scheduling one callback per element of  *)
(* Callbacks and then calling stop().  A callback either computes and      *)
(* returns, or (Work[c] = "read") makes one hooked read on its own socket  *)
(* that has no data yet: do_io gets EAGAIN, addEvent(fd, READ) captures    *)
(* the running fiber, the fiber suspends, and once resumed it retries the  *)
(* read, which succeeds, and returns.  Sockets have no timeout, so no      *)
(* timer is ever added and getNextTimer() is ~0.  The fd-event machinery   *)
(* is the abstract EventRegistry (one READ slot per socket), which Reactor *)
(* refines; epoll_wait reports every armed socket that is ready.           *)
(***************************************************************************)
EXTENDS Naturals, Sequences, FiniteSets, SequencesExt

CONSTANTS
    Threads,       \* worker threads running Scheduler::run()
    Main,          \* the thread that constructs the IOManager and calls stop()
    Callbacks,     \* the callbacks the main fiber schedules
    Work,          \* Work[c] \in {"compute", "read"}
    Affinity,      \* Affinity[c]: the thread argument of scheduleLock
    AnyThread,     \* thread = -1
    InitPoolSize,  \* fibers a thread's pool is created with (256)
    MaxFibers,     \* bound on fibers created in the process
    NoThread,      \* a fiber m_mutex nobody holds
    NoCb           \* a fiber with no callback

ASSUME /\ Work \in [Callbacks -> {"compute", "read"}]
       /\ Affinity \in [Callbacks -> Threads \cup {AnyThread}]
       /\ InitPoolSize >= 2

FP == INSTANCE FiberPool WITH InitSize <- InitPoolSize, ResizeTo <- {},
        pool <- [idle |-> <<>>, all |-> {}, size |-> 0], next <- 0,
        leased <- {}, ub <- FALSE

NoFiber == FP!NoFiber
Fibers  == FP!Fibers
NoPool  == [idle |-> <<>>, all |-> {}, size |-> 0]

\* Scheduler::run() of a worker, and the main thread's code around it.
RunPCs  == {"scan", "acquire", "lock", "resumed", "post", "idlecheck",
            "idletop", "idlewait", "done"}
MainPCs == {"main", "join", "joined"}
Procs   == Threads \cup {Main}

VARIABLES
    pc,          \* pc[p]: where thread p is
    cur,         \* cur[t]: the callback or fiber of t's current task
    isCb,        \* isCb[t]: the current task came as a callback
    tasks,       \* m_tasks: records [task, thread]
    toSchedule,  \* callbacks main has still to scheduleLock
    active,      \* m_activeThreadCount
    stopFlag,    \* m_stopping
    idleTerm,    \* idleTerm[t]: t's idle fiber is TERM
    fstate,      \* fstate[f]: Fiber state
    body,        \* body[f]: the callback fiber f runs
    bpc,         \* bpc[f]: progress of the callback in do_io
    owner,       \* owner[f]: the thread holding fiber f's m_mutex
    pools,       \* pools[t]: t's thread-local FiberPool (NoPool until first use)
    nextFiber,   \* fibers created so far
    slot,        \* slot[c]: the fiber armed for READ on c's socket
    sready,      \* sockets whose data has arrived and not been reported
    finished     \* callbacks that have returned

vars == <<pc, cur, isCb, tasks, toSchedule, active, stopFlag, idleTerm, fstate,
          body, bpc, owner, pools, nextFiber, slot, sready, finished>>

Task == [task : Fibers \cup Callbacks, thread : Threads \cup {AnyThread}]

TypeOK ==
    /\ pc \in [Procs -> RunPCs \cup MainPCs]
    /\ cur \in [Threads -> Fibers \cup Callbacks \cup {NoFiber}]
    /\ isCb \in [Threads -> BOOLEAN]
    /\ tasks \in Seq(Task)
    /\ toSchedule \in Seq(Callbacks)
    /\ active \in Nat
    /\ stopFlag \in BOOLEAN
    /\ idleTerm \in [Threads -> BOOLEAN]
    /\ fstate \in [Fibers -> {"READY", "RUNNING", "SUSPEND", "TERM"}]
    /\ body \in [Fibers -> Callbacks \cup {NoCb}]
    /\ bpc \in [Fibers -> {"start", "armed", "waiting"}]
    /\ owner \in [Fibers -> Threads \cup {NoThread}]
    /\ \A t \in Threads : pools[t] = NoPool \/ pools[t].idle \in Seq(Fibers)
    /\ nextFiber \in 0..MaxFibers
    /\ slot \in [Callbacks -> Fibers \cup {NoFiber}]
    /\ sready \subseteq Callbacks
    /\ finished \subseteq Callbacks

Init ==
    /\ pc = [p \in Procs |-> IF p = Main THEN "main" ELSE "scan"]
    /\ cur = [t \in Threads |-> NoFiber]
    /\ isCb = [t \in Threads |-> FALSE]
    /\ tasks = <<>>
    /\ toSchedule \in {s \in [1..Cardinality(Callbacks) -> Callbacks] :
                          ToSet(s) = Callbacks}
    /\ active = 0
    /\ stopFlag = FALSE
    /\ idleTerm = [t \in Threads |-> FALSE]
    /\ fstate = [f \in Fibers |-> "READY"]
    /\ body = [f \in Fibers |-> NoCb]
    /\ bpc = [f \in Fibers |-> "start"]
    /\ owner = [f \in Fibers |-> NoThread]
    /\ pools = [t \in Threads |-> NoPool]
    /\ nextFiber = 0
    /\ slot = [c \in Callbacks |-> NoFiber]
    /\ sready = {}
    /\ finished = {}

-----------------------------------------------------------------------------
(* FiberPool::getLocalFiberPool(): the pool is created on first use.       *)
LocalPool(t) ==
    IF pools[t] = NoPool THEN FP!NewPool(nextFiber, InitPoolSize) ELSE pools[t]

NextAfterLocal(t) ==
    IF pools[t] = NoPool THEN nextFiber + InitPoolSize ELSE nextFiber

(* m_pendingEventCount: the armed EventContexts.                           *)
Pending == Cardinality({c \in Callbacks : slot[c] # NoFiber})

(* A plausible slip: IOManager::stopping() without the pending-event test.*)
IOStoppingIgnoresPending == stopFlag /\ tasks = <<>> /\ active = 0

(* IOManager::stopping(): no timer (getNextTimer() == ~0), no pending      *)
(* event, and Scheduler::stopping(): m_stopping, no task, no active thread.*)
IOStopping == Pending = 0 /\ stopFlag /\ tasks = <<>> /\ active = 0

-----------------------------------------------------------------------------
(* The main fiber: scheduleLock(cb, Affinity[cb]) for each callback.       *)
MainSchedule ==
    /\ pc[Main] = "main"
    /\ toSchedule # <<>>
    /\ tasks' = Append(tasks, [task |-> Head(toSchedule),
                               thread |-> Affinity[Head(toSchedule)]])
    /\ toSchedule' = Tail(toSchedule)
    /\ UNCHANGED <<pc, cur, isCb, active, stopFlag, idleTerm, fstate, body, bpc,
                   owner, pools, nextFiber, slot, sready, finished>>

(* Scheduler::stop(): stopping() is false before m_stopping is set; set it *)
(* and, with use_caller, resume the scheduler fiber, i.e. run() on Main;   *)
(* then join the other threads.                                            *)
Stop ==
    /\ pc[Main] = "main"
    /\ toSchedule = <<>>
    /\ stopFlag' = TRUE
    /\ pc' = [pc EXCEPT ![Main] = IF Main \in Threads THEN "scan" ELSE "join"]
    /\ UNCHANGED <<cur, isCb, tasks, toSchedule, active, idleTerm, fstate, body,
                   bpc, owner, pools, nextFiber, slot, sready, finished>>

(* A plausible slip: stop() returns without joining the threads.          *)
JoinSkipsWait ==
    /\ pc[Main] = "join"
    /\ pc' = [pc EXCEPT ![Main] = "joined"]
    /\ UNCHANGED <<cur, isCb, tasks, toSchedule, active, stopFlag, idleTerm,
                   fstate, body, bpc, owner, pools, nextFiber, slot, sready,
                   finished>>

Join ==
    /\ pc[Main] = "join"
    /\ \A t \in Threads \ {Main} : pc[t] = "done"
    /\ pc' = [pc EXCEPT ![Main] = "joined"]
    /\ UNCHANGED <<cur, isCb, tasks, toSchedule, active, stopFlag, idleTerm,
                   fstate, body, bpc, owner, pools, nextFiber, slot, sready,
                   finished>>

-----------------------------------------------------------------------------
(* Scheduler::run(), under m_mutex: take the first task whose thread is -1 *)
(* or this thread, erase it and count the thread active; with none, go to  *)
(* the idle fiber.                                                         *)
(* A plausible slip: only tasks with thread -1 are taken.                  *)
RunnableAnyOnly(t) == {i \in 1..Len(tasks) : tasks[i].thread = AnyThread}

Runnable(t) == {i \in 1..Len(tasks) : tasks[i].thread \in {AnyThread, t}}

(* A plausible slip: m_activeThreadCount++ forgotten.                      *)
ScanNoCount(t) ==
    /\ pc[t] = "scan"
    /\ IF Runnable(t) = {}
       THEN /\ pc' = [pc EXCEPT ![t] = "idlecheck"]
            /\ UNCHANGED <<cur, isCb, tasks, active>>
       ELSE LET i == Min(Runnable(t))
                x == tasks[i].task
            IN  /\ tasks' = RemoveAt(tasks, i)
                /\ UNCHANGED active
                /\ cur' = [cur EXCEPT ![t] = x]
                /\ isCb' = [isCb EXCEPT ![t] = x \in Callbacks]
                /\ pc' = [pc EXCEPT ![t] = IF x \in Callbacks THEN "acquire" ELSE "lock"]
    /\ UNCHANGED <<toSchedule, stopFlag, idleTerm, fstate, body, bpc, owner,
                   pools, nextFiber, slot, sready, finished>>

Scan(t) ==
    /\ pc[t] = "scan"
    /\ IF Runnable(t) = {}
       THEN /\ pc' = [pc EXCEPT ![t] = "idlecheck"]
            /\ UNCHANGED <<cur, isCb, tasks, active>>
       ELSE LET i == Min(Runnable(t))
                x == tasks[i].task
            IN  /\ tasks' = RemoveAt(tasks, i)
                /\ active' = active + 1
                /\ cur' = [cur EXCEPT ![t] = x]
                /\ isCb' = [isCb EXCEPT ![t] = x \in Callbacks]
                /\ pc' = [pc EXCEPT ![t] = IF x \in Callbacks THEN "acquire" ELSE "lock"]
    /\ UNCHANGED <<toSchedule, stopFlag, idleTerm, fstate, body, bpc, owner,
                   pools, nextFiber, slot, sready, finished>>

(* A callback task: FiberPool::getLocalFiberPool()->acquire(cb), which     *)
(* grows the pool when its idle queue is empty and reset(cb)s the fiber.   *)
Acquire(t) ==
    LET p  == LocalPool(t)
        n0 == NextAfterLocal(t)
        f  == FP!AcquiredFiber(p, n0)
    IN  /\ pc[t] = "acquire"
        /\ n0 + FP!AcquireGrowth(p) <= MaxFibers
        /\ pools' = [pools EXCEPT ![t] = FP!AcquirePool(p, n0)]
        /\ nextFiber' = n0 + FP!AcquireGrowth(p)
        /\ fstate' = [fstate EXCEPT ![f] = "READY"]
        /\ body' = [body EXCEPT ![f] = cur[t]]
        /\ bpc' = [bpc EXCEPT ![f] = "start"]
        /\ cur' = [cur EXCEPT ![t] = f]
        /\ pc' = [pc EXCEPT ![t] = "lock"]
        /\ UNCHANGED <<isCb, tasks, toSchedule, active, stopFlag, idleTerm,
                       owner, slot, sready, finished>>

(* lock_guard on the fiber's m_mutex; a fiber task is resumed only if it   *)
(* is not TERM, a callback's fiber always.  Without resume the guard is    *)
(* released at once.                                                       *)
Lock(t) ==
    LET f == cur[t]
    IN  /\ pc[t] = "lock"
        /\ owner[f] = NoThread
        /\ IF isCb[t] \/ fstate[f] # "TERM"
           THEN /\ owner' = [owner EXCEPT ![f] = t]
                /\ fstate' = [fstate EXCEPT ![f] = "RUNNING"]
                /\ pc' = [pc EXCEPT ![t] = "resumed"]
           ELSE /\ pc' = [pc EXCEPT ![t] = "post"]
                /\ UNCHANGED <<owner, fstate>>
        /\ UNCHANGED <<cur, isCb, tasks, toSchedule, active, stopFlag, idleTerm,
                       body, bpc, pools, nextFiber, slot, sready, finished>>

-----------------------------------------------------------------------------
(* The fiber cur[t] running on thread t.  It returns (the callback         *)
(* computes, or do_io's retry after the wake-up reads the data): Fiber     *)
(* state TERM, back to run(), the m_mutex guard ends.                      *)
FiberReturn(t) ==
    LET f == cur[t]
    IN  /\ pc[t] = "resumed"
        /\ Work[body[f]] = "compute" \/ bpc[f] = "waiting"
        /\ fstate' = [fstate EXCEPT ![f] = "TERM"]
        /\ owner' = [owner EXCEPT ![f] = NoThread]
        /\ finished' = finished \cup {body[f]}
        /\ pc' = [pc EXCEPT ![t] = "post"]
        /\ UNCHANGED <<cur, isCb, tasks, toSchedule, active, stopFlag, idleTerm,
                       body, bpc, pools, nextFiber, slot, sready>>

(* do_io: read() gives EAGAIN, no timeout is set, and                      *)
(* addEvent(fd, READ) stores the running fiber in the READ EventContext.   *)
FiberAddEvent(t) ==
    LET f == cur[t]
        c == body[f]
    IN  /\ pc[t] = "resumed"
        /\ Work[c] = "read"
        /\ bpc[f] = "start"
        /\ slot[c] = NoFiber
        /\ slot' = [slot EXCEPT ![c] = f]
        /\ bpc' = [bpc EXCEPT ![f] = "armed"]
        /\ UNCHANGED <<pc, cur, isCb, tasks, toSchedule, active, stopFlag,
                       idleTerm, fstate, body, owner, pools, nextFiber, sready,
                       finished>>

(* do_io: Fiber::GetThis()->suspend(): state SUSPEND, back to run(), the   *)
(* m_mutex guard ends.                                                     *)
FiberSuspend(t) ==
    LET f == cur[t]
    IN  /\ pc[t] = "resumed"
        /\ bpc[f] = "armed"
        /\ fstate' = [fstate EXCEPT ![f] = "SUSPEND"]
        /\ bpc' = [bpc EXCEPT ![f] = "waiting"]
        /\ owner' = [owner EXCEPT ![f] = NoThread]
        /\ pc' = [pc EXCEPT ![t] = "post"]
        /\ UNCHANGED <<cur, isCb, tasks, toSchedule, active, stopFlag, idleTerm,
                       body, pools, nextFiber, slot, sready, finished>>

(* A plausible slip: the fiber is released whatever its state.             *)
PostAlwaysRelease(t) ==
    LET f == cur[t]
    IN  /\ pc[t] = "post"
        /\ pools' = [pools EXCEPT ![t] = FP!ReleasePool(LocalPool(t), f)]
        /\ nextFiber' = NextAfterLocal(t)
        /\ fstate' = [fstate EXCEPT ![f] = "READY"]
        /\ body' = [body EXCEPT ![f] = NoCb]
        /\ active' = active - 1
        /\ cur' = [cur EXCEPT ![t] = NoFiber]
        /\ pc' = [pc EXCEPT ![t] = "scan"]
        /\ UNCHANGED <<isCb, tasks, toSchedule, stopFlag, idleTerm, bpc, owner,
                       slot, sready, finished>>

(* run() after the guard: the fiber's state is read again, outside its     *)
(* m_mutex; unless SUSPEND the fiber is release()d to this thread's pool,  *)
(* which reset(nullptr)s it.  Then m_activeThreadCount--.                  *)
Post(t) ==
    LET f == cur[t]
    IN  /\ pc[t] = "post"
        /\ IF fstate[f] = "SUSPEND"
           THEN UNCHANGED <<pools, nextFiber, fstate, body>>
           ELSE /\ pools' = [pools EXCEPT ![t] = FP!ReleasePool(LocalPool(t), f)]
                /\ nextFiber' = NextAfterLocal(t)
                /\ fstate' = [fstate EXCEPT ![f] = "READY"]
                /\ body' = [body EXCEPT ![f] = NoCb]
        /\ active' = active - 1
        /\ cur' = [cur EXCEPT ![t] = NoFiber]
        /\ pc' = [pc EXCEPT ![t] = "scan"]
        /\ UNCHANGED <<isCb, tasks, toSchedule, stopFlag, idleTerm, bpc, owner,
                       slot, sready, finished>>

-----------------------------------------------------------------------------
(* run() with no task: leave the loop if the idle fiber is TERM, else      *)
(* resume it.                                                              *)
IdleCheck(t) ==
    /\ pc[t] = "idlecheck"
    /\ pc' = [pc EXCEPT ![t] = IF ~idleTerm[t] THEN "idletop"
                               ELSE IF t = Main THEN "join" ELSE "done"]
    /\ UNCHANGED <<cur, isCb, tasks, toSchedule, active, stopFlag, idleTerm,
                   fstate, body, bpc, owner, pools, nextFiber, slot, sready,
                   finished>>

(* IOManager::idle(), top of its loop: once stopping() holds, break: the   *)
(* idle fiber is TERM and control is back in run().                        *)
IdleTop(t) ==
    /\ pc[t] = "idletop"
    /\ IF IOStopping
       THEN /\ idleTerm' = [idleTerm EXCEPT ![t] = TRUE]
            /\ pc' = [pc EXCEPT ![t] = "scan"]
       ELSE /\ pc' = [pc EXCEPT ![t] = "idlewait"]
            /\ UNCHANGED idleTerm
    /\ UNCHANGED <<cur, isCb, tasks, toSchedule, active, stopFlag, fstate, body,
                   bpc, owner, pools, nextFiber, slot, sready, finished>>

(* The armed sockets epoll_wait reports.                                   *)
Reported == {c \in sready : slot[c] # NoFiber}

(* A plausible slip: a reported event is skipped (its epoll_ctl MOD/DEL    *)
(* fails) after the edge has been consumed.                                *)
IdleWaitSkipsReady(t) ==
    /\ pc[t] = "idlewait"
    /\ sready' = sready \ Reported
    /\ pc' = [pc EXCEPT ![t] = "scan"]
    /\ UNCHANGED <<cur, isCb, tasks, toSchedule, active, stopFlag, idleTerm,
                   fstate, body, bpc, owner, pools, nextFiber, slot, finished>>

(* IOManager::idle(): epoll_wait returns the armed sockets whose data has  *)
(* arrived (or times out with none); each is triggered: its READ           *)
(* EventContext is emptied and the fiber scheduleLock()ed with thread -1. *)
(* Then yield() back to run().                                             *)
IdleWait(t) ==
    LET fired == SetToSeq(Reported)
    IN  /\ pc[t] = "idlewait"
        /\ tasks' = tasks \o [i \in 1..Len(fired) |->
                                 [task |-> slot[fired[i]], thread |-> AnyThread]]
        /\ slot' = [c \in Callbacks |-> IF c \in Reported THEN NoFiber ELSE slot[c]]
        /\ sready' = sready \ Reported
        /\ pc' = [pc EXCEPT ![t] = "scan"]
        /\ UNCHANGED <<cur, isCb, toSchedule, active, stopFlag, idleTerm,
                       fstate, body, bpc, owner, pools, nextFiber, finished>>

(* The peer of c's socket sends the data the callback waits for.           *)
SocketReady(c) ==
    /\ slot[c] # NoFiber
    /\ c \notin sready
    /\ sready' = sready \cup {c}
    /\ UNCHANGED <<pc, cur, isCb, tasks, toSchedule, active, stopFlag, idleTerm,
                   fstate, body, bpc, owner, pools, nextFiber, slot, finished>>

-----------------------------------------------------------------------------
Worker(t) ==
    \/ Scan(t)
    \/ Acquire(t)
    \/ Lock(t)
    \/ FiberReturn(t)
    \/ FiberAddEvent(t)
    \/ FiberSuspend(t)
    \/ Post(t)
    \/ IdleCheck(t)
    \/ IdleTop(t)
    \/ IdleWait(t)

MainThread == MainSchedule \/ Stop \/ Join

(* stop() has returned and every thread is joined.                         *)
Terminated == pc[Main] = "joined" /\ UNCHANGED vars

Next ==
    \/ MainThread
    \/ \E t \in Threads : Worker(t)
    \/ \E c \in Callbacks : SocketReady(c)
    \/ Terminated

(* Every thread runs as long as it can take a step (OS threads are fairly  *)
(* scheduled), and the peer of a waiting socket eventually sends.          *)
Spec ==
    /\ Init /\ [][Next]_vars
    /\ WF_vars(MainThread)
    /\ \A t \in Threads : WF_vars(Worker(t))
    /\ \A c \in Callbacks : WF_vars(SocketReady(c))

-----------------------------------------------------------------------------
(* A fiber is in use while it runs or is suspended, while a thread holds   *)
(* it as its current task, while a fiber task names it, or while an        *)
(* EventContext holds it.                                                  *)
InUse(f) ==
    \/ fstate[f] \in {"RUNNING", "SUSPEND"}
    \/ \E t \in Threads : cur[t] = f
    \/ \E i \in 1..Len(tasks) : tasks[i].task = f
    \/ \E c \in Callbacks : slot[c] = f

(* FiberPool's contract (spec section on FiberPool): a fiber in a pool's   *)
(* idle queue is not in use, so acquire() never hands out a fiber that is  *)
(* still running, or suspended with an EventContext pending; this rests on *)
(* run()'s post-resume state check racing with other threads' wake-ups.   *)
NoIdleInUse ==
    \A t \in Threads, f \in Fibers :
        f \in FP!IdleSet(pools[t]) => ~InUse(f)

(* Scheduler drain (spec): once stop() has joined the threads, every       *)
(* callback scheduled before stop() has run to completion, no event is    *)
(* pending and the queue is empty, so ~Scheduler's assert(stopping())      *)
(* holds; IOManager::stopping() is what lets the idle fibers end.          *)
JoinedOnlyWhenDrained ==
    pc[Main] = "joined" =>
        /\ finished = Callbacks
        /\ Pending = 0
        /\ tasks = <<>>

(* stop() returns: every task is worked off, every waiting fiber is woken  *)
(* by idle() and completes, every idle fiber ends and every thread exits.  *)
StopReturns == <>(pc[Main] = "joined")
=============================================================================
