------------------------------- MODULE Reactor -------------------------------
(***************************************************************************)
(* The fd-event half of IOManager (src/co-pro/corotinue-fiber-pool/        *)
(* ioscheduler.cpp): the per-fd FdContext (armed directions and one        *)
(* EventContext per direction), the edge-triggered epoll instance it       *)
(* drives, and the part of IOManager::idle() that turns reported epoll     *)
(* events into scheduled wake-ups.                                         *)
(*                                                                         *)
(* Every operation runs on some worker thread.  A thread is either running *)
(* task code (where it may call addEvent/delEvent/cancelEvent/cancelAll)   *)
(* or is inside idle() holding the batch returned by epoll_wait; the      *)
(* entries of that batch are processed one at a time, each under the fd's  *)
(* mutex, so other threads can change an fd's registration between the     *)
(* epoll_wait that reported it and the processing of the report.          *)
(*                                                                         *)
(* The EventContext holds either a fiber or a callback; both are a member  *)
(* of Waiters here.  triggerEvent hands it to scheduleLock, modelled as    *)
(* appending to `scheduled` (the scheduler's task queue).                 *)
(***************************************************************************)
EXTENDS Integers, Sequences, FiniteSets, Functions

CONSTANTS
    Threads,   \* worker threads of the IOManager
    Fds,       \* socket fds with an FdContext
    Waiters,   \* fibers or callbacks passed to addEvent, each registered once
    MaxEdges,  \* bound on readiness changes made by the peers of the fds
    NoWaiter   \* an empty EventContext

READ  == "READ"
WRITE == "WRITE"
Dirs  == {READ, WRITE}

\* epoll_ctl operations
ADD == "ADD"
MOD == "MOD"
DEL == "DEL"

VARIABLES
    events,     \* events[fd]: FdContext::events, the armed directions
    ectx,       \* ectx[fd][d]: the EventContext of direction d
    pending,    \* m_pendingEventCount
    kreg,       \* kreg[fd]: fd is in the epoll interest list
    kmask,      \* kmask[fd]: the interest mask epoll holds for fd
    rdlist,     \* fds on epoll's ready list
    ready,      \* ready[fd]: directions in which the socket is ready
    hup,        \* hup[fd]: the peer hung up or the socket has an error
    batch,      \* batch[t]: events returned by epoll_wait not yet processed
    scheduled,  \* waiters handed to scheduleLock, in order
    fate,       \* fate[w]: history of waiter w's registration
    edges,      \* readiness changes so far
    unarmed     \* TRUE once triggerEvent ran on a direction that is not armed

vars == <<events, ectx, pending, kreg, kmask, rdlist, ready, hup, batch,
          scheduled, fate, edges, unarmed>>

Fates == {"new", "armed", "rejected", "deleted", "ready", "cancelled"}
Report == [fd : Fds, bits : SUBSET Dirs, hup : BOOLEAN]

TypeOK ==
    /\ events \in [Fds -> SUBSET Dirs]
    /\ ectx \in [Fds -> [Dirs -> Waiters \cup {NoWaiter}]]
    /\ pending \in Nat
    /\ kreg \in [Fds -> BOOLEAN]
    /\ kmask \in [Fds -> SUBSET Dirs]
    /\ rdlist \subseteq Fds
    /\ ready \in [Fds -> SUBSET Dirs]
    /\ hup \in [Fds -> BOOLEAN]
    /\ batch \in [Threads -> SUBSET Report]
    /\ scheduled \in Seq(Waiters)
    /\ fate \in [Waiters -> Fates]
    /\ edges \in 0..MaxEdges
    /\ unarmed \in BOOLEAN

Init ==
    /\ events = [fd \in Fds |-> {}]
    /\ ectx = [fd \in Fds |-> [d \in Dirs |-> NoWaiter]]
    /\ pending = 0
    /\ kreg = [fd \in Fds |-> FALSE]
    /\ kmask = [fd \in Fds |-> {}]
    /\ rdlist = {}
    /\ ready = [fd \in Fds |-> {}]
    /\ hup = [fd \in Fds |-> FALSE]
    /\ batch = [t \in Threads |-> {}]
    /\ scheduled = <<>>
    /\ fate = [w \in Waiters |-> "new"]
    /\ edges = 0
    /\ unarmed = FALSE

-----------------------------------------------------------------------------
(* The kernel side: epoll_ctl(op, fd, EPOLLET | mask).  ADD fails with     *)
(* EEXIST on a registered fd, MOD and DEL with ENOENT on an unregistered   *)
(* one.  ADD and MOD poll the fd, so a socket that is already ready is     *)
(* put on the ready list even in edge-triggered mode; DEL takes it off.   *)
EpollOk(op, fd) == IF op = ADD THEN ~kreg[fd] ELSE kreg[fd]

EpollCtl(op, fd, mask) ==
    IF op = DEL
    THEN /\ kreg' = [kreg EXCEPT ![fd] = FALSE]
         /\ kmask' = [kmask EXCEPT ![fd] = {}]
         /\ rdlist' = rdlist \ {fd}
    ELSE /\ kreg' = [kreg EXCEPT ![fd] = TRUE]
         /\ kmask' = [kmask EXCEPT ![fd] = mask]
         /\ rdlist' = IF (ready[fd] \cap mask # {}) \/ hup[fd]
                      THEN rdlist \cup {fd} ELSE rdlist

(* The op addEvent and the removal paths choose from the armed set.        *)
AddOp(fd) == IF events[fd] # {} THEN MOD ELSE ADD

(* A plausible slip: removing a direction always DELs the fd.              *)
RemoveOpAlwaysDel(left) == DEL

RemoveOp(left) == IF left # {} THEN MOD ELSE DEL

(* Thread t is running task code, not processing an epoll batch, and the  *)
(* process has not crashed in triggerEvent.                                *)
Running(t) == batch[t] = {} /\ ~unarmed

-----------------------------------------------------------------------------
(* FdContext::triggerEvent for the directions D of fd, READ before WRITE: *)
(* clear the bit, scheduleLock the callback or the fiber, reset the        *)
(* EventContext; `how` records whether readiness or a cancel woke it.     *)
(* This is the NDEBUG build, where assert(events & event) (line 39) is    *)
(* compiled out.  On a direction that is not armed the EventContext is    *)
(* empty and ctx.scheduler is nullptr, so the call through it crashes:    *)
(* the step is recorded in `unarmed` and the process stops.               *)
InOrder(D) == SelectSeq(<<READ, WRITE>>, LAMBDA d : d \in D)

(* A plausible slip: triggerEvent without resetEventContext.               *)
TriggerEventsNoReset(fd, D, how) ==
    LET ws == [i \in 1..Len(InOrder(D)) |-> ectx[fd][InOrder(D)[i]]]
    IN  /\ events' = [events EXCEPT ![fd] = @ \ D]
        /\ UNCHANGED ectx
        /\ scheduled' = scheduled \o SelectSeq(ws, LAMBDA w : w # NoWaiter)
        /\ fate' = [w \in Waiters |-> IF \E i \in DOMAIN ws : ws[i] = w
                                      THEN how ELSE fate[w]]
        /\ unarmed' = ~(D \subseteq events[fd])

(* A plausible slip: WRITE triggered before READ.                          *)
TriggerEventsWriteFirst(fd, D, how) ==
    LET order == SelectSeq(<<WRITE, READ>>, LAMBDA d : d \in D)
        ws    == [i \in 1..Len(order) |-> ectx[fd][order[i]]]
    IN  /\ events' = [events EXCEPT ![fd] = @ \ D]
        /\ ectx' = [ectx EXCEPT ![fd] = [d \in Dirs |-> IF d \in D THEN NoWaiter ELSE @[d]]]
        /\ scheduled' = scheduled \o SelectSeq(ws, LAMBDA w : w # NoWaiter)
        /\ fate' = [w \in Waiters |-> IF \E i \in DOMAIN ws : ws[i] = w
                                      THEN how ELSE fate[w]]
        /\ unarmed' = ~(D \subseteq events[fd])

TriggerEvents(fd, D, how) ==
    LET ws == [i \in 1..Len(InOrder(D)) |-> ectx[fd][InOrder(D)[i]]]
    IN  /\ events' = [events EXCEPT ![fd] = @ \ D]
        /\ ectx' = [ectx EXCEPT ![fd] = [d \in Dirs |-> IF d \in D THEN NoWaiter ELSE @[d]]]
        /\ scheduled' = scheduled \o SelectSeq(ws, LAMBDA w : w # NoWaiter)
        /\ fate' = [w \in Waiters |-> IF \E i \in DOMAIN ws : ws[i] = w
                                      THEN how ELSE fate[w]]
        /\ unarmed' = ~(D \subseteq events[fd])

-----------------------------------------------------------------------------
(* IOManager::addEvent(fd, event, cb): reject an armed direction; else     *)
(* epoll_ctl ADD or MOD with the old mask plus the event, and only when    *)
(* that succeeds count it pending, arm it and store the waiter.            *)
AddEvent(t, fd, d, w) ==
    /\ Running(t)
    /\ fate[w] = "new"
    /\ IF d \in events[fd] \/ ~EpollOk(AddOp(fd), fd)
       THEN /\ fate' = [fate EXCEPT ![w] = "rejected"]
            /\ UNCHANGED <<events, ectx, pending, kreg, kmask, rdlist>>
       ELSE /\ EpollCtl(AddOp(fd), fd, events[fd] \cup {d})
            /\ pending' = pending + 1
            /\ events' = [events EXCEPT ![fd] = @ \cup {d}]
            /\ ectx' = [ectx EXCEPT ![fd][d] = w]
            /\ fate' = [fate EXCEPT ![w] = "armed"]
    /\ UNCHANGED <<ready, hup, batch, scheduled, edges, unarmed>>

(* IOManager::delEvent(fd, event): remove the direction from epoll (MOD to *)
(* the rest, or DEL), then drop the EventContext without waking anyone.    *)
DelEvent(t, fd, d) ==
    /\ Running(t)
    /\ d \in events[fd]
    /\ EpollOk(RemoveOp(events[fd] \ {d}), fd)
    /\ EpollCtl(RemoveOp(events[fd] \ {d}), fd, events[fd] \ {d})
    /\ pending' = pending - 1
    /\ events' = [events EXCEPT ![fd] = @ \ {d}]
    /\ ectx' = [ectx EXCEPT ![fd][d] = NoWaiter]
    /\ fate' = [fate EXCEPT ![ectx[fd][d]] = "deleted"]
    /\ UNCHANGED <<ready, hup, batch, scheduled, edges, unarmed>>

(* IOManager::cancelEvent(fd, event): as delEvent, but the EventContext is *)
(* fired through triggerEvent.  The code stores fd_ctx->events =          *)
(* new_events (line 278) before triggerEvent (280), so with asserts       *)
(* enabled the assert at line 39 fails on every cancel; `unarmed` here is *)
(* the NDEBUG outcome, decided on the direction's EventContext, which is  *)
(* still intact.                                                          *)
CancelEvent(t, fd, d) ==
    /\ Running(t)
    /\ d \in events[fd]
    /\ EpollOk(RemoveOp(events[fd] \ {d}), fd)
    /\ EpollCtl(RemoveOp(events[fd] \ {d}), fd, events[fd] \ {d})
    /\ pending' = pending - 1
    /\ TriggerEvents(fd, {d}, "cancelled")
    /\ UNCHANGED <<ready, hup, batch, edges>>

(* A plausible slip in cancelAll: --m_pendingEventCount for both          *)
(* directions, outside the `if (events & X)` blocks.                       *)
CancelAllBothDirs(t, fd) ==
    /\ Running(t)
    /\ events[fd] # {}
    /\ EpollOk(DEL, fd)
    /\ EpollCtl(DEL, fd, {})
    /\ pending' = pending - 2
    /\ TriggerEvents(fd, events[fd], "cancelled")
    /\ UNCHANGED <<ready, hup, batch, edges>>

(* IOManager::cancelAll(fd): DEL the fd, then fire READ and WRITE if armed.*)
CancelAll(t, fd) ==
    /\ Running(t)
    /\ events[fd] # {}
    /\ EpollOk(DEL, fd)
    /\ EpollCtl(DEL, fd, {})
    /\ pending' = pending - Cardinality(events[fd])
    /\ TriggerEvents(fd, events[fd], "cancelled")
    /\ UNCHANGED <<ready, hup, batch, edges>>

-----------------------------------------------------------------------------
(* IOManager::idle(): epoll_wait returns every item on the ready list with *)
(* the directions it is ready in under its current mask; in edge-         *)
(* triggered mode the items leave the ready list.                          *)
EpollWait(t) ==
    /\ Running(t)
    /\ rdlist # {}
    /\ batch' = [batch EXCEPT ![t] =
                   {[fd |-> fd, bits |-> ready[fd] \cap kmask[fd], hup |-> hup[fd]] :
                        fd \in {x \in rdlist : ready[x] \cap kmask[x] # {} \/ hup[x]}}]
    /\ rdlist' = {}
    /\ UNCHANGED <<events, ectx, pending, kreg, kmask, ready, hup, scheduled,
                   fate, edges, unarmed>>

(* IOManager::idle(), one reported event under the fd's mutex: EPOLLERR or *)
(* EPOLLHUP count as every armed direction; skip it when no armed          *)
(* direction was reported; re-register the armed directions that were not *)
(* reported (MOD, or DEL when none), skip it if that fails; then trigger   *)
(* READ and WRITE as reported, decrementing the pending count for each.   *)
(* A plausible slip: EPOLLERR/EPOLLHUP not converted to READ|WRITE.      *)
RealEventsNoHup(e) == e.bits

RealEvents(e) == IF e.hup THEN e.bits \cup events[e.fd] ELSE e.bits

(* A plausible slip: one decrement per reported event, not per direction. *)
ProcessEventDecOnce(t, e) ==
    LET fd   == e.fd
        real == RealEvents(e)
        left == events[fd] \ real
    IN  /\ ~unarmed
        /\ e \in batch[t]
        /\ batch' = [batch EXCEPT ![t] = @ \ {e}]
        /\ IF events[fd] \cap real = {} \/ ~EpollOk(RemoveOp(left), fd)
           THEN UNCHANGED <<events, ectx, pending, kreg, kmask, rdlist,
                            scheduled, fate, unarmed>>
           ELSE /\ EpollCtl(RemoveOp(left), fd, left)
                /\ pending' = pending - 1
                /\ TriggerEvents(fd, real, "ready")
        /\ UNCHANGED <<ready, hup, edges>>

ProcessEvent(t, e) ==
    LET fd   == e.fd
        real == RealEvents(e)
        left == events[fd] \ real
    IN  /\ ~unarmed
        /\ e \in batch[t]
        /\ batch' = [batch EXCEPT ![t] = @ \ {e}]
        /\ IF events[fd] \cap real = {} \/ ~EpollOk(RemoveOp(left), fd)
           THEN UNCHANGED <<events, ectx, pending, kreg, kmask, rdlist,
                            scheduled, fate, unarmed>>
           ELSE /\ EpollCtl(RemoveOp(left), fd, left)
                /\ pending' = pending - Cardinality(real)
                /\ TriggerEvents(fd, real, "ready")
        /\ UNCHANGED <<ready, hup, edges>>

-----------------------------------------------------------------------------
(* The peer of a socket: data arrives or buffer space frees up (an edge    *)
(* that queues the fd if epoll watches that direction), data is consumed, *)
(* or the connection hangs up.  Bounded by MaxEdges.                      *)
BecomeReady(fd, d) ==
    /\ edges < MaxEdges
    /\ d \notin ready[fd]
    /\ ready' = [ready EXCEPT ![fd] = @ \cup {d}]
    /\ rdlist' = IF kreg[fd] /\ d \in kmask[fd] THEN rdlist \cup {fd} ELSE rdlist
    /\ edges' = edges + 1
    /\ UNCHANGED <<events, ectx, pending, kreg, kmask, hup, batch, scheduled,
                   fate, unarmed>>

Drain(fd, d) ==
    /\ edges < MaxEdges
    /\ d \in ready[fd]
    /\ ready' = [ready EXCEPT ![fd] = @ \ {d}]
    /\ edges' = edges + 1
    /\ UNCHANGED <<events, ectx, pending, kreg, kmask, rdlist, hup, batch,
                   scheduled, fate, unarmed>>

HangUp(fd) ==
    /\ ~hup[fd]
    /\ hup' = [hup EXCEPT ![fd] = TRUE]
    /\ rdlist' = IF kreg[fd] THEN rdlist \cup {fd} ELSE rdlist
    /\ UNCHANGED <<events, ectx, pending, kreg, kmask, ready, batch, scheduled,
                   fate, edges, unarmed>>

-----------------------------------------------------------------------------
Caller ==
    \E t \in Threads, fd \in Fds, d \in Dirs :
        \/ \E w \in Waiters : AddEvent(t, fd, d, w)
        \/ DelEvent(t, fd, d)
        \/ CancelEvent(t, fd, d)
        \/ CancelAll(t, fd)

Poller ==
    \/ \E t \in Threads : EpollWait(t)
    \/ \E t \in Threads, e \in Report : ProcessEvent(t, e)

Peer ==
    \E fd \in Fds :
        \/ HangUp(fd)
        \/ \E d \in Dirs : BecomeReady(fd, d) \/ Drain(fd, d)

Next == Caller \/ Poller \/ Peer

(* idle() runs whenever its thread has no task; with finitely many callers *)
(* a thread eventually waits in epoll and works off its batch.            *)
Spec == Init /\ [][Next]_vars /\ WF_vars(Poller)

-----------------------------------------------------------------------------
(* epoll's interest list always equals FdContext::events: addEvent,        *)
(* delEvent, cancelEvent, cancelAll and the re-registration in idle() pick *)
(* ADD/MOD/DEL and the mask so that no armed direction is left unwatched  *)
(* (its waiter would never be woken) and none is watched that no one       *)
(* waits for.                                                              *)
KernelMirrorsArmed ==
    \A fd \in Fds : kreg[fd] = (events[fd] # {}) /\ kmask[fd] = events[fd]

(* m_pendingEventCount equals the number of armed directions over all      *)
(* fds; IOManager::stopping() relies on it reaching 0 exactly when nothing *)
(* is armed, across the per-direction decrements of cancelAll and idle().  *)
PendingMatchesArmed ==
    pending = SumFunction([fd \in Fds |-> Cardinality(events[fd])])

(* Every registration that addEvent accepted is, at any time, either still *)
(* held by exactly one EventContext, dropped by delEvent, or handed to     *)
(* scheduleLock exactly once: no waiter is lost and none is woken twice,   *)
(* across addEvent, delEvent, cancelEvent, cancelAll and the batches of    *)
(* idle() on the IOManager's one worker thread.                           *)
WakeExactlyOnce ==
    \A w \in Waiters :
        LET held  == {<<fd, d>> \in Fds \X Dirs : ectx[fd][d] = w}
            woken == {i \in DOMAIN scheduled : scheduled[i] = w}
        IN  /\ Cardinality(held) = IF fate[w] = "armed" THEN 1 ELSE 0
            /\ Cardinality(woken) = IF fate[w] \in {"ready", "cancelled"} THEN 1 ELSE 0

(* Edge-triggered epoll loses no wake-up: a direction that is armed while  *)
(* its socket is ready (or hung up) is eventually woken, unless the peer  *)
(* takes the readiness back first.                                         *)
ReadyWaiterWoken ==
    \A fd \in Fds, d \in Dirs :
        (d \in events[fd] /\ (d \in ready[fd] \/ hup[fd]))
            ~> (d \notin events[fd] \/ (d \notin ready[fd] /\ ~hup[fd]))

-----------------------------------------------------------------------------
(* Reactor implements the abstract event registry: the EventContexts are   *)
(* the registry's slots; an accepted addEvent arms a slot, delEvent        *)
(* disarms it, cancelEvent, cancelAll and a processed epoll report fire    *)
(* the armed directions READ before WRITE; epoll_wait, rejected addEvents  *)
(* and the peers' steps change no slot.                                    *)
Registry == INSTANCE EventRegistry WITH slot <- ectx

(* IOManager's fd-event machinery behaves as the registry: every wake-up   *)
(* handed to scheduleLock is the waiter of an armed direction, delivered   *)
(* once, in triggerEvent's READ-then-WRITE order.                          *)
RefinesRegistry == Registry!RegSpec
=============================================================================
