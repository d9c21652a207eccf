---------------------------- MODULE EventRegistry ----------------------------
(***************************************************************************)
(* What IOManager promises about fd events, without epoll: at most one     *)
(* waiter per (fd, direction); a waiter is armed, then either dropped      *)
(* (delEvent) or handed to the scheduler once (readiness, cancelEvent,     *)
(* cancelAll).  Several directions of one fd may be handed over in one     *)
(* step, READ before WRITE.  Reactor refines this module.                  *)
(***************************************************************************)
EXTENDS Naturals, Sequences

CONSTANTS Fds, Dirs, Waiters, NoWaiter

VARIABLES
    slot,       \* slot[fd][d]: the waiter armed for direction d of fd
    scheduled   \* waiters handed to scheduleLock, in order

regVars == <<slot, scheduled>>

RegInit ==
    /\ slot = [fd \in Fds |-> [d \in Dirs |-> NoWaiter]]
    /\ scheduled = <<>>

(* Arm an empty slot.                                                      *)
Arm(fd, d, w) ==
    /\ slot[fd][d] = NoWaiter
    /\ slot' = [slot EXCEPT ![fd][d] = w]
    /\ UNCHANGED scheduled

(* Drop an armed waiter without waking it.                                 *)
Disarm(fd, d) ==
    /\ slot[fd][d] # NoWaiter
    /\ slot' = [slot EXCEPT ![fd][d] = NoWaiter]
    /\ UNCHANGED scheduled

(* Hand the waiters of the armed directions D of fd to the scheduler.      *)
Fire(fd, D, order) ==
    /\ D # {}
    /\ \A d \in D : slot[fd][d] # NoWaiter
    /\ slot' = [slot EXCEPT ![fd] = [d \in Dirs |-> IF d \in D THEN NoWaiter ELSE @[d]]]
    /\ scheduled' = scheduled \o [i \in 1..Len(order) |-> slot[fd][order[i]]]

RegNext ==
    \E fd \in Fds :
        \/ \E d \in Dirs, w \in Waiters : Arm(fd, d, w)
        \/ \E d \in Dirs : Disarm(fd, d)
        \/ \E D \in SUBSET Dirs :
              \E order \in {<<>>, <<"READ">>, <<"WRITE">>, <<"READ", "WRITE">>} :
                  /\ {order[i] : i \in DOMAIN order} = D
                  /\ Fire(fd, D, order)

RegSpec == RegInit /\ [][RegNext]_regVars
=============================================================================
