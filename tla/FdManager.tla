------------------------------ MODULE FdManager ------------------------------
(***************************************************************************)
(* FdManager and FdCtx (src/co-pro/corotinue-fiber-pool/fd_manager.cpp)    *)
(* with the hooks of hook.cpp that create, change and drop an FdCtx:       *)
(* socket(), close(), fcntl(F_SETFL), ioctl(FIONBIO) and                  *)
(* setsockopt(SO_RCVTIMEO/SO_SNDTIMEO), against a model of what the        *)
(* kernel holds for the fd.  socket(), close() and setsockopt() test      *)
(* t_hook_enable, which is thread-local and set only by Scheduler::run, so *)
(* a thread outside the scheduler calls libc directly; fcntl() and ioctl() *)
(* consult the FdCtx on every thread.                                     *)
(*                                                                         *)
(* FdManager::get(fd, true) takes the read lock, and on a miss releases it *)
(* and takes the write lock without looking again; that window is a state *)
(* of its own here.                                                        *)
(***************************************************************************)
EXTENDS Integers

CONSTANTS
    Threads,        \* application threads
    HookedThreads,  \* the threads running Scheduler::run (t_hook_enable)
    Fds,            \* fd numbers the kernel hands out
    Tvs,            \* timevals passed to setsockopt, as <<tv_sec, tv_usec>>
    SockNonblock,   \* values of SOCK_NONBLOCK in socket()'s type argument
    IoctlArgs       \* values passed to ioctl(FIONBIO)

RCV == "SO_RCVTIMEO"
SND == "SO_SNDTIMEO"
Opts == {RCV, SND}
Infinite == -1   \* (uint64_t)-1, the default: no timeout
NoCtx == [null |-> TRUE]   \* an empty shared_ptr in m_datas

\* FdCtx's fields; isClosed is never set by the code and is left out.
Ctx == [isInit : BOOLEAN, isSocket : BOOLEAN, sysNonblock : BOOLEAN,
        userNonblock : BOOLEAN, timeout : [Opts -> Nat \cup {Infinite}]]
\* The kernel's file: open, a socket, O_NONBLOCK, and SO_*TIMEO.
File == [open : BOOLEAN, sock : BOOLEAN, nonblock : BOOLEAN,
         tv : [Opts -> Tvs \cup {<<0, 0>>}]]

VARIABLES
    os,      \* os[fd]: the kernel's file behind fd
    datas,   \* datas[fd]: FdManager::m_datas[fd]
    getpc    \* getpc[t]: fd whose get(fd, true) is between its two locks, or 0

vars == <<os, datas, getpc>>

Closed == [open |-> FALSE, sock |-> FALSE, nonblock |-> FALSE,
           tv |-> [o \in Opts |-> <<0, 0>>]]

TypeOK ==
    /\ os \in [Fds -> File]
    /\ datas \in [Fds -> Ctx \cup {NoCtx}]
    /\ getpc \in [Threads -> Fds \cup {0}]

Init ==
    /\ os = [fd \in Fds |-> Closed]
    /\ datas = [fd \in Fds |-> NoCtx]
    /\ getpc = [t \in Threads |-> 0]

Hooked(t) == t \in HookedThreads
Idle(t) == getpc[t] = 0

(* The application can name fd only once socket() has returned it.         *)
Published(fd) == \A t \in Threads : getpc[t] # fd

(* A call by thread t on the open fd.                                      *)
CallOn(t, fd) == Idle(t) /\ os[fd].open /\ Published(fd)

(* fcntl and ioctl handle fd as a socket of their own: an FdCtx that says *)
(* socket (isClosed() is never true), whatever the calling thread.         *)
Managed(fd) == datas[fd] # NoCtx /\ datas[fd].isSocket

(* FdCtx(fd) and its init(): fstat classifies the fd; a socket is forced   *)
(* to O_NONBLOCK in the kernel.  userNonblock and the timeouts keep their  *)
(* defaults.  Returns the new FdCtx and the kernel file after init.        *)
NewCtx(f) ==
    [isInit |-> f.open, isSocket |-> f.open /\ f.sock,
     sysNonblock |-> f.open /\ f.sock, userNonblock |-> FALSE,
     timeout |-> [o \in Opts |-> Infinite]]
InitFile(f) ==
    IF f.open /\ f.sock THEN [f EXCEPT !.nonblock = TRUE] ELSE f

(* setsockopt's conversion: tv_sec * 1000 + tv_usec / 1000, in uint64.    *)
TvToMs(tv) == tv[1] * 1000 + tv[2] \div 1000

(* The kernel accepts a timeval whose tv_usec is below one second.         *)
TvValid(tv) == tv[2] < 1000000

(* socket(): the kernel hands out a free fd.  A hooked thread then calls   *)
(* FdMgr->get(fd, true): an existing FdCtx is returned as it is; on a miss *)
(* the read lock is released before the entry is created (GetCreate).      *)
Socket(t, fd, nb) ==
    /\ Idle(t)
    /\ ~os[fd].open
    /\ os' = [os EXCEPT ![fd] = [Closed EXCEPT !.open = TRUE, !.sock = TRUE,
                                               !.nonblock = nb]]
    /\ getpc' = IF Hooked(t) /\ datas[fd] = NoCtx
                THEN [getpc EXCEPT ![t] = fd] ELSE getpc
    /\ UNCHANGED datas

(* get(fd, true) under the write lock: m_datas[fd] = make_shared<FdCtx>,   *)
(* whose constructor runs init() on whatever file fd now names.            *)
GetCreate(t) ==
    LET fd == getpc[t] IN
    /\ fd # 0
    /\ datas' = [datas EXCEPT ![fd] = NewCtx(os[fd])]
    /\ os' = [os EXCEPT ![fd] = InitFile(os[fd])]
    /\ getpc' = [getpc EXCEPT ![t] = 0]

(* open() of a regular file, which the hook layer does not intercept.      *)
OpenFile(t, fd) ==
    /\ Idle(t)
    /\ ~os[fd].open
    /\ os' = [os EXCEPT ![fd] = [Closed EXCEPT !.open = TRUE]]
    /\ UNCHANGED <<datas, getpc>>

(* close(): a hooked thread with an FdCtx removes it (FdMgr->del, after    *)
(* cancelAll, which Hook models); then close_f.                            *)
Close(t, fd) ==
    /\ CallOn(t, fd)
    /\ datas' = IF Hooked(t) THEN [datas EXCEPT ![fd] = NoCtx] ELSE datas
    /\ os' = [os EXCEPT ![fd] = Closed]
    /\ UNCHANGED getpc

(* fcntl(fd, F_SETFL, arg) on any thread: for a managed socket,            *)
(* userNonblock records the request and the kernel gets O_NONBLOCK as      *)
(* sysNonblock says; otherwise arg goes to the kernel as it is.            *)
FcntlSetfl(t, fd, nb) ==
    /\ CallOn(t, fd)
    /\ IF Managed(fd)
       THEN /\ datas' = [datas EXCEPT ![fd].userNonblock = nb]
            /\ os' = [os EXCEPT ![fd].nonblock = datas[fd].sysNonblock]
       ELSE /\ os' = [os EXCEPT ![fd].nonblock = nb]
            /\ UNCHANGED datas
    /\ UNCHANGED getpc

(* ioctl(fd, FIONBIO, &v) on any thread: a managed socket's userNonblock  *)
(* is set, and the request goes on to the kernel unchanged.               *)
Ioctl(t, fd, nb) ==
    /\ CallOn(t, fd)
    /\ datas' = IF Managed(fd) THEN [datas EXCEPT ![fd].userNonblock = nb] ELSE datas
    /\ os' = [os EXCEPT ![fd].nonblock = nb]
    /\ UNCHANGED getpc

(* setsockopt(fd, SOL_SOCKET, SO_RCVTIMEO/SO_SNDTIMEO, tv): a hooked       *)
(* thread with an FdCtx stores the converted timeout first; then the       *)
(* kernel takes tv if fd is a socket and tv is valid.                      *)
SetSockOpt(t, fd, o, tv) ==
    /\ CallOn(t, fd)
    /\ datas' = IF Hooked(t) /\ datas[fd] # NoCtx
                THEN [datas EXCEPT ![fd].timeout[o] = TvToMs(tv)] ELSE datas
    /\ os' = IF os[fd].sock /\ TvValid(tv)
             THEN [os EXCEPT ![fd].tv[o] = tv] ELSE os
    /\ UNCHANGED getpc

Next ==
    \/ \E t \in Threads :
          \/ GetCreate(t)
          \/ \E fd \in Fds :
                \/ \E nb \in SockNonblock : Socket(t, fd, nb)
                \/ OpenFile(t, fd)
                \/ Close(t, fd)
                \/ \E nb \in BOOLEAN : FcntlSetfl(t, fd, nb)
                \/ \E nb \in IoctlArgs : Ioctl(t, fd, nb)
                \/ \E o \in Opts, tv \in Tvs : SetSockOpt(t, fd, o, tv)

Spec == Init /\ [][Next]_vars

-----------------------------------------------------------------------------
(* do_io takes the hooked path for an fd whose FdCtx says socket and not   *)
(* user-nonblocking, and calls the real syscall expecting EAGAIN; that is  *)
(* safe only if the kernel file is nonblocking ("the value actually        *)
(* enforced on the OS fd always includes nonblocking when hooking is       *)
(* active").  Otherwise the syscall blocks the worker thread and every     *)
(* fiber on it.                                                            *)
HookedPathNonblocking ==
    \A fd \in Fds :
        (os[fd].open /\ datas[fd] # NoCtx /\ datas[fd].isSocket
           /\ ~datas[fd].userNonblock) => os[fd].nonblock
=============================================================================
