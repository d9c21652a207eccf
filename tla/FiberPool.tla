------------------------------ MODULE FiberPool ------------------------------
(***************************************************************************)
(* The per-thread fiber pool of src/co-pro/corotinue-fiber-pool/           *)
(* fiberpool.cpp.  A pool is a record                                      *)
(*   idle : the FIFO queue m_idleFibers (front = Head),                    *)
(*   all  : the fibers recorded in m_allFibers,                            *)
(*   size : m_poolSize.                                                    *)
(* Fibers are numbered in creation order; `next` is the number of fibers   *)
(* created so far in the process, so createFibers hands out next+1, ...    *)
(* The pool operations are pure operators on pool values so that the       *)
(* Scheduler module can keep one pool per worker thread.  The              *)
(* specification at the end drives a single pool by its owning thread.     *)
(***************************************************************************)
EXTENDS Naturals, Sequences, FiniteSets

CONSTANTS
    InitSize,   \* FiberPool(size_t fibers): 256 in getLocalFiberPool()
    MaxFibers,  \* bound: at most MaxFibers fibers are ever created
    ResizeTo    \* the arguments the owning thread may pass to resize()

ASSUME InitSize \in Nat /\ MaxFibers \in Nat /\ ResizeTo \subseteq Nat

NoFiber == 0
Fibers  == 1..MaxFibers

(* A plausible slip in createFibers: numbering from next instead of next+1.*)
CreateFibersIdsFromNext(p, next, count) ==
    [p EXCEPT !.idle = @ \o [i \in 1..count |-> next + i - 1],
              !.all  = @ \cup {next + i - 1 : i \in 1..count}]

(* createFibers(count): each new fiber is reset to idle, pushed at the     *)
(* back of the idle queue and recorded in m_allFibers.                     *)
CreateFibers(p, next, count) ==
    [p EXCEPT !.idle = @ \o [i \in 1..count |-> next + i],
              !.all  = @ \cup {next + i : i \in 1..count}]

(* The constructor FiberPool(fibers).                                      *)
NewPool(next, n) == CreateFibers([idle |-> <<>>, all |-> {}, size |-> n], next, n)

(* acquire(): when the idle queue is empty the pool grows to              *)
(* size_t(m_allFibers.size() * 1.5), i.e. by floor(n/2) fibers: nothing at *)
(* all when n < 2.                                                         *)
AcquireGrowth(p) ==
    IF p.idle = <<>> THEN (3 * Cardinality(p.all)) \div 2 - Cardinality(p.all)
                     ELSE 0

(* The pool after growth, before the front is popped.                      *)
AcquireGrown(p, next) == CreateFibers(p, next, AcquireGrowth(p))

(* The fiber acquire() hands out: m_idleFibers.front().  On an empty queue *)
(* front() is undefined behaviour; the model returns NoFiber for it.       *)
AcquiredFiber(p, next) ==
    LET q == AcquireGrown(p, next)
    IN  IF q.idle = <<>> THEN NoFiber ELSE Head(q.idle)

(* The pool after acquire(): grown, front popped.                          *)
AcquirePool(p, next) ==
    LET q == AcquireGrown(p, next)
    IN  IF q.idle = <<>> THEN q ELSE [q EXCEPT !.idle = Tail(@)]

(* The fibers waiting in the idle queue.                                   *)
IdleSet(p) == {p.idle[i] : i \in DOMAIN p.idle}

(* release(fiber): reset(nullptr) (done by the caller on the fiber state)  *)
(* and push at the back of the idle queue.  No check that the fiber       *)
(* belongs to this pool or is not already idle.                           *)
ReleasePool(p, f) == [p EXCEPT !.idle = Append(@, f)]

(* resize(new_size): grow by createFibers, or pop up to (size - new_size)  *)
(* fibers from the front of the idle queue and erase each from            *)
(* m_allFibers if it is found there; leased fibers are never evicted.     *)
ResizeGrowth(p, n) ==
    IF n > Cardinality(p.all) THEN n - Cardinality(p.all) ELSE 0

(* A plausible slip in resize: the evicted idle fibers are popped but not  *)
(* erased from m_allFibers.                                                *)
ResizePoolNoErase(p, next, n) ==
    LET cur  == Cardinality(p.all)
        k    == IF cur - n < Len(p.idle) THEN cur - n ELSE Len(p.idle)
    IN  IF n > cur
        THEN [CreateFibers(p, next, n - cur) EXCEPT !.size = n]
        ELSE IF n < cur
        THEN [p EXCEPT !.idle = SubSeq(@, k + 1, Len(@)), !.size = n]
        ELSE [p EXCEPT !.size = n]

ResizePool(p, next, n) ==
    LET cur  == Cardinality(p.all)
        k    == IF cur - n < Len(p.idle) THEN cur - n ELSE Len(p.idle)
        gone == {p.idle[i] : i \in 1..k}
    IN  IF n > cur
        THEN [CreateFibers(p, next, n - cur) EXCEPT !.size = n]
        ELSE IF n < cur
        THEN [p EXCEPT !.idle = SubSeq(@, k + 1, Len(@)),
                       !.all  = @ \ gone,
                       !.size = n]
        ELSE [p EXCEPT !.size = n]

-----------------------------------------------------------------------------
(* One pool driven by its owning thread: acquire, release of a leased      *)
(* fiber that has terminated, and resize.                                  *)
VARIABLES
    pool,    \* the thread-local FiberPool
    next,    \* fibers created so far
    leased,  \* fibers handed out by acquire and not yet released
    ub       \* TRUE once acquire() took front() of an empty queue

vars == <<pool, next, leased, ub>>

TypeOK ==
    /\ pool.idle \in Seq(Fibers)
    /\ pool.all \subseteq Fibers
    /\ pool.size \in Nat
    /\ next \in 0..MaxFibers
    /\ leased \subseteq Fibers
    /\ ub \in BOOLEAN

Init ==
    /\ pool = NewPool(0, InitSize)
    /\ next = InitSize
    /\ leased = {}
    /\ ub = FALSE

Acquire ==
    /\ ~ub
    /\ next + AcquireGrowth(pool) <= MaxFibers
    /\ LET f == AcquiredFiber(pool, next)
       IN  /\ pool'   = AcquirePool(pool, next)
           /\ next'   = next + AcquireGrowth(pool)
           /\ leased' = IF f = NoFiber THEN leased ELSE leased \cup {f}
           /\ ub'     = (f = NoFiber)

Release(f) ==
    /\ ~ub
    /\ f \in leased
    /\ pool'   = ReleasePool(pool, f)
    /\ leased' = leased \ {f}
    /\ UNCHANGED <<next, ub>>

Resize(n) ==
    /\ ~ub
    /\ next + ResizeGrowth(pool, n) <= MaxFibers
    /\ pool' = ResizePool(pool, next, n)
    /\ next' = next + ResizeGrowth(pool, n)
    /\ UNCHANGED <<leased, ub>>

Next ==
    \/ Acquire
    \/ \E f \in leased : Release(f)
    \/ \E n \in ResizeTo : Resize(n)

Spec == Init /\ [][Next]_vars

-----------------------------------------------------------------------------
(* Pool conservation (spec section 8): every fiber the pool knows is      *)
(* either idle or leased, exactly once: idleCount() + leased = totalCount()*)
(* across growth in acquire() and eviction in resize().                    *)
PoolConservation ==
    /\ IdleSet(pool) \cup leased = pool.all
    /\ Len(pool.idle) + Cardinality(leased) = Cardinality(pool.all)
=============================================================================
