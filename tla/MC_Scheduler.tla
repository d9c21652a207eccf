---------------------------- MODULE MC_Scheduler ----------------------------
(* Workloads for Scheduler: two callbacks that wait on a socket read and   *)
(* one that only computes.                                                 *)
EXTENDS Scheduler

CONSTANTS c1, c2, c3, t0, t1, t2

MCCallbacks == {c1, c2, c3}
MCWork == (c1 :> "read") @@ (c2 :> "read") @@ (c3 :> "compute")
MCAnyAffinity == [c \in MCCallbacks |-> AnyThread]
\* c3 is pinned to t1, the caller thread
MCPinnedAffinity == (c1 :> AnyThread) @@ (c2 :> AnyThread) @@ (c3 :> t1)
MCComputeOnly == [c \in MCCallbacks |-> "compute"]
=============================================================================
