---------------------------- MODULE MC_FdManager ----------------------------
(* Constants for the fdmanager run: threads and the timevals of setsockopt. *)
EXTENDS FdManager

CONSTANTS h1, u1

\* A zero timeval (no timeout), half a millisecond and two seconds.
MCTvs == {<<0, 0>>, <<0, 500>>, <<2, 0>>}
=============================================================================
