------------------------------ MODULE MC_Hook ------------------------------
(* Constants for the Hook runs: fibers f1..f4 on sockets 5 and 6.          *)
EXTENDS Hook, TLC

CONSTANTS f1, f2, f3, f4

\* f2 connects socket 5 while f1 waits to read it; f3 reads socket 6; f4
\* sleeps (its fd is not used).
MCCallers == {f1, f2, f3, f4}
MCFdOf == (f1 :> 5) @@ (f2 :> 5) @@ (f3 :> 6) @@ (f4 :> 0)
MCDirOf == [f \in MCCallers |-> IF f = f2 THEN WRITE ELSE READ]

\* f1 reads socket 5 while another fiber closes it.
MCOneCaller == {f1}
MCOneFdOf == [f \in MCOneCaller |-> 5]
MCOneDirOf == [f \in MCOneCaller |-> READ]
=============================================================================
