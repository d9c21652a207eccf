------------------------- MODULE MC_DbConnectionPool -------------------------
(* Constants for the DbConnectionPool runs.                                *)
EXTENDS DbConnectionPool

CONSTANTS w1, w2, w3, c1, c2, none
=============================================================================
