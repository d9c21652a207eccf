------------------------------ MODULE MC_AiGame ------------------------------
(* Off-board coordinates for the AiGame run.                               *)
EXTENDS AiGame

\* A request one column past the edge of the board.
MCOffBoard == {<<0, N>>}
=============================================================================
