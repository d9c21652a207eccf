------------------------------- MODULE AiGame -------------------------------
(***************************************************************************)
(* The Gomoku game against the AI (src/HttpServer/WebAPP/Gomoku): one      *)
(* user's entry in GomokuServer::game_map_, the AiGame it holds, and the   *)
(* two handlers that drive it.  AiGameStartHandler replaces the user's     *)
(* game with a fresh one; AiMoveHandler creates a game if there is none,   *)
(* plays the human's move, ends the game on a win or a draw, lets the AI   *)
(* answer with getBestMove and ends the game again on a win or a draw.     *)
(* Each handler is one action: the user's requests are handled one at a   *)
(* time.                                                                   *)
(*                                                                         *)
(* getBestMove takes the first winning cell in row-major order, else the  *)
(* first cell that blocks a human win, else the candidate that minimax    *)
(* ranks best among the empty cells next to a stone, else a random empty *)
(* cell.  The minimax ranking is abstracted to "any candidate".           *)
(***************************************************************************)
EXTENDS Integers, FiniteSets, FiniteSetsExt

CONSTANTS
    N,          \* BOARD_SIZE
    WinLen,     \* stones in a row that win (the 5 of checkwin)
    OffBoard    \* coordinates outside the board that a request may carry

Cells == (0..(N-1)) \X (0..(N-1))

\* The strings AiGame.h stores in board_.
EMPTY == " "
AI_PLAYER == "white"
HUMAN_PLAYER == "black"
Pieces == {EMPTY, AI_PLAYER, HUMAN_PLAYER}

NoMove == <<-1, -1>>

VARIABLES
    present,    \* game_map_ holds an entry for the user
    game,       \* that entry's AiGame: board_, gameOver_, moveCount_, winner_, lastMove_
    resp        \* the body of the last response: status, winner, board, last_move

vars == <<present, game, resp>>

\* AiGame::AiGame: an empty board, no move made.
NewGame == [board |-> [c \in Cells |-> EMPTY], over |-> FALSE, count |-> 0,
            winner |-> "none", last |-> NoMove]

NoResp == [status |-> "none", winner |-> "none", board |-> NewGame.board, last |-> NoMove]

TypeOK ==
    /\ present \in BOOLEAN
    /\ game.board \in [Cells -> Pieces]
    /\ game.count \in 0..(N * N)
    /\ game.winner \in {"none", "human", "ai"}
    /\ resp.status \in {"none", "ok", "invalid"}
    /\ resp.winner \in {"none", "human", "ai", "draw"}

Init ==
    /\ present = FALSE
    /\ game = NewGame
    /\ resp = NoResp
-----------------------------------------------------------------------------
(* AiGame.                                                                  *)

Dirs == {<<1, 0>>, <<0, 1>>, <<1, 1>>, <<1, -1>>}

Shift(c, d, i) == <<c[1] + i * d[1], c[2] + i * d[2]>>

\* isInBoard.
InBoard(c) == c[1] >= 0 /\ c[1] < N /\ c[2] >= 0 /\ c[2] < N

\* isDraw.
IsDraw(g) == g.count >= N * N

\* isValidMove.
IsValidMove(g, c) ==
    /\ InBoard(c)
    /\ g.board[c] = EMPTY
    /\ ~g.over
    /\ ~IsDraw(g)

\* One of checkwin's inner loops: how many stones of p follow c in
\* direction d before the board ends or another piece is met.
Run(b, c, d, p) ==
    Max({k \in 0..(WinLen - 1) :
            \A i \in 1..k : InBoard(Shift(c, d, i)) /\ b[Shift(c, d, i)] = p})

\* Mutant: checkwin without its reverse loop.
CheckWinForwardOnly(b, c, p) ==
    \E d \in Dirs : 1 + Run(b, c, d, p) >= WinLen

\* checkwin: the stone at c has WinLen in a row along some direction.
CheckWin(b, c, p) ==
    \E d \in Dirs : 1 + Run(b, c, d, p) + Run(b, c, <<-d[1], -d[2]>>, p) >= WinLen

\* isNearOccupied: one of the eight neighbours holds a stone.
IsNearOccupied(b, c) ==
    \E d \in ((-1..1) \X (-1..1)) \ {<<0, 0>>} :
        InBoard(Shift(c, d, 1)) /\ b[Shift(c, d, 1)] # EMPTY

EmptyCells(b) == {c \in Cells : b[c] = EMPTY}

\* The cell the row-major double loop of getBestMove meets first.
FirstOf(S) == CHOOSE c \in S : \A e \in S : c[1] * N + c[2] <= e[1] * N + e[2]

\* The cells where p's stone would win.
WinningCells(b, p) == {c \in EmptyCells(b) : CheckWin([b EXCEPT ![c] = p], c, p)}

\* Mutant: getBestMove blocks the human before it looks for its own win.
BestMovesBlockFirst(g) ==
    LET b == g.board
        cand == {c \in EmptyCells(b) : IsNearOccupied(b, c)}
    IN CASE WinningCells(b, HUMAN_PLAYER) # {} -> {FirstOf(WinningCells(b, HUMAN_PLAYER))}
         [] WinningCells(b, AI_PLAYER) # {}    -> {FirstOf(WinningCells(b, AI_PLAYER))}
         [] cand # {}                          -> cand
         [] OTHER                              -> EmptyCells(b)

\* getBestMove: the cells it may return.
BestMoves(g) ==
    LET b == g.board
        cand == {c \in EmptyCells(b) : IsNearOccupied(b, c)}
    IN CASE WinningCells(b, AI_PLAYER) # {}    -> {FirstOf(WinningCells(b, AI_PLAYER))}
         [] WinningCells(b, HUMAN_PLAYER) # {} -> {FirstOf(WinningCells(b, HUMAN_PLAYER))}
         [] cand # {}                          -> cand
         [] OTHER                              -> EmptyCells(b)

\* Place p's stone at c, count the move, and end the game if it wins.
Place(g, c, p, who) ==
    LET b == [g.board EXCEPT ![c] = p]
    IN [g EXCEPT !.board = b, !.count = g.count + 1, !.last = c,
                 !.over = CheckWin(b, c, p),
                 !.winner = IF CheckWin(b, c, p) THEN who ELSE g.winner]

\* humanMove, for a move isValidMove accepts.
HumanMove(g, c) == Place(g, c, HUMAN_PLAYER, "human")

\* aiMove with the cell getBestMove returned.
AiMove(g, c) == Place(g, c, AI_PLAYER, "ai")
-----------------------------------------------------------------------------
(* The handlers.                                                            *)

\* AiGameStartHandler: erase the user's game and insert a fresh one.
Start ==
    /\ present' = TRUE
    /\ game' = NewGame
    /\ UNCHANGED resp

\* A response that ends the game; game_map_.erase(userId) follows.
Finish(g, w, last) ==
    /\ resp' = [status |-> "ok", winner |-> w, board |-> g.board, last |-> last]
    /\ present' = FALSE
    /\ game' = NewGame

\* Mutant: the handler tests isDraw before isGameOver.
ReportDrawFirst(g, last, next) ==
    IF IsDraw(g) THEN Finish(g, "draw", last)
    ELSE IF g.over THEN Finish(g, g.winner, last)
    ELSE next

\* How the handler reports a game after a move: won, drawn, or going on.
Report(g, last, next) ==
    IF g.over THEN Finish(g, g.winner, last)
    ELSE IF IsDraw(g) THEN Finish(g, "draw", last)
    ELSE next

\* AiMoveHandler::handle with the coordinates of the request.
Move(c) ==
    LET g0 == IF present THEN game ELSE NewGame
    IN IF ~IsValidMove(g0, c)
       THEN /\ resp' = [NoResp EXCEPT !.status = "invalid"]
            /\ present' = TRUE
            /\ game' = g0
       ELSE LET g1 == HumanMove(g0, c) IN
            Report(g1, NoMove,
                   \E a \in BestMoves(g1) :
                      LET g2 == AiMove(g1, a) IN
                      Report(g2, a,
                             /\ resp' = [status |-> "ok", winner |-> "none",
                                         board |-> g2.board, last |-> a]
                             /\ present' = TRUE
                             /\ game' = g2))

Next ==
    \/ Start
    \/ \E c \in Cells \cup OffBoard : Move(c)

Spec == Init /\ [][Next]_vars
-----------------------------------------------------------------------------
(* Properties.                                                              *)

\* Reference definition of a win: WinLen stones of p on consecutive cells
\* of a row, column or diagonal.
HasLine(b, p) ==
    \E c \in Cells, d \in Dirs :
        \A i \in 0..(WinLen - 1) : InBoard(Shift(c, d, i)) /\ b[Shift(c, d, i)] = p

Stones(b, p) == Quantify(Cells, LAMBDA c : b[c] = p)

(* A game left in game_map_ between requests is still open: nobody has a  *)
(* line, the board is not full, both players have placed the same number  *)
(* of stones and moveCount_ counts them.  This rests on checkwin scanning  *)
(* both ways from the last stone, on moveCount_ being kept by humanMove   *)
(* and aiMove, and on AiMoveHandler erasing every finished game.          *)
LiveGameOpen ==
    present =>
        /\ ~HasLine(game.board, HUMAN_PLAYER)
        /\ ~HasLine(game.board, AI_PLAYER)
        /\ EmptyCells(game.board) # {}
        /\ Stones(game.board, HUMAN_PLAYER) = Stones(game.board, AI_PLAYER)
        /\ game.count = Stones(game.board, HUMAN_PLAYER) + Stones(game.board, AI_PLAYER)

(* A response that ends the game tells the truth about the board it       *)
(* returns: the named winner has a line and the other player none; a draw *)
(* is a full board without a line.                                        *)
EndReported ==
    /\ resp.winner = "human" =>
          HasLine(resp.board, HUMAN_PLAYER) /\ ~HasLine(resp.board, AI_PLAYER)
    /\ resp.winner = "ai" =>
          HasLine(resp.board, AI_PLAYER) /\ ~HasLine(resp.board, HUMAN_PLAYER)
    /\ resp.winner = "draw" =>
          /\ EmptyCells(resp.board) = {}
          /\ ~HasLine(resp.board, HUMAN_PLAYER) /\ ~HasLine(resp.board, AI_PLAYER)

\* The board the AI moved on: the response's board without its last move.
BeforeAi(r) == [r.board EXCEPT ![r.last] = EMPTY]

(* The AI never misses a win: when a response carries the AI's move and   *)
(* the board it moved on had a winning cell for it, the response          *)
(* announces the AI as the winner (getBestMove looks for its own win      *)
(* before it blocks the human's).                                          *)
AiTakesWin ==
    [][resp'.last # NoMove /\ WinningCells(BeforeAi(resp'), AI_PLAYER) # {}
         => resp'.winner = "ai"]_resp

=============================================================================
