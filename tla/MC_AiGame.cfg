\* A 3x3 board on which three in a row wins, so that wins, blocks, double
\* threats and full boards are all reached; one request past the edge.
CONSTANTS
    N = 3
    WinLen = 3
    OffBoard <- MCOffBoard
SPECIFICATION Spec
INVARIANT LiveGameOpen
INVARIANT EndReported
PROPERTY AiTakesWin
