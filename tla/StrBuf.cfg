CONSTANTS
    W = 16
    IntW = 8
    MinCapacity = 4
    InitSize = {1, 4, 8, 16, 40}
    Piece <- MCPiece
    MaxTotal = 18
    Heap = 64
SPECIFICATION Spec
INVARIANTS
    FitsBelowHalfWord
    TextIsKept
