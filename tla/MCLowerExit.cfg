SPECIFICATION MCSpec
CONSTANTS
    ma = ma  mb = mb  mc = mc  p1 = p1  p2 = p2
    Names = {1}
    Intrinsic = {}
    Roots = {}
    Modules = {ma, mb, mc}
    Graphs <- ChainAndCircle
    Versions = {1}
    Procs = {p1}
    BuildLimit = 2
    EditLimit = 1
    CheckLimit = 1
    BodyLimit = 1
    Wide = 16
    Narrow = 4
    Procedures <- MCProcedures
    Loops = {}
    ValueLimit = 40
    Operands = {}
    Programs = {}
    ChunkLimit = 0
    PieceLimit = 0
    TextPieces = {}
    Predefined <- MCEnv
    Legible <- MCReadable
    Satisfied <- MCHolds
    Introduces <- MCDefines
    Named = {}
INVARIANT ExitLeavesLoop
CHECK_DEADLOCK FALSE
