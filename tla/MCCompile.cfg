SPECIFICATION MCSpec
CONSTANTS
    ma = ma  mb = mb  mc = mc  p1 = p1  p2 = p2
    Names = {1, 2, 3, 4}
    Intrinsic = {4}
    Roots = {3}
    Modules = {ma, mb, mc}
    Graphs <- ChainAndCircle
    Versions = {1, 2}
    Procs = {p1, p2}
    BuildLimit = 3
    EditLimit = 1
    CheckLimit = 3
    BodyLimit = 3
    Wide = 16
    Narrow = 4
    Procedures <- MCProcedures
    Loops <- MCLoops
    ValueLimit = 40
    Operands <- MCOperands
    Programs <- MCPrograms
    ChunkLimit = 5
    PieceLimit = 4
    TextPieces <- MCPieces
    Predefined <- MCEnv
    Legible <- MCReadable
    Satisfied <- MCHolds
    Introduces <- MCDefines
    Named = {"B"}
SYMMETRY ProcSymmetry
INVARIANTS SceneTypes ImportsFirst GraphComplete DefsFresh OneIdentity WarningsReal
INVARIANTS CodeFollowsSource FunctionsReturn ReleasedOnce EveryValueOnce ArithmeticFolds
INVARIANTS ReadsBack BranchesChosen WrittenAsMeant
CHECK_DEADLOCK FALSE
