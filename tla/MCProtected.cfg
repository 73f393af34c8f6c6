SPECIFICATION Spec
CONSTANTS
    e1 = e1  e2 = e2
    NoExc = NoExc  Panic = Panic  NoHalt = NoHalt  NoError = NoError
    N = 2
    Codes = {0, 3}
    Exceptions = {e1, e2}
    Depth = 4
    RaiseLimit = 3
SYMMETRY ExceptionSymmetry
INVARIANTS ModulesFinalized RunTold
INVARIANTS CurrentException FramesFreed HaltStopsBodies
