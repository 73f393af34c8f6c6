SPECIFICATION Spec
CONSTANTS
    e1 = e1  e2 = e2
    NoExc = NoExc  Panic = Panic  NoHalt = NoHalt  NoError = NoError
    N = 1
    Codes = {0}
    Exceptions = {e1, e2}
    Depth = 3
    RaiseLimit = 2
INVARIANTS ReraiseHasCurrent
