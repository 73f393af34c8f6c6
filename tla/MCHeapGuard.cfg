SPECIFICATION MCFairSpec
CONSTANTS
    t1 = t1  t2 = t2
    p1 = p1  p2 = p2  p3 = p3  p4 = p4
    NoPtr = NoPtr
    Threads <- TwoThreads
    Ptrs <- FourPtrs
    Hash <- HashPair
    Slots = {1, 2, 3}
    K = 2
    Sat = 2
    AllocLimit = 4
    StaleLimit = 3
CHECK_DEADLOCK FALSE
INVARIANTS CorrectFreeNotCaught AccountsExact MissOnlyByAliasing RefusalsBounded
PROPERTIES CallsReturn
