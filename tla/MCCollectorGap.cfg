SPECIFICATION GapSpec
CONSTANTS
    node = node  pair = pair
    w1 = w1  w2 = w2  r1 = r1
    b0 = b0  b1 = b1  b2 = b2  o1 = o1  o2 = o2
    Size = 7
    Types = {node, pair}
    Total <- OddTotal
    Fields <- OneField
    AllFields = {1}
    Words = {w1, w2}
    Roots = {r1}
    NoBox = NoBox
    Boxes = {b0}
    Objs = {o1}
INVARIANTS ReachableKept
CHECK_DEADLOCK FALSE
