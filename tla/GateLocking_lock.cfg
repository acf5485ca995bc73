CONSTANTS
    p1 = p1  p2 = p2  p3 = p3  n1 = n1  n2 = n2  w1 = w1  w2 = w2
    NoWriter = NoWriter
    PlainReaders = {p1, p2}
    NestedReaders = {n1, n2}
    Writers = {w1, w2}
SPECIFICATION FairSpec
PROPERTY OnlyNestingBlocks
CHECK_DEADLOCK FALSE
