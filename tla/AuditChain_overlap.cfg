SPECIFICATION Spec
CONSTANTS
    w1 = w1  w2 = w2  w3 = w3
    Writers <- Three
    MaxSeq = 4
INVARIANT TypeOK
INVARIANT Rooted
INVARIANT ForksBounded
SYMMETRY WriterSymmetry
CHECK_DEADLOCK FALSE
