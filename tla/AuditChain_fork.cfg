SPECIFICATION Spec
CONSTANTS
    w1 = w1  w2 = w2  w3 = w3
    Writers <- Three
    MaxSeq = 3
INVARIANT WritersSerialized
CHECK_DEADLOCK FALSE
