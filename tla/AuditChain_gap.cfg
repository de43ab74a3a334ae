SPECIFICATION Spec
CONSTANTS
    w1 = w1  w2 = w2  w3 = w3
    Writers <- Alone
    MaxSeq = 3
INVARIANT HashedSeqIsStored
CHECK_DEADLOCK FALSE
