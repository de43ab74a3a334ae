SPECIFICATION FairPollSpec
CONSTANTS
    w1 = w1  w2 = w2  w3 = w3
    Writers <- Three
    MaxSeq = 3
    Limit = 0
    MaxLimit = 2
INVARIANT PollTypeOK
INVARIANT Rooted
INVARIANT ForksBounded
INVARIANT SkippedRowsForked
PROPERTY ReaderReachesRows
CHECK_DEADLOCK FALSE
