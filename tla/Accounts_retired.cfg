SPECIFICATION Spec
CONSTANTS
    k1 = k1  k2 = k2  n1 = n1  n2 = n2  t1 = t1  t2 = t2  t3 = t3
    None = None
    Threads <- TwoThreads
    Keys <- TwoKeys
    FirstKey = k1
    Nonces <- TwoNonces
    MaxFailures = 2
    Lockout = 1
    NonceTtl = 1
    SessionTtl = 1
    MaxClock = 1
INVARIANT RetiredKeysStayRetired
SYMMETRY MCSymmetry
CHECK_DEADLOCK FALSE
