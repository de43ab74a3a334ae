SPECIFICATION Spec
CONSTANTS
    a1 = a1  a2 = a2  p1 = p1  p2 = p2  c1 = c1  c2 = c2
    None = None
    Roots <- MCRoots
    Updates <- MCUpdates
    Initial <- A
    DevRoots <- MCDevRoots
    Admins <- One
    MaxBegun = 3
    Keys <- MCKeys
    Records <- MCRecords
    DevRecords <- MCDevRecords
    Times <- MCEarlier
    Publishers <- OnePublisher
    Resolvers <- OneResolver
    MaxAge = 1
    CacheTtl = 1
    MaxClock = 2
INVARIANT ServedKeysAreActive
CHECK_DEADLOCK FALSE
