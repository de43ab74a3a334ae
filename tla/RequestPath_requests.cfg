SPECIFICATION FairSpec
CONSTANTS
    q1 = q1  q2 = q2  None = None
    Requests <- Two
    PoolSize = 2
    Capacity = 6
    Cost = 3
    Milli = 2
    Second = 2
    MaxClock = 4
INVARIANT TypeOK
INVARIANT GrantsBounded
INVARIANT SustainedRate
PROPERTY RetryAfterHonored
PROPERTY RequestsAnswered
