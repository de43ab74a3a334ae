SPECIFICATION FairSpec
CONSTANTS
    MaxAttempts = 3
    Pages = 3
    Mobile = TRUE
INVARIANT TypeOK
INVARIANT KeysAreHeld
INVARIANT PagesInOrder
PROPERTY PlaintextNeedsSession
PROPERTY SessionsEnd
PROPERTY ImplementsVault
