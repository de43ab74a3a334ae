SPECIFICATION ListSpec
CONSTANTS
    i1 = i1  v1 = v1  None = None
    Entries <- MCEntries
    Issuers <- MCIssuers
    Verifiers <- MCVerifiers
    Hashes <- MCHashes
    Reader = v1
    CreatedAt <- MCCreatedAt
    Limit = 1
    Retention = 1
    MaxVersion = 2
CHECK_DEADLOCK FALSE
INVARIANT SinceRespected
