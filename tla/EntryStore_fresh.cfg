SPECIFICATION FairSpec
CONSTANTS
    e1 = e1  i1 = i1  i2 = i2  v1 = v1  v2 = v2  h1 = h1  h2 = h2  t1 = t1  t2 = t2
    None = None
    Entries <- MCEntries
    Issuers <- MCIssuers
    Verifiers <- MCVerifiers
    Hashes <- MCHashes
    Threads <- MCThreads
    Updates <- MCUpdates
    Creates <- FreshCreates
    Retention = 1
    MaxVersion = 3
    MaxClock = 2
INVARIANT TypeOK
INVARIANT ReadersAreRecipients
PROPERTY ImplementsRegistry
PROPERTY RequestsEnd
