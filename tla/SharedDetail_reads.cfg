SPECIFICATION DetailSpec
CONSTANTS
    e1 = e1  i1 = i1  v1 = v1  v2 = v2  h1 = h1  h2 = h2
    Entries <- MCEntries
    Issuers <- MCIssuers
    Verifiers <- TwoVerifiers
    Hashes <- MCHashes
    Retention = 1
    MaxVersion = 3
    MaxClock = 2
INVARIANT HeadIsNewest
PROPERTY RecentReadersNotTold404
