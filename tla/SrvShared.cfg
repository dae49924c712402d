\* Three sessions that create and share two transactions, identifiers that come again; one
\* death of the server, any number of its exits, and two failures.
SPECIFICATION FairSpec
CONSTANTS
    s1 = s1
    s2 = s2
    s3 = s3
    i1 = i1
    i2 = i2
    none = none
    Sessions = {s1, s2, s3}
    Ids = {i1, i2}
    NoId = none
    MaxOps = 3
    MaxCreates = 2
    MaxOpens = 2
    MaxCrashes = 1
    MaxFaults = 2
INVARIANTS
    RefsExact
    BeginsEmpty
    NothingLeftBehind
    AllTogether
PROPERTIES
    ResolvedByHolder
    AllResolved
