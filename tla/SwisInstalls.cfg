\* Two clients, a package with one embedded, two failures and one end of the process.
\* Every client is done after one operation.
SPECIFICATION FairSpec
CONSTANTS
    s1 = s1
    s2 = s2
    None = None
    Sessions = {s1, s2}
    Apps = 2
    MaxFaults = 2
    MaxDeaths = 1
CHECK_DEADLOCK FALSE
INVARIANTS
    ToldTruth
    TornOnlyInWindow
PROPERTIES
    EveryoneTold
    LockFreed
