\* One drive; clients that register a file before they write it; one crash.
SPECIFICATION FairSpec
CONSTANTS
    a1 = a1
    a2 = a2
    n1 = n1
    t1 = t1
    Drives = {1}
    Files = {a1, a2, n1, t1}
    DriveOf <- OneDriveOf
    Before <- OrigBefore
    Removable = {}
    Calls <- RegisterCalls
    RetryCommit = FALSE
    MaxCalls = 4
    MaxCrashes = 1
    MaxFaults = 0
    MaxEjects = 0
    MaxMishaps = 1
INVARIANTS
    JournalOutlivesBackups
PROPERTIES
    ImplementsAtomic
\* A settled transaction has nothing more to do.
CHECK_DEADLOCK FALSE
