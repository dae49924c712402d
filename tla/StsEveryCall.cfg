\* One drive; every call; two crashes or I/O errors anywhere; commits are called again.
SPECIFICATION Spec
CONSTANTS
    a1 = a1
    a2 = a2
    n1 = n1
    t1 = t1
    Drives = {1}
    Files = {a1, a2, n1, t1}
    DriveOf <- OneDriveOf
    Before <- OrigBefore
    Removable = {}
    Calls <- EveryCall
    RetryCommit = TRUE
    MaxCalls = 4
    MaxCrashes = 2
    MaxFaults = 2
    MaxEjects = 0
    MaxMishaps = 2
INVARIANTS
    NoOriginalLost
    OneOrphanPerCrash
    AckedOutcome
PROPERTIES
    CommittedNotUndone
    SpoiltByRecommit
\* A settled transaction has nothing more to do.
CHECK_DEADLOCK FALSE
