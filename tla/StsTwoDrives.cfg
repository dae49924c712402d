\* Two drives, the second a memory card; one crash, or the card is taken out once.
SPECIFICATION FairSpec
CONSTANTS
    a1 = a1
    a2 = a2
    n1 = n1
    t1 = t1
    Drives = {1, 2}
    Files = {a1, a2, n1, t1}
    DriveOf <- TwoDriveOf
    Before <- OrigBefore
    Removable = {2}
    Calls <- RegisterCalls
    RetryCommit = FALSE
    MaxCalls = 4
    MaxCrashes = 1
    MaxFaults = 0
    MaxEjects = 1
    MaxMishaps = 1
INVARIANTS
    JournalListed
    AckedOutcome
PROPERTIES
    CommitBarrier
    JournalsFinish
\* A settled transaction has nothing more to do.
CHECK_DEADLOCK FALSE
