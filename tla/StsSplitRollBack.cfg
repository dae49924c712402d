\* Two drives and one crash.
SPECIFICATION Spec
CONSTANTS
    a1 = a1
    a2 = a2
    n1 = n1
    t1 = t1
    Drives = {1, 2}
    Files = {a1, a2, t1}
    DriveOf <- TwoDriveOf
    Before <- OrigBefore
    Removable = {}
    Calls <- RegisterCalls
    RetryCommit = FALSE
    MaxCalls = 3
    MaxCrashes = 1
    MaxFaults = 0
    MaxEjects = 0
    MaxMishaps = 1
INVARIANTS
    Atomic
\* A settled transaction has nothing more to do.
CHECK_DEADLOCK FALSE
