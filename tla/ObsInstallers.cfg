\* Two installers and two plugins; one crash, failure or backup anywhere.
SPECIFICATION FairSpec
CONSTANTS
    c1 = c1
    c2 = c2
    Clients = {c1, c2}
    Plugins = 2
    Contents <- SomeContents
    MaxLogs = 2
    MaxMishaps = 1
INVARIANTS
    ToldInOrder
    StartedFirst
    AloneOnlyCommitted
PROPERTIES
    DeletedWhenHeard
    FirstWaiterServed
    AloneProcessed
CHECK_DEADLOCK FALSE
