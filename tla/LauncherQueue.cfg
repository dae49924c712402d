\* Two clients and four files to run.
SPECIFICATION Spec
CONSTANTS
    c1 = c1
    c2 = c2
    Clients = {c1, c2}
    FileCount = 4
INVARIANTS
    ShortTimerHarmless
    RunOnce
PROPERTIES
    ExecutedIsKept
    ExecutedIsRun
