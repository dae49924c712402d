SPECIFICATION Spec

CONSTANTS
    Word = 12
    MaxAge = 5
    MaxActive = 4

INVARIANTS
    EveryActiveFound
