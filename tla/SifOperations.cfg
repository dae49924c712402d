\* Two installers, two keys and one notifier.
SPECIFICATION Spec
CONSTANTS
    p1 = p1
    p2 = p2
    Publishers = {p1, p2}
    KeyCount = 2
    Nobody = Nobody
\* The installers are done once they have published an operation each.
CHECK_DEADLOCK FALSE
INVARIANTS
    KeysDisjoint
    InStep
PROPERTIES
    KeyComesBack
    RunningTold
