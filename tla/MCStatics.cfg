SPECIFICATION Spec
CONSTANTS
    Workers = {}
    Entry = Entry
    Nobody = Nobody
    VcrtLocks = 1
    AcrtLocks = 3
    Statics = 2
CHECK_DEADLOCK FALSE
INVARIANTS
    StaticsDestroyed
