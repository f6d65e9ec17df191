SPECIFICATION Spec
CONSTANTS
    Threads = {t1, t2, t3}
    Entry = t1
    Blocks = {b1, b2, b3, b4}
    Null = Null
SYMMETRY Perms
CHECK_DEADLOCK FALSE
INVARIANTS
    TypeOK
    SlotIsOwn
PROPERTIES
    NoPtdLostByFailure
