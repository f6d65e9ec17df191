CONSTANTS
    PTR_SZ = 2
    W = 128
    HEAP_MAXREQ = 120
    Identifiers = {"f", "v", "g", "foo", "bar", "ns", "cls", "A1", "c1", "c2", "c3", "c4", "c5", "c6", "c7", "c8", "c9", "c10", "c11", "c12"}
    Threads = {t1, t2}
    Pointers = {p1, p2}
    Memory = {b1}
    None = None
    Unborn = Unborn
    Null = Null
INIT Init
NEXT Next
INVARIANT UnsizedFindsInRange
CHECK_DEADLOCK FALSE
