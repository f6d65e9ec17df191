SPECIFICATION Spec
CONSTANTS
    Objs = {o1, o2, o3}
    Cids = {c1, c2}
    Blocks = {b1, b2, b3, b4}
    Null = Null
    NoCid = NoCid
    Empty = Empty
    StackDepth = 2
SYMMETRY Perms
CHECK_DEADLOCK FALSE
INVARIANTS
    TypeOK
    OwnData
    EntryPinsThread
    UniqueIds
    ReferencesBalance
    ListedIsLive
    NoPtdLost
PROPERTIES
    SamePtdAgain
    ImplementsPerThread
