SPECIFICATION FairSpec
CONSTANTS
    Threads = {t1, t2, t3}
    NoThread = NoThread
    Nesting <- MCNesting
INVARIANTS
    TypeOK
    MutualExclusion
    StampTruthful
    NoSelfSpin
PROPERTIES
    ImplementsLock
    SomeoneGetsIn
