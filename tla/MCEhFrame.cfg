SPECIFICATION Spec
CONSTANTS
    Prog <- MCProg
    Catchable <- MCCatchable
    MaxRaises = 3
    MaxFrames = 4
INVARIANTS
    TypeOK
    RightHandlerIfTrusted
    LiveIsActive
    ChainIsHandlers
    CountBalanced
    ObjectsExist
    ParentStateFresh
PROPERTIES
    ImplementsScopes
    ComesBack
