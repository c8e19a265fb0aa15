SPECIFICATION Spec
CONSTANTS
    x = x
    LNil = LNil
    Empty = Empty
    Values <- MCValues
    Functions <- MCFixedFunctions
    Wants <- MCSomeWants
    InitialSize = 3
    GrowBy = 2
    MaxSize = 5
    MaxFrames = 3
    MaxLive = 2
INVARIANTS
    TypeOK
    Initialised
PROPERTY
    ImplementsLuaCalls
