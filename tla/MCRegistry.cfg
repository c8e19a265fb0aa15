SPECIFICATION Spec
CONSTANTS
    x = x
    LNil = LNil
    Empty = Empty
    Values <- MCValues
    Functions <- MCFunctions
    Wants <- MCWants
    InitialSize = 2
    GrowBy = 2
    MaxSize = 6
    MaxFrames = 3
    MaxLive = 2
INVARIANTS
    TypeOK
    Initialised
PROPERTY
    ImplementsLuaCalls
