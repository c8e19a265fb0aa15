SPECIFICATION Spec
CONSTANTS
    x = x
    LNil = LNil
    Empty = Empty
    Values <- MCValues
    Functions <- MCFixedFunctions
    Wants <- MCWants
    InitialSize = 2
    GrowBy = 1
    MaxSize = 3
    MaxFrames = 3
    MaxLive = 2
INVARIANT
    WithinMaxSize
