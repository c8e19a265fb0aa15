\* Each of the programs ends otherwise than it should.
SPECIFICATION Spec
CONSTANTS
    Programs <- Miscompiled
    InitialSize = 4
    GrowBy = 4
    MaxSize = 64
    LNil <- Nil
    Empty <- NeverWritten
    MaxIndexRk = 2
    MaxArgC = 3
    FieldsPerFlush = 3
INVARIANT AgreesWithLua
