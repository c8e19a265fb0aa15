SPECIFICATION Spec
CONSTANTS
    Programs <- AllPrograms
    InitialSize = 4
    GrowBy = 4
    MaxSize = 64
    LNil <- Nil
    Empty <- NeverWritten
    MaxIndexRk = 2
    MaxArgC = 3
    FieldsPerFlush = 3
INVARIANTS
    TypeOK
    AgreesWithLua
PROPERTY
    ProgramsEnd
