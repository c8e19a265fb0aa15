SPECIFICATION FairSpec
CONSTANTS
    plain = plain
    bounded = bounded
    direct = direct
    buffered = buffered
    Nil = Nil
    LStates <- MCLStates
    WithContext <- MCWithContext
    Chans <- MCChans
    Cap <- MCCap
    MaxSends = 1
CHECK_DEADLOCK FALSE
INVARIANTS
    TypeOK
    TakenIsReturned
    OnlySafeTravels
PROPERTIES
    FalseMeansOver
    CancelledStops
