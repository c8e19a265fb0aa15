SPECIFICATION FairSpec
CONSTANTS
    plain = plain
    bounded = bounded
    direct = direct
    buffered = buffered
    Nil = Nil
    LStates <- MCOneLState
    WithContext <- MCWithContext
    Chans <- MCOneChan
    Cap <- MCCap
    MaxSends = 1
CHECK_DEADLOCK FALSE
PROPERTY
    CancelledAlwaysStops
