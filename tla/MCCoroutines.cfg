CONSTANTS
  m = m
  c1 = c1
  c2 = c2
  none = none
  Main <- m
  Cos <- MCCos
  None <- none
  Habits = {}
  MaxDepth = 3
  MaxGo = 9
SPECIFICATION Spec
INVARIANTS TypeOK ActivationsMatchThreads FinishedIsDead ResumedOnce
PROPERTIES ReportsStatus TakesTurns
CHECK_DEADLOCK FALSE
