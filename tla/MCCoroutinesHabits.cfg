\* One habit of programs at a time, and the property it breaks: give Habits
\* the value, and check the property, of one line.
\*   Habits = {"crossGo"}       INVARIANTS InsideHasParent
\*   Habits = {}                INVARIANTS DeadIsReported
\*   Habits = {"skipOpenLibs"}  INVARIANTS FrameOnTop
\*   Habits = {"goMain"}        PROPERTIES ReportsStatus
\*   Habits = {"tailYield"}     PROPERTIES ReportsStatus
\*   Habits = {"resumeNormal"}  INVARIANTS ResumedOnce, with Cos <- MCCos
CONSTANTS
  m = m
  c1 = c1
  c2 = c2
  none = none
  Main <- m
  Cos <- OneCo
  None <- none
  Habits = {"crossGo"}
  MaxDepth = 3
  MaxGo = 7
SPECIFICATION Spec
INVARIANTS InsideHasParent
CHECK_DEADLOCK FALSE
