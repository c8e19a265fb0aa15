\* Four properties the code does not have; check them one at a time.
CONSTANTS
  Number <- MCNumber
  Other = {}
  Value = {a, b}
  LNil = lnil
  MaxArrayIndex = 3
  MaxLength = 4
SPECIFICATION Spec
PROPERTY RemovesLast
\* PROPERTY PushIsFound
\* INVARIANT NextMissesNothing
\* INVARIANT GetsAgree
