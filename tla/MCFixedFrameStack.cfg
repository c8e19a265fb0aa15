\* A stack of four frames, calls of two functions, three PCalls at once.
CONSTANTS
  Fn = {f1, f2}
  MaxDepth = 4
  NoFn = none
  MaxMarks = 3
SPECIFICATION Spec
INVARIANTS TypeOK MarksNested
PROPERTY AbstractSpec
