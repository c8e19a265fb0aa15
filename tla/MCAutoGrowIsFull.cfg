\* One LState of two segments; PCalls of functions and of
\* values that cannot be called.
CONSTANTS
  Thread = {t1}
  Fn = {f1}
  Callee = {"function", "nonfunction"}
  FramesPerSegment = 2
  MaxSize = 3
  Segment = {s1, s2, s3, s4}
  NoSegment = nosegment
  NoFrame = noframe
  MaxDepth = 4
  MaxMarks = 1
SPECIFICATION Spec
INVARIANT IsFullBeforeOverflow
CHECK_DEADLOCK FALSE
