\* One LState, three segments of two frames; PCalls of functions only.
CONSTANTS
  Thread = {t1}
  Fn = {f1, f2}
  Callee = {"function"}
  FramesPerSegment = 2
  MaxSize = 5
  Segment = {s1, s2, s3, s4}
  NoSegment = nosegment
  NoFrame = noframe
  MaxDepth = 6
  MaxMarks = 2
SPECIFICATION Spec
SYMMETRY SegmentSymmetry
PROPERTY AbstractSpec
CHECK_DEADLOCK FALSE
