\* Two LStates of two segments each over one pool; PCalls of functions and of
\* values that cannot be called.
CONSTANTS
  Thread = {t1, t2}
  Fn = {f1}
  Callee = {"function", "nonfunction"}
  FramesPerSegment = 2
  MaxSize = 3
  Segment = {s1, s2, s3, s4}
  NoSegment = nosegment
  NoFrame = noframe
  MaxDepth = 4
  MaxMarks = 1
SYMMETRY SegmentSymmetry
SPECIFICATION Spec
INVARIANTS TypeOK SegmentsAllocated NoAliasing FramesLinked
PROPERTY PoppedFrameKept
CHECK_DEADLOCK FALSE
