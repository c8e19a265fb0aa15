------------------------ MODULE MCAutoGrowFrameStack ------------------------
(* AutoGrowFrameStack on segments of two frames, so that every operation     *)
(* crosses segment boundaries both ways.                                     *)
EXTENDS AutoGrowFrameStack, TLC

SegmentSymmetry == Permutations(Segment)
=============================================================================
