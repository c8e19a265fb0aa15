------------------------------ MODULE MCLTable ------------------------------
(* Keys below the array's range, in it, at MaxArrayIndex and above, and       *)
(* values that no definition tells apart.                                     *)
EXTENDS LTable, TLC

MCNumber == 0 .. 4
ValueSymmetry == Permutations(Value)
=============================================================================
