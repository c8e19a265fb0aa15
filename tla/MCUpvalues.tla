----------------------------- MODULE MCUpvalues -----------------------------
(* Upvalues with two values, which no definition tells apart. *)
EXTENDS Upvalues, TLC

ValueSymmetry == Permutations(Value)
=============================================================================
