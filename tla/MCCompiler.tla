----------------------------- MODULE MCCompiler -----------------------------
(***************************************************************************)
(* VirtualMachine on the programs of MCPrograms, with a registry that has  *)
(* to grow and few constants and list items for what an instruction holds. *)
(***************************************************************************)
EXTENDS MCPrograms, VirtualMachine

NeverWritten == <<"nothing">>

AllPrograms == LET all == RightLoaded IN all
Miscompiled == LET all == WrongLoaded IN all
=============================================================================
