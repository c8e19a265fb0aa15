----------------------------- MODULE MCRegistry -----------------------------
(* A Go function, a Lua function with fixed parameters and one with extra  *)
(* ones.                                                                   *)
EXTENDS Registry

CONSTANT x

MCValues == {x}

GoFunction == [isG |-> TRUE, np |-> 0, vararg |-> FALSE, used |-> 0]
FixedFunction == [isG |-> FALSE, np |-> 1, vararg |-> FALSE, used |-> 2]
VarArgFunction == [isG |-> FALSE, np |-> 1, vararg |-> TRUE, used |-> 2]

MCFunctions == {GoFunction, FixedFunction, VarArgFunction}
MCFixedFunctions == {GoFunction, FixedFunction}

MCWants == {MultRet}
MCSomeWants == {MultRet, 2}
=============================================================================
