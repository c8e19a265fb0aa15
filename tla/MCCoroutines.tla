---------------------------- MODULE MCCoroutines ----------------------------
EXTENDS Coroutines

CONSTANTS m, c1, c2, none

MCCos == {c1, c2}
OneCo == {c1}
=============================================================================
