------------------------ MODULE AsymmetricCoroutines ------------------------
(* What the threads of one Lua state promise: exactly one of them runs, a     *)
(* suspended one may be resumed by the one that runs, control comes back to   *)
(* the resumer when the resumed thread yields, and for good when it ends.     *)

CONSTANTS
  Threads,
  Main,     \* the thread the host program starts with
  None

VARIABLES
  running,  \* the thread that runs
  resumer,  \* who waits for a thread, None when nobody does
  dead      \* the threads that ended

vars == <<running, resumer, dead>>

Suspended(t) == t # Main /\ t # running /\ t \notin dead /\ resumer[t] = None

Init ==
  /\ running = Main
  /\ resumer = [t \in Threads |-> None]
  /\ dead = {}

Resume(t) ==
  /\ Suspended(t)
  /\ running' = t
  /\ resumer' = [resumer EXCEPT ![t] = running]
  /\ UNCHANGED dead

GiveBack ==
  /\ resumer[running] # None
  /\ running' = resumer[running]
  /\ resumer' = [resumer EXCEPT ![running] = None]

Yield == GiveBack /\ UNCHANGED dead

End == GiveBack /\ dead' = dead \cup {running}

Next == Yield \/ End \/ \E t \in Threads : Resume(t)

Spec == Init /\ [][Next]_vars
=============================================================================
