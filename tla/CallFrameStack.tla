--------------------------- MODULE CallFrameStack ---------------------------
(***************************************************************************)
(* What an LState asks of its call-frame stack (interface callFrameStack,  *)
(* src/state.go), whatever structure holds the frames: a bounded sequence  *)
(* that calls push on and returns pop from, and that PCall cuts back to    *)
(* the depth it saw when it was entered.                                   *)
(*                                                                         *)
(* Every action is one client operation of the stack: a call, the tail     *)
(* call of a Go function, a return, a protected call, a raised error.      *)
(***************************************************************************)
EXTENDS Sequences, Naturals

CONSTANTS
  Fn,        \* what tells one frame from another: the function it runs
  MaxDepth   \* how many frames the stack can hold

VARIABLES
  frames,    \* the live frames, oldest first
  marks      \* the depth each PCall in progress was entered at, oldest first

vars == <<frames, marks>>

Depth == Len(frames)

Full == Depth >= MaxDepth

\* The depth no return or tail call may dig below: that of the last PCall.
Floor == IF marks = <<>> THEN 0 ELSE marks[Len(marks)]

DropMark == marks' = SubSeq(marks, 1, Len(marks) - 1)

TypeOK ==
  /\ frames \in Seq(Fn)
  /\ marks \in Seq(Nat)

Init ==
  /\ frames = <<>>
  /\ marks = <<>>

\* pushCallFrame with room for the frame.
Call(f) ==
  /\ ~Full
  /\ frames' = Append(frames, f)
  /\ UNCHANGED marks

\* callGFunction with tailcall set: the caller's frame goes, the callee stays.
TailCall ==
  /\ Depth >= Floor + 2
  /\ frames' = Append(SubSeq(frames, 1, Depth - 2), frames[Depth])
  /\ UNCHANGED marks

\* A return that leaves the last PCall in progress.
Return ==
  /\ Depth >= Floor + (IF marks = <<>> THEN 1 ELSE 2)
  /\ frames' = SubSeq(frames, 1, Depth - 1)
  /\ UNCHANGED marks

\* PCall of a callable value: the depth is marked, the callee pushed.
Protect(f) ==
  /\ ~Full
  /\ marks' = Append(marks, Depth)
  /\ frames' = Append(frames, f)

\* PCall whose callee could not be pushed: everything is as before it.
ProtectFails == UNCHANGED vars

\* The function called by the last PCall returns, and PCall with it.
ReturnProtected ==
  /\ marks # <<>>
  /\ Depth = Floor + 1
  /\ frames' = SubSeq(frames, 1, Depth - 1)
  /\ DropMark

\* An error unwinds to the last PCall, dropping every frame above its mark.
Raise ==
  /\ marks # <<>>
  /\ frames' = SubSeq(frames, 1, Floor)
  /\ DropMark

\* LState.Close.
Close ==
  /\ frames' = <<>>
  /\ marks' = <<>>

Next ==
  \/ \E f \in Fn : Call(f) \/ Protect(f)
  \/ TailCall \/ Return \/ ReturnProtected \/ Raise \/ ProtectFails \/ Close

Spec == Init /\ [][Next]_vars
=============================================================================
