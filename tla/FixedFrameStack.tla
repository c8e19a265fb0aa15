--------------------------- MODULE FixedFrameStack ---------------------------
(***************************************************************************)
(* fixedCallFrameStack (src/state.go): one preallocated array and a stack  *)
(* pointer, driven by the operations the LState performs on it.  Slots at  *)
(* and above sp keep the frames of calls that are over.                    *)
(***************************************************************************)
EXTENDS Sequences, Naturals

CONSTANTS
  Fn,         \* the functions frames run
  MaxDepth,   \* Options.CallStackSize
  NoFn,       \* the zero value of a slot never written
  MaxMarks    \* bound: PCalls nested at once

ASSUME FixedAssumption ==
  /\ MaxDepth \in Nat \ {0}
  /\ MaxMarks \in Nat
  /\ NoFn \notin Fn

VARIABLES
  array,      \* array[i]: the frame in slot i, 0-based
  sp,         \* the next slot to push in
  marks       \* the sp every PCall in progress saved

vars == <<array, sp, marks>>

Slots == 0 .. MaxDepth - 1

Init ==
  /\ array = [i \in Slots |-> NoFn]
  /\ sp = 0
  /\ marks = <<>>

-----------------------------------------------------------------------------
(* The operations of the structure. *)

\* Mutant: one frame too late.
LateIsFull == sp > MaxDepth

IsFull == sp = MaxDepth

Push(f) ==
  /\ array' = [array EXCEPT ![sp] = f]
  /\ sp' = sp + 1

Pop ==
  /\ sp' = sp - 1
  /\ UNCHANGED array

\* Mutant: the callee of PCall is not dropped.
SetSpOneMore(n) ==
  /\ sp' = n + 1
  /\ UNCHANGED array

SetSp(n) ==
  /\ sp' = n
  /\ UNCHANGED array

\* RemoveCallerFrame: *At(sp-2) = *At(sp-1), then Pop.
RemoveCallerFrame ==
  /\ array' = [array EXCEPT ![sp - 2] = array[sp - 1]]
  /\ sp' = sp - 1

-----------------------------------------------------------------------------
(* The operations of the LState. *)

Floor == IF marks = <<>> THEN 0 ELSE marks[Len(marks)]

DropMark == marks' = SubSeq(marks, 1, Len(marks) - 1)

Call(f) ==
  /\ ~IsFull
  /\ Push(f)
  /\ UNCHANGED marks

TailCall ==
  /\ sp >= Floor + 2
  /\ RemoveCallerFrame
  /\ UNCHANGED marks

Return ==
  /\ sp >= Floor + (IF marks = <<>> THEN 1 ELSE 2)
  /\ Pop
  /\ UNCHANGED marks

\* Mutant: sp is saved after the callee is pushed.
LateProtect(f) ==
  /\ Len(marks) < MaxMarks
  /\ ~IsFull
  /\ marks' = Append(marks, sp + 1)
  /\ Push(f)

\* PCall: sp is saved, pushCallFrame finds room.
Protect(f) ==
  /\ Len(marks) < MaxMarks
  /\ ~IsFull
  /\ marks' = Append(marks, sp)
  /\ Push(f)

\* PCall: sp is saved, pushCallFrame raises before it pushes (the value is no
\* function, or the stack is full), PCall recovers and restores sp.
ProtectFails ==
  /\ Len(marks) < MaxMarks
  /\ SetSp(sp)
  /\ UNCHANGED marks

\* The callee of PCall pops its frame; the deferred function of PCall then
\* restores sp.
ReturnProtected ==
  /\ marks # <<>>
  /\ sp = Floor + 1
  /\ SetSp(Floor)
  /\ DropMark

Raise ==
  /\ marks # <<>>
  /\ SetSp(Floor)
  /\ DropMark

Next ==
  \/ \E f \in Fn : Call(f) \/ Protect(f)
  \/ TailCall \/ Return \/ ReturnProtected \/ Raise \/ ProtectFails

Spec == Init /\ [][Next]_vars

-----------------------------------------------------------------------------
\* What the rest of the program sees: the slots below sp.
Frames == [i \in 1 .. sp |-> array[i - 1]]

Abstract == INSTANCE CallFrameStack WITH frames <- Frames

\* The array and its pointer are a bounded stack that PCall unwinds to exactly
\* the depth it marked (newFixedCallFrameStack and its methods).
AbstractSpec == Abstract!Spec

\* The slots are frames or never written, sp stays within the array.
TypeOK ==
  /\ array \in [Slots -> Fn \cup {NoFn}]
  /\ sp \in 0 .. MaxDepth
  /\ marks \in Seq(0 .. MaxDepth)

\* PCall always finds its mark at or below the present depth, and the marks of
\* nested PCalls in the order they were entered in: restoring sp (SetSp) only
\* ever unwinds, it never revives the slot of a call that is over.
MarksNested ==
  /\ \A i \in 1 .. Len(marks) : marks[i] < sp
  /\ \A i, j \in 1 .. Len(marks) : i < j => marks[i] < marks[j]
=============================================================================
