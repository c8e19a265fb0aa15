------------------------- MODULE AutoGrowFrameStack -------------------------
(***************************************************************************)
(* autoGrowingCallFrameStack (src/state.go), the call-frame stack of an    *)
(* LState created with Options.MinimizeStackMemory: segments of            *)
(* FramesPerSegment frames, taken from and given back to segmentPool,      *)
(* which every LState of the process shares.                               *)
(*                                                                         *)
(* A stack is driven by the operations its LState performs on it: calls,   *)
(* returns, tail calls of Go functions, PCall and the errors that unwind   *)
(* to it, Close.  Segments are kept apart from the stacks that point to    *)
(* them, so that a segment in two places at once would show.               *)
(***************************************************************************)
EXTENDS Integers, Sequences, FiniteSets

CONSTANTS
  Thread,     \* the LStates, one stack each
  Fn,         \* the functions frames run
  Callee,     \* what a PCall is given: a subset of {"function", "nonfunction"}
  FramesPerSegment,
  MaxSize,    \* Options.CallStackSize
  Segment,    \* the segments there are: in a stack, in the pool, or garbage
  NoSegment,  \* the nil segment pointer
  NoFrame,    \* a slot of a segment that was never written
  MaxDepth,   \* bound: no call is made at this depth or above
  MaxMarks    \* bound: PCalls nested at once in a thread

NumSegments == (MaxSize + (FramesPerSegment - 1)) \div FramesPerSegment

Capacity == NumSegments * FramesPerSegment

SegIdx == 0 .. NumSegments - 1
Slot == 0 .. FramesPerSegment - 1

\* segSp is a uint8 and segIdx a uint16: the constants of a build keep both
\* from wrapping.
ASSUME AutoGrowAssumption ==
  /\ FramesPerSegment \in 1 .. 255
  /\ MaxSize \in Nat \ {0}
  /\ NumSegments \in 1 .. 65536
  /\ NoSegment \notin Segment
  /\ Callee \subseteq {"function", "nonfunction"}
  /\ MaxDepth \in Nat
  /\ MaxMarks \in Nat

Frame == [fn : Fn, idx : Int, parent : Int]

VARIABLES
  segments,   \* segments[t][i]: the segment pointers of t's stack
  segIdx,     \* segIdx[t]: the segment the next frame goes to
  segSp,      \* segSp[t]: how many of its frames are used
  content,    \* content[s][j]: the frames of segment s, dead ones included
  pool,       \* segmentPool
  marks,      \* marks[t]: the sp saved by each PCall in progress
  closed      \* the threads Close was called on

vars == <<segments, segIdx, segSp, content, pool, marks, closed>>

Init ==
  /\ \E first \in [Thread -> Segment] :
       /\ \A t, u \in Thread : first[t] = first[u] => t = u
       /\ segments = [t \in Thread |->
                       [i \in SegIdx |-> IF i = 0 THEN first[t] ELSE NoSegment]]
  /\ segIdx = [t \in Thread |-> 0]
  /\ segSp = [t \in Thread |-> 0]
  /\ content = [s \in Segment |-> [j \in Slot |-> NoFrame]]
  /\ pool = {}
  /\ marks = [t \in Thread |-> <<>>]
  /\ closed = {}

-----------------------------------------------------------------------------
(* The operations of the structure. *)

Sp(t) == segSp[t] + segIdx[t] * FramesPerSegment

IsEmpty(t) == segIdx[t] = 0 /\ segSp[t] = 0

IsFull(t) == segIdx[t] = NumSegments /\ segSp[t] >= FramesPerSegment

\* Push panics instead of pushing: the last segment is full.
PushPanics(t) == segSp[t] >= FramesPerSegment /\ segIdx[t] >= NumSegments - 1

At(t, i) ==
  content[segments[t][i \div FramesPerSegment]][i % FramesPerSegment]

\* The depth of the frame Last points to, -1 for nil.
LastDepth(t) == Sp(t) - 1

InStack(t) == {segments[t][i] : i \in SegIdx} \ {NoSegment}

InAStack == UNION {InStack(t) : t \in Thread}

\* newCallFrameStackSegment: sync.Pool hands back a segment it holds, or none
\* (it may drop what it holds), and a new one is allocated.
NewSegment(s) == s \in pool \cup (Segment \ InAStack)

FrameOf(t, f, idx) == [fn |-> f, idx |-> idx, parent |-> LastDepth(t)]

Push(t, f) ==
  \/ /\ segSp[t] < FramesPerSegment
     /\ LET s == segments[t][segIdx[t]]
        IN  content' = [content EXCEPT ![s][segSp[t]] = FrameOf(t, f, Sp(t))]
     /\ segSp' = [segSp EXCEPT ![t] = @ + 1]
     /\ UNCHANGED <<segments, segIdx, pool>>
  \/ /\ segSp[t] >= FramesPerSegment
     /\ segIdx[t] < NumSegments - 1
     /\ \E s \in Segment :
          /\ NewSegment(s)
          /\ segments' = [segments EXCEPT ![t][segIdx[t] + 1] = s]
          /\ content' = [content EXCEPT ![s][0] =
               FrameOf(t, f, FramesPerSegment * (segIdx[t] + 1))]
          /\ pool' = pool \ {s}
     /\ segIdx' = [segIdx EXCEPT ![t] = @ + 1]
     /\ segSp' = [segSp EXCEPT ![t] = 1]

\* Mutant: the segment the last frame is in goes too.
FreedOneMore(t, n) == (n \div FramesPerSegment) .. segIdx[t]

\* The segment indices SetSp(n) gives back to the pool.
FreedBySetSp(t, n) == (n \div FramesPerSegment + 1) .. segIdx[t]

\* Mutant: the pointers to the segments given back are kept.
KeepPointers(t, freed) ==
  /\ UNCHANGED segments
  /\ pool' = pool \cup {segments[t][i] : i \in freed}

Release(t, freed) ==
  /\ segments' = [segments EXCEPT ![t] =
       [i \in SegIdx |-> IF i \in freed THEN NoSegment ELSE @[i]]]
  /\ pool' = pool \cup {segments[t][i] : i \in freed}

\* Mutant: n is taken for the index of the last frame.
SetSpOneMore(t, n) ==
  /\ Release(t, FreedBySetSp(t, n))
  /\ segIdx' = [segIdx EXCEPT ![t] =
       IF n \div FramesPerSegment < @ THEN n \div FramesPerSegment ELSE @]
  /\ segSp' = [segSp EXCEPT ![t] = (n + 1) % FramesPerSegment]

SetSp(t, n) ==
  /\ Release(t, FreedBySetSp(t, n))
  /\ segIdx' = [segIdx EXCEPT ![t] =
       IF n \div FramesPerSegment < @ THEN n \div FramesPerSegment ELSE @]
  /\ segSp' = [segSp EXCEPT ![t] = n % FramesPerSegment]

\* Mutant: no step back over an empty segment.
PopWithinSegment(t) ==
  /\ segSp' = [segSp EXCEPT ![t] = @ - 1]
  /\ UNCHANGED <<segments, segIdx, pool>>

\* Mutant: the segment goes as soon as its last frame is popped.
EagerPop(t) ==
  IF segSp[t] = 1 /\ segIdx[t] > 0
  THEN /\ Release(t, {segIdx[t]})
       /\ segIdx' = [segIdx EXCEPT ![t] = @ - 1]
       /\ segSp' = [segSp EXCEPT ![t] = FramesPerSegment]
  ELSE /\ segSp' = [segSp EXCEPT ![t] = @ - 1]
       /\ UNCHANGED <<segments, segIdx, pool>>

\* Pop steps back over an empty segment and gives it to the pool; the frame it
\* returns stays in its slot.
Pop(t) ==
  IF segSp[t] > 0
  THEN /\ segSp' = [segSp EXCEPT ![t] = @ - 1]
       /\ UNCHANGED <<segments, segIdx, pool>>
  ELSE IF segIdx[t] = 0
  THEN UNCHANGED <<segments, segIdx, segSp, pool>>
  ELSE /\ Release(t, {segIdx[t]})
       /\ segIdx' = [segIdx EXCEPT ![t] = @ - 1]
       /\ segSp' = [segSp EXCEPT ![t] = FramesPerSegment - 1]

\* Mutant: the moved frame keeps the caller it replaces as its Parent.
UnlinkedRemoveCallerFrame(t) ==
  LET n == Sp(t) - 2
      caller == segments[t][n \div FramesPerSegment]
  IN  /\ content' = [content EXCEPT ![caller][n % FramesPerSegment] =
           [At(t, n + 1) EXCEPT !.idx = n]]
      /\ Pop(t)

\* *At(sp-2) = *At(sp-1), with the Parent the overwritten frame had and its Idx.
RemoveCallerFrame(t) ==
  LET n == Sp(t) - 2
      caller == segments[t][n \div FramesPerSegment]
  IN  /\ content' = [content EXCEPT ![caller][n % FramesPerSegment] =
           [At(t, n + 1) EXCEPT !.parent = At(t, n).parent, !.idx = n]]
      /\ Pop(t)

-----------------------------------------------------------------------------
(* The operations of the LState. *)

Floor(t) == IF marks[t] = <<>> THEN 0 ELSE marks[t][Len(marks[t])]

DropMark(t) == marks' = [marks EXCEPT ![t] = SubSeq(@, 1, Len(@) - 1)]

Live(t) == t \notin closed

\* pushCallFrame of a function, the stack not full.
Call(t, f) ==
  /\ Live(t)
  /\ Sp(t) < MaxDepth
  /\ ~IsFull(t)
  /\ Push(t, f)
  /\ UNCHANGED <<marks, closed>>

TailCall(t) ==
  /\ Live(t)
  /\ Sp(t) >= Floor(t) + 2
  /\ RemoveCallerFrame(t)
  /\ UNCHANGED <<marks, closed>>

Return(t) ==
  /\ Live(t)
  /\ Sp(t) >= Floor(t) + (IF marks[t] = <<>> THEN 1 ELSE 2)
  /\ Pop(t)
  /\ UNCHANGED <<content, marks, closed>>

\* PCall saves sp and pushes its callee.
Protect(t, f) ==
  /\ Live(t)
  /\ "function" \in Callee
  /\ Len(marks[t]) < MaxMarks
  /\ Sp(t) < MaxDepth
  /\ ~IsFull(t)
  /\ Push(t, f)
  /\ marks' = [marks EXCEPT ![t] = Append(@, Sp(t))]
  /\ UNCHANGED closed

\* PCall saves sp, nothing is pushed (the value is no function, the stack
\* reports it is full, or Push panics), and PCall restores sp.
ProtectFails(t) ==
  /\ Live(t)
  /\ Len(marks[t]) < MaxMarks
  /\ \/ "nonfunction" \in Callee
     \/ "function" \in Callee /\ Sp(t) < MaxDepth /\ (IsFull(t) \/ PushPanics(t))
  /\ SetSp(t, Sp(t))
  /\ UNCHANGED <<content, marks, closed>>

\* The callee of PCall pops its frame, the deferred function restores sp: at
\* that point the two leave the stack as SetSp alone would.
ReturnProtected(t) ==
  /\ Live(t)
  /\ marks[t] # <<>>
  /\ Sp(t) = Floor(t) + 1
  /\ SetSp(t, Floor(t))
  /\ DropMark(t)
  /\ UNCHANGED <<content, closed>>

\* An error raised anywhere above the last PCall, the overflow of Push included.
Raise(t) ==
  /\ Live(t)
  /\ marks[t] # <<>>
  /\ SetSp(t, Floor(t))
  /\ DropMark(t)
  /\ UNCHANGED <<content, closed>>

\* Close: FreeAll, and the stack is gone.
Close(t) ==
  /\ Live(t)
  /\ Release(t, 0 .. segIdx[t])
  /\ closed' = closed \cup {t}
  /\ UNCHANGED <<segIdx, segSp, content, marks>>

Next ==
  \E t \in Thread :
    \/ \E f \in Fn : Call(t, f) \/ Protect(t, f)
    \/ TailCall(t) \/ Return(t) \/ ReturnProtected(t)
    \/ Raise(t) \/ ProtectFails(t) \/ Close(t)

Spec == Init /\ [][Next]_vars

-----------------------------------------------------------------------------
\* Counters in range, pointers that are segments or nil.
TypeOK ==
  /\ segments \in [Thread -> [SegIdx -> Segment \cup {NoSegment}]]
  /\ segIdx \in [Thread -> SegIdx]
  /\ segSp \in [Thread -> 0 .. FramesPerSegment]
  /\ content \in [Segment -> [Slot -> Frame \cup {NoFrame}]]
  /\ pool \subseteq Segment
  /\ marks \in [Thread -> Seq(Nat)]
  /\ closed \subseteq Thread

\* The segments up to segIdx are there and the ones above are not: no push, pop
\* or At follows a nil segment, and none is kept beyond what is used (Push, Pop,
\* SetSp); a closed stack keeps none (FreeAll).
SegmentsAllocated ==
  \A t \in Thread, i \in SegIdx :
    segments[t][i] # NoSegment <=> (t \notin closed /\ i <= segIdx[t])

\* No segment is in two places: in two stacks, twice in one, or both in a stack
\* and in segmentPool, whence another LState could take it while its frames are
\* in use (newCallFrameStackSegment, freeCallFrameStackSegment).
NoAliasing ==
  /\ \A t, u \in Thread, i, j \in SegIdx :
       segments[t][i] = segments[u][j] /\ segments[t][i] # NoSegment
         => t = u /\ i = j
  /\ \A t \in Thread, i \in SegIdx : segments[t][i] \notin pool

\* Every live frame knows its own depth and has the frame below it as Parent,
\* what stack traces, GetStack and closeAllUpvalues walk: the frames other
\* threads push, and the unwinding of PCall, disturb neither.
FramesLinked ==
  \A t \in Thread \ closed : \A i \in 0 .. Sp(t) - 1 :
    /\ At(t, i).idx = i
    /\ At(t, i).parent = i - 1

\* The frame Pop returns is read after the pop (switchToParentThread, the
\* return instruction): Pop leaves its segment with the stack, out of reach of
\* the other users of the pool.
PoppedFrameKept ==
  [][\A t \in Thread : Return(t) =>
       LET i == (Sp(t) - 1) \div FramesPerSegment
       IN  segments'[t][i] = segments[t][i]]_vars

\* What the rest of the program sees of t's stack.
Frames(t) ==
  IF t \in closed THEN <<>> ELSE [i \in 1 .. Sp(t) |-> At(t, i - 1).fn]

OpenMarks(t) == IF t \in closed THEN <<>> ELSE marks[t]

Stack(t) == INSTANCE CallFrameStack
  WITH frames <- Frames(t), marks <- OpenMarks(t), MaxDepth <- Capacity

\* Segments, indices and pool together are a bounded stack that PCall unwinds
\* to exactly the depth it marked, for programs that give PCall functions and
\* stay below the capacity.
AbstractSpec ==
  /\ \A t \in Thread : Stack(t)!Init
  /\ [][\A t \in Thread : [Stack(t)!Next]_(Stack(t)!vars)]_vars

\* "IsFull returns true if the stack cannot receive any more stack pushes
\* without overflowing" (src/state.go:263).
IsFullBeforeOverflow == \A t \in Thread : PushPanics(t) => IsFull(t)

\* "SetSp can be used to rapidly unwind the stack, freeing all stack frames on
\* the way" (src/state.go:309): after SetSp(n) the depth is n.
SetSpSetsSp ==
  [][\A t \in Thread :
       /\ Raise(t) \/ ReturnProtected(t) => Sp(t)' = Floor(t)
       /\ ProtectFails(t) => Sp(t)' = Sp(t)]_vars
=============================================================================
