----------------------- MODULE FixedFrameStackProofs -----------------------
(***************************************************************************)
(* The fixed call-frame stack, for every size and set of functions: its    *)
(* counters stay in range, the marks of nested PCalls stay in order below  *)
(* the stack pointer, and it implements CallFrameStack.                    *)
(***************************************************************************)
EXTENDS FixedFrameStack, Integers, SequenceTheorems, TLAPS

\* The first n elements of a sequence.
LEMMA PrefixProperties ==
  ASSUME NEW S, NEW s \in Seq(S), NEW n \in 0 .. Len(s)
  PROVE  /\ SubSeq(s, 1, n) \in Seq(S)
         /\ Len(SubSeq(s, 1, n)) = n
         /\ \A i \in 1 .. n : SubSeq(s, 1, n)[i] = s[i]
<1>1. Len(s) \in Nat /\ n \in Nat /\ \A i \in 1 .. n : s[i] \in S
  BY LenProperties, ElementOfSeq
<1> QED
  BY <1>1, SubSeqProperties

Inv == TypeOK /\ MarksNested

\* A sequence without its last element.
LEMMA FrontProperties ==
  ASSUME NEW S, NEW s \in Seq(S), s # <<>>
  PROVE  /\ Len(s) \in Nat \ {0}
         /\ SubSeq(s, 1, Len(s) - 1) \in Seq(S)
         /\ Len(SubSeq(s, 1, Len(s) - 1)) = Len(s) - 1
         /\ \A i \in 1 .. Len(s) - 1 : SubSeq(s, 1, Len(s) - 1)[i] = s[i]
<1>1. Len(s) \in Nat \ {0}
  BY EmptySeq, LenProperties
<1>2. Len(s) - 1 \in 0 .. Len(s)
  BY <1>1
<1> QED
  BY <1>1, <1>2, PrefixProperties, ZenonT(60)

\* What the marks look like once the last of them is dropped.
LEMMA DroppedMarks ==
  ASSUME TypeOK, MarksNested, marks # <<>>
  PROVE  /\ Len(marks) \in Nat \ {0}
         /\ Floor = marks[Len(marks)]
         /\ Floor \in 0 .. sp - 1
         /\ SubSeq(marks, 1, Len(marks) - 1) \in Seq(0 .. MaxDepth)
         /\ Len(SubSeq(marks, 1, Len(marks) - 1)) = Len(marks) - 1
         /\ \A i \in 1 .. Len(marks) - 1 :
              /\ SubSeq(marks, 1, Len(marks) - 1)[i] = marks[i]
              /\ marks[i] < Floor
<1>1. Len(marks) \in Nat \ {0} /\ Floor = marks[Len(marks)]
  BY EmptySeq, LenProperties DEF TypeOK, Floor
<1>2. \A i \in 1 .. Len(marks) : marks[i] \in 0 .. MaxDepth
  BY ElementOfSeq DEF TypeOK
<1>3. Floor \in 0 .. sp - 1
  BY <1>1, <1>2, FixedAssumption DEF TypeOK, MarksNested, FixedAssumption
<1>4. /\ SubSeq(marks, 1, Len(marks) - 1) \in Seq(0 .. MaxDepth)
      /\ Len(SubSeq(marks, 1, Len(marks) - 1)) = Len(marks) - 1
      /\ \A i \in 1 .. Len(marks) - 1 :
           SubSeq(marks, 1, Len(marks) - 1)[i] = marks[i]
  BY FrontProperties DEF TypeOK
<1>5. \A i \in 1 .. Len(marks) - 1 : marks[i] < Floor
  BY <1>1, <1>2, FixedAssumption DEF MarksNested, FixedAssumption
<1> QED
  BY <1>1, <1>3, <1>4, <1>5

LEMMA DropMarkKeepsOrder ==
  ASSUME TypeOK, MarksNested, marks # <<>>, DropMark, sp' = Floor
  PROVE  /\ sp' \in 0 .. MaxDepth
         /\ marks' \in Seq(0 .. MaxDepth)
         /\ MarksNested'
<1>1. marks' = SubSeq(marks, 1, Len(marks) - 1)
  BY DEF DropMark
<1>2. sp' \in 0 .. MaxDepth
  BY DroppedMarks, FixedAssumption DEF TypeOK, FixedAssumption
<1>3. \A i \in 1 .. Len(marks') : marks'[i] < sp'
  BY <1>1, DroppedMarks
<1>4. \A i, j \in 1 .. Len(marks') : i < j => marks'[i] < marks'[j]
  BY <1>1, DroppedMarks, SMTT(60) DEF MarksNested
<1> QED
  BY <1>1, <1>2, <1>3, <1>4, DroppedMarks DEF MarksNested

LEMMA InitInv == Init => Inv
  BY FixedAssumption
  DEF Init, Inv, TypeOK, MarksNested, FixedAssumption, Slots

LEMMA StepInv == Inv /\ [Next]_vars => Inv'
<1> SUFFICES ASSUME Inv, [Next]_vars
             PROVE  Inv'
  OBVIOUS
<1> USE FixedAssumption DEF FixedAssumption, Inv
<1>0. /\ array \in [Slots -> Fn \cup {NoFn}]
      /\ sp \in 0 .. MaxDepth
      /\ marks \in Seq(0 .. MaxDepth)
      /\ MarksNested
  BY DEF TypeOK
<1>1. ASSUME NEW f \in Fn, Call(f)
      PROVE  Inv'
  BY <1>0, <1>1, SMTT(60) DEF Call, IsFull, Push, TypeOK, MarksNested, Slots
<1>2. ASSUME NEW f \in Fn, Protect(f)
      PROVE  Inv'
  <2>1. /\ marks' = Append(marks, sp)
        /\ sp' = sp + 1
        /\ sp < MaxDepth
        /\ array' = [array EXCEPT ![sp] = f]
    BY <1>0, <1>2 DEF Protect, IsFull, Push
  <2>2. /\ marks' \in Seq(0 .. MaxDepth)
        /\ Len(marks') = Len(marks) + 1
        /\ \A i \in 1 .. Len(marks) : marks'[i] = marks[i]
        /\ marks'[Len(marks) + 1] = sp
    BY <1>0, <2>1, AppendProperties
  <2>3. TypeOK'
    BY <1>0, <2>1, <2>2 DEF TypeOK, Slots
  <2>4. Len(marks) \in Nat /\ \A i \in 1 .. Len(marks) : marks[i] \in Nat
    BY <1>0, LenProperties, ElementOfSeq
  <2>5. MarksNested'
    BY <1>0, <2>1, <2>2, <2>4, SMTT(60) DEF MarksNested
  <2> QED
    BY <2>3, <2>5
<1>3. CASE TailCall
  <2>1. /\ sp' = sp - 1
        /\ array' = [array EXCEPT ![sp - 2] = array[sp - 1]]
        /\ marks' = marks
        /\ sp >= Floor + 2
    BY <1>3 DEF TailCall, RemoveCallerFrame
  <2>2. sp >= 2 /\ sp - 1 \in Slots
    BY <1>0, <2>1, DroppedMarks, SMTT(60) DEF Floor, Slots
  <2>3. TypeOK'
    BY <1>0, <2>1, <2>2 DEF TypeOK, Slots
  <2>4. MarksNested'
    <3>1. CASE marks = <<>>
      BY <2>1, <3>1 DEF MarksNested
    <3>2. CASE marks # <<>>
      <4>1. sp >= Floor + 2 /\ Floor \in Nat
        BY <2>1, <3>2, DroppedMarks DEF TypeOK
      <4> QED
        <5>1. sp' = sp - 1 /\ marks' = marks
          BY <2>1
        <5> QED
          BY <1>0, <3>2, <4>1, <5>1, DroppedMarks, ElementOfSeq, SMTT(60) DEF MarksNested
    <3> QED
      BY <3>1, <3>2
  <2> QED
    BY <2>3, <2>4
<1>4. CASE Return
  <2>1. sp' = sp - 1 /\ array' = array /\ marks' = marks
    BY <1>4 DEF Return, Pop
  <2>2. CASE marks = <<>>
    BY <1>0, <1>4, <2>1, <2>2 DEF Return, Floor, TypeOK, MarksNested
  <2>3. CASE marks # <<>>
    <3>1. sp >= Floor + 2 /\ Floor \in Nat
      BY <1>4, <2>3, DroppedMarks DEF Return
    <3>2. TypeOK'
      BY <1>0, <2>1, <3>1 DEF TypeOK
    <3>3. MarksNested'
      BY <1>0, <2>1, <2>3, <3>1, DroppedMarks, ElementOfSeq, SMTT(60) DEF MarksNested
    <3> QED
      BY <3>2, <3>3
  <2> QED
    BY <2>2, <2>3
<1>5. CASE ReturnProtected
  BY <1>0, <1>5, DropMarkKeepsOrder DEF ReturnProtected, SetSp, TypeOK
<1>6. CASE Raise
  BY <1>0, <1>6, DropMarkKeepsOrder DEF Raise, SetSp, TypeOK
<1>7. CASE ProtectFails
  BY <1>0, <1>7 DEF ProtectFails, SetSp, TypeOK, MarksNested
<1>8. CASE UNCHANGED vars
  BY <1>0, <1>8 DEF vars, TypeOK, MarksNested
<1> QED
  BY <1>1, <1>2, <1>3, <1>4, <1>5, <1>6, <1>7, <1>8 DEF Next

\* Slots and marks keep their types, sp stays within the array: no operation
\* of fixedCallFrameStack indexes outside it.
THEOREM TypeCorrect == Spec => []TypeOK
<1>1. Init => Inv
  BY InitInv
<1>2. Inv /\ [Next]_vars => Inv'
  BY StepInv
<1>3. Inv => TypeOK
  BY DEF Inv
<1> QED
  BY <1>1, <1>2, <1>3, PTL DEF Spec

\* SetSp of PCall only ever unwinds: the marks of the PCalls in progress are
\* strictly increasing and below sp.
THEOREM MarksStayNested == Spec => []MarksNested
<1>1. Init => Inv
  BY InitInv
<1>2. Inv /\ [Next]_vars => Inv'
  BY StepInv
<1>3. Inv => MarksNested
  BY DEF Inv
<1> QED
  BY <1>1, <1>2, <1>3, PTL DEF Spec

-----------------------------------------------------------------------------
(* The implementation of the abstract stack. *)

\* Slots count from 0, sequences from 1.
LEMMA ShiftedIndex ==
  ASSUME NEW n \in Nat, NEW i \in 1 .. n
  PROVE  i - 1 \in 0 .. n - 1
OBVIOUS

\* The first n slots of an array, read as a sequence.
LEMMA SlotsAsSequence ==
  ASSUME NEW S, NEW n \in Nat, NEW a, \A i \in 0 .. n - 1 : a[i] \in S
  PROVE  /\ [i \in 1 .. n |-> a[i - 1]] \in Seq(S)
         /\ Len([i \in 1 .. n |-> a[i - 1]]) = n
<1>1. \A i \in 1 .. n : a[i - 1] \in S
  OBVIOUS
<1> QED
  BY <1>1, IsASeq

LEMMA FramesAsSequence ==
  ASSUME Inv
  PROVE  /\ Frames \in Seq(Fn \cup {NoFn})
         /\ Len(Frames) = sp
<1>1. \A i \in 0 .. sp - 1 : array[i] \in Fn \cup {NoFn}
  BY FixedAssumption DEF Inv, TypeOK, Slots, FixedAssumption
<1>2. sp \in Nat
  BY FixedAssumption DEF Inv, TypeOK, FixedAssumption
<1> QED
  BY <1>1, <1>2, SlotsAsSequence DEF Frames

\* Lowering sp, the slots below the new value untouched, cuts the sequence.
LEMMA LowerSp ==
  ASSUME Inv, sp' \in 0 .. sp, \A i \in 0 .. sp' - 1 : array'[i] = array[i]
  PROVE  Frames' = SubSeq(Frames, 1, sp')
<1>1. sp \in Nat /\ sp' \in Nat
  BY FixedAssumption DEF Inv, TypeOK, FixedAssumption
<1>2. /\ SubSeq(Frames, 1, sp') \in Seq(Fn \cup {NoFn})
      /\ Len(SubSeq(Frames, 1, sp')) = sp'
      /\ \A i \in 1 .. sp' : SubSeq(Frames, 1, sp')[i] = Frames[i]
  <2>1. Frames \in Seq(Fn \cup {NoFn}) /\ Len(Frames) = sp
    BY FramesAsSequence
  <2> DEFINE s == Frames
             n == sp'
             S == Fn \cup {NoFn}
  <2>2. s \in Seq(S) /\ n \in 0 .. Len(s)
    BY <2>1
  <2> HIDE DEF s, n, S
  <2>3. /\ SubSeq(s, 1, n) \in Seq(S)
        /\ Len(SubSeq(s, 1, n)) = n
        /\ \A i \in 1 .. n : SubSeq(s, 1, n)[i] = s[i]
    BY <2>2, PrefixProperties
  <2> QED
    BY <2>3 DEF s, n, S
<1>3. ASSUME NEW i \in 1 .. sp'
      PROVE  SubSeq(Frames, 1, sp')[i] = array[i - 1]
  <2>1. i \in 1 .. sp
    BY <1>1
  <2>2. Frames[i] = array[i - 1]
    BY <2>1 DEF Frames
  <2> QED
    BY <1>2, <2>2
<1>4. \A i \in 0 .. sp' - 1 : array'[i] \in Fn \cup {NoFn}
  BY FixedAssumption, <1>1 DEF Inv, TypeOK, Slots, FixedAssumption
<1>5. Frames' \in Seq(Fn \cup {NoFn}) /\ Len(Frames') = sp'
  <2> DEFINE S == Fn \cup {NoFn}
             n == sp'
             a == array'
  <2>1. n \in Nat /\ \A i \in 0 .. n - 1 : a[i] \in S
    BY <1>1, <1>4
  <2>2. Frames' = [i \in 1 .. n |-> a[i - 1]]
    BY DEF Frames
  <2> HIDE DEF S, n, a
  <2>3. /\ [i \in 1 .. n |-> a[i - 1]] \in Seq(S)
        /\ Len([i \in 1 .. n |-> a[i - 1]]) = n
    BY <2>1, SlotsAsSequence
  <2>4. Frames' \in Seq(S) /\ Len(Frames') = n
    BY <2>2, <2>3
  <2> QED
    BY <2>4 DEF S, n
<1>6. ASSUME NEW i \in 1 .. sp'
      PROVE  Frames'[i] = array[i - 1]
  <2>1. i - 1 \in 0 .. sp' - 1
    BY <1>1, ShiftedIndex
  <2>2. Frames'[i] = array'[i - 1]
    BY <1>1 DEF Frames
  <2> QED
    BY <2>1, <2>2
<1>7. \A i \in 1 .. sp' : Frames'[i] = SubSeq(Frames, 1, sp')[i]
  BY <1>3, <1>6
<1> QED
  BY <1>2, <1>5, <1>7, SeqEqual

LEMMA PushAppends ==
  ASSUME Inv, NEW f \in Fn, ~IsFull, Push(f)
  PROVE  Frames' = Append(Frames, f)
<1>1. /\ sp \in Nat
      /\ sp \in Slots
      /\ sp' = sp + 1
      /\ array' = [array EXCEPT ![sp] = f]
      /\ array \in [Slots -> Fn \cup {NoFn}]
  BY FixedAssumption DEF Inv, TypeOK, Slots, FixedAssumption, IsFull, Push
<1>2. \A i \in 0 .. sp' - 1 : array'[i] \in Fn \cup {NoFn}
  BY <1>1, FixedAssumption DEF Slots, FixedAssumption
<1>3. Frames' \in Seq(Fn \cup {NoFn}) /\ Len(Frames') = sp + 1
  BY <1>1, <1>2, SlotsAsSequence DEF Frames
<1>4. /\ Append(Frames, f) \in Seq(Fn \cup {NoFn})
      /\ Len(Append(Frames, f)) = sp + 1
      /\ \A i \in 1 .. sp : Append(Frames, f)[i] = Frames[i]
      /\ Append(Frames, f)[sp + 1] = f
  BY FramesAsSequence, AppendProperties
<1>5. \A i \in 1 .. sp + 1 : Frames'[i] = Append(Frames, f)[i]
  BY <1>1, <1>4 DEF Frames, Slots
<1> QED
  BY <1>3, <1>4, <1>5, SeqEqual

\* A tail call moves the last frame over the one below it.
LEMMA TailCallMoves ==
  ASSUME Inv, sp >= 2, RemoveCallerFrame
  PROVE  Frames' = Append(SubSeq(Frames, 1, sp - 2), Frames[sp])
<1> DEFINE cut == SubSeq(Frames, 1, sp - 2)
<1>1. /\ sp \in Nat
      /\ sp - 1 \in Slots /\ sp - 2 \in Slots
      /\ sp' = sp - 1
      /\ array' = [array EXCEPT ![sp - 2] = array[sp - 1]]
      /\ array \in [Slots -> Fn \cup {NoFn}]
  BY FixedAssumption DEF Inv, TypeOK, Slots, FixedAssumption, RemoveCallerFrame
<1>2. \A i \in 1 .. sp - 2 : Frames[i] \in Fn \cup {NoFn}
  BY <1>1, FramesAsSequence, ElementOfSeq
<1>3. /\ cut \in Seq(Fn \cup {NoFn})
      /\ Len(cut) = sp - 2
      /\ \A i \in 1 .. sp - 2 : cut[i] = Frames[i]
  BY <1>1, <1>2, SubSeqProperties
<1>4. Frames[sp] = array[sp - 1] /\ Frames[sp] \in Fn \cup {NoFn}
  BY <1>1 DEF Frames
<1>5. /\ Append(cut, Frames[sp]) \in Seq(Fn \cup {NoFn})
      /\ Len(Append(cut, Frames[sp])) = sp - 1
      /\ \A i \in 1 .. sp - 2 : Append(cut, Frames[sp])[i] = Frames[i]
      /\ Append(cut, Frames[sp])[sp - 1] = Frames[sp]
  BY <1>1, <1>3, <1>4, AppendProperties
<1>6. \A i \in 0 .. sp' - 1 : array'[i] \in Fn \cup {NoFn}
  BY <1>1, FixedAssumption DEF Slots, FixedAssumption
<1>7. Frames' \in Seq(Fn \cup {NoFn}) /\ Len(Frames') = sp - 1
  BY <1>1, <1>6, SlotsAsSequence DEF Frames
<1>8. \A i \in 1 .. sp - 1 : Frames'[i] = Append(cut, Frames[sp])[i]
  BY <1>1, <1>4, <1>5 DEF Frames, Slots
<1> QED
  BY <1>5, <1>7, <1>8, SeqEqual

LEMMA InitImplements == Init => Abstract!Init
  BY EmptySeq, SlotsAsSequence DEF Init, Abstract!Init, Frames

LEMMA StepImplements ==
  Inv /\ Inv' /\ [Next]_vars => [Abstract!Next]_(Abstract!vars)
<1> SUFFICES ASSUME Inv, Inv', [Next]_vars
             PROVE  Abstract!Next \/ UNCHANGED Abstract!vars
  OBVIOUS
<1>0. /\ Len(Frames) = sp
      /\ sp \in 0 .. MaxDepth
      /\ MaxDepth \in Nat
      /\ Abstract!Floor = Floor
      /\ DropMark <=> Abstract!DropMark
  BY FramesAsSequence, FixedAssumption
  DEF Inv, TypeOK, FixedAssumption, Floor, Abstract!Floor, DropMark,
      Abstract!DropMark
<1>1. ASSUME NEW f \in Fn, Call(f)
      PROVE  Abstract!Call(f)
  BY <1>0, <1>1, PushAppends
  DEF Call, IsFull, Abstract!Call, Abstract!Full, Abstract!Depth
<1>2. ASSUME NEW f \in Fn, Protect(f)
      PROVE  Abstract!Protect(f)
  BY <1>0, <1>2, PushAppends
  DEF Protect, IsFull, Abstract!Protect, Abstract!Full, Abstract!Depth
<1>3. ASSUME marks # <<>>
      PROVE  Floor \in 0 .. sp - 1
  BY <1>3, DroppedMarks DEF Inv
<1>4. Floor \in 0 .. sp
  BY <1>0, <1>3 DEF Floor
<1>5. ASSUME TailCall
      PROVE  Abstract!TailCall
  <2>1. Frames' = Append(SubSeq(Frames, 1, sp - 2), Frames[sp])
    BY <1>0, <1>4, <1>5, TailCallMoves DEF TailCall
  <2> QED
    BY <1>0, <1>5, <2>1 DEF TailCall, Abstract!TailCall, Abstract!Depth
<1>6. ASSUME Return
      PROVE  Abstract!Return
  <2>1. sp' \in 0 .. sp /\ sp' = sp - 1 /\ array' = array
    BY <1>0, <1>4, <1>6 DEF Return, Pop
  <2>2. Frames' = SubSeq(Frames, 1, sp - 1)
    BY <2>1, LowerSp
  <2> QED
    BY <1>0, <1>6, <2>2 DEF Return, Abstract!Return, Abstract!Depth
<1>7. ASSUME ReturnProtected
      PROVE  Abstract!ReturnProtected
  <2>1. sp' \in 0 .. sp /\ sp' = sp - 1 /\ array' = array
    BY <1>0, <1>4, <1>7 DEF ReturnProtected, SetSp
  <2>2. Frames' = SubSeq(Frames, 1, sp - 1)
    BY <2>1, LowerSp
  <2> QED
    BY <1>0, <1>7, <2>2
    DEF ReturnProtected, Abstract!ReturnProtected, Abstract!Depth
<1>8. ASSUME Raise
      PROVE  Abstract!Raise
  <2>1. sp' \in 0 .. sp /\ sp' = Floor /\ array' = array
    BY <1>0, <1>4, <1>8 DEF Raise, SetSp
  <2>2. Frames' = SubSeq(Frames, 1, Floor)
    BY <2>1, LowerSp
  <2> QED
    BY <1>0, <1>8, <2>2 DEF Raise, Abstract!Raise
<1>9. ASSUME ProtectFails
      PROVE  Abstract!ProtectFails
  BY <1>9 DEF ProtectFails, SetSp, Frames, Abstract!ProtectFails, Abstract!vars
<1>10. CASE UNCHANGED vars
  BY <1>10 DEF vars, Frames, Abstract!vars
<1> QED
  BY <1>1, <1>2, <1>5, <1>6, <1>7, <1>8, <1>9, <1>10 DEF Next, Abstract!Next

\* The array and its pointer implement the abstract stack: each operation of
\* the LState does to the frames below sp what CallFrameStack says.
THEOREM ImplementsCallFrameStack == Spec => AbstractSpec
<1>1. Init => Inv /\ Abstract!Init
  BY InitInv, InitImplements
<1>2. Inv /\ [Next]_vars => Inv'
  BY StepInv
<1>3. Inv /\ Inv' /\ [Next]_vars => [Abstract!Next]_(Abstract!vars)
  BY StepImplements
<1> QED
  BY <1>1, <1>2, <1>3, PTL DEF Spec, AbstractSpec, Abstract!Spec
=============================================================================
