---------------------- MODULE AutoGrowFrameStackProofs ----------------------
(***************************************************************************)
(* The segmented call-frame stacks, for every number of LStates, segment   *)
(* size and stack size: a stack holds exactly the segments its index says, *)
(* no segment is ever in two places, frames stay linked to the frame below *)
(* them, and, as long as PCall is given functions and the stack does not   *)
(* overflow, every stack behaves as CallFrameStack says.                   *)
(***************************************************************************)
EXTENDS AutoGrowFrameStack, Integers, SequenceTheorems, TLAPS

\* The first n elements of a sequence.
LEMMA PrefixProperties ==
  ASSUME NEW S, NEW s \in Seq(S), NEW n \in 0 .. Len(s)
  PROVE  /\ SubSeq(s, 1, n) \in Seq(S)
         /\ Len(SubSeq(s, 1, n)) = n
         /\ \A i \in 1 .. n : SubSeq(s, 1, n)[i] = s[i]
<1>1. Len(s) \in Nat /\ n \in Nat /\ \A i \in 1 .. n : s[i] \in S
  BY LenProperties, ElementOfSeq
<1> QED
  BY <1>1, SubSeqProperties

\* The part of TypeOK the pointers depend on.
PointersTyped ==
  /\ segments \in [Thread -> [SegIdx -> Segment \cup {NoSegment}]]
  /\ segIdx \in [Thread -> SegIdx]
  /\ segSp \in [Thread -> 0 .. FramesPerSegment]
  /\ pool \subseteq Segment
  /\ marks \in [Thread -> Seq(Nat)]
  /\ closed \subseteq Thread

Inv == PointersTyped /\ SegmentsAllocated /\ NoAliasing

LEMMA SizeFacts ==
  /\ FramesPerSegment \in Nat \ {0}
  /\ NumSegments \in Nat \ {0}
  /\ NoSegment \notin Segment
  BY AutoGrowAssumption, SMTT(60) DEF AutoGrowAssumption

LEMMA SpIsNat ==
  ASSUME PointersTyped, NEW t \in Thread
  PROVE  Sp(t) \in Nat
<1>1. segIdx[t] \in Nat /\ segSp[t] \in Nat
  BY SizeFacts DEF PointersTyped, SegIdx
<1>2. segIdx[t] * FramesPerSegment \in Nat
  BY <1>1, SizeFacts
<1> QED
  BY <1>1, <1>2 DEF Sp

LEMMA FloorIsNat ==
  ASSUME PointersTyped, NEW t \in Thread
  PROVE  Floor(t) \in Nat
<1>1. marks[t] \in Seq(Nat)
  BY DEF PointersTyped
<1> QED
  BY <1>1 DEF Floor

LEMMA MarksTyped ==
  ASSUME PointersTyped, NEW t \in Thread, NEW n \in Nat
  PROVE  /\ [marks EXCEPT ![t] = Append(@, n)] \in [Thread -> Seq(Nat)]
         /\ [marks EXCEPT ![t] = SubSeq(@, 1, Len(@) - 1)]
              \in [Thread -> Seq(Nat)]
<1>1. marks[t] \in Seq(Nat) /\ marks \in [Thread -> Seq(Nat)]
  BY DEF PointersTyped
<1>2. Append(marks[t], n) \in Seq(Nat)
  BY <1>1
<1>3. SubSeq(marks[t], 1, Len(marks[t]) - 1) \in Seq(Nat)
  BY <1>1
<1> QED
  BY <1>1, <1>2, <1>3

\* What Release does to the pointers, one by one.
LEMMA ReleasePointers ==
  ASSUME Inv, NEW t \in Thread, NEW freed \in SUBSET SegIdx, Release(t, freed),
         \A i \in freed : segments[t][i] # NoSegment
  PROVE  /\ segments' \in [Thread -> [SegIdx -> Segment \cup {NoSegment}]]
         /\ \A u \in Thread, i \in SegIdx :
              segments'[u][i] = IF u = t /\ i \in freed THEN NoSegment
                                ELSE segments[u][i]
         /\ pool' \subseteq Segment
         /\ NoAliasing'
<1>1. /\ segments \in [Thread -> [SegIdx -> Segment \cup {NoSegment}]]
      /\ pool \subseteq Segment
  BY DEF Inv, PointersTyped
<1>2. segments' = [segments EXCEPT ![t] =
        [i \in SegIdx |-> IF i \in freed THEN NoSegment ELSE segments[t][i]]]
  BY DEF Release
<1>3. pool' = pool \cup {segments[t][i] : i \in freed}
  BY DEF Release
<1>4. \A u \in Thread, i \in SegIdx :
        segments'[u][i] = IF u = t /\ i \in freed THEN NoSegment
                          ELSE segments[u][i]
  BY <1>1, <1>2
<1>5. segments' \in [Thread -> [SegIdx -> Segment \cup {NoSegment}]]
  BY <1>1, <1>2
<1>6. pool' \subseteq Segment
  BY <1>1, <1>3
<1>7. \A u, v \in Thread, i, j \in SegIdx :
        segments'[u][i] = segments'[v][j] /\ segments'[u][i] # NoSegment
          => u = v /\ i = j
  BY <1>4 DEF Inv, NoAliasing
<1>8. ASSUME NEW u \in Thread, NEW i \in SegIdx
      PROVE  segments'[u][i] \notin pool'
  <2>1. NoSegment \notin pool'
    BY <1>6, SizeFacts
  <2>2. CASE segments'[u][i] = NoSegment
    BY <2>1, <2>2
  <2>3. CASE segments'[u][i] # NoSegment
    <3>1. segments'[u][i] = segments[u][i] /\ ~(u = t /\ i \in freed)
      BY <1>4, <2>3
    <3>2. segments[u][i] \notin pool
      BY DEF Inv, NoAliasing
    <3>3. \A j \in freed : segments[u][i] # segments[t][j]
      BY <3>1 DEF Inv, NoAliasing
    <3> QED
      BY <1>3, <3>1, <3>2, <3>3
  <2> QED
    BY <2>2, <2>3
<1> QED
  BY <1>4, <1>5, <1>6, <1>7, <1>8 DEF NoAliasing

LEMMA PushInv ==
  ASSUME Inv, NEW t \in Thread, NEW f, Live(t), Push(t, f), closed' = closed
  PROVE  /\ segments' \in [Thread -> [SegIdx -> Segment \cup {NoSegment}]]
         /\ segIdx' \in [Thread -> SegIdx]
         /\ segSp' \in [Thread -> 0 .. FramesPerSegment]
         /\ pool' \subseteq Segment
         /\ SegmentsAllocated'
         /\ NoAliasing'
<1>0. /\ segments \in [Thread -> [SegIdx -> Segment \cup {NoSegment}]]
      /\ segIdx \in [Thread -> SegIdx]
      /\ segSp \in [Thread -> 0 .. FramesPerSegment]
      /\ pool \subseteq Segment
      /\ t \notin closed
  BY DEF Inv, PointersTyped, Live
<1>1. CASE /\ segSp[t] < FramesPerSegment
           /\ segSp' = [segSp EXCEPT ![t] = @ + 1]
           /\ UNCHANGED <<segments, segIdx, pool>>
  BY <1>0, <1>1, SizeFacts DEF Inv, SegmentsAllocated, NoAliasing
<1>2. ASSUME segIdx[t] < NumSegments - 1,
             NEW s \in Segment, NewSegment(s),
             segments' = [segments EXCEPT ![t][segIdx[t] + 1] = s],
             pool' = pool \ {s},
             segIdx' = [segIdx EXCEPT ![t] = @ + 1],
             segSp' = [segSp EXCEPT ![t] = 1]
      PROVE  /\ segments' \in [Thread -> [SegIdx -> Segment \cup {NoSegment}]]
             /\ segIdx' \in [Thread -> SegIdx]
             /\ segSp' \in [Thread -> 0 .. FramesPerSegment]
             /\ pool' \subseteq Segment
             /\ SegmentsAllocated'
             /\ NoAliasing'
  <2> DEFINE k == segIdx[t] + 1
  <2>1. k \in SegIdx /\ segIdx[t] \in SegIdx
    BY <1>0, <1>2, SizeFacts DEF SegIdx
  <2>2. \A u \in Thread, i \in SegIdx :
          segments'[u][i] = IF u = t /\ i = k THEN s ELSE segments[u][i]
    BY <1>0, <1>2, <2>1
  <2>3. segments' \in [Thread -> [SegIdx -> Segment \cup {NoSegment}]]
    BY <1>0, <1>2, <2>1
  <2>4. \A u \in Thread, i \in SegIdx : segments[u][i] # s
    BY <1>2, SizeFacts DEF NewSegment, InAStack, InStack, Inv, NoAliasing
  <2>5. segIdx' \in [Thread -> SegIdx] /\ segSp' \in [Thread -> 0 .. FramesPerSegment]
    BY <1>0, <1>2, <2>1, SizeFacts
  <2>6. SegmentsAllocated'
    <3> SUFFICES ASSUME NEW u \in Thread, NEW i \in SegIdx
                 PROVE  segments'[u][i] # NoSegment
                          <=> (u \notin closed /\ i <= segIdx'[u])
      BY DEF SegmentsAllocated
    <3>1. segments[u][i] # NoSegment <=> (u \notin closed /\ i <= segIdx[u])
      BY DEF Inv, SegmentsAllocated
    <3>2. CASE u # t
      BY <1>0, <1>2, <2>2, <3>1, <3>2
    <3>3. CASE u = t
      <4>1. segIdx'[t] = k
        BY <1>0, <1>2
      <4>2. i \in Int /\ segIdx[t] \in Int
        BY <1>0, SizeFacts DEF SegIdx
      <4>3. s # NoSegment
        BY SizeFacts
      <4> QED
        BY <1>0, <2>2, <3>1, <3>3, <4>1, <4>2, <4>3
    <3> QED
      BY <3>2, <3>3
  <2>7. NoAliasing'
    <3>1. \A u, v \in Thread, i, j \in SegIdx :
            segments'[u][i] = segments'[v][j] /\ segments'[u][i] # NoSegment
              => u = v /\ i = j
      BY <2>2, <2>4 DEF Inv, NoAliasing
    <3>2. \A u \in Thread, i \in SegIdx : segments'[u][i] \notin pool'
      BY <1>2, <2>2 DEF Inv, NoAliasing
    <3> QED
      BY <3>1, <3>2 DEF NoAliasing
  <2> QED
    BY <1>0, <1>2, <2>3, <2>5, <2>6, <2>7
<1> QED
  BY <1>1, <1>2 DEF Push

LEMMA SetSpInv ==
  ASSUME Inv, NEW t \in Thread, NEW n \in Nat, Live(t), SetSp(t, n),
         closed' = closed
  PROVE  /\ segments' \in [Thread -> [SegIdx -> Segment \cup {NoSegment}]]
         /\ segIdx' \in [Thread -> SegIdx]
         /\ segSp' \in [Thread -> 0 .. FramesPerSegment]
         /\ pool' \subseteq Segment
         /\ SegmentsAllocated'
         /\ NoAliasing'
<1> DEFINE d == n \div FramesPerSegment
<1>0. /\ segIdx \in [Thread -> SegIdx]
      /\ segSp \in [Thread -> 0 .. FramesPerSegment]
      /\ t \notin closed
  BY DEF Inv, PointersTyped, Live
<1>1. d \in Nat /\ n % FramesPerSegment \in 0 .. FramesPerSegment
  BY SizeFacts
<1>2. /\ Release(t, (d + 1) .. segIdx[t])
      /\ segIdx' = [segIdx EXCEPT ![t] = IF d < segIdx[t] THEN d ELSE segIdx[t]]
      /\ segSp' = [segSp EXCEPT ![t] = n % FramesPerSegment]
  BY DEF SetSp, FreedBySetSp
<1>3. segIdx[t] \in 0 .. NumSegments - 1 /\ SegIdx = 0 .. NumSegments - 1
  BY <1>0 DEF SegIdx
<1>4. (d + 1) .. segIdx[t] \in SUBSET SegIdx
  BY <1>1, <1>3, SizeFacts
<1>5. \A i \in (d + 1) .. segIdx[t] : segments[t][i] # NoSegment
  <2> SUFFICES ASSUME NEW i \in (d + 1) .. segIdx[t]
               PROVE  segments[t][i] # NoSegment
    OBVIOUS
  <2>1. i \in SegIdx /\ i <= segIdx[t]
    BY <1>1, <1>3, <1>4, SizeFacts
  <2> QED
    BY <1>0, <2>1 DEF Inv, SegmentsAllocated
<1>6. /\ segments' \in [Thread -> [SegIdx -> Segment \cup {NoSegment}]]
      /\ \A u \in Thread, i \in SegIdx :
           segments'[u][i] = IF u = t /\ i \in (d + 1) .. segIdx[t]
                             THEN NoSegment ELSE segments[u][i]
      /\ pool' \subseteq Segment
      /\ NoAliasing'
  BY <1>2, <1>4, <1>5, ReleasePointers
<1>7. /\ segIdx' \in [Thread -> SegIdx]
      /\ segSp' \in [Thread -> 0 .. FramesPerSegment]
  BY <1>0, <1>1, <1>2, <1>3, SizeFacts, SMTT(60)
<1>8. SegmentsAllocated'
  <2> SUFFICES ASSUME NEW u \in Thread, NEW i \in SegIdx
               PROVE  segments'[u][i] # NoSegment
                        <=> (u \notin closed /\ i <= segIdx'[u])
    BY DEF SegmentsAllocated
  <2>1. segments[u][i] # NoSegment <=> (u \notin closed /\ i <= segIdx[u])
    BY DEF Inv, SegmentsAllocated
  <2>2. CASE u # t
    BY <1>0, <1>2, <1>6, <2>1, <2>2
  <2>3. CASE u = t
    <3>1. segIdx'[t] = IF d < segIdx[t] THEN d ELSE segIdx[t]
      BY <1>0, <1>2
    <3>2. i \in Int /\ segIdx[t] \in Int /\ d \in Int
      BY <1>1, <1>3, SizeFacts DEF SegIdx
    <3>3. i <= segIdx'[t] <=> i <= segIdx[t] /\ i \notin (d + 1) .. segIdx[t]
      BY <3>1, <3>2
    <3> QED
      BY <1>0, <1>6, <2>1, <2>3, <3>3
  <2> QED
    BY <2>2, <2>3
<1> QED
  BY <1>6, <1>7, <1>8

LEMMA PopInv ==
  ASSUME Inv, NEW t \in Thread, Live(t), Pop(t), closed' = closed
  PROVE  /\ segments' \in [Thread -> [SegIdx -> Segment \cup {NoSegment}]]
         /\ segIdx' \in [Thread -> SegIdx]
         /\ segSp' \in [Thread -> 0 .. FramesPerSegment]
         /\ pool' \subseteq Segment
         /\ SegmentsAllocated'
         /\ NoAliasing'
<1>0. /\ segments \in [Thread -> [SegIdx -> Segment \cup {NoSegment}]]
      /\ segIdx \in [Thread -> SegIdx]
      /\ segSp \in [Thread -> 0 .. FramesPerSegment]
      /\ pool \subseteq Segment
      /\ t \notin closed
  BY DEF Inv, PointersTyped, Live
<1>1. CASE segSp[t] > 0
  BY <1>0, <1>1, SizeFacts, SMTT(60) DEF Pop, Inv, SegmentsAllocated, NoAliasing
<1>2. CASE ~(segSp[t] > 0) /\ segIdx[t] = 0
  BY <1>0, <1>2 DEF Pop, Inv, SegmentsAllocated, NoAliasing
<1>3. CASE ~(segSp[t] > 0) /\ segIdx[t] # 0
  <2>1. /\ Release(t, {segIdx[t]})
        /\ segIdx' = [segIdx EXCEPT ![t] = segIdx[t] - 1]
        /\ segSp' = [segSp EXCEPT ![t] = FramesPerSegment - 1]
    BY <1>3 DEF Pop
  <2>2. segIdx[t] \in 1 .. NumSegments - 1 /\ SegIdx = 0 .. NumSegments - 1
    BY <1>0, <1>3, SizeFacts DEF SegIdx
  <2>3. {segIdx[t]} \in SUBSET SegIdx /\ segments[t][segIdx[t]] # NoSegment
    BY <1>0, <2>2, SizeFacts DEF Inv, SegmentsAllocated
  <2>4. /\ segments' \in [Thread -> [SegIdx -> Segment \cup {NoSegment}]]
        /\ \A u \in Thread, i \in SegIdx :
             segments'[u][i] = IF u = t /\ i \in {segIdx[t]}
                               THEN NoSegment ELSE segments[u][i]
        /\ pool' \subseteq Segment
        /\ NoAliasing'
    BY <2>1, <2>3, ReleasePointers
  <2>5. /\ segIdx' \in [Thread -> SegIdx]
        /\ segSp' \in [Thread -> 0 .. FramesPerSegment]
    BY <1>0, <2>1, <2>2, SizeFacts
  <2>6. SegmentsAllocated'
    <3> SUFFICES ASSUME NEW u \in Thread, NEW i \in SegIdx
                 PROVE  segments'[u][i] # NoSegment
                          <=> (u \notin closed /\ i <= segIdx'[u])
      BY DEF SegmentsAllocated
    <3>1. segments[u][i] # NoSegment <=> (u \notin closed /\ i <= segIdx[u])
      BY DEF Inv, SegmentsAllocated
    <3>2. CASE u # t
      BY <1>0, <2>1, <2>4, <3>1, <3>2
    <3>3. CASE u = t
      <4>1. segIdx'[t] = segIdx[t] - 1 /\ i \in Int /\ segIdx[t] \in Int
        BY <1>0, <2>1, <2>2, SizeFacts
      <4>2. i <= segIdx'[t] <=> i <= segIdx[t] /\ i # segIdx[t]
        BY <4>1
      <4> QED
        BY <1>0, <2>4, <3>1, <3>3, <4>2
    <3> QED
      BY <3>2, <3>3
  <2> QED
    BY <2>4, <2>5, <2>6
<1> QED
  BY <1>1, <1>2, <1>3

LEMMA CloseInv ==
  ASSUME Inv, NEW t \in Thread, Close(t)
  PROVE  Inv'
<1>0. /\ segIdx \in [Thread -> SegIdx]
      /\ SegIdx = 0 .. NumSegments - 1
      /\ t \notin closed
      /\ closed' = closed \cup {t}
      /\ UNCHANGED <<segIdx, segSp, marks>>
      /\ Release(t, 0 .. segIdx[t])
  BY DEF Inv, PointersTyped, Close, Live, SegIdx
<1>1. 0 .. segIdx[t] \in SUBSET SegIdx
  BY <1>0, SizeFacts
<1>2. \A i \in 0 .. segIdx[t] : segments[t][i] # NoSegment
  BY <1>0, <1>1, SizeFacts DEF Inv, SegmentsAllocated
<1>3. /\ segments' \in [Thread -> [SegIdx -> Segment \cup {NoSegment}]]
      /\ \A u \in Thread, i \in SegIdx :
           segments'[u][i] = IF u = t /\ i \in 0 .. segIdx[t]
                             THEN NoSegment ELSE segments[u][i]
      /\ pool' \subseteq Segment
      /\ NoAliasing'
  BY <1>0, <1>1, <1>2, ReleasePointers
<1>4. PointersTyped'
  BY <1>0, <1>3 DEF Inv, PointersTyped
<1>5. SegmentsAllocated'
  <2> SUFFICES ASSUME NEW u \in Thread, NEW i \in SegIdx
               PROVE  segments'[u][i] # NoSegment
                        <=> (u \notin closed' /\ i <= segIdx[u])
    BY <1>0 DEF SegmentsAllocated
  <2>1. segments[u][i] # NoSegment <=> (u \notin closed /\ i <= segIdx[u])
    BY DEF Inv, SegmentsAllocated
  <2>2. i \in 0 .. NumSegments - 1 /\ segIdx[t] \in 0 .. NumSegments - 1
    BY <1>0
  <2>3. i \in 0 .. segIdx[t] <=> i <= segIdx[t]
    BY <2>2, SizeFacts
  <2> QED
    BY <1>0, <1>3, <2>1, <2>3
<1> QED
  BY <1>3, <1>4, <1>5 DEF Inv

-----------------------------------------------------------------------------
(* The specification. *)

LEMMA InitInv == Init => Inv
<1> SUFFICES ASSUME Init
             PROVE  Inv
  OBVIOUS
<1>1. PICK first \in [Thread -> Segment] :
        /\ \A t, u \in Thread : first[t] = first[u] => t = u
        /\ segments = [t \in Thread |->
             [i \in SegIdx |-> IF i = 0 THEN first[t] ELSE NoSegment]]
  BY DEF Init
<1>2. /\ 0 \in SegIdx
      /\ \A i \in SegIdx : i <= 0 <=> i = 0
  BY SizeFacts DEF SegIdx
<1>3. \A t \in Thread, i \in SegIdx :
        segments[t][i] = IF i = 0 THEN first[t] ELSE NoSegment
  BY <1>1
<1>4. PointersTyped
  BY <1>1, <1>2, SizeFacts DEF Init, PointersTyped
<1>5. SegmentsAllocated
  BY <1>2, <1>3, SizeFacts DEF Init, SegmentsAllocated
<1>6. NoAliasing
  BY <1>1, <1>3, SizeFacts DEF Init, NoAliasing
<1> QED
  BY <1>4, <1>5, <1>6 DEF Inv

LEMMA StepInv == Inv /\ [Next]_vars => Inv'
<1> SUFFICES ASSUME Inv, [Next]_vars
             PROVE  Inv'
  OBVIOUS
<1>1. PointersTyped
  BY DEF Inv
<1>2. ASSUME NEW t \in Thread, NEW f \in Fn, Call(t, f)
      PROVE  Inv'
  <2>1. Live(t) /\ Push(t, f) /\ marks' = marks /\ closed' = closed
    BY <1>2 DEF Call
  <2> QED
    BY <1>1, <2>1, PushInv DEF Inv, PointersTyped
<1>3. ASSUME NEW t \in Thread, NEW f \in Fn, Protect(t, f)
      PROVE  Inv'
  <2>1. /\ Live(t) /\ Push(t, f) /\ closed' = closed
        /\ marks' = [marks EXCEPT ![t] = Append(@, Sp(t))]
    BY <1>3 DEF Protect
  <2>2. marks' \in [Thread -> Seq(Nat)]
    BY <1>1, <2>1, SpIsNat, MarksTyped
  <2> QED
    BY <1>1, <2>1, <2>2, PushInv, SMTT(60) DEF Inv, PointersTyped
<1>4. ASSUME NEW t \in Thread, TailCall(t) \/ Return(t)
      PROVE  Inv'
  <2>1. Live(t) /\ Pop(t) /\ marks' = marks /\ closed' = closed
    BY <1>4 DEF TailCall, RemoveCallerFrame, Return
  <2> QED
    BY <1>1, <2>1, PopInv, SMTT(60) DEF Inv, PointersTyped
<1>5. ASSUME NEW t \in Thread, ReturnProtected(t) \/ Raise(t)
      PROVE  Inv'
  <2>1. /\ Live(t) /\ SetSp(t, Floor(t)) /\ closed' = closed
        /\ marks' = [marks EXCEPT ![t] = SubSeq(@, 1, Len(@) - 1)]
    BY <1>5 DEF ReturnProtected, Raise, DropMark
  <2>2. marks' \in [Thread -> Seq(Nat)]
    BY <1>1, <2>1, MarksTyped
  <2> QED
    BY <1>1, <2>1, <2>2, FloorIsNat, SetSpInv, SMTT(60) DEF Inv, PointersTyped
<1>6. ASSUME NEW t \in Thread, ProtectFails(t)
      PROVE  Inv'
  <2>1. /\ Live(t) /\ SetSp(t, Sp(t)) /\ closed' = closed /\ marks' = marks
    BY <1>6 DEF ProtectFails
  <2> QED
    BY <1>1, <2>1, SpIsNat, SetSpInv, SMTT(60) DEF Inv, PointersTyped
<1>7. ASSUME NEW t \in Thread, Close(t)
      PROVE  Inv'
  BY <1>7, CloseInv
<1>8. CASE UNCHANGED vars
  BY <1>8 DEF vars, Inv, PointersTyped, SegmentsAllocated, NoAliasing
<1> QED
  BY <1>2, <1>3, <1>4, <1>5, <1>6, <1>7, <1>8 DEF Next

-----------------------------------------------------------------------------
(* The frames: their depths and their links.                               *)
(*                                                                         *)
(* A stack pointer SetSp has set below the one asked for may be raised     *)
(* again by the mark of an outer PCall, so the frames below the marks have *)
(* to be kept in order as well as those below sp.                          *)

\* Arithmetic of segments.
LEMMA DivModOf ==
  ASSUME NEW F \in 1 .. 255, NEW n \in Nat
  PROVE  /\ n \div F \in Nat
         /\ n % F \in 0 .. F - 1
         /\ n = (n \div F) * F + (n % F)
OBVIOUS

LEMMA DivSum ==
  ASSUME NEW F \in 1 .. 255, NEW k \in Nat, NEW r \in 0 .. F - 1
  PROVE  /\ k * F + r \in Nat
         /\ (k * F + r) \div F = k
         /\ (k * F + r) % F = r
OBVIOUS

LEMMA MulMonotoneOf ==
  ASSUME NEW F \in 1 .. 255, NEW a \in Nat, NEW b \in Nat, a <= b
  PROVE  a * F \in Nat /\ b * F \in Nat /\ a * F <= b * F
<1>1. PICK c \in Nat : b = a + c
  <2>1. b - a \in Nat /\ b = a + (b - a)
    OBVIOUS
  <2> QED
    BY <2>1
<1>2. /\ a * F \in Nat /\ c * F \in Nat
      /\ (a + c) * F = a * F + c * F
  BY SMTT(40)
<1> QED
  BY <1>1, <1>2

LEMMA MulSuccOf ==
  ASSUME NEW F \in 1 .. 255, NEW a \in Nat
  PROVE  a * F \in Nat /\ (a + 1) * F = a * F + F
OBVIOUS

LEMMA SegmentSize == FramesPerSegment \in 1 .. 255
BY AutoGrowAssumption, SMTT(40) DEF AutoGrowAssumption

LEMMA DivMod ==
  ASSUME NEW n \in Nat
  PROVE  /\ n \div FramesPerSegment \in Nat
         /\ n % FramesPerSegment \in Slot
         /\ n = (n \div FramesPerSegment) * FramesPerSegment + (n % FramesPerSegment)
<1>1. FramesPerSegment \in 1 .. 255
  BY SegmentSize
<1>2. /\ n \div FramesPerSegment \in Nat
      /\ n % FramesPerSegment \in 0 .. FramesPerSegment - 1
      /\ n = (n \div FramesPerSegment) * FramesPerSegment + (n % FramesPerSegment)
  BY <1>1, DivModOf, Zenon
<1> QED
  BY <1>2, Zenon DEF Slot

LEMMA DivOf ==
  ASSUME NEW k \in Nat, NEW r \in Slot
  PROVE  /\ k * FramesPerSegment + r \in Nat
         /\ (k * FramesPerSegment + r) \div FramesPerSegment = k
         /\ (k * FramesPerSegment + r) % FramesPerSegment = r
BY SegmentSize, DivSum DEF Slot

LEMMA MulMonotone ==
  ASSUME NEW a \in Nat, NEW b \in Nat, a <= b
  PROVE  /\ a * FramesPerSegment \in Nat /\ b * FramesPerSegment \in Nat
         /\ a * FramesPerSegment <= b * FramesPerSegment
BY SegmentSize, MulMonotoneOf

LEMMA MulSucc ==
  ASSUME NEW a \in Nat
  PROVE  /\ a * FramesPerSegment \in Nat
         /\ (a + 1) * FramesPerSegment = a * FramesPerSegment + FramesPerSegment
BY SegmentSize, MulSuccOf

\* What is within reach of a segment is within reach of the ones above.
LEMMA ReachGrows ==
  ASSUME NEW a \in Nat, NEW b \in Nat, a <= b, NEW m \in Nat,
         m <= a * FramesPerSegment + FramesPerSegment
  PROVE  m <= b * FramesPerSegment + FramesPerSegment
<1> DEFINE aF == a * FramesPerSegment
           bF == b * FramesPerSegment
           F == FramesPerSegment
<1>1. aF \in Nat /\ bF \in Nat /\ aF <= bF /\ F \in Nat /\ m <= aF + F
  BY MulMonotone, SegmentSize
<1> HIDE DEF aF, bF, F
<1>2. m <= bF + F
  BY <1>1
<1> QED
  BY <1>2 DEF bF, F

LEMMA DivBelow ==
  ASSUME NEW n \in Nat, NEW k \in Nat
  PROVE  /\ k * FramesPerSegment \in Nat
         /\ n \div FramesPerSegment <= k <=> n < k * FramesPerSegment + FramesPerSegment
         /\ k <= n \div FramesPerSegment <=> k * FramesPerSegment <= n
<1> DEFINE F == FramesPerSegment
           d == n \div FramesPerSegment
           r == n % FramesPerSegment
<1>1. /\ d \in Nat /\ r \in 0 .. F - 1 /\ n = d * F + r
      /\ F \in 1 .. 255
  BY SegmentSize, DivMod DEF Slot
<1>2. /\ k * F \in Nat /\ (k + 1) * F = k * F + F
      /\ d * F \in Nat /\ (d + 1) * F = d * F + F
  BY <1>1, MulSucc
<1>3. /\ d <= k => d * F <= k * F
      /\ k <= d => k * F <= d * F
      /\ k + 1 <= d => (k + 1) * F <= d * F
      /\ d + 1 <= k => (d + 1) * F <= k * F
  BY <1>1, MulMonotone
<1> DEFINE kF == k * F
           dF == d * F
<1>4. /\ kF \in Nat /\ dF \in Nat /\ n = dF + r
      /\ d <= k => dF <= kF
      /\ k <= d => kF <= dF
      /\ k + 1 <= d => kF + F <= dF
      /\ d + 1 <= k => dF + F <= kF
  BY <1>1, <1>2, <1>3
<1> HIDE DEF kF, dF, d, r, F
<1>5. /\ d <= k <=> n < kF + F
      /\ k <= d <=> kF <= n
  BY <1>1, <1>4
<1> QED
  BY <1>4, <1>5 DEF kF, d, F

LEMMA BelowNext ==
  ASSUME NEW n \in Nat
  PROVE  n < (n \div FramesPerSegment) * FramesPerSegment + FramesPerSegment
<1> DEFINE dF == (n \div FramesPerSegment) * FramesPerSegment
           r == n % FramesPerSegment
           F == FramesPerSegment
<1>1. dF \in Nat /\ F \in Nat /\ r \in 0 .. F - 1 /\ n = dF + r
  BY DivMod, MulSucc, SegmentSize DEF Slot
<1> HIDE DEF dF, r, F
<1>2. n < dF + F
  BY <1>1
<1> QED
  BY <1>2 DEF dF, F

ContentTyped == content \in [Segment -> [Slot -> Frame \cup {NoFrame}]]

\* An outer PCall may return to a depth above i.
Marked(t, i) == \E k \in 1 .. Len(marks[t]) : i < marks[t][k]

\* Slot i of t is below sp or may be again.
Kept(t, i) == i \div FramesPerSegment <= segIdx[t] /\ (i < Sp(t) \/ Marked(t, i))

Linked(t, i) == At(t, i) \in [fn : Fn, idx : {i}, parent : {i - 1}]

FramesKept == \A t \in Thread \ closed, i \in Nat : Kept(t, i) => Linked(t, i)

MarksInReach ==
  \A t \in Thread : \A k \in 1 .. Len(marks[t]) :
    marks[t][k] <= segIdx[t] * FramesPerSegment + FramesPerSegment

\* An outer mark is not beyond the segment after that of an inner one.
MarksOrdered ==
  \A t \in Thread : \A j, k \in 1 .. Len(marks[t]) : j < k =>
    marks[t][j] <= (marks[t][k] \div FramesPerSegment) * FramesPerSegment + FramesPerSegment

MarksInv == MarksInReach /\ MarksOrdered

LinkInv == Inv /\ ContentTyped /\ MarksInv /\ FramesKept

LEMMA LinkInvTypes ==
  ASSUME LinkInv, NEW t \in Thread
  PROVE  /\ segments \in [Thread -> [SegIdx -> Segment \cup {NoSegment}]]
         /\ segIdx \in [Thread -> SegIdx] /\ segIdx[t] \in Nat /\ segIdx[t] \in SegIdx
         /\ SegIdx = 0 .. NumSegments - 1 /\ NumSegments \in Nat \ {0}
         /\ segSp \in [Thread -> 0 .. FramesPerSegment] /\ segSp[t] \in 0 .. FramesPerSegment
         /\ FramesPerSegment \in Nat \ {0}
         /\ marks \in [Thread -> Seq(Nat)] /\ marks[t] \in Seq(Nat) /\ Len(marks[t]) \in Nat
         /\ \A k \in 1 .. Len(marks[t]) : marks[t][k] \in Nat
         /\ Sp(t) \in Nat /\ segIdx[t] * FramesPerSegment \in Nat
         /\ Sp(t) = segSp[t] + segIdx[t] * FramesPerSegment
         /\ Sp(t) <= segIdx[t] * FramesPerSegment + FramesPerSegment
<1>1. PointersTyped
  BY DEF LinkInv, Inv
<1>2. /\ segments \in [Thread -> [SegIdx -> Segment \cup {NoSegment}]]
      /\ segIdx \in [Thread -> SegIdx] /\ segIdx[t] \in Nat /\ segIdx[t] \in SegIdx
      /\ SegIdx = 0 .. NumSegments - 1 /\ NumSegments \in Nat \ {0}
      /\ segSp \in [Thread -> 0 .. FramesPerSegment] /\ segSp[t] \in 0 .. FramesPerSegment
      /\ FramesPerSegment \in Nat \ {0}
      /\ marks \in [Thread -> Seq(Nat)] /\ marks[t] \in Seq(Nat)
  BY <1>1, SizeFacts DEF PointersTyped, SegIdx
<1>3. Len(marks[t]) \in Nat /\ \A k \in 1 .. Len(marks[t]) : marks[t][k] \in Nat
  BY <1>2
<1>4. segIdx[t] * FramesPerSegment \in Nat
  BY <1>2, MulSucc
<1>5. /\ Sp(t) \in Nat
      /\ Sp(t) = segSp[t] + segIdx[t] * FramesPerSegment
      /\ Sp(t) <= segIdx[t] * FramesPerSegment + FramesPerSegment
  BY <1>2, <1>4 DEF Sp
<1> QED
  BY <1>2, <1>3, <1>4, <1>5

LEMMA UsedIndices ==
  ASSUME LinkInv, NEW t \in Thread
  PROVE  segIdx[t] \in Nat /\ 0 .. segIdx[t] \subseteq SegIdx
<1>1. segIdx[t] \in 0 .. NumSegments - 1 /\ SegIdx = 0 .. NumSegments - 1
  BY LinkInvTypes
<1>2. NumSegments \in Nat
  BY LinkInvTypes
<1> QED
  BY <1>1, <1>2

LEMMA BelowSp ==
  ASSUME LinkInv, NEW t \in Thread, NEW i \in Nat, i < Sp(t)
  PROVE  i \div FramesPerSegment \in 0 .. segIdx[t]
<1>1. /\ Sp(t) \in Nat /\ segIdx[t] \in Nat /\ segIdx[t] * FramesPerSegment \in Nat
      /\ Sp(t) <= segIdx[t] * FramesPerSegment + FramesPerSegment
      /\ FramesPerSegment \in Nat
  BY LinkInvTypes
<1>2. i < segIdx[t] * FramesPerSegment + FramesPerSegment
  BY <1>1
<1>3. i \div FramesPerSegment <= segIdx[t]
  BY <1>1, <1>2, DivBelow
<1> QED
  BY <1>1, <1>3, DivMod

LEMMA UpToIndex ==
  ASSUME LinkInv, NEW u \in Thread, NEW d \in Nat, d <= segIdx[u]
  PROVE  d \in 0 .. segIdx[u] /\ 0 .. segIdx[u] \subseteq SegIdx
<1>1. segIdx[u] \in Nat /\ segIdx[u] \in SegIdx
  BY LinkInvTypes
<1>2. SegIdx = 0 .. NumSegments - 1 /\ NumSegments \in Nat
  BY LinkInvTypes
<1> QED
  BY <1>1, <1>2

\* What another thread does leaves the slots of u alone, when it leaves its
\* counters, its pointers and the segments it points to.
LEMMA OthersKept ==
  ASSUME LinkInv, NEW u \in Thread, u \notin closed,
         segIdx'[u] = segIdx[u], segSp'[u] = segSp[u], marks'[u] = marks[u],
         \A k \in SegIdx : segments'[u][k] = segments[u][k],
         \A k \in 0 .. segIdx[u] : content'[segments[u][k]] = content[segments[u][k]]
  PROVE  \A i \in Nat : Kept(u, i)' => Linked(u, i)'
<1> SUFFICES ASSUME NEW i \in Nat, Kept(u, i)'
             PROVE  Linked(u, i)'
  OBVIOUS
<1>1. Kept(u, i)
  BY DEF Kept, Sp, Marked
<1>2. i \div FramesPerSegment \in 0 .. segIdx[u] /\ 0 .. segIdx[u] \subseteq SegIdx
  <2>1. i \div FramesPerSegment <= segIdx[u]
    BY <1>1 DEF Kept
  <2>2. i \div FramesPerSegment \in Nat
    BY DivMod
  <2> QED
    BY <2>1, <2>2, UpToIndex
<1>3. At(u, i)' = At(u, i)
  BY <1>2 DEF At
<1> QED
  BY <1>1, <1>3 DEF LinkInv, FramesKept, Linked

LEMMA OthersSame ==
  ASSUME LinkInv, NEW u \in Thread,
         segIdx'[u] = segIdx[u], segSp'[u] = segSp[u],
         \A k \in SegIdx : segments'[u][k] = segments[u][k],
         \A k \in 0 .. segIdx[u] : content'[segments[u][k]] = content[segments[u][k]]
  PROVE  /\ Sp(u)' = Sp(u)
         /\ \A i \in Nat : i < Sp(u) => At(u, i)' = At(u, i)
<1>1. Sp(u)' = Sp(u)
  BY DEF Sp
<1>2. ASSUME NEW i \in Nat, i < Sp(u)
      PROVE  At(u, i)' = At(u, i)
  <2>1. i \div FramesPerSegment \in 0 .. segIdx[u] /\ 0 .. segIdx[u] \subseteq SegIdx
    BY <1>2, BelowSp, UsedIndices
  <2> QED
    BY <2>1 DEF At
<1> QED
  BY <1>1, <1>2

\* The segments a stack uses are segments, and no other stack uses them.
LEMMA UsedSegments ==
  ASSUME LinkInv, NEW t \in Thread, t \notin closed, NEW k \in 0 .. segIdx[t]
  PROVE  /\ k \in SegIdx
         /\ segments[t][k] \in Segment
         /\ \A u \in Thread, j \in SegIdx :
              segments[u][j] = segments[t][k] => u = t /\ j = k
<1>1. k \in SegIdx
  <2>1. segIdx[t] \in Nat /\ k \in Nat /\ k <= segIdx[t]
    BY LinkInvTypes
  <2> QED
    BY <2>1, UpToIndex
<1>2. segments[t][k] # NoSegment
  BY <1>1, LinkInvTypes DEF LinkInv, Inv, SegmentsAllocated
<1>3. segments[t][k] \in Segment
  BY <1>1, <1>2, LinkInvTypes
<1> QED
  BY <1>1, <1>2, <1>3 DEF LinkInv, Inv, NoAliasing

\* Two slots of a stack in one place are one slot.
LEMMA SamePlace ==
  ASSUME LinkInv, NEW t \in Thread, t \notin closed, NEW i \in Nat, NEW j \in Nat,
         i \div FramesPerSegment <= segIdx[t], j \div FramesPerSegment <= segIdx[t],
         segments[t][i \div FramesPerSegment] = segments[t][j \div FramesPerSegment],
         i % FramesPerSegment = j % FramesPerSegment
  PROVE  i = j
<1>1. /\ i \div FramesPerSegment \in 0 .. segIdx[t]
      /\ j \div FramesPerSegment \in 0 .. segIdx[t]
  BY DivMod, LinkInvTypes
<1>2. i \div FramesPerSegment = j \div FramesPerSegment
  BY <1>1, UsedSegments
<1>3. /\ i = (i \div FramesPerSegment) * FramesPerSegment + (i % FramesPerSegment)
      /\ j = (j \div FramesPerSegment) * FramesPerSegment + (j % FramesPerSegment)
  BY DivMod
<1> QED
  BY <1>2, <1>3

LEMMA WriteTyped ==
  ASSUME ContentTyped, NEW s \in Segment, NEW j \in Slot, NEW fr \in Frame
  PROVE  /\ [content EXCEPT ![s][j] = fr] \in [Segment -> [Slot -> Frame \cup {NoFrame}]]
         /\ [content EXCEPT ![s][j] = fr][s][j] = fr
         /\ \A r \in Segment, l \in Slot :
              r # s \/ l # j => [content EXCEPT ![s][j] = fr][r][l] = content[r][l]
         /\ \A r \in Segment : r # s => [content EXCEPT ![s][j] = fr][r] = content[r]
BY DEF ContentTyped

\* The frame pushed at depth n, above the frame at n - 1.
LEMMA PushedFrame ==
  ASSUME LinkInv, NEW t \in Thread, NEW f \in Fn
  PROVE  FrameOf(t, f, Sp(t)) \in [fn : Fn, idx : {Sp(t)}, parent : {Sp(t) - 1}]
BY DEF FrameOf, LastDepth

LEMMA LinkedIsFrame ==
  ASSUME NEW n \in Nat, NEW fr \in [fn : Fn, idx : {n}, parent : {n - 1}]
  PROVE  fr \in Frame
BY DEF Frame

\* A step leaves the frames of u below its sp where they are.
Unmoved(u) == Sp(u)' = Sp(u) /\ \A i \in Nat : i < Sp(u) => At(u, i)' = At(u, i)

\* A step adds a frame of f to t's stack and does nothing else.
Pushed(t, f) ==
  /\ Sp(t)' = Sp(t) + 1
  /\ \A i \in Nat : i = Sp(t) => At(t, i)' = FrameOf(t, f, Sp(t))
  /\ \A i \in Nat : i \div FramesPerSegment <= segIdx[t] /\ i # Sp(t) => At(t, i)' = At(t, i)
  /\ \A u \in Thread : u \notin closed /\ u # t => Unmoved(u)

LEMMA PushLinked ==
  ASSUME LinkInv, NEW t \in Thread, NEW f \in Fn, Live(t), Push(t, f), closed' = closed,
         \A u \in Thread : u # t => marks'[u] = marks[u],
         \A i \in Nat : Marked(t, i)' => i < Sp(t) \/ Marked(t, i)
  PROVE  /\ ContentTyped' /\ FramesKept' /\ segIdx[t] <= segIdx'[t]
         /\ \A u \in Thread : u # t => segIdx'[u] = segIdx[u]
         /\ Pushed(t, f)
<1> DEFINE K == segIdx[t]
           P == segSp[t]
           fr == FrameOf(t, f, Sp(t))
<1>0. /\ t \notin closed
      /\ K \in Nat /\ K \in 0 .. K /\ P \in 0 .. FramesPerSegment
      /\ FramesPerSegment \in Nat \ {0}
      /\ Sp(t) \in Nat /\ Sp(t) = P + K * FramesPerSegment /\ K * FramesPerSegment \in Nat
  BY LinkInvTypes DEF Live
<1>1. fr \in [fn : Fn, idx : {Sp(t)}, parent : {Sp(t) - 1}] /\ fr \in Frame
  BY <1>0, PushedFrame, LinkedIsFrame
<1>2. ASSUME P < FramesPerSegment,
             content' = [content EXCEPT ![segments[t][K]][P] = fr],
             segSp' = [segSp EXCEPT ![t] = @ + 1],
             segments' = segments, segIdx' = segIdx
      PROVE  /\ ContentTyped' /\ FramesKept' /\ segIdx[t] <= segIdx'[t]
             /\ \A u \in Thread : u # t => segIdx'[u] = segIdx[u]
             /\ Pushed(t, f)
  <2> DEFINE s == segments[t][K]
  <2>1. /\ s \in Segment
        /\ \A u \in Thread, j \in SegIdx : segments[u][j] = s => u = t /\ j = K
    BY <1>0, UsedSegments
  <2>2. P \in Slot
    BY <1>0, <1>2 DEF Slot
  <2>3. /\ ContentTyped'
        /\ content'[s][P] = fr
        /\ \A r \in Segment, l \in Slot : r # s \/ l # P => content'[r][l] = content[r][l]
        /\ \A r \in Segment : r # s => content'[r] = content[r]
    BY <1>1, <1>2, <2>1, <2>2, WriteTyped DEF LinkInv, ContentTyped
  <2>4. Sp(t)' = Sp(t) + 1
    BY <1>0, <1>2, LinkInvTypes DEF Sp
  <2>5. Sp(t) \div FramesPerSegment = K /\ Sp(t) % FramesPerSegment = P
    BY <1>0, <2>2, DivOf
  <2>a. ASSUME NEW i \in Nat, i = Sp(t)
        PROVE  At(t, i)' = fr
    BY <1>2, <2>3, <2>5, <2>a, SMTT(40) DEF At
  <2>b. ASSUME NEW i \in Nat, i \div FramesPerSegment <= K, i # Sp(t)
        PROVE  At(t, i)' = At(t, i)
    <3>1. segments[t][i \div FramesPerSegment] # s \/ i % FramesPerSegment # P
      BY <1>0, <2>5, <2>b, SamePlace, SMTT(40)
    <3>2. /\ segments[t][i \div FramesPerSegment] \in Segment
          /\ i % FramesPerSegment \in Slot
      BY <1>0, <2>b, DivMod, UsedSegments
    <3> QED
      BY <1>2, <2>3, <3>1, <3>2 DEF At
  <2>6. ASSUME NEW i \in Nat, Kept(t, i)'
        PROVE  Linked(t, i)'
    <3>1. i \div FramesPerSegment <= K /\ (i < Sp(t) + 1 \/ i < Sp(t) \/ Marked(t, i))
      BY <1>2, <2>4, <2>6 DEF Kept
    <3>2. CASE i = Sp(t)
      BY <1>1, <2>a, <3>2 DEF Linked
    <3>3. CASE i # Sp(t)
      <4>1. Kept(t, i)
        BY <1>0, <3>1, <3>3 DEF Kept
      <4> QED
        BY <1>0, <2>b, <3>1, <3>3, <4>1 DEF LinkInv, FramesKept, Linked
    <3> QED
      BY <3>2, <3>3
  <2>7. ASSUME NEW u \in Thread, u \notin closed, u # t
        PROVE  /\ \A i \in Nat : Kept(u, i)' => Linked(u, i)'
               /\ Unmoved(u)
    <3>1. \A k \in 0 .. segIdx[u] : content'[segments[u][k]] = content[segments[u][k]]
      BY <2>1, <2>3, <2>7, UsedSegments
    <3>2. segSp'[u] = segSp[u]
      BY <1>2, <2>7, LinkInvTypes
    <3> QED
      BY <1>2, <2>7, <3>1, <3>2, OthersKept, OthersSame DEF Unmoved
  <2>8. FramesKept'
    BY <2>6, <2>7 DEF FramesKept
  <2>9. Pushed(t, f)
    BY <2>4, <2>7, <2>a, <2>b DEF Pushed
  <2> QED
    BY <1>0, <1>2, <2>3, <2>8, <2>9
<1>3. ASSUME P >= FramesPerSegment, K < NumSegments - 1,
             NEW s \in Segment, NewSegment(s),
             segments' = [segments EXCEPT ![t][K + 1] = s],
             content' = [content EXCEPT ![s][0] =
                           FrameOf(t, f, FramesPerSegment * (K + 1))],
             segIdx' = [segIdx EXCEPT ![t] = @ + 1],
             segSp' = [segSp EXCEPT ![t] = 1]
      PROVE  /\ ContentTyped' /\ FramesKept' /\ segIdx[t] <= segIdx'[t]
             /\ \A u \in Thread : u # t => segIdx'[u] = segIdx[u]
             /\ Pushed(t, f)
  <2>1. /\ P = FramesPerSegment
        /\ (K + 1) * FramesPerSegment = K * FramesPerSegment + FramesPerSegment
        /\ Sp(t) = (K + 1) * FramesPerSegment
        /\ FramesPerSegment * (K + 1) = Sp(t)
    <3>1. P = FramesPerSegment
      BY <1>0, <1>3
    <3>2. (K + 1) * FramesPerSegment = K * FramesPerSegment + FramesPerSegment
      BY <1>0, MulSucc
    <3>3. FramesPerSegment * (K + 1) = (K + 1) * FramesPerSegment
      BY <1>0
    <3>4. Sp(t) = FramesPerSegment + K * FramesPerSegment
      BY <1>0, <3>1
    <3> QED
      BY <1>0, <3>1, <3>2, <3>3, <3>4
  <2>2. 0 \in Slot /\ K + 1 \in SegIdx
    <3>1. 0 \in Slot
      BY <1>0 DEF Slot
    <3>2. SegIdx = 0 .. NumSegments - 1 /\ NumSegments \in Nat \ {0}
      BY LinkInvTypes
    <3> QED
      BY <1>0, <1>3, <3>1, <3>2, SMTT(40)
  <2>3. /\ ContentTyped'
        /\ content'[s][0] = fr
        /\ \A r \in Segment : r # s => content'[r] = content[r]
    BY <1>1, <1>3, <2>1, <2>2, WriteTyped DEF LinkInv, ContentTyped
  <2>4. \A u \in Thread, k \in SegIdx :
          segments'[u][k] = IF u = t /\ k = K + 1 THEN s ELSE segments[u][k]
    BY <1>3, <2>2, LinkInvTypes
  <2>5. \A u \in Thread, k \in SegIdx : segments[u][k] # s
    BY <1>3, SizeFacts DEF NewSegment, InAStack, InStack, LinkInv, Inv, NoAliasing
  <2>6. /\ segIdx'[t] = K + 1 /\ segSp'[t] = 1
        /\ \A u \in Thread : u # t => segIdx'[u] = segIdx[u] /\ segSp'[u] = segSp[u]
    BY <1>3, LinkInvTypes
  <2>7. Sp(t)' = Sp(t) + 1
    BY <1>0, <2>1, <2>6 DEF Sp
  <2>8. Sp(t) \div FramesPerSegment = K + 1 /\ Sp(t) % FramesPerSegment = 0
    <3>1. Sp(t) = (K + 1) * FramesPerSegment + 0 /\ K + 1 \in Nat
      BY <1>0, <2>1
    <3> QED
      BY <2>2, <3>1, DivOf
  <2>9. \A i \in Nat : Marked(t, i) => i < Sp(t)
    <3>1. \A k \in 1 .. Len(marks[t]) : marks[t][k] \in Nat /\ marks[t][k] <= Sp(t)
      <4>1. Sp(t) = K * FramesPerSegment + FramesPerSegment
        BY <2>1
      <4>2. \A k \in 1 .. Len(marks[t]) : marks[t][k] \in Nat
        BY LinkInvTypes
      <4> QED
        BY <4>1, <4>2 DEF LinkInv, MarksInv, MarksInReach
    <3> QED
      BY <1>0, <3>1, SMTT(40) DEF Marked
  <2>a. ASSUME NEW i \in Nat, i = Sp(t)
        PROVE  At(t, i)' = fr
    BY <2>2, <2>3, <2>4, <2>8, <2>a DEF At
  <2>b. ASSUME NEW i \in Nat, i \div FramesPerSegment <= K
        PROVE  At(t, i)' = At(t, i)
    <3>1. i \div FramesPerSegment \in 0 .. K
      BY <1>0, <2>b, DivMod
    <3>2. /\ i \div FramesPerSegment \in SegIdx /\ i \div FramesPerSegment # K + 1
          /\ segments[t][i \div FramesPerSegment] \in Segment
      BY <1>0, <3>1, UsedSegments
    <3> QED
      BY <2>3, <2>4, <2>5, <3>2 DEF At
  <2>10. ASSUME NEW i \in Nat, Kept(t, i)'
         PROVE  Linked(t, i)'
    <3>1. i < Sp(t) + 1
      BY <1>0, <2>7, <2>9, <2>10 DEF Kept
    <3>2. CASE i = Sp(t)
      BY <1>1, <2>a, <3>2 DEF Linked
    <3>3. CASE i # Sp(t)
      <4>1. i < Sp(t)
        BY <1>0, <3>1, <3>3
      <4>2. i \div FramesPerSegment <= K
        <5>1. i < K * FramesPerSegment + FramesPerSegment /\ K \in Nat
          BY <1>0, <2>1, <4>1
        <5> QED
          BY <5>1, DivBelow
      <4>3. Kept(t, i)
        BY <4>1, <4>2 DEF Kept
      <4> QED
        BY <1>0, <2>b, <4>2, <4>3 DEF LinkInv, FramesKept, Linked
    <3> QED
      BY <3>2, <3>3
  <2>11. ASSUME NEW u \in Thread, u \notin closed, u # t
         PROVE  /\ \A i \in Nat : Kept(u, i)' => Linked(u, i)'
                /\ Unmoved(u)
    <3>1. \A k \in 0 .. segIdx[u] : content'[segments[u][k]] = content[segments[u][k]]
      BY <2>3, <2>5, <2>11, UsedSegments
    <3> QED
      BY <2>4, <2>6, <2>11, <3>1, OthersKept, OthersSame DEF Unmoved
  <2>12. FramesKept'
    BY <2>10, <2>11 DEF FramesKept
  <2>13. Pushed(t, f)
    BY <2>7, <2>11, <2>a, <2>b DEF Pushed
  <2> QED
    BY <1>0, <2>3, <2>6, <2>12, <2>13
<1> QED
  BY <1>2, <1>3 DEF Push

\* SetSp to a depth the stack has, or had when a PCall began.
LEMMA SetSpLinked ==
  ASSUME LinkInv, NEW t \in Thread, NEW n \in Nat, Live(t), SetSp(t, n),
         closed' = closed, content' = content,
         \A i \in Nat : i < n => i < Sp(t) \/ Marked(t, i),
         \A u \in Thread : u # t => marks'[u] = marks[u],
         \A i \in Nat : Marked(t, i)' => Marked(t, i)
  PROVE  /\ ContentTyped' /\ FramesKept'
         /\ segIdx'[t] \in Nat
         /\ segIdx'[t] = n \div FramesPerSegment \/ segIdx'[t] = segIdx[t]
         /\ n \div FramesPerSegment >= segIdx[t] => segIdx'[t] = segIdx[t]
         /\ \A u \in Thread : u # t => segIdx'[u] = segIdx[u]
<1> DEFINE d == n \div FramesPerSegment
           K == segIdx[t]
           I == IF d < K THEN d ELSE K
<1>0. /\ t \notin closed /\ K \in Nat /\ d \in Nat /\ I \in Nat /\ I <= K
      /\ I <= d
  <2>1. K \in Nat /\ d \in Nat
    BY UsedIndices, DivMod
  <2> QED
    BY <2>1 DEF Live
<1>1. /\ segments' = [segments EXCEPT ![t] =
           [i \in SegIdx |-> IF i \in (d + 1) .. K THEN NoSegment ELSE @[i]]]
      /\ segIdx' = [segIdx EXCEPT ![t] = I]
      /\ segSp' = [segSp EXCEPT ![t] = n % FramesPerSegment]
  BY DEF SetSp, Release, FreedBySetSp
<1>2. /\ \A k \in SegIdx : segments'[t][k] = IF k \in (d + 1) .. K THEN NoSegment
                                             ELSE segments[t][k]
      /\ \A u \in Thread : u # t => segments'[u] = segments[u]
  BY <1>1, LinkInvTypes
<1>3. /\ segIdx'[t] = I /\ segSp'[t] = n % FramesPerSegment
      /\ \A u \in Thread : u # t => segIdx'[u] = segIdx[u] /\ segSp'[u] = segSp[u]
  BY <1>1, LinkInvTypes
<1>4. Sp(t)' \in Nat /\ Sp(t)' <= n
  <2>1. I * FramesPerSegment <= d * FramesPerSegment
    BY <1>0, MulMonotone
  <2>2. n = d * FramesPerSegment + (n % FramesPerSegment) /\ n % FramesPerSegment \in Nat
    BY DivMod DEF Slot
  <2>3. I * FramesPerSegment \in Nat /\ d * FramesPerSegment \in Nat
    BY <1>0, MulSucc
  <2>4. Sp(t)' = (n % FramesPerSegment) + I * FramesPerSegment
    BY <1>3 DEF Sp
  <2> HIDE DEF I, d
  <2> QED
    BY <2>1, <2>2, <2>3, <2>4
<1>5. ASSUME NEW i \in Nat, Kept(t, i)'
      PROVE  Linked(t, i)'
  <2>1. i \div FramesPerSegment <= I /\ (i < Sp(t)' \/ Marked(t, i)')
    BY <1>3, <1>5 DEF Kept
  <2>2. i < Sp(t) \/ Marked(t, i)
    BY <1>4, <2>1
  <2>3. i \div FramesPerSegment \in 0 .. I
    BY <1>0, <2>1, DivMod
  <2>4. Kept(t, i)
    BY <1>0, <2>2, <2>3 DEF Kept
  <2>5. /\ i \div FramesPerSegment \in SegIdx
        /\ i \div FramesPerSegment \notin (d + 1) .. K
    <3>1. i \div FramesPerSegment \in 0 .. K
      BY <1>0, <2>3
    <3>2. i \div FramesPerSegment \in Nat /\ i \div FramesPerSegment <= d
      BY <1>0, <2>3
    <3> QED
      BY <1>0, <3>1, <3>2, UsedIndices
  <2>6. At(t, i)' = At(t, i)
    BY <1>2, <2>5 DEF At
  <2> QED
    BY <1>0, <2>4, <2>6 DEF LinkInv, FramesKept, Linked
<1>6. ASSUME NEW u \in Thread, u \notin closed, u # t
      PROVE  \A i \in Nat : Kept(u, i)' => Linked(u, i)'
  BY <1>2, <1>3, <1>6, OthersKept
<1>7. FramesKept'
  BY <1>5, <1>6 DEF FramesKept
<1>8. ContentTyped'
  BY DEF LinkInv, ContentTyped
<1> QED
  BY <1>0, <1>3, <1>7, <1>8

\* What Pop leaves of a stack that is not empty.
LEMMA PopLowers ==
  ASSUME LinkInv, NEW t \in Thread, Live(t), Pop(t), Sp(t) >= 1
  PROVE  /\ Sp(t)' = Sp(t) - 1
         /\ segIdx'[t] \in Nat
         /\ \/ segIdx'[t] = segIdx[t]
            \/ segIdx[t] = segIdx'[t] + 1 /\ Sp(t) = segIdx[t] * FramesPerSegment
         /\ \A k \in 0 .. segIdx'[t] : segments'[t][k] = segments[t][k]
         /\ \A u \in Thread : u # t => /\ segments'[u] = segments[u]
                                       /\ segIdx'[u] = segIdx[u]
                                       /\ segSp'[u] = segSp[u]
<1> DEFINE K == segIdx[t]
           P == segSp[t]
<1>0. /\ K \in Nat /\ P \in 0 .. FramesPerSegment /\ FramesPerSegment \in Nat \ {0}
      /\ K * FramesPerSegment \in Nat /\ Sp(t) = P + K * FramesPerSegment
      /\ 0 * FramesPerSegment = 0
  BY LinkInvTypes, MulSucc
<1>1. CASE P > 0
  <2>1. segSp' = [segSp EXCEPT ![t] = @ - 1] /\ segIdx' = segIdx /\ segments' = segments
    BY <1>1 DEF Pop
  <2>2. segSp'[t] = P - 1 /\ \A u \in Thread : u # t => segSp'[u] = segSp[u]
    BY <2>1, LinkInvTypes
  <2>3. Sp(t)' = P - 1 + K * FramesPerSegment
    BY <2>1, <2>2 DEF Sp
  <2>4. Sp(t)' = Sp(t) - 1
    BY <1>0, <2>3
  <2> QED
    BY <1>0, <2>1, <2>2, <2>4
<1>2. CASE P = 0
  <2>1. K # 0
    BY <1>0, <1>2
  <2>2. /\ segments' = [segments EXCEPT ![t] =
             [i \in SegIdx |-> IF i \in {K} THEN NoSegment ELSE @[i]]]
        /\ segIdx' = [segIdx EXCEPT ![t] = @ - 1]
        /\ segSp' = [segSp EXCEPT ![t] = FramesPerSegment - 1]
    BY <1>2, <2>1 DEF Pop, Release
  <2>3. /\ segIdx'[t] = K - 1 /\ segSp'[t] = FramesPerSegment - 1
        /\ \A u \in Thread : u # t => segIdx'[u] = segIdx[u] /\ segSp'[u] = segSp[u]
    BY <2>2, LinkInvTypes
  <2>4. /\ \A k \in SegIdx : k # K => segments'[t][k] = segments[t][k]
        /\ \A u \in Thread : u # t => segments'[u] = segments[u]
    BY <2>2, LinkInvTypes
  <2>5. \A k \in 0 .. K - 1 : segments'[t][k] = segments[t][k]
    <3>1. \A k \in 0 .. K - 1 : k \in 0 .. K /\ k # K
      BY <1>0
    <3> QED
      BY <2>4, <3>1, UsedIndices
  <2>6. K - 1 \in Nat /\ K = (K - 1) + 1
    BY <1>0, <2>1
  <2>7. Sp(t)' = FramesPerSegment - 1 + (K - 1) * FramesPerSegment
    BY <2>3 DEF Sp
  <2>8. /\ (K - 1) * FramesPerSegment \in Nat
        /\ K * FramesPerSegment = (K - 1) * FramesPerSegment + FramesPerSegment
    BY <2>6, MulSucc
  <2>9. Sp(t)' = Sp(t) - 1 /\ Sp(t) = K * FramesPerSegment
    BY <1>0, <1>2, <2>7, <2>8
  <2> QED
    BY <2>3, <2>4, <2>5, <2>6, <2>9
<1> QED
  BY <1>0, <1>1, <1>2

LEMMA ReturnLinked ==
  ASSUME LinkInv, NEW t \in Thread, Live(t), Pop(t), Sp(t) >= 1,
         closed' = closed, content' = content, marks' = marks
  PROVE  ContentTyped' /\ FramesKept'
<1>0. t \notin closed /\ segIdx[t] \in Nat /\ Sp(t) \in Nat /\ segIdx'[t] \in Nat
  BY LinkInvTypes, PopLowers DEF Live
<1>1. ASSUME NEW i \in Nat, Kept(t, i)'
      PROVE  Linked(t, i)'
  <2>1. i \div FramesPerSegment \in 0 .. segIdx'[t]
    BY <1>0, <1>1, DivMod DEF Kept
  <2>2. Kept(t, i)
    <3>1. i < Sp(t) \/ Marked(t, i)
      BY <1>0, <1>1, PopLowers DEF Kept, Marked
    <3>2. i \div FramesPerSegment <= segIdx[t]
      BY <1>0, <2>1, PopLowers
    <3> QED
      BY <3>1, <3>2 DEF Kept
  <2>3. At(t, i)' = At(t, i)
    BY <2>1, PopLowers DEF At
  <2> QED
    BY <1>0, <2>2, <2>3 DEF LinkInv, FramesKept, Linked
<1>2. ASSUME NEW u \in Thread, u \notin closed, u # t
      PROVE  \A i \in Nat : Kept(u, i)' => Linked(u, i)'
  BY <1>2, PopLowers, OthersKept
<1>3. FramesKept'
  BY <1>1, <1>2 DEF FramesKept
<1> QED
  BY <1>3 DEF LinkInv, ContentTyped

LEMMA MovedFrame ==
  ASSUME NEW n, NEW a \in [fn : Fn, idx : {n}, parent : {n - 1}],
         NEW b \in [fn : Fn, idx : {n + 1}, parent : {(n + 1) - 1}]
  PROVE  [b EXCEPT !.parent = a.parent, !.idx = n]
           \in [fn : Fn, idx : {n}, parent : {n - 1}]
OBVIOUS

\* The frame on top moves over the one below it and takes its depth and Parent.
LEMMA TailCallLinked ==
  ASSUME LinkInv, NEW t \in Thread, Live(t), RemoveCallerFrame(t), Sp(t) >= 2,
         closed' = closed, marks' = marks
  PROVE  ContentTyped' /\ FramesKept'
<1> DEFINE n == Sp(t) - 2
           s == segments[t][n \div FramesPerSegment]
           j == n % FramesPerSegment
           fr == [At(t, n + 1) EXCEPT !.parent = At(t, n).parent, !.idx = n]
<1>0. /\ t \notin closed /\ segIdx[t] \in Nat /\ Sp(t) \in Nat
  BY UsedIndices, LinkInvTypes DEF Live
<1>1. Pop(t) /\ content' = [content EXCEPT ![s][j] = fr]
  BY DEF RemoveCallerFrame
<1>2. Sp(t)' = Sp(t) - 1 /\ segIdx'[t] \in Nat /\ segIdx'[t] <= segIdx[t]
  BY <1>0, <1>1, PopLowers
<1>n. n \in Nat /\ n + 1 \in Nat /\ n + 1 < Sp(t) /\ n < Sp(t)
  BY <1>0
<1> HIDE DEF n
<1>3. n \div FramesPerSegment \in 0 .. segIdx[t] /\ (n + 1) \div FramesPerSegment \in 0 .. segIdx[t]
  BY <1>n, BelowSp
<1>4. Linked(t, n) /\ Linked(t, n + 1)
  <2>1. Kept(t, n) /\ Kept(t, n + 1)
    BY <1>0, <1>n, <1>3 DEF Kept
  <2> QED
    BY <1>0, <1>n, <2>1 DEF LinkInv, FramesKept
<1>5. fr \in [fn : Fn, idx : {n}, parent : {n - 1}] /\ fr \in Frame
  <2>1. fr \in [fn : Fn, idx : {n}, parent : {n - 1}]
    BY <1>4, MovedFrame DEF Linked
  <2> QED
    BY <1>n, <2>1, LinkedIsFrame
<1>6. /\ n \div FramesPerSegment \in 0 .. segIdx[t] /\ j \in Slot
      /\ s \in Segment
      /\ \A u \in Thread, k \in SegIdx :
           segments[u][k] = s => u = t /\ k = n \div FramesPerSegment
  BY <1>0, <1>n, <1>3, DivMod, UsedSegments
<1>7. /\ ContentTyped'
      /\ content'[s][j] = fr
      /\ \A r \in Segment, l \in Slot : r # s \/ l # j => content'[r][l] = content[r][l]
      /\ \A r \in Segment : r # s => content'[r] = content[r]
  BY <1>1, <1>5, <1>6, WriteTyped DEF LinkInv, ContentTyped
<1>8. ASSUME NEW i \in Nat, Kept(t, i)'
      PROVE  Linked(t, i)'
  <2>1. i \div FramesPerSegment \in 0 .. segIdx'[t] /\ i \div FramesPerSegment \in 0 .. segIdx[t]
    BY <1>0, <1>2, <1>8, DivMod DEF Kept
  <2>2. segments'[t][i \div FramesPerSegment] = segments[t][i \div FramesPerSegment]
    BY <1>0, <1>1, <2>1, PopLowers
  <2>3. CASE i = n
    <3>1. At(t, i)' = fr
      BY <1>7, <2>2, <2>3 DEF At
    <3> QED
      BY <1>5, <2>3, <3>1 DEF Linked
  <2>4. CASE i # n
    <3>1. Kept(t, i)
      <4>1. i < Sp(t) \/ Marked(t, i)
        BY <1>0, <1>2, <1>8 DEF Kept, Marked
      <4> QED
        BY <2>1, <4>1 DEF Kept
    <3>2. segments[t][i \div FramesPerSegment] # s \/ i % FramesPerSegment # j
      <4>1. i \div FramesPerSegment <= segIdx[t] /\ n \div FramesPerSegment <= segIdx[t]
        BY <1>0, <1>3, <2>1
      <4> QED
        BY <1>0, <1>n, <2>4, <4>1, SamePlace
    <3>3. /\ segments[t][i \div FramesPerSegment] \in Segment
          /\ i % FramesPerSegment \in Slot
      BY <1>0, <2>1, DivMod, UsedSegments
    <3>4. At(t, i)' = At(t, i)
      BY <1>7, <2>2, <3>2, <3>3 DEF At
    <3> QED
      BY <1>0, <3>1, <3>4 DEF LinkInv, FramesKept, Linked
  <2> QED
    BY <2>3, <2>4
<1>9. ASSUME NEW u \in Thread, u \notin closed, u # t
      PROVE  \A i \in Nat : Kept(u, i)' => Linked(u, i)'
  <2>1. \A k \in 0 .. segIdx[u] : content'[segments[u][k]] = content[segments[u][k]]
    BY <1>6, <1>7, <1>9, UsedSegments
  <2>2. segments'[u] = segments[u] /\ segIdx'[u] = segIdx[u] /\ segSp'[u] = segSp[u]
    BY <1>0, <1>1, <1>9, PopLowers
  <2> QED
    BY <1>9, <2>1, <2>2, OthersKept
<1>10. FramesKept'
  BY <1>8, <1>9 DEF FramesKept
<1> QED
  BY <1>7, <1>10

(* The marks. *)

LEMMA AppendedMarks ==
  ASSUME NEW s \in Seq(Nat), NEW n \in Nat
  PROVE  /\ Len(Append(s, n)) = Len(s) + 1
         /\ Append(s, n)[Len(s) + 1] = n
         /\ \A k \in 1 .. Len(s) : Append(s, n)[k] = s[k]
BY AppendProperties

LEMMA DroppedMarks ==
  ASSUME NEW s \in Seq(Nat), s # <<>>
  PROVE  /\ Len(s) \in Nat \ {0}
         /\ Len(SubSeq(s, 1, Len(s) - 1)) = Len(s) - 1
         /\ \A k \in 1 .. Len(s) - 1 : SubSeq(s, 1, Len(s) - 1)[k] = s[k]
<1>1. Len(s) \in Nat \ {0}
  BY EmptySeq, LenProperties
<1>2. Len(s) - 1 \in 0 .. Len(s)
  BY <1>1
<1> QED
  BY <1>1, <1>2, PrefixProperties, ZenonT(60)

\* Calls: no mark is added, and no segment is left.
LEMMA MarksStay ==
  ASSUME LinkInv, marks' = marks,
         \A u \in Thread : segIdx'[u] \in Nat /\ segIdx[u] <= segIdx'[u]
  PROVE  MarksInv'
<1>1. ASSUME NEW t \in Thread, NEW k \in 1 .. Len(marks[t])
      PROVE  marks[t][k] <= segIdx'[t] * FramesPerSegment + FramesPerSegment
  <2>1. segIdx[t] \in Nat /\ marks[t][k] \in Nat
    BY LinkInvTypes
  <2>2. marks[t][k] <= segIdx[t] * FramesPerSegment + FramesPerSegment
    BY DEF LinkInv, MarksInv, MarksInReach
  <2> QED
    BY <2>1, <2>2, ReachGrows
<1>2. MarksInReach'
  BY <1>1 DEF MarksInReach
<1>3. MarksOrdered'
  BY DEF LinkInv, MarksInv, MarksOrdered
<1> QED
  BY <1>2, <1>3 DEF MarksInv

\* PCall: the mark is sp.
LEMMA ProtectMarks ==
  ASSUME LinkInv, NEW t \in Thread, marks' = [marks EXCEPT ![t] = Append(@, Sp(t))]
  PROVE  /\ \A u \in Thread : u # t => marks'[u] = marks[u]
         /\ \A i \in Nat : Marked(t, i)' => i < Sp(t) \/ Marked(t, i)
<1> DEFINE L == Len(marks[t])
<1>0. L \in Nat /\ Sp(t) \in Nat
  BY LinkInvTypes
<1>1. /\ marks'[t] = Append(marks[t], Sp(t))
      /\ \A u \in Thread : u # t => marks'[u] = marks[u]
  BY LinkInvTypes
<1>2. /\ Len(marks'[t]) = L + 1
      /\ marks'[t][L + 1] = Sp(t)
      /\ \A k \in 1 .. L : marks'[t][k] = marks[t][k]
  BY <1>0, <1>1, AppendedMarks, LinkInvTypes
<1>3. ASSUME NEW i \in Nat, Marked(t, i)'
      PROVE  i < Sp(t) \/ Marked(t, i)
  <2>1. PICK k \in 1 .. L + 1 : i < marks'[t][k]
    BY <1>2, <1>3 DEF Marked
  <2>2. k = L + 1 \/ k \in 1 .. L
    BY <1>0
  <2> QED
    BY <1>2, <2>1, <2>2 DEF Marked
<1> QED
  BY <1>1, <1>3

LEMMA MarksProtect ==
  ASSUME LinkInv, NEW t \in Thread,
         marks' = [marks EXCEPT ![t] = Append(@, Sp(t))],
         \A u \in Thread : segIdx'[u] \in Nat /\ segIdx[u] <= segIdx'[u]
  PROVE  MarksInv'
<1> DEFINE L == Len(marks[t])
<1>0. /\ L \in Nat /\ Sp(t) \in Nat /\ segIdx[t] \in Nat /\ FramesPerSegment \in Nat
      /\ segIdx[t] * FramesPerSegment \in Nat
      /\ Sp(t) = segSp[t] + segIdx[t] * FramesPerSegment /\ segSp[t] \in Nat
      /\ Sp(t) <= segIdx[t] * FramesPerSegment + FramesPerSegment
  BY LinkInvTypes
<1>1. /\ marks'[t] = Append(marks[t], Sp(t))
      /\ \A u \in Thread : u # t => marks'[u] = marks[u]
  BY LinkInvTypes
<1>2. /\ Len(marks'[t]) = L + 1
      /\ marks'[t][L + 1] = Sp(t)
      /\ \A k \in 1 .. L : marks'[t][k] = marks[t][k]
  BY <1>0, <1>1, AppendedMarks, LinkInvTypes
<1>3. \A u \in Thread : \A k \in 1 .. Len(marks[u]) :
        /\ marks[u][k] \in Nat
        /\ marks[u][k] <= segIdx[u] * FramesPerSegment + FramesPerSegment
  BY LinkInvTypes DEF LinkInv, MarksInv, MarksInReach
<1>4. L \in Nat /\ \A u \in Thread : segIdx[u] \in Nat
  BY UsedIndices, LinkInvTypes
<1>5. ASSUME NEW u \in Thread, NEW k \in 1 .. Len(marks'[u])
      PROVE  marks'[u][k] <= segIdx'[u] * FramesPerSegment + FramesPerSegment
  <2>1. marks'[u][k] \in Nat /\ marks'[u][k] <= segIdx[u] * FramesPerSegment + FramesPerSegment
    <3>1. CASE u # t
      BY <1>1, <1>3, <3>1
    <3>2. CASE u = t /\ k = L + 1
      BY <1>0, <1>2, <3>2
    <3>3. CASE u = t /\ k # L + 1
      <4>1. k \in 1 .. L
        BY <1>4, <1>2, <3>3
      <4> QED
        BY <1>2, <1>3, <3>3, <4>1
    <3> QED
      BY <3>1, <3>2, <3>3
  <2> QED
    BY <1>4, <2>1, ReachGrows
<1>6. ASSUME NEW u \in Thread, NEW j \in 1 .. Len(marks'[u]), NEW k \in 1 .. Len(marks'[u]),
             j < k
      PROVE  marks'[u][j] <= (marks'[u][k] \div FramesPerSegment) * FramesPerSegment
                               + FramesPerSegment
  <2>1. CASE u # t
    BY <1>1, <1>6, <2>1 DEF LinkInv, MarksInv, MarksOrdered
  <2>2. CASE u = t /\ k # L + 1
    <3>1. j \in 1 .. L /\ k \in 1 .. L
      BY <1>4, <1>2, <1>6, <2>2
    <3> QED
      BY <1>2, <1>6, <2>2, <3>1 DEF LinkInv, MarksInv, MarksOrdered
  <2>3. CASE u = t /\ k = L + 1
    <3> DEFINE d == Sp(t) \div FramesPerSegment
    <3>1. j \in 1 .. L
      BY <1>4, <1>2, <1>6, <2>3
    <3>2. segIdx[t] * FramesPerSegment <= Sp(t)
      BY <1>0
    <3>3. segIdx[t] <= d /\ d \in Nat
      BY <1>0, <3>2, DivBelow, DivMod
    <3>5. /\ marks[t][j] \in Nat
          /\ marks[t][j] <= segIdx[t] * FramesPerSegment + FramesPerSegment
      BY <1>3, <3>1
    <3>6. marks[t][j] <= d * FramesPerSegment + FramesPerSegment
      BY <1>4, <3>3, <3>5, ReachGrows
    <3> QED
      BY <1>2, <2>3, <3>1, <3>6
  <2> QED
    BY <2>1, <2>2, <2>3
<1>7. MarksInReach' /\ MarksOrdered'
  BY <1>5, <1>6 DEF MarksInReach, MarksOrdered
<1> QED
  BY <1>7 DEF MarksInv

\* The last mark, which no return digs below.
LEMMA FloorIsLastMark ==
  ASSUME LinkInv, NEW t \in Thread, marks[t] # <<>>
  PROVE  /\ Len(marks[t]) \in Nat \ {0} /\ Len(marks[t]) \in 1 .. Len(marks[t])
         /\ Floor(t) = marks[t][Len(marks[t])]
         /\ Floor(t) \in Nat /\ Floor(t) \div FramesPerSegment \in Nat
         /\ \A i \in Nat : i < Floor(t) => Marked(t, i)
         /\ \A k \in 1 .. Len(marks[t]) : k # Len(marks[t]) =>
              marks[t][k] <= (Floor(t) \div FramesPerSegment) * FramesPerSegment
                               + FramesPerSegment
<1>1. Len(marks[t]) \in Nat \ {0} /\ \A k \in 1 .. Len(marks[t]) : marks[t][k] \in Nat
  BY DroppedMarks, LinkInvTypes
<1>2. Len(marks[t]) \in 1 .. Len(marks[t])
  BY <1>1
<1>3. Floor(t) = marks[t][Len(marks[t])] /\ Floor(t) \in Nat
  BY <1>1, <1>2 DEF Floor
<1>4. \A k \in 1 .. Len(marks[t]) : k # Len(marks[t]) => k < Len(marks[t])
  BY <1>1
<1>5. \A k \in 1 .. Len(marks[t]) : k # Len(marks[t]) =>
        marks[t][k] <= (Floor(t) \div FramesPerSegment) * FramesPerSegment + FramesPerSegment
  BY <1>2, <1>3, <1>4 DEF LinkInv, MarksInv, MarksOrdered
<1>6. Floor(t) \div FramesPerSegment \in Nat
  BY <1>3, DivMod
<1>7. \A i \in Nat : i < Floor(t) => Marked(t, i)
  BY <1>2, <1>3 DEF Marked
<1> QED
  BY <1>1, <1>2, <1>3, <1>5, <1>6, <1>7

\* Returns and tail calls, which stay above the last mark.
LEMMA MarksPop ==
  ASSUME LinkInv, NEW t \in Thread, Live(t), Pop(t), Sp(t) >= Floor(t) + 1, marks' = marks
  PROVE  MarksInv'
<1>0. Sp(t) >= 1 /\ Floor(t) \in Nat /\ Sp(t) \in Nat
  <2>1. Floor(t) \in Nat
    BY FloorIsNat DEF LinkInv, Inv
  <2> QED
    BY <2>1, LinkInvTypes
<1>1. ASSUME NEW u \in Thread, NEW k \in 1 .. Len(marks[u])
      PROVE  marks[u][k] <= segIdx'[u] * FramesPerSegment + FramesPerSegment
  <2>1. marks[u][k] <= segIdx[u] * FramesPerSegment + FramesPerSegment
    BY DEF LinkInv, MarksInv, MarksInReach
  <2>2. CASE segIdx'[u] = segIdx[u]
    BY <2>1, <2>2
  <2>3. CASE segIdx'[u] # segIdx[u]
    <3> DEFINE I == segIdx'[t]
    <3>1. u = t /\ I \in Nat /\ segIdx[t] = I + 1 /\ Sp(t) = segIdx[t] * FramesPerSegment
      BY <1>0, <2>3, PopLowers
    <3>2. I * FramesPerSegment \in Nat /\ Sp(t) = I * FramesPerSegment + FramesPerSegment
      BY <3>1, MulSucc
    <3>3. marks[t] # <<>>
      BY <3>1, LinkInvTypes
    <3>4. CASE k = Len(marks[t])
      <4>1. marks[u][k] = Floor(t)
        BY <3>1, <3>3, <3>4, FloorIsLastMark
      <4> QED
        BY <1>0, <3>1, <3>2, <4>1
    <3>5. CASE k # Len(marks[t])
      <4> DEFINE d == Floor(t) \div FramesPerSegment
      <4>1. marks[u][k] <= d * FramesPerSegment + FramesPerSegment /\ d \in Nat
        BY <3>1, <3>3, <3>5, FloorIsLastMark
      <4>2. Floor(t) < I * FramesPerSegment + FramesPerSegment
        BY <1>0, <3>2
      <4>3. d <= I
        BY <1>0, <3>1, <4>2, DivBelow
      <4>4. marks[u][k] \in Nat
        BY LinkInvTypes
      <4> QED
        BY <3>1, <4>1, <4>3, <4>4, ReachGrows
    <3> QED
      BY <3>4, <3>5
  <2> QED
    BY <2>2, <2>3
<1>2. MarksInReach'
  BY <1>1 DEF MarksInReach
<1>3. MarksOrdered'
  BY DEF LinkInv, MarksInv, MarksOrdered
<1> QED
  BY <1>2, <1>3 DEF MarksInv

\* PCall drops its mark.
LEMMA MarksDrop ==
  ASSUME LinkInv, NEW t \in Thread, marks[t] # <<>>, DropMark(t),
         segIdx'[t] = Floor(t) \div FramesPerSegment \/ segIdx'[t] = segIdx[t],
         \A u \in Thread : u # t => segIdx'[u] = segIdx[u]
  PROVE  MarksInv'
<1> DEFINE L == Len(marks[t])
<1>1. /\ marks'[t] = SubSeq(marks[t], 1, L - 1)
      /\ \A u \in Thread : u # t => marks'[u] = marks[u]
  BY LinkInvTypes DEF DropMark
<1>2. /\ L \in Nat \ {0}
      /\ Len(marks'[t]) = L - 1
      /\ \A k \in 1 .. L - 1 : marks'[t][k] = marks[t][k]
  BY <1>1, DroppedMarks, LinkInvTypes
<1>3. \A k \in 1 .. L - 1 : k \in 1 .. L /\ k # L
  BY <1>2
<1>4. ASSUME NEW u \in Thread, NEW k \in 1 .. Len(marks'[u])
      PROVE  marks'[u][k] <= segIdx'[u] * FramesPerSegment + FramesPerSegment
  <2>1. CASE u # t
    BY <1>1, <2>1 DEF LinkInv, MarksInv, MarksInReach
  <2>2. CASE u = t
    <3>1. k \in 1 .. L /\ k # L /\ marks'[u][k] = marks[t][k]
      BY <1>2, <1>3, <2>2
    <3>2. marks[t][k] <= segIdx[t] * FramesPerSegment + FramesPerSegment
      BY <3>1 DEF LinkInv, MarksInv, MarksInReach
    <3>3. marks[t][k] <= (Floor(t) \div FramesPerSegment) * FramesPerSegment + FramesPerSegment
      BY <3>1, FloorIsLastMark
    <3> QED
      BY <2>2, <3>1, <3>2, <3>3
  <2> QED
    BY <2>1, <2>2
<1>5. ASSUME NEW u \in Thread, NEW j \in 1 .. Len(marks'[u]), NEW k \in 1 .. Len(marks'[u]),
             j < k
      PROVE  marks'[u][j] <= (marks'[u][k] \div FramesPerSegment) * FramesPerSegment
                               + FramesPerSegment
  <2>1. CASE u # t
    BY <1>1, <1>5, <2>1 DEF LinkInv, MarksInv, MarksOrdered
  <2>2. CASE u = t
    <3>1. /\ j \in 1 .. L /\ k \in 1 .. L
          /\ marks'[u][j] = marks[t][j] /\ marks'[u][k] = marks[t][k]
      BY <1>2, <1>3, <2>2
    <3> QED
      BY <1>5, <2>2, <3>1 DEF LinkInv, MarksInv, MarksOrdered
  <2> QED
    BY <2>1, <2>2
<1> QED
  BY <1>4, <1>5 DEF MarksInv, MarksInReach, MarksOrdered

LEMMA DropUnmarks ==
  ASSUME LinkInv, NEW t \in Thread, marks[t] # <<>>, DropMark(t)
  PROVE  /\ \A u \in Thread : u # t => marks'[u] = marks[u]
         /\ \A i \in Nat : Marked(t, i)' => Marked(t, i)
<1> DEFINE L == Len(marks[t])
<1>1. /\ marks'[t] = SubSeq(marks[t], 1, L - 1)
      /\ \A u \in Thread : u # t => marks'[u] = marks[u]
  BY LinkInvTypes DEF DropMark
<1>2. /\ L \in Nat \ {0}
      /\ Len(marks'[t]) = L - 1
      /\ \A k \in 1 .. L - 1 : marks'[t][k] = marks[t][k]
  BY <1>1, DroppedMarks, LinkInvTypes
<1>3. \A k \in 1 .. L - 1 : k \in 1 .. L
  BY <1>2
<1> QED
  BY <1>1, <1>2, <1>3 DEF Marked

LEMMA InitLinkInv == Init => LinkInv
<1> SUFFICES ASSUME Init
             PROVE  LinkInv
  OBVIOUS
<1>1. Inv
  BY InitInv
<1>2. ContentTyped
  BY DEF Init, ContentTyped
<1>3. \A t \in Thread : marks[t] = <<>> /\ segIdx[t] = 0 /\ segSp[t] = 0
  BY DEF Init
<1>4. MarksInv
  BY <1>3 DEF MarksInv, MarksInReach, MarksOrdered
<1>5. ASSUME NEW t \in Thread
      PROVE  Sp(t) = 0
  BY <1>3, <1>5, SizeFacts DEF Sp
<1>6. FramesKept
  BY <1>3, <1>5 DEF FramesKept, Kept, Marked
<1> QED
  BY <1>1, <1>2, <1>4, <1>6 DEF LinkInv

LEMMA StepLinkInv == LinkInv /\ [Next]_vars => LinkInv'
<1> SUFFICES ASSUME LinkInv, [Next]_vars
             PROVE  LinkInv'
  OBVIOUS
<1>1. Inv'
  BY StepInv DEF LinkInv
<1>2. \A t \in Thread : segIdx'[t] \in Nat
  <2>1. segIdx' \in [Thread -> SegIdx] /\ SegIdx \subseteq Nat
    BY <1>1, SizeFacts DEF Inv, PointersTyped, SegIdx
  <2> QED
    BY <2>1
<1>3. ASSUME NEW t \in Thread, NEW f \in Fn, Call(t, f)
      PROVE  LinkInv'
  <2>1. Live(t) /\ Push(t, f) /\ marks' = marks /\ closed' = closed
    BY <1>3 DEF Call
  <2>2. /\ ContentTyped' /\ FramesKept' /\ segIdx[t] <= segIdx'[t]
        /\ \A u \in Thread : u # t => segIdx'[u] = segIdx[u]
    BY <2>1, PushLinked DEF Marked
  <2>3. \A u \in Thread : segIdx[u] <= segIdx'[u]
    BY <2>2, UsedIndices
  <2> QED
    BY <1>1, <1>2, <2>1, <2>2, <2>3, MarksStay DEF LinkInv
<1>4. ASSUME NEW t \in Thread, NEW f \in Fn, Protect(t, f)
      PROVE  LinkInv'
  <2>1. /\ Live(t) /\ Push(t, f) /\ closed' = closed
        /\ marks' = [marks EXCEPT ![t] = Append(@, Sp(t))]
    BY <1>4 DEF Protect
  <2>2. /\ \A u \in Thread : u # t => marks'[u] = marks[u]
        /\ \A i \in Nat : Marked(t, i)' => i < Sp(t) \/ Marked(t, i)
    BY <2>1, ProtectMarks
  <2>3. /\ ContentTyped' /\ FramesKept' /\ segIdx[t] <= segIdx'[t]
        /\ \A u \in Thread : u # t => segIdx'[u] = segIdx[u]
    BY <2>1, <2>2, PushLinked
  <2>4. \A u \in Thread : segIdx[u] <= segIdx'[u]
    BY <2>3, UsedIndices
  <2> QED
    BY <1>1, <1>2, <2>1, <2>3, <2>4, MarksProtect DEF LinkInv
<1>5. ASSUME NEW t \in Thread, TailCall(t)
      PROVE  LinkInv'
  <2>1. /\ Live(t) /\ RemoveCallerFrame(t) /\ Pop(t) /\ Sp(t) >= Floor(t) + 2
        /\ marks' = marks /\ closed' = closed
    BY <1>5 DEF TailCall, RemoveCallerFrame
  <2>2. Sp(t) >= 2 /\ Sp(t) >= Floor(t) + 1
    <3>1. Floor(t) \in Nat /\ Sp(t) \in Nat
      BY FloorIsNat, SpIsNat DEF LinkInv, Inv
    <3> QED
      BY <2>1, <3>1
  <2> QED
    BY <1>1, <2>1, <2>2, TailCallLinked, MarksPop DEF LinkInv
<1>6. ASSUME NEW t \in Thread, Return(t)
      PROVE  LinkInv'
  <2>1. /\ Live(t) /\ Pop(t) /\ content' = content /\ marks' = marks /\ closed' = closed
        /\ Sp(t) >= Floor(t) + (IF marks[t] = <<>> THEN 1 ELSE 2)
    BY <1>6 DEF Return
  <2>2. Sp(t) >= 1 /\ Sp(t) >= Floor(t) + 1
    <3>1. Floor(t) \in Nat /\ Sp(t) \in Nat
      BY FloorIsNat, SpIsNat DEF LinkInv, Inv
    <3> QED
      BY <2>1, <3>1
  <2> QED
    BY <1>1, <2>1, <2>2, ReturnLinked, MarksPop DEF LinkInv
<1>7. ASSUME NEW t \in Thread, ReturnProtected(t) \/ Raise(t)
      PROVE  LinkInv'
  <2>1. /\ Live(t) /\ SetSp(t, Floor(t)) /\ DropMark(t) /\ marks[t] # <<>>
        /\ content' = content /\ closed' = closed
    BY <1>7 DEF ReturnProtected, Raise
  <2>2. Floor(t) \in Nat /\ \A i \in Nat : i < Floor(t) => i < Sp(t) \/ Marked(t, i)
    BY <2>1, FloorIsLastMark
  <2>3. /\ \A u \in Thread : u # t => marks'[u] = marks[u]
        /\ \A i \in Nat : Marked(t, i)' => Marked(t, i)
    BY <2>1, DropUnmarks
  <2>4. /\ ContentTyped' /\ FramesKept'
        /\ segIdx'[t] = Floor(t) \div FramesPerSegment \/ segIdx'[t] = segIdx[t]
        /\ \A u \in Thread : u # t => segIdx'[u] = segIdx[u]
    BY <2>1, <2>2, <2>3, SetSpLinked
  <2> QED
    BY <1>1, <2>1, <2>4, MarksDrop DEF LinkInv
<1>8. ASSUME NEW t \in Thread, ProtectFails(t)
      PROVE  LinkInv'
  <2>1. /\ Live(t) /\ SetSp(t, Sp(t)) /\ content' = content /\ closed' = closed
        /\ marks' = marks
    BY <1>8 DEF ProtectFails
  <2>2. Sp(t) \in Nat /\ segIdx[t] \in Nat /\ segIdx[t] * FramesPerSegment <= Sp(t)
    <3>1. /\ Sp(t) \in Nat /\ segIdx[t] \in Nat /\ segIdx[t] * FramesPerSegment \in Nat
          /\ segSp[t] \in Nat /\ Sp(t) = segSp[t] + segIdx[t] * FramesPerSegment
      BY LinkInvTypes
    <3> QED
      BY <3>1
  <2>3. Sp(t) \div FramesPerSegment >= segIdx[t]
    <3>1. segIdx[t] <= Sp(t) \div FramesPerSegment
      BY <2>2, DivBelow
    <3> QED
      BY <2>2, <3>1, DivMod
  <2>4. \A i \in Nat : Marked(t, i)' => Marked(t, i)
    BY <2>1 DEF Marked
  <2>5. /\ ContentTyped' /\ FramesKept' /\ segIdx'[t] = segIdx[t]
        /\ \A u \in Thread : u # t => segIdx'[u] = segIdx[u]
    BY <2>1, <2>2, <2>3, <2>4, SetSpLinked
  <2>6. \A u \in Thread : segIdx[u] <= segIdx'[u]
    BY <2>5, UsedIndices
  <2> QED
    BY <1>1, <1>2, <2>1, <2>5, <2>6, MarksStay DEF LinkInv
<1>9. ASSUME NEW t \in Thread, Close(t)
      PROVE  LinkInv'
  <2>1. /\ Release(t, 0 .. segIdx[t]) /\ closed' = closed \cup {t}
        /\ UNCHANGED <<segIdx, segSp, content, marks>>
    BY <1>9 DEF Close
  <2>2. \A u \in Thread : u # t => segments'[u] = segments[u]
    BY <2>1, LinkInvTypes DEF Release
  <2>3. ASSUME NEW u \in Thread, u \notin closed, u # t
        PROVE  \A i \in Nat : Kept(u, i)' => Linked(u, i)'
    BY <2>1, <2>2, <2>3, OthersKept
  <2>4. FramesKept'
    BY <2>1, <2>3 DEF FramesKept
  <2>5. \A u \in Thread : segIdx[u] <= segIdx'[u]
    BY <2>1, UsedIndices
  <2>6. ContentTyped'
    BY <2>1 DEF LinkInv, ContentTyped
  <2> QED
    BY <1>1, <1>2, <2>1, <2>4, <2>5, <2>6, MarksStay DEF LinkInv
<1>10. CASE UNCHANGED vars
  BY <1>1, <1>10 DEF vars, LinkInv, ContentTyped, MarksInv, MarksInReach, MarksOrdered,
                     FramesKept, Kept, Linked, Marked, Sp, At
<1> QED
  BY <1>3, <1>4, <1>5, <1>6, <1>7, <1>8, <1>9, <1>10 DEF Next

LEMMA LinkInvLinks == LinkInv => FramesLinked
<1> SUFFICES ASSUME LinkInv, NEW t \in Thread \ closed, NEW i \in 0 .. Sp(t) - 1
             PROVE  At(t, i).idx = i /\ At(t, i).parent = i - 1
  BY DEF FramesLinked
<1>1. i \in Nat /\ i < Sp(t)
  BY LinkInvTypes
<1>2. i \div FramesPerSegment <= segIdx[t]
  <2>1. i \div FramesPerSegment \in 0 .. segIdx[t]
    BY <1>1, BelowSp
  <2> QED
    BY <2>1, UsedIndices
<1>3. Linked(t, i)
  BY <1>1, <1>2 DEF LinkInv, FramesKept, Kept
<1> QED
  BY <1>3 DEF Linked

-----------------------------------------------------------------------------
\* No segment of call frames is ever shared: not by two LStates, not by a stack
\* and the pool another LState takes its segments from.
THEOREM NeverAliased == Spec => []NoAliasing
<1>1. Init => Inv
  BY InitInv
<1>2. Inv /\ [Next]_vars => Inv'
  BY StepInv
<1>3. Inv => NoAliasing
  BY DEF Inv
<1> QED
  BY <1>1, <1>2, <1>3, PTL DEF Spec

\* A stack points to a segment for every index up to segIdx and to none above:
\* Push, Pop and SetSp never follow a nil segment, Close gives all of them back.
THEOREM AlwaysAllocated == Spec => []SegmentsAllocated
<1>1. Init => Inv
  BY InitInv
<1>2. Inv /\ [Next]_vars => Inv'
  BY StepInv
<1>3. Inv => SegmentsAllocated
  BY DEF Inv
<1> QED
  BY <1>1, <1>2, <1>3, PTL DEF Spec

\* Counters stay in range, pointers are segments or nil, slots hold frames, for
\* any number of LStates, segments and protected calls (Push, SetSp, Pop, FreeAll).
THEOREM TypeCorrect == Spec => []TypeOK
<1>1. LinkInv => TypeOK
  BY DEF LinkInv, Inv, PointersTyped, ContentTyped, TypeOK
<1> QED
  BY <1>1, InitLinkInv, StepLinkInv, PTL DEF Spec

\* Every live frame knows its depth and has the frame below it as its Parent,
\* for any number of LStates, whatever SetSp does to the depth of a stack.
THEOREM FramesStayLinked == Spec => []FramesLinked
<1> QED
  BY InitLinkInv, StepLinkInv, LinkInvLinks, PTL DEF Spec

-----------------------------------------------------------------------------
(* The implementation of the abstract stack, for programs that give PCall  *)
(* functions and stay below the capacity: others reach the depths at which *)
(* IsFull and SetSp are wrong.                                             *)

FunctionsFit == Callee \subseteq {"function"} /\ MaxDepth <= Capacity

\* The marks of the PCalls in progress are in order below sp.
MarksNested ==
  \A t \in Thread \ closed :
    /\ \A k \in 1 .. Len(marks[t]) : marks[t][k] < Sp(t)
    /\ \A j, k \in 1 .. Len(marks[t]) : j < k => marks[t][j] < marks[t][k]

ImplInv == LinkInv /\ MarksNested

LEMMA SetSpEffect ==
  ASSUME LinkInv, NEW t \in Thread, NEW n \in Nat, Live(t), SetSp(t, n),
         content' = content, n < Sp(t)
  PROVE  /\ Sp(t)' = n
         /\ \A i \in Nat : i < n => At(t, i)' = At(t, i)
         /\ \A u \in Thread : u # t => Unmoved(u)
<1> DEFINE d == n \div FramesPerSegment
           K == segIdx[t]
<1>0. K \in Nat /\ d \in Nat /\ d <= K
  BY UsedIndices, BelowSp
<1>1. /\ segments' = [segments EXCEPT ![t] =
           [i \in SegIdx |-> IF i \in (d + 1) .. K THEN NoSegment ELSE @[i]]]
      /\ segIdx' = [segIdx EXCEPT ![t] = IF d < K THEN d ELSE K]
      /\ segSp' = [segSp EXCEPT ![t] = n % FramesPerSegment]
  BY DEF SetSp, Release, FreedBySetSp
<1>2. /\ \A k \in SegIdx : segments'[t][k] = IF k \in (d + 1) .. K THEN NoSegment
                                             ELSE segments[t][k]
      /\ \A u \in Thread : u # t => segments'[u] = segments[u]
  BY <1>1, LinkInvTypes
<1>3. (IF d < K THEN d ELSE K) = d
  BY <1>0
<1>4. /\ segIdx'[t] = d /\ segSp'[t] = n % FramesPerSegment
      /\ \A u \in Thread : u # t => segIdx'[u] = segIdx[u] /\ segSp'[u] = segSp[u]
  BY <1>1, <1>3, LinkInvTypes
<1>5. Sp(t)' = n
  <2>1. Sp(t)' = (n % FramesPerSegment) + d * FramesPerSegment
    BY <1>4 DEF Sp
  <2>2. n = d * FramesPerSegment + (n % FramesPerSegment) /\ n % FramesPerSegment \in Nat
    BY DivMod DEF Slot
  <2>3. d * FramesPerSegment \in Nat
    BY <1>0, MulSucc
  <2> HIDE DEF d
  <2> QED
    BY <2>1, <2>2, <2>3
<1>6. ASSUME NEW i \in Nat, i < n
      PROVE  At(t, i)' = At(t, i)
  <2>1. n < d * FramesPerSegment + FramesPerSegment
    BY BelowNext
  <2>2. d * FramesPerSegment \in Nat /\ FramesPerSegment \in Nat
    BY <1>0, MulSucc, SegmentSize
  <2>3. i < d * FramesPerSegment + FramesPerSegment
    <3> HIDE DEF d
    <3> QED
      BY <1>6, <2>1, <2>2
  <2>4. i \div FramesPerSegment <= d /\ i \div FramesPerSegment \in Nat
    BY <1>0, <2>3, DivBelow, DivMod
  <2>5. i \div FramesPerSegment \in 0 .. K /\ i \div FramesPerSegment \notin (d + 1) .. K
    BY <1>0, <2>4
  <2>6. i \div FramesPerSegment \in SegIdx
    BY <2>5, UsedIndices
  <2> QED
    BY <1>2, <2>5, <2>6 DEF At
<1>7. ASSUME NEW u \in Thread, u # t
      PROVE  Unmoved(u)
  BY <1>2, <1>4, <1>7, OthersSame DEF Unmoved
<1> QED
  BY <1>5, <1>6, <1>7

LEMMA PopReach ==
  ASSUME LinkInv, NEW t \in Thread, Live(t), Pop(t), Sp(t) >= 1,
         NEW i \in Nat, i < Sp(t) - 1
  PROVE  i \div FramesPerSegment \in 0 .. segIdx'[t]
<1>0. Sp(t) \in Nat /\ segIdx'[t] \in Nat /\ i < Sp(t)
  BY LinkInvTypes, PopLowers
<1>1. CASE segIdx'[t] = segIdx[t]
  BY <1>0, <1>1, BelowSp
<1>2. CASE segIdx[t] = segIdx'[t] + 1 /\ Sp(t) = segIdx[t] * FramesPerSegment
  <2> DEFINE I == segIdx'[t]
  <2>1. Sp(t) = I * FramesPerSegment + FramesPerSegment
    BY <1>0, <1>2, MulSucc
  <2>2. i < I * FramesPerSegment + FramesPerSegment
    BY <1>0, <2>1
  <2>3. i \div FramesPerSegment <= I
    BY <1>0, <2>2, DivBelow
  <2> QED
    BY <1>0, <2>3, DivMod
<1> QED
  BY <1>1, <1>2, PopLowers

LEMMA PopEffect ==
  ASSUME LinkInv, NEW t \in Thread, Live(t), Pop(t), Sp(t) >= 1, content' = content
  PROVE  /\ Sp(t)' = Sp(t) - 1
         /\ \A i \in Nat : i < Sp(t) - 1 => At(t, i)' = At(t, i)
         /\ \A u \in Thread : u # t => Unmoved(u)
<1>1. ASSUME NEW i \in Nat, i < Sp(t) - 1
      PROVE  At(t, i)' = At(t, i)
  <2>1. i \div FramesPerSegment \in 0 .. segIdx'[t]
    BY <1>1, PopReach
  <2> QED
    BY <2>1, PopLowers DEF At
<1>2. ASSUME NEW u \in Thread, u # t
      PROVE  Unmoved(u)
  BY <1>2, PopLowers, OthersSame DEF Unmoved
<1> QED
  BY <1>1, <1>2, PopLowers

\* The segment of the frame that Pop returns stays with the stack, even if Pop
\* gives one back: that one was empty.
LEMMA PopKeepsFrame ==
  ASSUME LinkInv, NEW t \in Thread, Live(t), Pop(t), Sp(t) >= 1
  PROVE  segments'[t][(Sp(t) - 1) \div FramesPerSegment] = segments[t][(Sp(t) - 1) \div FramesPerSegment]
<1> DEFINE n == Sp(t) - 1
           I == segIdx'[t]
<1>1. Sp(t) \in Nat /\ I \in Nat /\ n \in Nat /\ n < Sp(t)
  <2>1. Sp(t) \in Nat /\ I \in Nat
    BY LinkInvTypes, PopLowers
  <2> QED
    BY <2>1
<1> DEFINE k == n \div FramesPerSegment
<1>2. CASE I = segIdx[t]
  <2>1. k \in 0 .. I
    BY <1>1, <1>2, BelowSp
  <2> HIDE DEF k
  <2>2. segments'[t][k] = segments[t][k]
    BY <2>1, PopLowers
  <2> QED
    BY <2>2 DEF k
<1>3. CASE segIdx[t] = I + 1 /\ Sp(t) = segIdx[t] * FramesPerSegment
  <2>1. Sp(t) = I * FramesPerSegment + FramesPerSegment
    BY <1>1, <1>3, MulSucc
  <2>2. n < I * FramesPerSegment + FramesPerSegment
    BY <1>1, <2>1
  <2>3. n \div FramesPerSegment <= I /\ n \div FramesPerSegment \in Nat
    BY <1>1, <2>2, DivBelow, DivMod
  <2>4. k \in 0 .. I
    BY <1>1, <2>3
  <2> HIDE DEF k
  <2>5. segments'[t][k] = segments[t][k]
    BY <2>4, PopLowers
  <2> QED
    BY <2>5 DEF k
<1> QED
  BY <1>2, <1>3, PopLowers

\* What reads the frame a return popped (switchToParentThread, the return
\* instruction) reads the frame that was popped: no other LState is given its
\* segment in between, however many share the pool.
THEOREM PoppedFrameStays == Spec => PoppedFrameKept
<1> DEFINE Stays(t) ==
             Return(t) => LET i == (Sp(t) - 1) \div FramesPerSegment
                          IN  segments'[t][i] = segments[t][i]
<1>1. LinkInv => \A t \in Thread : Stays(t)
  <2> SUFFICES ASSUME LinkInv, NEW t \in Thread, Return(t)
               PROVE  Stays(t)
    OBVIOUS
  <2>1. Live(t) /\ Pop(t) /\ Sp(t) >= Floor(t) + (IF marks[t] = <<>> THEN 1 ELSE 2)
    BY DEF Return
  <2>2. Sp(t) \in Nat /\ Floor(t) \in Nat
    BY FloorIsNat, SpIsNat DEF LinkInv, Inv
  <2>3. Sp(t) >= 1
    BY <2>1, <2>2
  <2> QED
    BY <2>1, <2>3, PopKeepsFrame
<1>2. LinkInv => [\A t \in Thread : Stays(t)]_vars
  BY <1>1
<1> HIDE DEF Stays
<1>3. Spec => [][\A t \in Thread : Stays(t)]_vars
  BY <1>2, InitLinkInv, StepLinkInv, PTL DEF Spec
<1> QED
  BY <1>3 DEF PoppedFrameKept, Stays

LEMMA TailCallEffect ==
  ASSUME LinkInv, NEW t \in Thread, Live(t), RemoveCallerFrame(t), Sp(t) >= 2
  PROVE  /\ Sp(t)' = Sp(t) - 1
         /\ \A i \in Nat : i < Sp(t) - 2 => At(t, i)' = At(t, i)
         /\ \A i \in Nat : i = Sp(t) - 2 => At(t, i)'.fn = At(t, i + 1).fn
         /\ \A u \in Thread : u \notin closed /\ u # t => Unmoved(u)
<1> DEFINE n == Sp(t) - 2
           s == segments[t][n \div FramesPerSegment]
           j == n % FramesPerSegment
           fr == [At(t, n + 1) EXCEPT !.parent = At(t, n).parent, !.idx = n]
<1>0. t \notin closed /\ segIdx[t] \in Nat /\ Sp(t) \in Nat /\ Sp(t) >= 1
  BY UsedIndices, LinkInvTypes DEF Live
<1>1. Pop(t) /\ content' = [content EXCEPT ![s][j] = fr]
  BY DEF RemoveCallerFrame
<1>2. /\ n \in Nat /\ n + 1 \in Nat /\ n + 1 < Sp(t) /\ n < Sp(t) /\ n < Sp(t) - 1
      /\ Sp(t) - 2 = n
  BY <1>0
<1> HIDE DEF n
<1>3. n \div FramesPerSegment \in 0 .. segIdx[t] /\ (n + 1) \div FramesPerSegment \in 0 .. segIdx[t]
  BY <1>2, BelowSp
<1>4. Linked(t, n + 1)
  <2>1. Kept(t, n + 1)
    BY <1>0, <1>2, <1>3 DEF Kept
  <2> QED
    BY <1>0, <1>2, <2>1 DEF LinkInv, FramesKept
<1>5. fr.fn = At(t, n + 1).fn
  <2>1. At(t, n + 1) \in [fn : Fn, idx : {n + 1}, parent : {(n + 1) - 1}]
    BY <1>4 DEF Linked
  <2> QED
    BY <2>1
<1>6. /\ j \in Slot /\ s \in Segment
      /\ \A u \in Thread, k \in SegIdx :
           segments[u][k] = s => u = t /\ k = n \div FramesPerSegment
  BY <1>0, <1>2, <1>3, DivMod, UsedSegments
<1>7. /\ content'[s][j] = fr
      /\ \A r \in Segment, l \in Slot : r # s \/ l # j => content'[r][l] = content[r][l]
      /\ \A r \in Segment : r # s => content'[r] = content[r]
  BY <1>1, <1>6 DEF LinkInv, ContentTyped
<1>8. ASSUME NEW i \in Nat, i < Sp(t) - 1
      PROVE  /\ segments'[t][i \div FramesPerSegment] = segments[t][i \div FramesPerSegment]
             /\ i \div FramesPerSegment \in 0 .. segIdx[t]
  <2>1. i \div FramesPerSegment \in 0 .. segIdx'[t]
    BY <1>0, <1>1, <1>8, PopReach
  <2>2. i < Sp(t)
    BY <1>0, <1>8
  <2> QED
    BY <1>0, <1>1, <2>1, <2>2, BelowSp, PopLowers
<1>9. ASSUME NEW i \in Nat, i < n
      PROVE  At(t, i)' = At(t, i)
  <2>1. i < Sp(t) - 1 /\ i # n
    BY <1>0, <1>2, <1>9
  <2>2. /\ segments[t][i \div FramesPerSegment] \in Segment
        /\ i % FramesPerSegment \in Slot
    BY <1>0, <1>8, <2>1, DivMod, UsedSegments
  <2>3. i \div FramesPerSegment <= segIdx[t] /\ n \div FramesPerSegment <= segIdx[t]
    BY <1>0, <1>3, <1>8, <2>1
  <2>4. segments[t][i \div FramesPerSegment] # s \/ i % FramesPerSegment # j
    BY <1>0, <1>2, <2>1, <2>3, SamePlace
  <2> QED
    BY <1>7, <1>8, <2>1, <2>2, <2>4 DEF At
<1>10. ASSUME NEW i \in Nat, i = n
       PROVE  At(t, i)' = fr
  BY <1>2, <1>7, <1>8, <1>10 DEF At
<1>11. ASSUME NEW i \in Nat, i = n
       PROVE  At(t, i)'.fn = At(t, i + 1).fn
  BY <1>5, <1>10, <1>11
<1>12. ASSUME NEW u \in Thread, u \notin closed, u # t
       PROVE  Unmoved(u)
  <2>1. \A k \in 0 .. segIdx[u] : content'[segments[u][k]] = content[segments[u][k]]
    BY <1>6, <1>7, <1>12, UsedSegments
  <2>2. segments'[u] = segments[u] /\ segIdx'[u] = segIdx[u] /\ segSp'[u] = segSp[u]
    BY <1>0, <1>1, <1>12, PopLowers, SMTT(40)
  <2> QED
    BY <1>12, <2>1, <2>2, OthersSame DEF Unmoved
<1> QED
  BY <1>0, <1>1, <1>2, <1>9, <1>11, <1>12, PopLowers

\* Under FunctionsFit Push does not panic before IsFull is asked, so that every
\* PCall pushes a frame.
LEMMA NoFailure ==
  ASSUME FunctionsFit, LinkInv, NEW t \in Thread
  PROVE  ~ProtectFails(t)
<1> SUFFICES ASSUME ProtectFails(t)
             PROVE  FALSE
  OBVIOUS
<1>1. Sp(t) < MaxDepth /\ (IsFull(t) \/ PushPanics(t))
  BY DEF FunctionsFit, ProtectFails
<1>2. /\ segIdx[t] \in 0 .. NumSegments - 1 /\ NumSegments \in Nat \ {0}
      /\ segSp[t] \in 0 .. FramesPerSegment /\ FramesPerSegment \in Nat
  BY LinkInvTypes
<1>a. Sp(t) \in Nat /\ Sp(t) = segSp[t] + segIdx[t] * FramesPerSegment
  BY LinkInvTypes
<1>3. segIdx[t] = NumSegments - 1 /\ segSp[t] = FramesPerSegment
  BY <1>1, <1>2 DEF IsFull, PushPanics
<1>4. /\ (NumSegments - 1) * FramesPerSegment \in Nat
      /\ ((NumSegments - 1) + 1) * FramesPerSegment
           = (NumSegments - 1) * FramesPerSegment + FramesPerSegment
  BY <1>2, MulSucc
<1>5. (NumSegments - 1) + 1 = NumSegments
  BY <1>2
<1>6. Sp(t) = Capacity
  <2>1. Sp(t) = FramesPerSegment + (NumSegments - 1) * FramesPerSegment
    BY <1>3, <1>a
  <2>2. Sp(t) = ((NumSegments - 1) + 1) * FramesPerSegment
    BY <1>2, <1>4, <2>1
  <2> QED
    BY <1>5, <2>2 DEF Capacity
<1>7. MaxDepth <= Capacity
  BY DEF FunctionsFit
<1>8. MaxDepth \in Nat
  BY AutoGrowAssumption, SMTT(60) DEF AutoGrowAssumption
<1> QED
  BY <1>1, <1>a, <1>6, <1>7, <1>8

LEMMA InitImplInv == Init => ImplInv
<1> SUFFICES ASSUME Init
             PROVE  ImplInv
  OBVIOUS
<1>1. \A t \in Thread : marks[t] = <<>>
  BY DEF Init
<1>2. MarksNested
  BY <1>1 DEF MarksNested
<1> QED
  BY <1>2, InitLinkInv DEF ImplInv

\* What is true of the last mark when marks are nested.
LEMMA NestedFloor ==
  ASSUME ImplInv, NEW t \in Thread, t \notin closed, marks[t] # <<>>
  PROVE  /\ Floor(t) \in Nat /\ Floor(t) < Sp(t)
         /\ \A k \in 1 .. Len(marks[t]) : k # Len(marks[t]) => marks[t][k] < Floor(t)
         /\ \A k \in 1 .. Len(marks[t]) : marks[t][k] \in Nat /\ marks[t][k] <= Floor(t)
<1>1. /\ Len(marks[t]) \in Nat \ {0} /\ Len(marks[t]) \in 1 .. Len(marks[t])
      /\ Floor(t) = marks[t][Len(marks[t])] /\ Floor(t) \in Nat
  BY FloorIsLastMark DEF ImplInv
<1>2. \A k \in 1 .. Len(marks[t]) : k # Len(marks[t]) => k < Len(marks[t])
  BY <1>1
<1>3. \A k \in 1 .. Len(marks[t]) : k # Len(marks[t]) => marks[t][k] < Floor(t)
  BY <1>1, <1>2 DEF ImplInv, MarksNested
<1>4. \A k \in 1 .. Len(marks[t]) : marks[t][k] \in Nat
  BY LinkInvTypes DEF ImplInv
<1> QED
  BY <1>1, <1>3, <1>4 DEF ImplInv, MarksNested

\* Calls, returns and tail calls, which leave the marks below sp.
LEMMA NestedStay ==
  ASSUME ImplInv, NEW t \in Thread, marks' = marks, Sp(t)' \in Nat,
         marks[t] # <<>> => Floor(t) < Sp(t)',
         closed' = closed, t \notin closed,
         \A u \in Thread : u \notin closed /\ u # t => Sp(u)' = Sp(u)
  PROVE  MarksNested'
<1>1. ASSUME NEW u \in Thread \ closed, NEW k \in 1 .. Len(marks[u])
      PROVE  marks[u][k] < Sp(u)'
  <2>1. CASE Sp(u)' = Sp(u)
    BY <2>1 DEF ImplInv, MarksNested
  <2>2. CASE u = t
    <3>1. marks[t] # <<>>
      BY <2>2, LinkInvTypes DEF ImplInv
    <3>2. marks[t][k] \in Nat /\ marks[t][k] <= Floor(t) /\ Floor(t) \in Nat
      BY <2>2, <3>1, NestedFloor
    <3> QED
      BY <2>2, <3>1, <3>2
  <2> QED
    BY <2>1, <2>2
<1> QED
  BY <1>1 DEF MarksNested, ImplInv

\* PCall marks sp and pushes a frame above it.
LEMMA NestedProtect ==
  ASSUME ImplInv, NEW t \in Thread,
         marks' = [marks EXCEPT ![t] = Append(@, Sp(t))], Sp(t)' = Sp(t) + 1,
         closed' = closed, t \notin closed,
         \A u \in Thread : u \notin closed /\ u # t => Sp(u)' = Sp(u)
  PROVE  MarksNested'
<1> DEFINE L == Len(marks[t])
<1>0. L \in Nat /\ Sp(t) \in Nat /\ \A k \in 1 .. L : marks[t][k] \in Nat
  BY LinkInvTypes DEF ImplInv
<1>1. /\ marks'[t] = Append(marks[t], Sp(t))
      /\ \A u \in Thread : u # t => marks'[u] = marks[u]
  BY LinkInvTypes DEF ImplInv
<1>2. /\ Len(marks'[t]) = L + 1
      /\ marks'[t][L + 1] = Sp(t)
      /\ \A k \in 1 .. L : marks'[t][k] = marks[t][k]
  BY <1>0, <1>1, AppendedMarks, LinkInvTypes DEF ImplInv
<1>3. \A k \in 1 .. L : marks[t][k] < Sp(t)
  BY DEF ImplInv, MarksNested
<1>4. \A k \in 1 .. L + 1 : k = L + 1 \/ k \in 1 .. L
  BY <1>0
<1>5. ASSUME NEW u \in Thread \ closed
      PROVE  /\ \A k \in 1 .. Len(marks'[u]) : marks'[u][k] < Sp(u)'
             /\ \A j, k \in 1 .. Len(marks'[u]) : j < k => marks'[u][j] < marks'[u][k]
  <2>1. CASE u # t
    BY <1>1, <2>1 DEF ImplInv, MarksNested
  <2>2. CASE u = t
    <3>1. \A k \in 1 .. Len(marks'[t]) : marks'[t][k] < Sp(t)'
      BY <1>0, <1>2, <1>3, <1>4
    <3>2. ASSUME NEW j \in 1 .. Len(marks'[t]), NEW k \in 1 .. Len(marks'[t]), j < k
          PROVE  marks'[t][j] < marks'[t][k]
      <4>1. j \in 1 .. L
        BY <1>0, <1>2, <3>2
      <4>2. CASE k = L + 1
        BY <1>2, <1>3, <4>1, <4>2
      <4>3. CASE k \in 1 .. L
        BY <1>2, <3>2, <4>1, <4>3 DEF ImplInv, MarksNested
      <4> QED
        BY <1>2, <1>4, <4>2, <4>3
    <3> QED
      BY <2>2, <3>1, <3>2
  <2> QED
    BY <2>1, <2>2
<1> QED
  BY <1>5 DEF MarksNested

\* PCall restores sp and drops its mark.
LEMMA NestedDrop ==
  ASSUME ImplInv, NEW t \in Thread, marks[t] # <<>>, DropMark(t), Sp(t)' = Floor(t),
         closed' = closed, t \notin closed,
         \A u \in Thread : u \notin closed /\ u # t => Sp(u)' = Sp(u)
  PROVE  MarksNested'
<1> DEFINE L == Len(marks[t])
<1>1. /\ marks'[t] = SubSeq(marks[t], 1, L - 1)
      /\ \A u \in Thread : u # t => marks'[u] = marks[u]
  BY LinkInvTypes DEF ImplInv, DropMark
<1>2. /\ L \in Nat \ {0}
      /\ Len(marks'[t]) = L - 1
      /\ \A k \in 1 .. L - 1 : marks'[t][k] = marks[t][k]
  BY <1>1, DroppedMarks, LinkInvTypes DEF ImplInv
<1>3. \A k \in 1 .. L - 1 : k \in 1 .. L /\ k # L
  BY <1>2
<1>4. ASSUME NEW u \in Thread \ closed
      PROVE  /\ \A k \in 1 .. Len(marks'[u]) : marks'[u][k] < Sp(u)'
             /\ \A j, k \in 1 .. Len(marks'[u]) : j < k => marks'[u][j] < marks'[u][k]
  <2>1. CASE u # t
    BY <1>1, <2>1 DEF ImplInv, MarksNested
  <2>2. CASE u = t
    <3>1. \A k \in 1 .. L - 1 : marks[t][k] < Floor(t)
      BY <1>3, NestedFloor
    <3>2. \A k \in 1 .. Len(marks'[t]) : marks'[t][k] < Sp(t)'
      BY <1>2, <3>1
    <3>3. \A j, k \in 1 .. L - 1 : j < k => marks[t][j] < marks[t][k]
      BY <1>3 DEF ImplInv, MarksNested
    <3>4. \A j, k \in 1 .. Len(marks'[t]) : j < k => marks'[t][j] < marks'[t][k]
      BY <1>2, <3>3, SMTT(40)
    <3> QED
      BY <2>2, <3>2, <3>4
  <2> QED
    BY <2>1, <2>2
<1> QED
  BY <1>4 DEF MarksNested

-----------------------------------------------------------------------------
(* The frames as a sequence. *)

LEMMA FramesAsSequence ==
  ASSUME NEW n \in Nat, NEW a, \A i \in 0 .. n - 1 : a[i] \in Fn
  PROVE  /\ [i \in 1 .. n |-> a[i - 1]] \in Seq(Fn)
         /\ Len([i \in 1 .. n |-> a[i - 1]]) = n
<1>1. \A i \in 1 .. n : a[i - 1] \in Fn
  OBVIOUS
<1> QED
  BY <1>1, IsASeq

\* The functions of the frames of t, slot by slot.
Fns(t) == [i \in 0 .. Sp(t) - 1 |-> At(t, i).fn]

\* The functions the frames of a live stack run.
LEMMA FnsTyped ==
  ASSUME LinkInv, NEW t \in Thread, t \notin closed
  PROVE  /\ Sp(t) \in Nat
         /\ \A i \in 0 .. Sp(t) - 1 : Fns(t)[i] \in Fn
         /\ Frames(t) = [i \in 1 .. Sp(t) |-> Fns(t)[i - 1]]
<1>1. Sp(t) \in Nat
  BY LinkInvTypes
<1>2. ASSUME NEW i \in 0 .. Sp(t) - 1
      PROVE  At(t, i).fn \in Fn
  <2>1. i \in Nat /\ i < Sp(t)
    BY <1>1
  <2>2. Linked(t, i)
    <3>1. i \div FramesPerSegment <= segIdx[t]
      <4>1. i \div FramesPerSegment \in 0 .. segIdx[t]
        BY <2>1, BelowSp
      <4> QED
        BY <4>1, UsedIndices
    <3> QED
      BY <2>1, <3>1 DEF LinkInv, FramesKept, Kept
  <2> QED
    BY <2>2 DEF Linked
<1>3. \A i \in 1 .. Sp(t) : i - 1 \in 0 .. Sp(t) - 1
  BY <1>1
<1> QED
  BY <1>1, <1>2, <1>3 DEF Fns, Frames

\* Two sequences of functions are one when they agree on every slot.
LEMMA SameSequence ==
  ASSUME NEW n \in Nat, NEW a, NEW b, \A i \in 0 .. n - 1 : a[i] \in Fn,
         \A i \in 0 .. n - 1 : b[i] = a[i]
  PROVE  [i \in 1 .. n |-> b[i - 1]] = [i \in 1 .. n |-> a[i - 1]]
<1>1. \A i \in 1 .. n : i - 1 \in 0 .. n - 1
  OBVIOUS
<1> QED
  BY <1>1

LEMMA PrefixSequence ==
  ASSUME NEW n \in Nat, NEW a, NEW b, \A i \in 0 .. n - 1 : a[i] \in Fn,
         NEW m \in 0 .. n, \A i \in 0 .. m - 1 : b[i] = a[i]
  PROVE  [i \in 1 .. m |-> b[i - 1]] = SubSeq([i \in 1 .. n |-> a[i - 1]], 1, m)
<1> DEFINE s == [i \in 1 .. n |-> a[i - 1]]
           r == [i \in 1 .. m |-> b[i - 1]]
<1>1. s \in Seq(Fn) /\ Len(s) = n
  BY FramesAsSequence
<1>2. m \in Nat /\ \A i \in 0 .. m - 1 : i \in 0 .. n - 1
  OBVIOUS
<1>3. r \in Seq(Fn) /\ Len(r) = m
  BY <1>2, FramesAsSequence
<1>4. m \in 0 .. Len(s)
  BY <1>1
<1>5. \A i \in 1 .. m : /\ i \in 1 .. n /\ i - 1 \in 0 .. m - 1 /\ i - 1 \in 0 .. n - 1
  OBVIOUS
<1>6. \A i \in 1 .. m : r[i] = s[i]
  BY <1>5
<1> HIDE DEF s, r
<1>7. /\ SubSeq(s, 1, m) \in Seq(Fn)
      /\ Len(SubSeq(s, 1, m)) = m
      /\ \A i \in 1 .. m : SubSeq(s, 1, m)[i] = s[i]
  BY <1>1, <1>4, PrefixProperties
<1>8. r = SubSeq(s, 1, m)
  BY <1>3, <1>6, <1>7, SeqEqual
<1> QED
  BY <1>8 DEF s, r

LEMMA ExtendedSequence ==
  ASSUME NEW n \in Nat, NEW a, NEW b, \A i \in 0 .. n - 1 : a[i] \in Fn,
         NEW f \in Fn, b[n] = f, \A i \in 0 .. n - 1 : b[i] = a[i]
  PROVE  [i \in 1 .. n + 1 |-> b[i - 1]] = Append([i \in 1 .. n |-> a[i - 1]], f)
<1> DEFINE s == [i \in 1 .. n |-> a[i - 1]]
           r == [i \in 1 .. n + 1 |-> b[i - 1]]
<1>1. s \in Seq(Fn) /\ Len(s) = n
  BY FramesAsSequence
<1>2. n + 1 \in Nat /\ \A i \in 0 .. (n + 1) - 1 : i = n \/ i \in 0 .. n - 1
  OBVIOUS
<1>3. \A i \in 0 .. (n + 1) - 1 : b[i] \in Fn
  BY <1>2
<1>4. r \in Seq(Fn) /\ Len(r) = n + 1
  BY <1>2, <1>3, FramesAsSequence
<1>5. \A i \in 1 .. n : i - 1 \in 0 .. n - 1 /\ i \in 1 .. n + 1
  OBVIOUS
<1>6. \A i \in 1 .. n : r[i] = s[i]
  BY <1>5
<1>7. r[n + 1] = f
  <2>1. n + 1 \in 1 .. n + 1 /\ (n + 1) - 1 = n
    OBVIOUS
  <2> QED
    BY <2>1
<1> HIDE DEF s, r
<1>8. /\ Append(s, f) \in Seq(Fn) /\ Len(Append(s, f)) = n + 1
      /\ \A i \in 1 .. n : Append(s, f)[i] = s[i]
      /\ Append(s, f)[n + 1] = f
  BY <1>1, AppendProperties
<1>9. \A i \in 1 .. n + 1 : r[i] = Append(s, f)[i]
  <2>1. \A i \in 1 .. n + 1 : i = n + 1 \/ i \in 1 .. n
    OBVIOUS
  <2> QED
    BY <1>6, <1>7, <1>8, <2>1
<1>10. r = Append(s, f)
  BY <1>4, <1>8, <1>9, SeqEqual
<1> QED
  BY <1>10 DEF s, r

\* How the sequence of a live stack changes, from what happens to its slots.

LEMMA FramesSame ==
  ASSUME LinkInv, NEW u \in Thread, u \notin closed, u \notin closed', Unmoved(u)
  PROVE  Frames(u)' = Frames(u)
<1>1. Sp(u)' = Sp(u) /\ \A i \in Nat : i < Sp(u) => At(u, i)' = At(u, i)
  BY DEF Unmoved
<1>2. Sp(u) \in Nat /\ \A i \in 1 .. Sp(u) : i - 1 \in Nat /\ i - 1 < Sp(u)
  <2>1. Sp(u) \in Nat
    BY FnsTyped
  <2> QED
    BY <2>1
<1>3. Frames(u)' = [i \in 1 .. Sp(u) |-> At(u, i - 1)'.fn]
  BY <1>1 DEF Frames
<1>4. Frames(u) = [i \in 1 .. Sp(u) |-> At(u, i - 1).fn]
  BY DEF Frames
<1> QED
  BY <1>1, <1>2, <1>3, <1>4

LEMMA FramesCut ==
  ASSUME LinkInv, NEW t \in Thread, t \notin closed, closed' = closed,
         NEW m \in Nat, m <= Sp(t), Sp(t)' = m,
         \A i \in Nat : i < m => At(t, i)' = At(t, i)
  PROVE  Frames(t)' = SubSeq(Frames(t), 1, m)
<1> DEFINE b == [i \in 0 .. m - 1 |-> At(t, i)'.fn]
           a == Fns(t)
<1>1. /\ Sp(t) \in Nat /\ \A i \in 0 .. Sp(t) - 1 : a[i] \in Fn
      /\ Frames(t) = [i \in 1 .. Sp(t) |-> a[i - 1]]
  BY FnsTyped
<1>2. m \in 0 .. Sp(t)
  BY <1>1
<1>3. \A i \in 0 .. m - 1 : i \in Nat /\ i < m /\ i \in 0 .. Sp(t) - 1
  BY <1>1
<1>4. \A i \in 0 .. m - 1 : b[i] = a[i]
  BY <1>3 DEF Fns
<1>5. \A i \in 1 .. m : i - 1 \in 0 .. m - 1
  OBVIOUS
<1>6. Frames(t)' = [i \in 1 .. m |-> b[i - 1]]
  BY <1>5 DEF Frames
<1> DEFINE n == Sp(t)
<1> HIDE DEF a, b, n
<1>7. [i \in 1 .. m |-> b[i - 1]] = SubSeq([i \in 1 .. n |-> a[i - 1]], 1, m)
  BY <1>1, <1>2, <1>4, PrefixSequence DEF n
<1> QED
  BY <1>1, <1>6, <1>7 DEF n

LEMMA FramesPushed ==
  ASSUME LinkInv, NEW t \in Thread, t \notin closed, closed' = closed,
         NEW f \in Fn, Pushed(t, f)
  PROVE  Frames(t)' = Append(Frames(t), f)
<1> DEFINE n == Sp(t)
           b == [i \in 0 .. n |-> At(t, i)'.fn]
           a == Fns(t)
<1>1. /\ n \in Nat /\ \A i \in 0 .. n - 1 : a[i] \in Fn
      /\ Frames(t) = [i \in 1 .. n |-> a[i - 1]]
  BY FnsTyped
<1>2. \A i \in 0 .. n - 1 : /\ i \in Nat /\ i < n /\ i # n /\ i \in 0 .. n
  BY <1>1
<1>3. \A i \in 0 .. n - 1 : i \div FramesPerSegment <= segIdx[t]
  <2> SUFFICES ASSUME NEW i \in 0 .. n - 1
               PROVE  i \div FramesPerSegment <= segIdx[t]
    OBVIOUS
  <2>1. i \div FramesPerSegment \in 0 .. segIdx[t]
    BY <1>2, BelowSp
  <2> QED
    BY <2>1, UsedIndices
<1>4. \A i \in 0 .. n - 1 : b[i] = a[i]
  BY <1>2, <1>3 DEF Fns, Pushed
<1>5. b[n] = f
  <2>1. n \in 0 .. n
    BY <1>1
  <2>2. \A i \in Nat : i = n => At(t, i)' = FrameOf(t, f, n)
    BY DEF Pushed
  <2>3. \A i \in 0 .. n : i = n => b[i] = f
    BY <1>1, <2>2 DEF FrameOf
  <2> QED
    BY <2>1, <2>3
<1>6. \A i \in 1 .. n + 1 : i - 1 \in 0 .. n
  BY <1>1
<1>7. Frames(t)' = [i \in 1 .. n + 1 |-> b[i - 1]]
  <2>1. Sp(t)' = n + 1
    BY DEF Pushed
  <2>2. Frames(t)' = [i \in 1 .. n + 1 |-> At(t, i - 1)'.fn]
    BY <2>1 DEF Frames
  <2> QED
    BY <1>6, <2>2
<1> HIDE DEF a, b, n
<1>8. [i \in 1 .. n + 1 |-> b[i - 1]] = Append([i \in 1 .. n |-> a[i - 1]], f)
  BY <1>1, <1>4, <1>5, ExtendedSequence, SMTT(40)
<1> QED
  BY <1>1, <1>7, <1>8

LEMMA FramesTailCall ==
  ASSUME LinkInv, NEW t \in Thread, t \notin closed, closed' = closed,
         NEW m \in Nat, Sp(t) = m + 2, Sp(t)' = m + 1,
         \A i \in Nat : i < m => At(t, i)' = At(t, i),
         \A i \in Nat : i = m => At(t, i)'.fn = At(t, i + 1).fn
  PROVE  Frames(t)' = Append(SubSeq(Frames(t), 1, m), Frames(t)[m + 2])
<1> DEFINE b == [i \in 0 .. m |-> At(t, i)'.fn]
           a == Fns(t)
           n == Sp(t)
<1>1. /\ n \in Nat /\ \A i \in 0 .. n - 1 : a[i] \in Fn
      /\ Frames(t) = [i \in 1 .. n |-> a[i - 1]]
  BY FnsTyped
<1>2. /\ m \in 0 .. n /\ m + 1 \in 0 .. n - 1 /\ m + 2 \in 1 .. n /\ m \in 0 .. m
      /\ (m + 2) - 1 = m + 1
      /\ \A i \in 0 .. m - 1 : /\ i \in Nat /\ i < m /\ i \in 0 .. m /\ i \in 0 .. n - 1
                               /\ i \in 0 .. m
      /\ \A i \in 1 .. m + 1 : i - 1 \in 0 .. m
  BY <1>1
<1>3. \A i \in 0 .. m - 1 : b[i] = a[i]
  BY <1>2 DEF Fns
<1>4. b[m] = a[m + 1] /\ a[m + 1] \in Fn
  BY <1>1, <1>2 DEF Fns
<1>5. Frames(t)' = [i \in 1 .. m + 1 |-> b[i - 1]]
  <2>1. Frames(t)' = [i \in 1 .. m + 1 |-> At(t, i - 1)'.fn]
    BY DEF Frames
  <2> QED
    BY <1>2, <2>1
<1>6. Frames(t)[m + 2] = a[m + 1]
  BY <1>1, <1>2
<1> HIDE DEF a, b, n
<1>7. \A i \in 0 .. m - 1 : a[i] \in Fn /\ i \in 0 .. n - 1
  BY <1>1, <1>2
<1>8. [i \in 1 .. m + 1 |-> b[i - 1]] = Append([i \in 1 .. m |-> a[i - 1]], a[m + 1])
  BY <1>3, <1>4, <1>7, ExtendedSequence
<1>9. [i \in 1 .. m |-> a[i - 1]] = SubSeq([i \in 1 .. n |-> a[i - 1]], 1, m)
  BY <1>1, <1>2, PrefixSequence
<1> QED
  BY <1>1, <1>5, <1>6, <1>8, <1>9

-----------------------------------------------------------------------------
(* Each step of a thread is a step of its abstract stack, and of no other. *)

\* What the abstract stack of a live thread sees.
LEMMA StackView ==
  ASSUME LinkInv, NEW t \in Thread, t \notin closed
  PROVE  /\ Stack(t)!Depth = Sp(t)
         /\ Stack(t)!Floor = Floor(t)
         /\ OpenMarks(t) = marks[t]
         /\ Sp(t) \in Nat
<1>1. Sp(t) \in Nat
  BY FnsTyped
<1>2. Len(Frames(t)) = Sp(t)
  <2> DEFINE n == Sp(t)
             a == Fns(t)
  <2>1. n \in Nat /\ (\A i \in 0 .. n - 1 : a[i] \in Fn) /\ Frames(t) = [i \in 1 .. n |-> a[i - 1]]
    BY FnsTyped
  <2> HIDE DEF n, a
  <2>2. Len(Frames(t)) = n
    BY <2>1, FramesAsSequence
  <2> QED
    BY <2>2 DEF n
<1>3. OpenMarks(t) = marks[t]
  BY DEF OpenMarks
<1> QED
  BY <1>1, <1>2, <1>3 DEF Stack!Depth, Stack!Floor, Floor

LEMMA CapacityIsNat == Capacity \in Nat
BY SizeFacts, MulSucc DEF Capacity

\* A stack nothing happens to.
Stutters(u) == Frames(u)' = Frames(u) /\ OpenMarks(u)' = OpenMarks(u)

LEMMA OthersStutter ==
  ASSUME LinkInv, NEW t \in Thread, NEW u \in Thread, u # t,
         closed' = closed \/ closed' = closed \cup {t},
         marks'[u] = marks[u], u \notin closed => Unmoved(u)
  PROVE  Stutters(u)
<1>1. CASE u \in closed
  BY <1>1 DEF Stutters, Frames, OpenMarks
<1>2. CASE u \notin closed
  <2>1. u \notin closed'
    BY <1>2, SMTT(40)
  <2> QED
    BY <1>2, <2>1, FramesSame DEF Stutters, OpenMarks
<1> QED
  BY <1>1, <1>2

\* One thread moves, as its abstract stack may.
Moves(t) == Stack(t)!Next /\ \A u \in Thread : u # t => Stutters(u)

LEMMA BelowCapacity ==
  ASSUME FunctionsFit, NEW n \in Nat, n < MaxDepth
  PROVE  n < Capacity /\ Capacity \in Nat
<1>1. MaxDepth <= Capacity
  BY DEF FunctionsFit
<1>2. MaxDepth \in Nat
  BY AutoGrowAssumption, SMTT(60) DEF AutoGrowAssumption
<1> QED
  BY <1>1, <1>2, CapacityIsNat

LEMMA CallMoves ==
  ASSUME FunctionsFit, ImplInv, NEW t \in Thread, NEW f \in Fn, Call(t, f)
  PROVE  MarksNested' /\ Moves(t)
<1>1. /\ Live(t) /\ Push(t, f) /\ marks' = marks /\ closed' = closed /\ t \notin closed
      /\ Sp(t) < MaxDepth /\ LinkInv
  BY DEF Call, Live, ImplInv
<1>2. Pushed(t, f)
  <2>1. \A i \in Nat : Marked(t, i)' => i < Sp(t) \/ Marked(t, i)
    BY <1>1 DEF Marked
  <2> QED
    BY <1>1, <2>1, PushLinked
<1>3. /\ Sp(t) \in Nat /\ Sp(t)' = Sp(t) + 1
      /\ \A u \in Thread : u \notin closed /\ u # t => Unmoved(u)
  BY <1>1, <1>2, StackView DEF Pushed
<1>4. MarksNested'
  <2>1. Sp(t)' \in Nat /\ (marks[t] # <<>> => Floor(t) < Sp(t)')
    BY <1>1, <1>3, NestedFloor
  <2>2. \A u \in Thread : u \notin closed /\ u # t => Sp(u)' = Sp(u)
    BY <1>3 DEF Unmoved
  <2> QED
    BY <1>1, <2>1, <2>2, NestedStay
<1>5. Frames(t)' = Append(Frames(t), f)
  BY <1>1, <1>2, FramesPushed
<1>6. OpenMarks(t)' = OpenMarks(t)
  BY <1>1 DEF OpenMarks
<1>7. ~Stack(t)!Full
  <2>1. Sp(t) < Capacity /\ Capacity \in Nat
    BY <1>1, <1>3, BelowCapacity
  <2> QED
    BY <1>1, <1>3, <2>1, StackView DEF Stack!Full
<1>8. Stack(t)!Call(f)
  BY <1>5, <1>6, <1>7 DEF Stack!Call
<1>9. \A u \in Thread : u # t => Stutters(u)
  BY <1>1, <1>3, OthersStutter
<1> QED
  BY <1>4, <1>8, <1>9 DEF Moves, Stack!Next

LEMMA ProtectMoves ==
  ASSUME FunctionsFit, ImplInv, NEW t \in Thread, NEW f \in Fn, Protect(t, f)
  PROVE  MarksNested' /\ Moves(t)
<1>1. /\ Live(t) /\ Push(t, f) /\ closed' = closed /\ t \notin closed
      /\ marks' = [marks EXCEPT ![t] = Append(@, Sp(t))]
      /\ Sp(t) < MaxDepth /\ LinkInv
  BY DEF Protect, Live, ImplInv
<1>2. /\ \A u \in Thread : u # t => marks'[u] = marks[u]
      /\ \A i \in Nat : Marked(t, i)' => i < Sp(t) \/ Marked(t, i)
  BY <1>1, ProtectMarks
<1>3. Pushed(t, f)
  BY <1>1, <1>2, PushLinked
<1>4. /\ Sp(t) \in Nat /\ Sp(t)' = Sp(t) + 1
      /\ \A u \in Thread : u \notin closed /\ u # t => Unmoved(u)
  BY <1>1, <1>3, StackView DEF Pushed
<1>5. MarksNested'
  <2>1. \A u \in Thread : u \notin closed /\ u # t => Sp(u)' = Sp(u)
    BY <1>4 DEF Unmoved
  <2> QED
    BY <1>1, <1>4, <2>1, NestedProtect
<1>6. Frames(t)' = Append(Frames(t), f)
  BY <1>1, <1>3, FramesPushed
<1>7. OpenMarks(t)' = Append(OpenMarks(t), Sp(t))
  <2>1. marks'[t] = Append(marks[t], Sp(t))
    BY <1>1, LinkInvTypes
  <2> QED
    BY <1>1, <2>1 DEF OpenMarks
<1>8. ~Stack(t)!Full /\ Stack(t)!Depth = Sp(t)
  <2>1. Sp(t) < Capacity /\ Capacity \in Nat
    BY <1>1, <1>4, BelowCapacity
  <2> QED
    BY <1>1, <1>4, <2>1, StackView DEF Stack!Full
<1>9. Stack(t)!Protect(f)
  BY <1>6, <1>7, <1>8 DEF Stack!Protect
<1>10. \A u \in Thread : u # t => Stutters(u)
  BY <1>1, <1>2, <1>4, OthersStutter
<1> QED
  BY <1>5, <1>9, <1>10 DEF Moves, Stack!Next

LEMMA TailCallMoves ==
  ASSUME ImplInv, NEW t \in Thread, TailCall(t)
  PROVE  MarksNested' /\ Moves(t)
<1> DEFINE m == Sp(t) - 2
<1>1. /\ Live(t) /\ RemoveCallerFrame(t) /\ marks' = marks /\ closed' = closed
      /\ t \notin closed /\ Sp(t) >= Floor(t) + 2 /\ LinkInv
  BY DEF TailCall, Live, ImplInv
<1>2. /\ Sp(t) \in Nat /\ Floor(t) \in Nat /\ Sp(t) >= 2 /\ m \in Nat
      /\ Sp(t) = m + 2 /\ Sp(t) - 1 = m + 1
  <2>1. Sp(t) \in Nat /\ Floor(t) \in Nat
    BY <1>1, FloorIsNat, SpIsNat DEF LinkInv, Inv
  <2> QED
    BY <1>1, <2>1
<1>3. /\ Sp(t)' = Sp(t) - 1
      /\ \A i \in Nat : i < m => At(t, i)' = At(t, i)
      /\ \A i \in Nat : i = m => At(t, i)'.fn = At(t, i + 1).fn
      /\ \A u \in Thread : u \notin closed /\ u # t => Unmoved(u)
  BY <1>1, <1>2, TailCallEffect
<1>4. MarksNested'
  <2>1. Sp(t)' \in Nat /\ Floor(t) < Sp(t)'
    BY <1>1, <1>2, <1>3
  <2>2. \A u \in Thread : u \notin closed /\ u # t => Sp(u)' = Sp(u)
    BY <1>3 DEF Unmoved
  <2> QED
    BY <1>1, <2>1, <2>2, NestedStay
<1>5. Frames(t)' = Append(SubSeq(Frames(t), 1, m), Frames(t)[m + 2])
  <2>1. PICK k \in Nat : k = m
    BY <1>2
  <2>2. /\ Sp(t) = k + 2 /\ Sp(t)' = k + 1
        /\ \A i \in Nat : i < k => At(t, i)' = At(t, i)
        /\ \A i \in Nat : i = k => At(t, i)'.fn = At(t, i + 1).fn
    BY <1>2, <1>3, <2>1
  <2>3. Frames(t)' = Append(SubSeq(Frames(t), 1, k), Frames(t)[k + 2])
    BY <1>1, <2>2, FramesTailCall
  <2> QED
    BY <2>1, <2>3
<1>6. OpenMarks(t)' = OpenMarks(t)
  BY <1>1 DEF OpenMarks
<1>7. Stack(t)!TailCall
  BY <1>1, <1>2, <1>5, <1>6, StackView DEF Stack!TailCall
<1>8. \A u \in Thread : u # t => Stutters(u)
  BY <1>1, <1>3, OthersStutter
<1> QED
  BY <1>4, <1>7, <1>8 DEF Moves, Stack!Next

LEMMA ReturnMoves ==
  ASSUME ImplInv, NEW t \in Thread, Return(t)
  PROVE  MarksNested' /\ Moves(t)
<1>1. /\ Live(t) /\ Pop(t) /\ content' = content /\ marks' = marks /\ closed' = closed
      /\ t \notin closed /\ LinkInv
      /\ Sp(t) >= Floor(t) + (IF marks[t] = <<>> THEN 1 ELSE 2)
  BY DEF Return, Live, ImplInv
<1>2. Sp(t) \in Nat /\ Floor(t) \in Nat /\ Sp(t) >= 1
  <2>1. Sp(t) \in Nat /\ Floor(t) \in Nat
    BY <1>1, FloorIsNat, SpIsNat DEF LinkInv, Inv
  <2> QED
    BY <1>1, <2>1
<1>3. /\ Sp(t)' = Sp(t) - 1
      /\ \A i \in Nat : i < Sp(t) - 1 => At(t, i)' = At(t, i)
      /\ \A u \in Thread : u # t => Unmoved(u)
  BY <1>1, <1>2, PopEffect
<1>4. MarksNested'
  <2>1. Sp(t)' \in Nat /\ (marks[t] # <<>> => Floor(t) < Sp(t)')
    BY <1>1, <1>2, <1>3
  <2>2. \A u \in Thread : u \notin closed /\ u # t => Sp(u)' = Sp(u)
    BY <1>3 DEF Unmoved
  <2> QED
    BY <1>1, <2>1, <2>2, NestedStay
<1>5. Frames(t)' = SubSeq(Frames(t), 1, Sp(t) - 1)
  <2>1. PICK m \in Nat : m = Sp(t) - 1 /\ m <= Sp(t)
    BY <1>2
  <2>2. Frames(t)' = SubSeq(Frames(t), 1, m)
    BY <1>1, <1>3, <2>1, FramesCut
  <2> QED
    BY <2>1, <2>2
<1>6. OpenMarks(t)' = OpenMarks(t) /\ OpenMarks(t) = marks[t]
  BY <1>1 DEF OpenMarks
<1>7. Stack(t)!Return
  BY <1>1, <1>5, <1>6, StackView DEF Stack!Return
<1>8. \A u \in Thread : u # t => Stutters(u)
  BY <1>1, <1>3, OthersStutter
<1> QED
  BY <1>4, <1>7, <1>8 DEF Moves, Stack!Next

\* A protected call ends, by a return or by an error.
LEMMA UnwindMoves ==
  ASSUME ImplInv, NEW t \in Thread, ReturnProtected(t) \/ Raise(t)
  PROVE  MarksNested' /\ Moves(t)
<1>1. /\ Live(t) /\ SetSp(t, Floor(t)) /\ DropMark(t) /\ marks[t] # <<>>
      /\ content' = content /\ closed' = closed /\ t \notin closed /\ LinkInv
  BY DEF ReturnProtected, Raise, Live, ImplInv
<1>2. Floor(t) \in Nat /\ Floor(t) < Sp(t) /\ Sp(t) \in Nat
  BY <1>1, NestedFloor, StackView
<1>3. /\ Sp(t)' = Floor(t)
      /\ \A i \in Nat : i < Floor(t) => At(t, i)' = At(t, i)
      /\ \A u \in Thread : u # t => Unmoved(u)
  BY <1>1, <1>2, SetSpEffect
<1>4. MarksNested'
  <2>1. \A u \in Thread : u \notin closed /\ u # t => Sp(u)' = Sp(u)
    BY <1>3 DEF Unmoved
  <2> QED
    BY <1>1, <1>3, <2>1, NestedDrop
<1>5. Frames(t)' = SubSeq(Frames(t), 1, Floor(t))
  <2>1. PICK m \in Nat : m = Floor(t) /\ m <= Sp(t)
    BY <1>2
  <2>2. Frames(t)' = SubSeq(Frames(t), 1, m)
    BY <1>1, <1>3, <2>1, FramesCut
  <2> QED
    BY <2>1, <2>2
<1>6. /\ OpenMarks(t) = marks[t]
      /\ OpenMarks(t)' = SubSeq(OpenMarks(t), 1, Len(OpenMarks(t)) - 1)
  <2>1. marks'[t] = SubSeq(marks[t], 1, Len(marks[t]) - 1)
    BY <1>1, LinkInvTypes DEF DropMark
  <2> QED
    BY <1>1, <2>1 DEF OpenMarks
<1>7. Stack(t)!DropMark /\ Stack(t)!Floor = Floor(t) /\ Stack(t)!Depth = Sp(t)
  BY <1>1, <1>6, StackView DEF Stack!DropMark
<1>8. ASSUME ReturnProtected(t)
      PROVE  Stack(t)!Next
  <2>1. Sp(t) = Floor(t) + 1
    BY <1>8 DEF ReturnProtected
  <2>2. Sp(t) - 1 = Floor(t)
    BY <1>2, <2>1
  <2>3. Stack(t)!ReturnProtected
    BY <1>1, <1>5, <1>6, <1>7, <2>1, <2>2 DEF Stack!ReturnProtected
  <2> QED
    BY <2>3 DEF Stack!Next
<1>9. ASSUME Raise(t)
      PROVE  Stack(t)!Next
  <2>1. Stack(t)!Raise
    BY <1>1, <1>5, <1>6, <1>7 DEF Stack!Raise
  <2> QED
    BY <2>1 DEF Stack!Next
<1>10. \A u \in Thread : u # t => Stutters(u)
  BY <1>1, <1>3, DropUnmarks, OthersStutter
<1> QED
  BY <1>4, <1>8, <1>9, <1>10 DEF Moves

LEMMA CloseMoves ==
  ASSUME ImplInv, NEW t \in Thread, Close(t)
  PROVE  MarksNested' /\ Moves(t)
<1>1. /\ Release(t, 0 .. segIdx[t]) /\ closed' = closed \cup {t}
      /\ UNCHANGED <<segIdx, segSp, content, marks>> /\ LinkInv
  BY DEF Close, ImplInv
<1>2. \A u \in Thread : u # t => segments'[u] = segments[u]
  BY <1>1, LinkInvTypes DEF Release
<1>3. \A u \in Thread : u # t => Unmoved(u)
  BY <1>1, <1>2, OthersSame DEF Unmoved
<1>4. MarksNested'
  BY <1>1 DEF ImplInv, MarksNested, Sp
<1>5. Stack(t)!Close
  BY <1>1 DEF Stack!Close, Frames, OpenMarks
<1>6. \A u \in Thread : u # t => Stutters(u)
  BY <1>1, <1>3, OthersStutter
<1> QED
  BY <1>4, <1>5, <1>6 DEF Moves, Stack!Next

\* What a step of the specification is, seen from the abstract stacks.
ImplStep == \A t \in Thread : [Stack(t)!Next]_(Stack(t)!vars)

LEMMA MovesIsStep ==
  ASSUME NEW t \in Thread, Moves(t)
  PROVE  ImplStep
<1> SUFFICES ASSUME NEW u \in Thread
             PROVE  [Stack(u)!Next]_(Stack(u)!vars)
  BY DEF ImplStep
<1>1. CASE u = t
  BY <1>1 DEF Moves
<1>2. CASE u # t
  BY <1>2 DEF Moves, Stutters, Stack!vars
<1> QED
  BY <1>1, <1>2

LEMMA StepImpl ==
  ASSUME FunctionsFit, ImplInv, [Next]_vars
  PROVE  ImplInv' /\ ImplStep
<1>1. LinkInv'
  BY StepLinkInv DEF ImplInv
<1>2. ASSUME NEW t \in Thread, MarksNested' /\ Moves(t)
      PROVE  ImplInv' /\ ImplStep
  BY <1>1, <1>2, MovesIsStep DEF ImplInv
<1>3. ASSUME NEW t \in Thread, NEW f \in Fn, Call(t, f)
      PROVE  ImplInv' /\ ImplStep
  BY <1>2, <1>3, CallMoves
<1>4. ASSUME NEW t \in Thread, NEW f \in Fn, Protect(t, f)
      PROVE  ImplInv' /\ ImplStep
  BY <1>2, <1>4, ProtectMoves
<1>5. ASSUME NEW t \in Thread, TailCall(t)
      PROVE  ImplInv' /\ ImplStep
  BY <1>2, <1>5, TailCallMoves
<1>6. ASSUME NEW t \in Thread, Return(t)
      PROVE  ImplInv' /\ ImplStep
  BY <1>2, <1>6, ReturnMoves
<1>7. ASSUME NEW t \in Thread, ReturnProtected(t) \/ Raise(t)
      PROVE  ImplInv' /\ ImplStep
  BY <1>2, <1>7, UnwindMoves
<1>8. ASSUME NEW t \in Thread
      PROVE  ~ProtectFails(t)
  BY NoFailure DEF ImplInv
<1>9. ASSUME NEW t \in Thread, Close(t)
      PROVE  ImplInv' /\ ImplStep
  BY <1>2, <1>9, CloseMoves
<1>10. ASSUME UNCHANGED vars
       PROVE  ImplInv' /\ ImplStep
  <2>1. MarksNested'
    BY <1>10 DEF vars, ImplInv, MarksNested, Sp
  <2>2. ImplStep
    BY <1>10 DEF vars, ImplStep, Stack!vars, Frames, OpenMarks, Sp, At
  <2> QED
    BY <1>1, <2>1, <2>2 DEF ImplInv
<1> QED
  BY <1>3, <1>4, <1>5, <1>6, <1>7, <1>8, <1>9, <1>10 DEF Next

LEMMA InitImpl ==
  ASSUME Init, NEW t \in Thread
  PROVE  Stack(t)!Init
<1>1. marks[t] = <<>> /\ segIdx[t] = 0 /\ segSp[t] = 0 /\ closed = {}
  BY DEF Init
<1>2. Sp(t) = 0
  BY <1>1, SizeFacts DEF Sp
<1>3. OpenMarks(t) = <<>> /\ Frames(t) = [i \in 1 .. 0 |-> At(t, i - 1).fn]
  BY <1>1, <1>2 DEF OpenMarks, Frames
<1>4. [i \in 1 .. 0 |-> At(t, i - 1).fn] = <<>>
  OBVIOUS
<1> QED
  BY <1>3, <1>4 DEF Stack!Init

\* Segments, counters and pool are, for every LState, the bounded stack it asks
\* for: as long as PCall is given functions and the stack stays within its
\* capacity, each operation does what CallFrameStack says, to the depth PCall
\* marked, and to no other LState's frames.
THEOREM ImplementsCallFrameStack ==
  ASSUME FunctionsFit
  PROVE  Spec => AbstractSpec
<1>1. Init => ImplInv /\ \A t \in Thread : Stack(t)!Init
  BY InitImplInv, InitImpl
<1>2. ImplInv /\ [Next]_vars => ImplInv'
  BY StepImpl
<1>3. ImplInv /\ [Next]_vars => ImplStep
  BY StepImpl
<1> QED
  BY <1>1, <1>2, <1>3, PTL DEF Spec, AbstractSpec, ImplStep
=============================================================================
