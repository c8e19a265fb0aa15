--------------------------- MODULE UpvaluesProofs ---------------------------
(***************************************************************************)
(* Upvalues, for any number of frames, registers, variables and protected  *)
(* calls: uvcache is complete and in order, no upvalue dangles while every *)
(* error closes them, and until the first error all closures of a variable *)
(* and its function agree.                                                 *)
(***************************************************************************)
EXTENDS Upvalues, Integers, SequenceTheorems, WellFoundedInduction, TLAPS

\* The first n elements of a sequence.
LEMMA PrefixProperties ==
  ASSUME NEW S, NEW s \in Seq(S), NEW n \in 0 .. Len(s)
  PROVE  /\ SubSeq(s, 1, n) \in Seq(S)
         /\ Len(SubSeq(s, 1, n)) = n
         /\ \A i \in 1 .. n : SubSeq(s, 1, n)[i] = s[i]
<1>1. Len(s) \in Nat /\ n \in Nat /\ \A i \in 1 .. n : s[i] \in S
  BY LenProperties, ElementOfSeq
<1> QED
  BY <1>1, SubSeqProperties

\* Every set of natural numbers has a least element.
LEMMA SmallestExists ==
  ASSUME NEW T, T \subseteq Nat, T # {}
  PROVE  \E x \in T : \A y \in T : x <= y
<1> DEFINE R == OpToRel(<, Nat)
<1>1. IsWellFoundedOn(R, Nat)
  BY NatLessThanWellFounded
<1>2. \A x, y \in Nat : x < y => <<x, y>> \in R
  BY DEF OpToRel
<1> HIDE DEF R
<1>3. PICK x \in T : \A y \in T : ~ (<<y, x>> \in R)
  BY ONLY <1>1, T \subseteq Nat, T # {}, WFMin, ZenonT(60)
<1>4. \A y \in T : ~ (y < x)
  BY <1>2, <1>3, Zenon
<1> QED
  BY <1>4

\* The first of n places with a property, or the place after the last.
LEMMA FirstPlace ==
  ASSUME NEW n \in Nat, NEW P, P \subseteq 1 .. n
  PROVE  \E k \in 1 .. n + 1 : (k <= n => k \in P) /\ \A j \in 1 .. k - 1 : j \notin P
<1>1. CASE P = {}
  BY <1>1
<1>2. CASE P # {}
  <2>1. P \subseteq Nat
    OBVIOUS
  <2>2. PICK k \in P : \A y \in P : k <= y
    BY <1>2, <2>1, SmallestExists, Zenon
  <2> QED
    BY <2>2
<1> QED
  BY <1>1, <1>2

-----------------------------------------------------------------------------
(* The invariants. *)

\* The first register of the k-th frame.
Base(k) == (k - 1) * FrameSize

\* The depth at which PCall finds the frame it waits for.
DepthOf(p) == IF p.handler = 0 THEN p.sp + 1 ELSE p.handler

FrameBases == \A k \in 1 .. Len(frames) : frames[k].localBase = Base(k)

\* PCall waits for a frame above those it has found, of at most depth frames.
WaitsBelow(p, depth) ==
  /\ p.sp >= 1
  /\ p.base = Base(p.sp + 1)
  /\ p.handler # 0 => p.handler > p.sp + 1
  /\ DepthOf(p) <= depth

\* Each PCall waits above the frames of the one before it.
PCallsNested ==
  /\ \A k \in 1 .. Len(pcalls) : WaitsBelow(pcalls[k], Len(frames))
  /\ \A j, k \in 1 .. Len(pcalls) : j < k => DepthOf(pcalls[j]) <= pcalls[k].sp

StackOK ==
  /\ frames \in Seq(Frame) /\ Len(frames) \in 1 .. MaxFrames
  /\ pcalls \in Seq(Activation)
  /\ FrameBases /\ PCallsNested

InOrder(objects, list) ==
  \A i, j \in 1 .. Len(list) : i < j => objects[list[i]].index < objects[list[j]].index

ListsOpen(objects, list) ==
  \A u \in 1 .. Len(objects) : ~objects[u].closed <=> \E k \in 1 .. Len(list) : list[k] = u

\* CacheHoldsOpenInOrder, of sequences.
CacheOK ==
  /\ upvalues \in Seq(Upvalue) /\ Len(upvalues) <= MaxUpvalues
  /\ uvcache \in Seq(1 .. Len(upvalues))
  /\ InOrder(upvalues, uvcache) /\ ListsOpen(upvalues, uvcache)

InScope(r) ==
  \E k \in 1 .. Len(frames) :
    frames[k].localBase <= r /\ r < frames[k].localBase + frames[k].locals

\* The registers of the locals in scope, and no others, hold a variable.
ScopesOK ==
  /\ declared \in Seq(Value)
  /\ bound \in [Register -> 0 .. Len(declared)]
  /\ \A r \in Register : bound[r] # 0 <=> InScope(r)

HistoryOK ==
  /\ captures \subseteq (1 .. Len(upvalues)) \X (1 .. Len(declared))
  /\ failed \subseteq {"closed", "left open"}

RegistryOK == reg \in [Register -> Value \cup {LNil, Unset}] /\ hasErrorFunc \in BOOLEAN

Inv == StackOK /\ CacheOK /\ ScopesOK /\ HistoryOK /\ RegistryOK

NoneLeft == "left open" \notin failed

\* No upvalue was left open in the frames a handler runs above.
HandlersStartClosed ==
  NoneLeft =>
    \A k \in 1 .. Len(pcalls), u \in 1 .. Len(upvalues) :
      pcalls[k].handler # 0 /\ ~upvalues[u].closed =>
        upvalues[u].index < pcalls[k].base \/ upvalues[u].index >= Base(pcalls[k].handler)

ScopeInv == Inv /\ NoDanglingUntilLeft /\ HandlersStartClosed

\* No two registers hold one variable.
BoundOnce == \A r, s \in Register : bound[r] # 0 /\ bound[r] = bound[s] => r = s

\* Until an error is raised a variable has one upvalue, closed when the
\* variable goes out of scope.
OneUpvalueEach ==
  /\ \A c, d \in captures : c[1] = d[1] <=> c[2] = d[2]
  /\ \A c \in captures : upvalues[c[1]].closed => \A r \in Register : bound[r] # c[2]

NoHandlers == \A k \in 1 .. Len(pcalls) : pcalls[k].handler = 0

NoErrors == failed = {}

AgreementUntil == NoErrors => OneUpvalueEach /\ NoHandlers /\ Agreement

AgreementInv == ScopeInv /\ BoundOnce /\ AgreementUntil

LEMMA InvIsTyped == Inv => TypeOK
BY DEF Inv, StackOK, CacheOK, ScopesOK, HistoryOK, RegistryOK, TypeOK

LEMMA InvIsOrdered == Inv => CacheHoldsOpenInOrder
<1> SUFFICES ASSUME Inv PROVE CacheHoldsOpenInOrder
  OBVIOUS
<1>1. /\ upvalues \in Seq(Upvalue) /\ uvcache \in Seq(1 .. Len(upvalues))
      /\ InOrder(upvalues, uvcache) /\ ListsOpen(upvalues, uvcache)
  BY DEF Inv, CacheOK
<1>2. /\ DOMAIN upvalues = 1 .. Len(upvalues) /\ DOMAIN uvcache = 1 .. Len(uvcache)
      /\ \A k \in 1 .. Len(uvcache) : uvcache[k] \in 1 .. Len(upvalues)
  BY <1>1
<1>3. {u \in DOMAIN upvalues : ~upvalues[u].closed} = ToSet(uvcache)
  BY <1>1, <1>2 DEF ListsOpen, ToSet
<1> QED
  BY <1>1, <1>3 DEF CacheHoldsOpenInOrder, InOrder

-----------------------------------------------------------------------------
(* Frames and their registers. *)

LEMMA ConstantTypes == FrameSize \in Nat \ {0} /\ MaxFrames \in Nat \ {0}
BY UpvaluesAssumption DEF UpvaluesAssumption

LEMMA BaseType ==
  Base(1) = 0 /\ \A k \in Nat : k >= 1 => Base(k) \in Nat
BY ConstantTypes DEF Base

LEMMA BaseNext ==
  ASSUME NEW k \in Nat, k >= 1
  PROVE  Base(k + 1) = Base(k) + FrameSize
BY ConstantTypes DEF Base

LEMMA BaseOrder ==
  ASSUME NEW j \in Nat, NEW k \in Nat, 1 <= j, j < k
  PROVE  Base(j) + FrameSize <= Base(k)
<1>1. PICK d \in Nat : k - 1 = (j - 1) + 1 + d
  <2>1. k - j - 1 \in Nat /\ k - 1 = (j - 1) + 1 + (k - j - 1)
    OBVIOUS
  <2> QED
    BY <2>1
<1>2. Base(k) = Base(j) + FrameSize + d * FrameSize
  BY <1>1, ConstantTypes DEF Base
<1>3. PICK m \in Nat : m = d * FrameSize
  BY <1>1, ConstantTypes
<1> QED
  BY <1>2, <1>3, BaseType, ConstantTypes

LEMMA RegisterFacts ==
  /\ Register \subseteq Nat
  /\ \A k \in 1 .. MaxFrames, i \in 0 .. FrameSize - 1 : Base(k) + i \in Register
<1>1. Base(MaxFrames) \in Nat
  BY BaseType, ConstantTypes
<1>2. PICK n \in Nat : Register = 0 .. n - 1 /\ n = Base(MaxFrames) + FrameSize
  <2>1. FrameSize * MaxFrames \in Nat /\ FrameSize * MaxFrames = Base(MaxFrames) + FrameSize
    BY ConstantTypes DEF Base
  <2> QED
    BY <2>1, Zenon DEF Register
<1>3. ASSUME NEW k \in 1 .. MaxFrames, NEW i \in 0 .. FrameSize - 1
      PROVE  Base(k) + i \in 0 .. n - 1
  <2>1. k \in Nat /\ k >= 1 /\ MaxFrames \in Nat /\ FrameSize \in Nat
    BY ConstantTypes
  <2>2. Base(k) \in Nat
    BY <2>1, BaseType
  <2>3. Base(k) <= Base(MaxFrames)
    <3>1. CASE k = MaxFrames
      BY <3>1, <1>1
    <3>2. CASE k < MaxFrames
      <4>1. Base(k) + FrameSize <= Base(MaxFrames)
        BY <2>1, <3>2, BaseOrder
      <4> QED
        BY <4>1, <2>1, <2>2, <1>1
    <3> QED
      BY <2>1, <3>1, <3>2
  <2> QED
    BY <2>1, <2>2, <2>3, <1>1, <1>2
<1> QED
  BY <1>1, <1>2, <1>3, ConstantTypes

\* What the running frame and the one that comes after it own.
LEMMA FrameFacts ==
  ASSUME StackOK
  PROVE  /\ Len(frames) \in Nat \ {0} /\ Cur = frames[Len(frames)] /\ Cur \in Frame
         /\ Cur.localBase = Base(Len(frames)) /\ Cur.localBase \in Nat
         /\ Cur.locals \in 0 .. FrameSize
         /\ NextBase = Base(Len(frames) + 1) /\ NextBase \in Nat
         /\ \A i \in 0 .. FrameSize - 1 : Cur.localBase + i \in Register
         /\ \A k \in 1 .. Len(frames) :
              /\ frames[k].localBase = Base(k) /\ frames[k].localBase \in Nat
              /\ frames[k].locals \in 0 .. FrameSize
         /\ \A k \in 1 .. Len(frames) - 1 : frames[k].localBase + FrameSize <= Cur.localBase
<1>1. /\ Len(frames) \in Nat \ {0} /\ Len(frames) \in 1 .. MaxFrames
      /\ \A k \in 1 .. Len(frames) : frames[k] \in Frame /\ frames[k].localBase = Base(k)
  BY ConstantTypes DEF StackOK, FrameBases
<1>2. Cur = frames[Len(frames)] /\ Cur \in Frame /\ Cur.localBase = Base(Len(frames))
  BY <1>1 DEF Cur
<1>3. NextBase = Base(Len(frames) + 1) /\ NextBase \in Nat
  BY <1>1, <1>2, BaseType, BaseNext, ConstantTypes DEF NextBase
<1>4. \A i \in 0 .. FrameSize - 1 : Cur.localBase + i \in Register
  BY <1>1, <1>2, RegisterFacts
<1>5. \A k \in 1 .. Len(frames) - 1 : frames[k].localBase + FrameSize <= Cur.localBase
  <2> TAKE k \in 1 .. Len(frames) - 1
  <2>1. k \in Nat /\ 1 <= k /\ k < Len(frames) /\ k \in 1 .. Len(frames)
    BY <1>1
  <2>2. Base(k) + FrameSize <= Base(Len(frames))
    BY <1>1, <2>1, BaseOrder
  <2> QED
    BY <1>1, <1>2, <2>1, <2>2
<1>6. \A f \in Frame : f.localBase \in Nat /\ f.locals \in 0 .. FrameSize
  BY DEF Frame
<1> QED
  BY <1>1, <1>2, <1>3, <1>4, <1>5, <1>6

-----------------------------------------------------------------------------
(* The call stack and the PCalls in progress. *)

LEMMA PushedFrames ==
  ASSUME StackOK, PushFrame
  PROVE  /\ frames' \in Seq(Frame) /\ Len(frames') = Len(frames) + 1
         /\ Len(frames') \in 1 .. MaxFrames /\ FrameBases'
         /\ frames'[Len(frames) + 1] = [localBase |-> NextBase, locals |-> 0]
         /\ \A k \in 1 .. Len(frames) : frames'[k] = frames[k]
<1> DEFINE f == [localBase |-> NextBase, locals |-> 0]
<1>1. f \in Frame
  BY FrameFacts, ConstantTypes DEF Frame
<1>2. frames \in Seq(Frame) /\ Len(frames) \in Nat /\ FrameBases
  BY DEF StackOK
<1>3. frames' = Append(frames, f) /\ Len(frames) < MaxFrames
  BY DEF PushFrame
<1> HIDE DEF f
<1>4. /\ frames' \in Seq(Frame) /\ Len(frames') = Len(frames) + 1
      /\ frames'[Len(frames) + 1] = f
      /\ \A k \in 1 .. Len(frames) : frames'[k] = frames[k]
  BY <1>1, <1>2, <1>3
<1>5. f.localBase = Base(Len(frames) + 1)
  BY FrameFacts DEF f
<1>6. FrameBases'
  BY <1>2, <1>4, <1>5 DEF FrameBases, Base
<1> QED
  BY <1>2, <1>3, <1>4, <1>6, ConstantTypes DEF f

LEMMA RescopedFrames ==
  ASSUME StackOK, NEW n \in 0 .. FrameSize,
         frames' = [frames EXCEPT ![Len(frames)].locals = n]
  PROVE  /\ frames' \in Seq(Frame) /\ Len(frames') = Len(frames) /\ FrameBases'
         /\ \A k \in 1 .. Len(frames) :
              /\ frames'[k].localBase = frames[k].localBase
              /\ frames'[k].locals = IF k = Len(frames) THEN n ELSE frames[k].locals
<1>1. frames \in Seq(Frame) /\ Len(frames) \in Nat /\ FrameBases
  BY DEF StackOK
<1> DEFINE f == [frames[Len(frames)] EXCEPT !.locals = n]
<1>2. f \in Frame /\ f.localBase = frames[Len(frames)].localBase /\ f.locals = n
  BY FrameFacts DEF Frame
<1>3. frames' = [frames EXCEPT ![Len(frames)] = f] /\ Len(frames) \in 1 .. Len(frames)
  BY FrameFacts
<1> HIDE DEF f
<1>4. /\ frames' \in Seq(Frame) /\ Len(frames') = Len(frames)
      /\ \A k \in 1 .. Len(frames) : frames'[k] = IF k = Len(frames) THEN f ELSE frames[k]
  BY <1>1, <1>2, <1>3, ExceptSeq
<1>5. FrameBases'
  BY <1>1, <1>2, <1>4 DEF FrameBases, Base
<1> QED
  BY <1>2, <1>4, <1>5

LEMMA CutFrames ==
  ASSUME StackOK, NEW n \in 1 .. Len(frames), frames' = SubSeq(frames, 1, n)
  PROVE  /\ frames' \in Seq(Frame) /\ Len(frames') = n /\ n \in 1 .. MaxFrames /\ FrameBases'
         /\ \A k \in 1 .. n : frames'[k] = frames[k]
<1>1. frames \in Seq(Frame) /\ Len(frames) \in 1 .. MaxFrames /\ FrameBases
  BY DEF StackOK
<1>2. /\ frames' \in Seq(Frame) /\ Len(frames') = n
      /\ \A k \in 1 .. n : frames'[k] = frames[k]
  BY <1>1
<1>3. FrameBases'
  BY <1>1, <1>2 DEF FrameBases, Base
<1> QED
  BY <1>1, <1>2, <1>3, ConstantTypes

LEMMA DepthTypes ==
  ASSUME NEW p \in Activation, NEW depth \in Nat, WaitsBelow(p, depth)
  PROVE  /\ DepthOf(p) \in Nat /\ DepthOf(p) <= depth
         /\ p.sp \in Nat /\ 1 <= p.sp /\ p.sp < DepthOf(p)
         /\ \A d \in Nat : DepthOf(p) <= d => WaitsBelow(p, d)
<1>1. p.sp \in Nat /\ p.handler \in Nat
  BY DEF Activation
<1> QED
  BY <1>1 DEF WaitsBelow, DepthOf

LEMMA PCallTypes ==
  ASSUME StackOK
  PROVE  /\ pcalls \in Seq(Activation) /\ Len(pcalls) \in Nat
         /\ \A k \in 1 .. Len(pcalls) :
              /\ pcalls[k] \in Activation /\ WaitsBelow(pcalls[k], Len(frames))
              /\ DepthOf(pcalls[k]) \in Nat /\ DepthOf(pcalls[k]) <= Len(frames)
              /\ pcalls[k].sp \in Nat /\ 1 <= pcalls[k].sp /\ pcalls[k].sp < DepthOf(pcalls[k])
         /\ \A j, k \in 1 .. Len(pcalls) : j < k => DepthOf(pcalls[j]) <= pcalls[k].sp
<1>1. pcalls \in Seq(Activation) /\ PCallsNested /\ Len(frames) \in Nat
  BY DEF StackOK
<1>2. \A k \in 1 .. Len(pcalls) : pcalls[k] \in Activation /\ WaitsBelow(pcalls[k], Len(frames))
  BY <1>1 DEF PCallsNested
<1>3. \A k \in 1 .. Len(pcalls) :
        /\ DepthOf(pcalls[k]) \in Nat /\ DepthOf(pcalls[k]) <= Len(frames)
        /\ pcalls[k].sp \in Nat /\ 1 <= pcalls[k].sp /\ pcalls[k].sp < DepthOf(pcalls[k])
  BY <1>1, <1>2, DepthTypes
<1> QED
  BY <1>1, <1>2, <1>3 DEF PCallsNested

\* PCall waits for a frame above those it drops.
LEMMA LastPCall ==
  ASSUME StackOK, InPCall
  PROVE  /\ Len(pcalls) \in Nat \ {0} /\ Last(pcalls) = pcalls[Len(pcalls)]
         /\ Last(pcalls) \in Activation
         /\ Last(pcalls).sp \in 1 .. Len(frames) - 1
         /\ Last(pcalls).base = Base(Last(pcalls).sp + 1)
         /\ AwaitedDepth = DepthOf(Last(pcalls))
         /\ \A k \in 1 .. Len(pcalls) - 1 : DepthOf(pcalls[k]) <= Last(pcalls).sp
<1>1. pcalls \in Seq(Activation) /\ Len(pcalls) \in Nat \ {0} /\ Len(frames) \in Nat
  BY DEF StackOK, InPCall
<1>2. Last(pcalls) = pcalls[Len(pcalls)] /\ Len(pcalls) \in 1 .. Len(pcalls)
  BY <1>1 DEF Last
<1>3. AwaitedDepth = DepthOf(Last(pcalls))
  BY DEF AwaitedDepth, DepthOf
<1>4. /\ Last(pcalls) \in Activation /\ WaitsBelow(Last(pcalls), Len(frames))
      /\ Last(pcalls).sp \in 1 .. Len(frames) - 1
      /\ \A k \in 1 .. Len(pcalls) - 1 : DepthOf(pcalls[k]) <= Last(pcalls).sp
  <2> DEFINE n == Len(pcalls)
  <2>1. /\ pcalls[n] \in Activation /\ WaitsBelow(pcalls[n], Len(frames))
        /\ DepthOf(pcalls[n]) \in Nat /\ DepthOf(pcalls[n]) <= Len(frames)
        /\ pcalls[n].sp \in Nat /\ 1 <= pcalls[n].sp /\ pcalls[n].sp < DepthOf(pcalls[n])
    BY <1>2, PCallTypes
  <2>2. ASSUME NEW k \in 1 .. n - 1 PROVE DepthOf(pcalls[k]) <= pcalls[n].sp
    <3>1. k \in 1 .. n /\ k < n
      BY <1>1
    <3> QED
      BY <1>2, <3>1, PCallTypes
  <2> QED
    BY <1>1, <1>2, <2>1, <2>2
<1> QED
  BY <1>1, <1>2, <1>3, <1>4 DEF WaitsBelow

\* Frames above the depths that PCalls wait for come and go.
LEMMA SamePCalls ==
  ASSUME StackOK, UNCHANGED pcalls,
         frames' \in Seq(Frame), Len(frames') \in 1 .. MaxFrames, FrameBases',
         \A k \in 1 .. Len(pcalls) : DepthOf(pcalls[k]) <= Len(frames')
  PROVE  StackOK'
<1>1. Len(frames') \in Nat /\ Len(frames) \in Nat
  BY DEF StackOK
<1>2. \A k \in 1 .. Len(pcalls) : WaitsBelow(pcalls[k], Len(frames'))
  BY <1>1, PCallTypes, DepthTypes
<1>3. PCallsNested'
  BY <1>2, PCallTypes DEF PCallsNested
<1> QED
  BY <1>3 DEF StackOK

LEMMA UnwoundStack ==
  ASSUME StackOK, InPCall, Unwind
  PROVE  StackOK' /\ Len(frames') = Last(pcalls).sp
<1>1. frames' = SubSeq(frames, 1, Last(pcalls).sp) /\ pcalls' = SubSeq(pcalls, 1, Len(pcalls) - 1)
  BY DEF Unwind, Front
<1>2. Last(pcalls).sp \in 1 .. Len(frames) /\ Len(frames) \in Nat
  BY LastPCall DEF StackOK
<1>3. /\ frames' \in Seq(Frame) /\ Len(frames') = Last(pcalls).sp
      /\ Len(frames') \in 1 .. MaxFrames /\ FrameBases'
  BY <1>1, <1>2, CutFrames
<1>4. pcalls \in Seq(Activation) /\ Len(pcalls) \in Nat \ {0}
  BY PCallTypes, LastPCall
<1>5. /\ pcalls' \in Seq(Activation) /\ Len(pcalls') = Len(pcalls) - 1
      /\ \A k \in 1 .. Len(pcalls) - 1 : pcalls'[k] = pcalls[k]
  <2>1. Len(pcalls) - 1 \in 0 .. Len(pcalls)
    BY <1>4
  <2> QED
    BY <1>1, <1>4, <2>1, PrefixProperties
<1>6. Last(pcalls).sp \in Nat
  BY <1>2
<1>7. ASSUME NEW k \in 1 .. Len(pcalls) - 1 PROVE WaitsBelow(pcalls[k], Last(pcalls).sp)
  <2>1. k \in 1 .. Len(pcalls) /\ DepthOf(pcalls[k]) <= Last(pcalls).sp
    BY <1>4, LastPCall
  <2>2. pcalls[k] \in Activation /\ WaitsBelow(pcalls[k], Len(frames))
    BY <2>1, PCallTypes
  <2> QED
    BY <1>2, <1>6, <2>1, <2>2, DepthTypes
<1>8. PCallsNested'
  <2>1. \A k \in 1 .. Len(pcalls') : WaitsBelow(pcalls'[k], Len(frames'))
    BY <1>3, <1>5, <1>7
  <2>2. ASSUME NEW j \in 1 .. Len(pcalls'), NEW k \in 1 .. Len(pcalls'), j < k
        PROVE  DepthOf(pcalls'[j]) <= pcalls'[k].sp
    <3>1. /\ j \in 1 .. Len(pcalls) /\ k \in 1 .. Len(pcalls)
          /\ pcalls'[j] = pcalls[j] /\ pcalls'[k] = pcalls[k]
      BY <1>4, <1>5
    <3> QED
      BY <2>2, <3>1, PCallTypes
  <2> QED
    BY <2>1, <2>2 DEF PCallsNested
<1> QED
  BY <1>3, <1>5, <1>8 DEF StackOK

LEMMA PCallStack ==
  ASSUME StackOK, NEW how, PCall(how)
  PROVE  StackOK'
<1> DEFINE p == [sp |-> Len(frames), base |-> NextBase, errfunc |-> how = "xpcall", handler |-> 0]
<1>1. pcalls' = Append(pcalls, p) /\ PushFrame
  BY DEF PCall
<1>2. /\ frames' \in Seq(Frame) /\ Len(frames') = Len(frames) + 1
      /\ Len(frames') \in 1 .. MaxFrames /\ FrameBases'
  BY <1>1, PushedFrames
<1>3. Len(frames) \in Nat /\ Len(frames) >= 1 /\ NextBase \in Nat /\ NextBase = Base(Len(frames) + 1)
  BY FrameFacts
<1>4. p \in Activation /\ p.sp = Len(frames) /\ WaitsBelow(p, Len(frames'))
  BY <1>2, <1>3 DEF Activation, WaitsBelow, DepthOf
<1> HIDE DEF p
<1>5. /\ pcalls' \in Seq(Activation) /\ Len(pcalls') = Len(pcalls) + 1 /\ Len(pcalls) \in Nat
      /\ pcalls'[Len(pcalls) + 1] = p
      /\ \A k \in 1 .. Len(pcalls) : pcalls'[k] = pcalls[k]
  BY <1>1, <1>4, PCallTypes
<1>6. \A k \in 1 .. Len(pcalls) :
        WaitsBelow(pcalls[k], Len(frames')) /\ DepthOf(pcalls[k]) <= p.sp
  BY <1>2, <1>3, <1>4, PCallTypes, DepthTypes
<1>7. \A k \in 1 .. Len(pcalls') : k = Len(pcalls) + 1 \/ k \in 1 .. Len(pcalls)
  BY <1>5
<1>8. PCallsNested'
  <2>1. \A k \in 1 .. Len(pcalls') : WaitsBelow(pcalls'[k], Len(frames'))
    BY <1>4, <1>5, <1>6, <1>7
  <2>2. ASSUME NEW j \in 1 .. Len(pcalls'), NEW k \in 1 .. Len(pcalls'), j < k
        PROVE  DepthOf(pcalls'[j]) <= pcalls'[k].sp
    <3>1. j \in 1 .. Len(pcalls)
      BY <2>2, <1>5
    <3>2. CASE k = Len(pcalls) + 1
      BY <3>1, <3>2, <1>5, <1>6
    <3>3. CASE k \in 1 .. Len(pcalls)
      BY <2>2, <3>1, <3>3, <1>5, PCallTypes
    <3> QED
      BY <3>2, <3>3, <1>7
  <2> QED
    BY <2>1, <2>2 DEF PCallsNested
<1> QED
  BY <1>2, <1>5, <1>8 DEF StackOK

LEMMA CallHandlerStack ==
  ASSUME StackOK, NEW fault, CallHandler(fault)
  PROVE  StackOK'
<1>1. /\ InPCall /\ PushFrame /\ Last(pcalls).handler = 0
      /\ pcalls' = [pcalls EXCEPT ![Len(pcalls)].handler = Len(frames')]
  BY DEF CallHandler
<1>2. /\ frames' \in Seq(Frame) /\ Len(frames') = Len(frames) + 1
      /\ Len(frames') \in 1 .. MaxFrames /\ FrameBases'
  BY <1>1, PushedFrames
<1>3. Len(frames') \in Nat /\ Len(frames) \in Nat
  BY <1>2 DEF StackOK
<1> DEFINE p == [Last(pcalls) EXCEPT !.handler = Len(frames')]
<1>4. /\ Last(pcalls) \in Activation /\ Last(pcalls) = pcalls[Len(pcalls)]
      /\ pcalls \in Seq(Activation) /\ Len(pcalls) \in 1 .. Len(pcalls)
      /\ Last(pcalls).sp \in 1 .. Len(frames) - 1
      /\ Last(pcalls).base = Base(Last(pcalls).sp + 1)
  BY <1>1, LastPCall, PCallTypes
<1>5. /\ p \in Activation /\ p.sp = Last(pcalls).sp /\ p.base = Last(pcalls).base
      /\ p.handler = Len(frames')
  BY <1>3, <1>4 DEF Activation
<1>6. pcalls' = [pcalls EXCEPT ![Len(pcalls)] = p]
  BY <1>1, <1>4
<1> HIDE DEF p
<1>7. /\ pcalls' \in Seq(Activation) /\ Len(pcalls') = Len(pcalls)
      /\ \A k \in 1 .. Len(pcalls) : pcalls'[k] = IF k = Len(pcalls) THEN p ELSE pcalls[k]
  BY <1>4, <1>5, <1>6, ExceptSeq
<1>8. WaitsBelow(p, Len(frames'))
  BY <1>2, <1>3, <1>4, <1>5 DEF WaitsBelow, DepthOf
<1>9. \A k \in 1 .. Len(pcalls) : WaitsBelow(pcalls[k], Len(frames'))
  BY <1>2, <1>3, PCallTypes, DepthTypes
<1>10. PCallsNested'
  <2>1. \A k \in 1 .. Len(pcalls') : WaitsBelow(pcalls'[k], Len(frames'))
    BY <1>7, <1>8, <1>9
  <2>2. ASSUME NEW j \in 1 .. Len(pcalls'), NEW k \in 1 .. Len(pcalls'), j < k
        PROVE  DepthOf(pcalls'[j]) <= pcalls'[k].sp
    <3>1. j \in 1 .. Len(pcalls) /\ k \in 1 .. Len(pcalls) /\ Len(pcalls) \in Nat
      BY <1>4, <1>7, PCallTypes
    <3>2. j # Len(pcalls)
      BY <2>2, <3>1
    <3>3. DepthOf(pcalls[j]) <= pcalls[k].sp
      BY <2>2, <3>1, PCallTypes
    <3>4. pcalls'[j] = pcalls[j] /\ pcalls'[k].sp = pcalls[k].sp
      BY <3>1, <3>2, <1>4, <1>5, <1>7
    <3> QED
      BY <3>3, <3>4
  <2> QED
    BY <2>1, <2>2 DEF PCallsNested
<1> QED
  BY <1>2, <1>7, <1>10 DEF StackOK

LEMMA StackStep ==
  ASSUME Inv, Next
  PROVE  StackOK'
<1>0. StackOK
  BY DEF Inv
<1>1. \A k \in 1 .. Len(pcalls) : DepthOf(pcalls[k]) <= Len(frames)
  BY <1>0, PCallTypes
<1>2. ASSUME NEW v \in Value, Declare(v) PROVE StackOK'
  <2>1. Cur.locals + 1 \in 0 .. FrameSize
    BY <1>0, <1>2, FrameFacts, ConstantTypes DEF Declare
  <2>2. frames' = [frames EXCEPT ![Len(frames)].locals = Cur.locals + 1]
    BY <1>2 DEF Declare, Cur
  <2> QED
    BY <1>0, <1>1, <1>2, <2>1, <2>2, RescopedFrames, SamePCalls DEF Declare, StackOK
<1>3. ASSUME NEW i \in 0 .. FrameSize - 1, Capture(i) PROVE StackOK'
  BY <1>0, <1>3 DEF Capture, StackOK, FrameBases, PCallsNested
<1>4. ASSUME NEW i \in 0 .. FrameSize - 1, EndBlock(i) PROVE StackOK'
  <2>1. i \in 0 .. FrameSize
    BY ConstantTypes
  <2> QED
    BY <1>0, <1>1, <1>4, <2>1, RescopedFrames, SamePCalls DEF EndBlock, StackOK
<1>5. ASSUME NEW i \in 0 .. FrameSize - 1, NEW v \in Value, Assign(i, v) PROVE StackOK'
  BY <1>0, <1>5 DEF Assign, StackOK, FrameBases, PCallsNested
<1>6. ASSUME NEW c \in captures, NEW v \in Value, SetUpvalue(c, v) PROVE StackOK'
  BY <1>0, <1>6 DEF SetUpvalue, StackOK, FrameBases, PCallsNested
<1>7. CASE Call
  <2>1. PushFrame /\ UNCHANGED pcalls
    BY <1>7 DEF Call
  <2> QED
    BY <1>0, <1>1, <2>1, PushedFrames, PCallTypes, SamePCalls
<1>8. CASE TailCall
  <2>1. 0 \in 0 .. FrameSize
    BY ConstantTypes
  <2> QED
    BY <1>0, <1>1, <1>8, <2>1, RescopedFrames, SamePCalls DEF TailCall, StackOK
<1>9. CASE Return
  <2>1. /\ frames' = SubSeq(frames, 1, Len(frames) - 1) /\ UNCHANGED pcalls
        /\ Len(frames) - 1 \in 1 .. Len(frames)
    BY <1>0, <1>9, FrameFacts DEF Return
  <2>2. \A k \in 1 .. Len(pcalls) : DepthOf(pcalls[k]) <= Len(frames) - 1
    <3>1. CASE pcalls = <<>>
      BY <3>1
    <3>2. CASE pcalls # <<>>
      <4>1. InPCall /\ AwaitedDepth # Len(frames)
        BY <1>9, <3>2 DEF Return, Awaited, InPCall
      <4>2. /\ Len(frames) \in Nat /\ Len(pcalls) \in Nat \ {0}
            /\ Last(pcalls) = pcalls[Len(pcalls)] /\ Last(pcalls).sp <= Len(frames) - 1
            /\ AwaitedDepth = DepthOf(Last(pcalls))
            /\ \A k \in 1 .. Len(pcalls) - 1 : DepthOf(pcalls[k]) <= Last(pcalls).sp
        BY <1>0, <4>1, LastPCall, FrameFacts
      <4>3. \A k \in 1 .. Len(pcalls) : DepthOf(pcalls[k]) \in Nat /\ DepthOf(pcalls[k]) <= Len(frames)
        BY <1>0, PCallTypes
      <4>4. Last(pcalls).sp \in Nat
        BY <1>0, <4>1, LastPCall
      <4>5. DepthOf(pcalls[Len(pcalls)]) <= Len(frames) - 1
        BY <4>1, <4>2, <4>3
      <4> QED
        BY <4>2, <4>3, <4>4, <4>5
    <3> QED
      BY <3>1, <3>2
  <2> QED
    BY <1>0, <2>1, <2>2, CutFrames, SamePCalls
<1>10. CASE ReturnToPCall
  BY <1>0, <1>10, UnwoundStack DEF ReturnToPCall, Awaited
<1>11. ASSUME NEW how \in Catcher, PCall(how) PROVE StackOK'
  BY <1>0, <1>11, PCallStack
<1>12. ASSUME NEW fault \in Fault, Catch(fault) PROVE StackOK'
  BY <1>0, <1>12, UnwoundStack DEF Catch
<1>13. ASSUME NEW fault \in Fault, CallHandler(fault) PROVE StackOK'
  BY <1>0, <1>13, CallHandlerStack
<1> QED
  BY <1>2, <1>3, <1>4, <1>5, <1>6, <1>7, <1>8, <1>9, <1>10, <1>11, <1>12, <1>13 DEF Next

-----------------------------------------------------------------------------
(* The list of open upvalues. *)

\* new is s with e in place k.
HasInserted(new, s, k, e) ==
  /\ Len(new) = Len(s) + 1
  /\ \A i \in 1 .. Len(s) + 1 :
       new[i] = IF i < k THEN s[i] ELSE IF i = k THEN e ELSE s[i - 1]

LEMMA InsertProperties ==
  ASSUME NEW S, NEW s \in Seq(S), NEW k \in 1 .. Len(s) + 1, NEW e \in S
  PROVE  InsertAt(s, k, e) \in Seq(S) /\ HasInserted(InsertAt(s, k, e), s, k, e)
<1> DEFINE before == SubSeq(s, 1, k - 1)
           after == SubSeq(s, k, Len(s))
<1>1. Len(s) \in Nat /\ k \in Nat /\ k - 1 \in 0 .. Len(s)
  BY LenProperties
<1>2. /\ before \in Seq(S) /\ Len(before) = k - 1
      /\ \A i \in 1 .. k - 1 : before[i] = s[i]
  BY <1>1, PrefixProperties
<1>3. /\ after \in Seq(S) /\ Len(after) = Len(s) - k + 1
      /\ \A i \in 1 .. Len(s) - k + 1 : after[i] = s[k + i - 1]
  <2>1. \A i \in k .. Len(s) : s[i] \in S
    BY <1>1, ElementOfSeq
  <2>2. /\ after \in Seq(S)
        /\ Len(after) = IF k <= Len(s) THEN Len(s) - k + 1 ELSE 0
        /\ \A i \in 1 .. Len(s) - k + 1 : after[i] = s[k + i - 1]
    BY <1>1, <2>1, SubSeqProperties, Z3
  <2>3. (IF k <= Len(s) THEN Len(s) - k + 1 ELSE 0) = Len(s) - k + 1
    BY <1>1
  <2> QED
    BY <2>2, <2>3
<1>4. <<e>> \in Seq(S) /\ Len(<<e>>) = 1 /\ <<e>>[1] = e
  OBVIOUS
<1>5. InsertAt(s, k, e) = (before \o <<e>>) \o after
  BY DEF InsertAt
<1> HIDE DEF before, after
<1>6. /\ before \o <<e>> \in Seq(S) /\ Len(before \o <<e>>) = k
      /\ \A i \in 1 .. k : (before \o <<e>>)[i] = IF i <= k - 1 THEN before[i] ELSE <<e>>[i - (k - 1)]
  BY <1>1, <1>2, <1>4, ConcatProperties
<1> DEFINE start == before \o <<e>>
<1>7. start \in Seq(S) /\ Len(start) = k
      /\ \A i \in 1 .. k : start[i] = IF i < k THEN s[i] ELSE e
  <2>1. ASSUME NEW i \in 1 .. k PROVE start[i] = IF i < k THEN s[i] ELSE e
    <3>1. CASE i < k
      BY <3>1, <1>1, <1>2, <1>6
    <3>2. CASE i = k
      <4>1. i - (k - 1) = 1 /\ ~ (i <= k - 1)
        BY <3>2, <1>1
      <4>2. start[i] = <<e>>[i - (k - 1)]
        BY <4>1, <1>6
      <4>3. <<e>>[i - (k - 1)] = e
        BY <4>1, <1>4
      <4>4. ~ (i < k)
        BY <3>2, <1>1
      <4> QED
        BY <4>2, <4>3, <4>4
    <3>3. i < k \/ i = k
      BY <1>1
    <3> QED
      BY <3>1, <3>2, <3>3
  <2> QED
    BY <2>1, <1>6
<1> HIDE DEF start
<1>8. /\ start \o after \in Seq(S) /\ Len(start \o after) = Len(s) + 1
      /\ \A i \in 1 .. Len(s) + 1 :
           (start \o after)[i] = IF i <= k THEN start[i] ELSE after[i - k]
  BY <1>1, <1>3, <1>7, ConcatProperties
<1>9. InsertAt(s, k, e) = start \o after
  BY <1>5 DEF start
<1>10. ASSUME NEW i \in 1 .. Len(s) + 1
       PROVE  (start \o after)[i] = IF i < k THEN s[i] ELSE IF i = k THEN e ELSE s[i - 1]
  <2>1. CASE i <= k
    BY <2>1, <1>1, <1>7, <1>8
  <2>2. CASE i > k
    <3>1. i - k \in 1 .. Len(s) - k + 1 /\ k + (i - k) - 1 = i - 1
      BY <2>2, <1>1
    <3>2. after[i - k] = s[i - 1]
      BY <3>1, <1>3
    <3> QED
      BY <2>2, <3>2, <1>1, <1>8
  <2>3. i <= k \/ i > k
    BY <1>1
  <2> QED
    BY <2>1, <2>2, <2>3
<1> QED
  BY <1>8, <1>9, <1>10 DEF HasInserted

LEMMA UpvalueTypes ==
  ASSUME CacheOK
  PROVE  /\ upvalues \in Seq(Upvalue) /\ Len(upvalues) \in Nat
         /\ DOMAIN upvalues = 1 .. Len(upvalues)
         /\ Len(uvcache) \in Nat
         /\ \A k \in 1 .. Len(uvcache) : uvcache[k] \in 1 .. Len(upvalues)
         /\ \A u \in 1 .. Len(upvalues) :
              /\ upvalues[u] \in Upvalue /\ upvalues[u].index \in Register
              /\ upvalues[u].index \in Nat /\ upvalues[u].closed \in BOOLEAN
              /\ upvalues[u].value \in Value \cup {LNil, Unset}
<1>1. upvalues \in Seq(Upvalue) /\ uvcache \in Seq(1 .. Len(upvalues))
  BY DEF CacheOK
<1>2. \A o \in Upvalue :
        /\ o.index \in Register /\ o.index \in Nat /\ o.closed \in BOOLEAN
        /\ o.value \in Value \cup {LNil, Unset}
  BY RegisterFacts DEF Upvalue
<1>3. /\ Len(upvalues) \in Nat /\ DOMAIN upvalues = 1 .. Len(upvalues) /\ Len(uvcache) \in Nat
      /\ \A u \in 1 .. Len(upvalues) : upvalues[u] \in Upvalue
      /\ \A k \in 1 .. Len(uvcache) : uvcache[k] \in 1 .. Len(upvalues)
  BY <1>1
<1> QED
  BY <1>1, <1>2, <1>3

\* findUpvalue stops at the first upvalue at idx or above.
LEMMA SearchStops ==
  ASSUME CacheOK, NEW idx \in Nat
  PROVE  /\ SearchStop(idx) \in 1 .. Len(uvcache) + 1
         /\ SearchStop(idx) <= Len(uvcache) => upvalues[uvcache[SearchStop(idx)]].index >= idx
         /\ \A j \in 1 .. SearchStop(idx) - 1 : upvalues[uvcache[j]].index < idx
<1> DEFINE hit == {k \in 1 .. Len(uvcache) : upvalues[uvcache[k]].index >= idx}
<1>1. Len(uvcache) \in Nat
  BY DEF CacheOK
<1>2. \A k \in 1 .. Len(uvcache) : upvalues[uvcache[k]].index \in Nat
  BY UpvalueTypes
<1>3. hit \subseteq 1 .. Len(uvcache)
  OBVIOUS
<1>4. PICK k \in 1 .. Len(uvcache) + 1 :
        (k <= Len(uvcache) => k \in hit) /\ \A j \in 1 .. k - 1 : j \notin hit
  <2> HIDE DEF hit
  <2> QED
    BY <1>1, <1>3, FirstPlace
<1>5. /\ k <= Len(uvcache) => upvalues[uvcache[k]].index >= idx
      /\ \A j \in 1 .. k - 1 : upvalues[uvcache[j]].index < idx
  BY <1>1, <1>2, <1>4
<1> QED
  BY <1>5 DEF SearchStop

\* What the search finds, and that it finds all.
LEMMA CachedMeans ==
  ASSUME CacheOK, NEW idx \in Nat
  PROVE  /\ Cached(idx) =>
              /\ uvcache[SearchStop(idx)] \in 1 .. Len(upvalues)
              /\ upvalues[uvcache[SearchStop(idx)]].index = idx
              /\ ~upvalues[uvcache[SearchStop(idx)]].closed
         /\ ~Cached(idx) =>
              \A u \in 1 .. Len(upvalues) : upvalues[u].closed \/ upvalues[u].index # idx
<1> DEFINE n == SearchStop(idx)
<1>1. /\ n \in 1 .. Len(uvcache) + 1 /\ Len(uvcache) \in Nat
      /\ n <= Len(uvcache) => upvalues[uvcache[n]].index >= idx
      /\ \A j \in 1 .. n - 1 : upvalues[uvcache[j]].index < idx
  <2>1. Len(uvcache) \in Nat
    BY UpvalueTypes
  <2> QED
    BY <2>1, SearchStops, Zenon
<1>2. Cached(idx) <=> n <= Len(uvcache) /\ upvalues[uvcache[n]].index = idx
  BY DEF Cached
<1> HIDE DEF n
<1>3. \A k \in 1 .. Len(uvcache) :
        uvcache[k] \in 1 .. Len(upvalues) /\ upvalues[uvcache[k]].index \in Nat
  BY UpvalueTypes
<1>4. ASSUME Cached(idx)
      PROVE  /\ uvcache[n] \in 1 .. Len(upvalues) /\ upvalues[uvcache[n]].index = idx
             /\ ~upvalues[uvcache[n]].closed
  BY <1>1, <1>2, <1>3, <1>4 DEF CacheOK, ListsOpen
<1>5. ASSUME ~Cached(idx), NEW u \in 1 .. Len(upvalues), ~upvalues[u].closed, upvalues[u].index = idx
      PROVE  FALSE
  <2>1. PICK k \in 1 .. Len(uvcache) : uvcache[k] = u
    BY <1>5 DEF CacheOK, ListsOpen
  <2>2. ~ (k < n)
    <3>1. k < n => upvalues[uvcache[k]].index < idx
      BY <1>1
    <3> QED
      BY <3>1, <1>5, <2>1
  <2>3. n < k
    BY <1>1, <1>2, <1>5, <2>1, <2>2
  <2>4. upvalues[uvcache[n]].index < upvalues[uvcache[k]].index
    BY <1>1, <2>3 DEF CacheOK, InOrder
  <2> QED
    BY <1>1, <1>3, <1>5, <2>1, <2>3, <2>4
<1> QED
  BY <1>4, <1>5 DEF n

LEMMA FoundUpvalue ==
  ASSUME CacheOK, NEW idx \in Register, NEW x, FindUpvalue(idx, x)
  PROVE  /\ CacheOK'
         /\ \E u \in 1 .. Len(upvalues') :
              /\ captures' = captures \cup {<<u, x>>}
              /\ upvalues'[u].index = idx /\ ~upvalues'[u].closed
              /\ \/ UNCHANGED upvalues
                 \/ /\ u = Len(upvalues) + 1 /\ Len(upvalues') = Len(upvalues) + 1
                    /\ \A w \in 1 .. Len(upvalues) :
                         /\ upvalues'[w] = upvalues[w]
                         /\ upvalues[w].closed \/ upvalues[w].index # idx
<1> DEFINE n == SearchStop(idx)
<1>0. idx \in Nat
  BY RegisterFacts
<1>1. CASE Cached(idx)
  <2>1. captures' = captures \cup {<<uvcache[n], x>>} /\ UNCHANGED <<upvalues, uvcache>>
    BY <1>1 DEF FindUpvalue
  <2>2. CacheOK'
    BY <2>1 DEF CacheOK, InOrder, ListsOpen
  <2>3. /\ uvcache[n] \in 1 .. Len(upvalues)
        /\ upvalues[uvcache[n]].index = idx /\ ~upvalues[uvcache[n]].closed
    BY <1>0, <1>1, CachedMeans
  <2> QED
    BY <2>1, <2>2, <2>3
<1>2. CASE ~Cached(idx)
  <2> DEFINE o == [index |-> idx, closed |-> FALSE, value |-> Unset]
             u == Len(upvalues) + 1
  <2>1. /\ Len(upvalues) < MaxUpvalues /\ upvalues' = Append(upvalues, o)
        /\ uvcache' = InsertAt(uvcache, n, Len(upvalues'))
        /\ captures' = captures \cup {<<Len(upvalues'), x>>}
    BY <1>2 DEF FindUpvalue
  <2>2. o \in Upvalue /\ o.index = idx /\ ~o.closed
    BY DEF Upvalue
  <2> HIDE DEF o
  <2>3. /\ upvalues' \in Seq(Upvalue) /\ Len(upvalues') = u /\ upvalues'[u] = o
        /\ \A w \in 1 .. Len(upvalues) : upvalues'[w] = upvalues[w]
        /\ Len(upvalues) \in Nat
    BY <2>1, <2>2, UpvalueTypes
  <2>4. /\ n \in 1 .. Len(uvcache) + 1 /\ Len(uvcache) \in Nat
        /\ n <= Len(uvcache) => upvalues[uvcache[n]].index >= idx
        /\ \A j \in 1 .. n - 1 : upvalues[uvcache[j]].index < idx
    BY <1>0, SearchStops, UpvalueTypes
  <2>5. \A w \in 1 .. Len(upvalues) : upvalues[w].closed \/ upvalues[w].index # idx
    BY <1>0, <1>2, CachedMeans
  <2> HIDE DEF n
  <2>6. uvcache \in Seq(1 .. u) /\ u \in 1 .. u
    <3>1. uvcache \in Seq(1 .. Len(upvalues)) /\ 1 .. Len(upvalues) \subseteq 1 .. u
      BY <2>3 DEF CacheOK
    <3> QED
      BY <2>3, <3>1, SeqMonotonic
  <2>7. /\ uvcache' \in Seq(1 .. u) /\ Len(uvcache') = Len(uvcache) + 1
        /\ \A i \in 1 .. Len(uvcache) + 1 :
             uvcache'[i] = IF i < n THEN uvcache[i] ELSE IF i = n THEN u ELSE uvcache[i - 1]
    <3>1. uvcache' = InsertAt(uvcache, n, u)
      BY <2>1, <2>3
    <3> DEFINE S == 1 .. u
               new == InsertAt(uvcache, n, u)
    <3>2. n \in 1 .. Len(uvcache) + 1 /\ uvcache \in Seq(S) /\ u \in S
      BY <2>4, <2>6
    <3>3. new \in Seq(S) /\ HasInserted(new, uvcache, n, u)
      <4> HIDE DEF S, u
      <4> QED
        BY <3>2, InsertProperties
    <3>4. HasInserted(uvcache', uvcache, n, u) /\ uvcache' \in Seq(1 .. u)
      BY <3>1, <3>3
    <3> HIDE DEF new
    <3> QED
      BY <3>4 DEF HasInserted
  <2>8. /\ \A i \in 1 .. n - 1 : uvcache'[i] = uvcache[i] /\ uvcache[i] \in 1 .. Len(upvalues)
        /\ uvcache'[n] = u /\ n \in 1 .. Len(uvcache')
        /\ \A i \in n + 1 .. Len(uvcache') :
             uvcache'[i] = uvcache[i - 1] /\ uvcache[i - 1] \in 1 .. Len(upvalues)
    BY <2>4, <2>7, UpvalueTypes
  <2>9. ASSUME NEW i \in n .. Len(uvcache) PROVE upvalues[uvcache[i]].index > idx
    <3>1. n \in 1 .. Len(uvcache) /\ i \in 1 .. Len(uvcache) /\ (n < i \/ n = i)
      BY <2>4
    <3>2. n < i => upvalues[uvcache[n]].index < upvalues[uvcache[i]].index
      BY <3>1 DEF CacheOK, InOrder
    <3>3. /\ upvalues[uvcache[n]].index \in Nat /\ upvalues[uvcache[i]].index \in Nat
          /\ uvcache[i] \in 1 .. Len(upvalues)
      BY <3>1, UpvalueTypes
    <3>4. upvalues[uvcache[i]].index # idx
      BY <2>5, <3>1, <3>3 DEF CacheOK, ListsOpen
    <3> QED
      BY <1>0, <2>4, <3>1, <3>2, <3>3, <3>4
  <2> DEFINE At(i) == upvalues'[uvcache'[i]].index
  <2>10. /\ \A i \in 1 .. n - 1 : At(i) = upvalues[uvcache[i]].index
         /\ At(n) = idx
         /\ \A i \in n + 1 .. Len(uvcache') : At(i) = upvalues[uvcache[i - 1]].index
    BY <2>2, <2>3, <2>8
  <2>11. InOrder(upvalues', uvcache')
    <3> HIDE DEF At
    <3>1. ASSUME NEW i \in 1 .. Len(uvcache'), NEW j \in 1 .. Len(uvcache'), i < j
          PROVE  At(i) < At(j)
      <4>1. /\ i \in Nat /\ j \in Nat /\ n \in Nat
            /\ \A k \in 1 .. Len(uvcache) : upvalues[uvcache[k]].index \in Nat
        BY <2>4, <2>7, UpvalueTypes
      <4>2. CASE j < n
        <5>1. i \in 1 .. n - 1 /\ j \in 1 .. n - 1 /\ i \in 1 .. Len(uvcache) /\ j \in 1 .. Len(uvcache)
          BY <2>4, <3>1, <4>1, <4>2
        <5> QED
          BY <2>10, <3>1, <5>1 DEF CacheOK, InOrder
      <4>3. CASE j = n
        <5>1. i \in 1 .. n - 1
          BY <3>1, <4>1, <4>3
        <5> QED
          BY <2>4, <2>10, <4>3, <5>1
      <4>4. CASE j > n
        <5>1. j \in n + 1 .. Len(uvcache') /\ j - 1 \in n .. Len(uvcache) /\ j - 1 \in 1 .. Len(uvcache)
          BY <2>4, <2>7, <4>1, <4>4
        <5>2. At(j) = upvalues[uvcache[j - 1]].index /\ At(j) > idx /\ At(j) \in Nat
          BY <2>9, <2>10, <4>1, <5>1
        <5>3. CASE i < n
          <6>1. i \in 1 .. n - 1 /\ i \in 1 .. Len(uvcache)
            BY <2>4, <4>1, <5>3
          <6>2. At(i) < idx /\ At(i) \in Nat
            BY <2>4, <2>10, <4>1, <6>1
          <6> QED
            BY <1>0, <5>2, <6>2
        <5>4. CASE i = n
          BY <2>10, <5>2, <5>4
        <5>5. CASE i > n
          <6>1. /\ i \in n + 1 .. Len(uvcache') /\ i - 1 \in 1 .. Len(uvcache) /\ i - 1 < j - 1
            <7>1. /\ Len(uvcache') = Len(uvcache) + 1 /\ Len(uvcache) \in Nat
                  /\ 1 <= n /\ i \in Nat /\ i <= Len(uvcache') /\ j \in Nat
              BY <2>4, <2>7, <3>1, <4>1
            <7> QED
              BY <3>1, <4>1, <5>5, <7>1
          <6> QED
            BY <2>10, <5>1, <5>2, <6>1 DEF CacheOK, InOrder
        <5> QED
          BY <4>1, <5>3, <5>4, <5>5
      <4> QED
        BY <4>1, <4>2, <4>3, <4>4
    <3> QED
      BY <3>1 DEF InOrder, At
  <2>12. ListsOpen(upvalues', uvcache')
    <3>1. ASSUME NEW w \in 1 .. Len(upvalues)
          PROVE  (\E k \in 1 .. Len(uvcache) : uvcache[k] = w) <=> \E k \in 1 .. Len(uvcache') : uvcache'[k] = w
      <4>1. ASSUME NEW k \in 1 .. Len(uvcache), uvcache[k] = w
            PROVE  \E j \in 1 .. Len(uvcache') : uvcache'[j] = w
        <5>1. CASE k < n
          <6>1. k \in 1 .. n - 1 /\ k \in 1 .. Len(uvcache')
            BY <2>4, <2>7, <5>1
          <6> QED
            BY <2>8, <4>1, <6>1
        <5>2. CASE k >= n
          <6>1. k + 1 \in n + 1 .. Len(uvcache') /\ k + 1 \in 1 .. Len(uvcache') /\ (k + 1) - 1 = k
            BY <2>4, <2>7, <5>2
          <6>2. uvcache'[k + 1] = uvcache[(k + 1) - 1]
            BY <2>8, <6>1
          <6> QED
            BY <4>1, <6>1, <6>2
        <5>3. k < n \/ k >= n
          BY <2>4
        <5> QED
          BY <5>1, <5>2, <5>3
      <4>2. ASSUME NEW k \in 1 .. Len(uvcache'), uvcache'[k] = w
            PROVE  \E j \in 1 .. Len(uvcache) : uvcache[j] = w
        <5>1. CASE k < n
          <6>1. k \in 1 .. n - 1 /\ k \in 1 .. Len(uvcache)
            BY <2>4, <5>1
          <6> QED
            BY <2>8, <4>2, <6>1
        <5>2. k # n
          BY <2>3, <2>8, <4>2
        <5>3. CASE k > n
          <6>1. k \in n + 1 .. Len(uvcache') /\ k - 1 \in 1 .. Len(uvcache)
            BY <2>4, <2>7, <5>3
          <6> QED
            BY <2>8, <4>2, <6>1
        <5>4. k < n \/ k > n
          BY <2>4, <2>7, <5>2
        <5> QED
          BY <5>1, <5>3, <5>4
      <4> QED
        BY <4>1, <4>2
    <3>2. ASSUME NEW w \in 1 .. Len(upvalues)
          PROVE  ~upvalues'[w].closed <=> \E k \in 1 .. Len(uvcache') : uvcache'[k] = w
      BY <2>3, <3>1 DEF CacheOK, ListsOpen
    <3>3. ~upvalues'[u].closed /\ \E k \in 1 .. Len(uvcache') : uvcache'[k] = u
      BY <2>2, <2>3, <2>8
    <3>4. \A w \in 1 .. Len(upvalues') : w = u \/ w \in 1 .. Len(upvalues)
      BY <2>3
    <3> QED
      BY <3>2, <3>3, <3>4 DEF ListsOpen
  <2>13. u <= MaxUpvalues /\ u \in 1 .. Len(upvalues')
    BY <2>1, <2>3, UpvaluesAssumption DEF UpvaluesAssumption
  <2>14. CacheOK'
    BY <2>3, <2>7, <2>11, <2>12, <2>13 DEF CacheOK
  <2>15. captures' = captures \cup {<<u, x>>} /\ upvalues'[u].index = idx /\ ~upvalues'[u].closed
    BY <2>1, <2>2, <2>3
  <2> QED
    BY <2>3, <2>5, <2>13, <2>14, <2>15
<1> QED
  BY <1>1, <1>2

\* closeUpvalues closes all that point to idx or above, and no other.
LEMMA ClosedUpvalues ==
  ASSUME CacheOK, RegistryOK, NEW idx \in Nat, CloseUpvalues(idx)
  PROVE  /\ CacheOK' /\ Len(upvalues') = Len(upvalues)
         /\ \A u \in 1 .. Len(upvalues) :
              /\ upvalues'[u].index = upvalues[u].index
              /\ upvalues'[u].closed <=> upvalues[u].closed \/ upvalues[u].index >= idx
              /\ upvalues[u].closed => upvalues'[u].value = upvalues[u].value
              /\ ~upvalues[u].closed /\ upvalues'[u].closed =>
                     upvalues'[u].value = reg[upvalues[u].index]
<1> DEFINE n == Len(uvcache)
           hit == {k \in 1 .. n : upvalues[uvcache[k]].index >= idx}
           Cuts(c) == \A j \in 1 .. n : j < c <=> \A h \in hit : j < h
           cut == CHOOSE c \in 1 .. n + 1 : Cuts(c)
           Closed(u) == [upvalues[u] EXCEPT !.closed = TRUE, !.value = UpvalueValue(u)]
<1>1. /\ uvcache' = SubSeq(uvcache, 1, cut - 1)
      /\ upvalues' = [u \in DOMAIN upvalues |->
           IF \E k \in hit : uvcache[k] = u THEN Closed(u) ELSE upvalues[u]]
  BY DEF CloseUpvalues
<1>2. n \in Nat /\ hit \subseteq 1 .. n
  BY UpvalueTypes
<1>3. PICK c \in 1 .. n + 1 : (c <= n => c \in hit) /\ \A j \in 1 .. c - 1 : j \notin hit
  <2> HIDE DEF hit, n
  <2> QED
    BY <1>2, FirstPlace
<1>4. Cuts(c)
  <2> SUFFICES ASSUME NEW j \in 1 .. n PROVE j < c <=> \A h \in hit : j < h
    OBVIOUS
  <2> HIDE DEF hit, n
  <2>1. ASSUME j < c, NEW h \in hit PROVE j < h
    <3>1. h \notin 1 .. c - 1 /\ h \in 1 .. n
      BY <1>2, <1>3
    <3> QED
      BY <1>2, <2>1, <3>1
  <2>2. ASSUME ~ (j < c) PROVE \E h \in hit : ~ (j < h)
    <3>1. c <= n /\ c <= j
      BY <1>2, <2>2
    <3> QED
      BY <1>2, <1>3, <3>1
  <2> QED
    BY <2>1, <2>2
<1>5. cut \in 1 .. n + 1 /\ Cuts(cut)
  <2> HIDE DEF Cuts
  <2> QED
    BY <1>4
<1> HIDE DEF cut
<1>6. \A k \in 1 .. n : uvcache[k] \in 1 .. Len(upvalues) /\ upvalues[uvcache[k]].index \in Nat
  BY UpvalueTypes
<1>7. ASSUME NEW k \in 1 .. n PROVE k < cut <=> upvalues[uvcache[k]].index < idx
  <2>1. ASSUME k < cut PROVE upvalues[uvcache[k]].index < idx
    <3>1. k \notin hit
      BY <1>5, <2>1
    <3> QED
      BY <1>6, <3>1
  <2>2. ASSUME ~ (k < cut) PROVE ~ (upvalues[uvcache[k]].index < idx)
    <3>1. PICK h \in hit : ~ (k < h)
      BY <1>5, <2>2
    <3>2. h \in 1 .. n /\ upvalues[uvcache[h]].index >= idx /\ (h < k \/ h = k)
      BY <1>2, <3>1
    <3>3. h < k => upvalues[uvcache[h]].index < upvalues[uvcache[k]].index
      BY <3>2 DEF CacheOK, InOrder
    <3> QED
      BY <1>6, <3>2, <3>3
  <2> QED
    BY <2>1, <2>2
<1>8. ASSUME NEW u \in 1 .. Len(upvalues)
      PROVE  (\E k \in hit : uvcache[k] = u) <=> ~upvalues[u].closed /\ upvalues[u].index >= idx
  <2>1. ~upvalues[u].closed <=> \E k \in 1 .. n : uvcache[k] = u
    BY DEF CacheOK, ListsOpen
  <2> QED
    BY <2>1
<1> HIDE DEF hit, Cuts
<1>9. ASSUME NEW u \in 1 .. Len(upvalues), ~upvalues[u].closed
      PROVE  /\ Closed(u) \in Upvalue /\ Closed(u).index = upvalues[u].index
             /\ Closed(u).closed = TRUE /\ Closed(u).value = reg[upvalues[u].index]
  <2>1. UpvalueValue(u) = reg[upvalues[u].index] /\ UpvalueValue(u) \in Value \cup {LNil, Unset}
    BY <1>9, UpvalueTypes DEF UpvalueValue, RegistryOK
  <2> QED
    BY <2>1, UpvalueTypes DEF Upvalue
<1>10. ASSUME NEW u \in 1 .. Len(upvalues)
       PROVE  upvalues'[u] = IF ~upvalues[u].closed /\ upvalues[u].index >= idx
                             THEN Closed(u) ELSE upvalues[u]
  <2>1. upvalues'[u] = IF \E k \in hit : uvcache[k] = u THEN Closed(u) ELSE upvalues[u]
    <3> HIDE DEF Closed
    <3> QED
      BY <1>1, UpvalueTypes
  <2> HIDE DEF Closed
  <2> QED
    BY <2>1, <1>8
<1> HIDE DEF Closed
<1>11. upvalues' \in Seq(Upvalue) /\ Len(upvalues') = Len(upvalues)
  <2>1. DOMAIN upvalues' = 1 .. Len(upvalues) /\ upvalues' = [u \in 1 .. Len(upvalues) |-> upvalues'[u]]
    BY <1>1, UpvalueTypes
  <2>2. \A u \in 1 .. Len(upvalues) : upvalues'[u] \in Upvalue
    BY <1>9, <1>10, UpvalueTypes
  <2>3. upvalues' \in [1 .. Len(upvalues) -> Upvalue]
    BY <2>1, <2>2
  <2>4. upvalues' \in Seq(Upvalue)
    BY <2>3, UpvalueTypes, SeqDef
  <2> QED
    BY <2>1, <2>4, UpvalueTypes
<1>12. ASSUME NEW u \in 1 .. Len(upvalues)
       PROVE  /\ upvalues'[u].index = upvalues[u].index
              /\ upvalues'[u].closed <=> upvalues[u].closed \/ upvalues[u].index >= idx
              /\ upvalues[u].closed => upvalues'[u].value = upvalues[u].value
              /\ ~upvalues[u].closed /\ upvalues'[u].closed =>
                     upvalues'[u].value = reg[upvalues[u].index]
  <2>1. CASE ~upvalues[u].closed /\ upvalues[u].index >= idx
    BY <2>1, <1>9, <1>10
  <2>2. CASE ~ (~upvalues[u].closed /\ upvalues[u].index >= idx)
    BY <2>2, <1>10
  <2> QED
    BY <2>1, <2>2
<1>13. /\ uvcache' \in Seq(1 .. Len(upvalues)) /\ Len(uvcache') = cut - 1
       /\ \A k \in 1 .. cut - 1 : uvcache'[k] = uvcache[k] /\ k \in 1 .. n
  <2>1. uvcache \in Seq(1 .. Len(upvalues)) /\ cut - 1 \in 0 .. Len(uvcache)
    BY <1>2, <1>5 DEF CacheOK
  <2>2. \A k \in 1 .. cut - 1 : k \in 1 .. n
    BY <1>2, <1>5
  <2> QED
    BY <1>1, <2>1, <2>2, PrefixProperties
<1>14. InOrder(upvalues', uvcache')
  <2> SUFFICES ASSUME NEW i \in 1 .. Len(uvcache'), NEW j \in 1 .. Len(uvcache'), i < j
               PROVE  upvalues'[uvcache'[i]].index < upvalues'[uvcache'[j]].index
    BY DEF InOrder
  <2>1. /\ i \in 1 .. n /\ j \in 1 .. n /\ uvcache'[i] = uvcache[i] /\ uvcache'[j] = uvcache[j]
    BY <1>13
  <2>2. upvalues[uvcache[i]].index < upvalues[uvcache[j]].index
    BY <2>1 DEF CacheOK, InOrder
  <2> QED
    BY <1>6, <1>12, <2>1, <2>2
<1>15. ListsOpen(upvalues', uvcache')
  <2> SUFFICES ASSUME NEW u \in 1 .. Len(upvalues)
               PROVE  ~upvalues'[u].closed <=> \E k \in 1 .. Len(uvcache') : uvcache'[k] = u
    BY <1>11 DEF ListsOpen
  <2>1. ASSUME ~upvalues'[u].closed PROVE \E k \in 1 .. Len(uvcache') : uvcache'[k] = u
    <3>1. ~upvalues[u].closed /\ ~ (upvalues[u].index >= idx) /\ upvalues[u].index \in Nat
      BY <1>12, <2>1, UpvalueTypes
    <3>2. PICK k \in 1 .. n : uvcache[k] = u
      BY <3>1 DEF CacheOK, ListsOpen
    <3>3. k \in 1 .. cut - 1
      BY <1>2, <1>5, <1>7, <3>1, <3>2
    <3> QED
      BY <1>13, <3>2, <3>3
  <2>2. ASSUME NEW k \in 1 .. Len(uvcache'), uvcache'[k] = u PROVE ~upvalues'[u].closed
    <3>1. k \in 1 .. n /\ uvcache[k] = u /\ k < cut
      BY <1>2, <1>5, <1>13, <2>2
    <3>2. ~upvalues[u].closed /\ upvalues[u].index < idx /\ upvalues[u].index \in Nat
      BY <1>7, <3>1, UpvalueTypes DEF CacheOK, ListsOpen
    <3> QED
      BY <1>12, <3>2
  <2> QED
    BY <2>1, <2>2
<1>16. CacheOK'
  BY <1>11, <1>13, <1>14, <1>15 DEF CacheOK
<1> QED
  BY <1>11, <1>12, <1>16

\* An error closes every upvalue, or none.
LEMMA RaisedMeans ==
  ASSUME StackOK, CacheOK, RegistryOK, NEW fault, RaisedCloses(fault)
  PROVE  /\ CacheOK' /\ Len(upvalues') = Len(upvalues)
         /\ Closes(fault) => \A u \in 1 .. Len(upvalues') : upvalues'[u].closed
         /\ ~Closes(fault) => UNCHANGED <<upvalues, uvcache>>
<1>1. CASE Closes(fault)
  <2>1. CloseUpvalues(0)
    <3>1. frames[1].localBase = 0
      BY FrameFacts, BaseType
    <3> QED
      BY <1>1, <3>1 DEF RaisedCloses
  <2>2. \A u \in 1 .. Len(upvalues) : upvalues[u].index >= 0
    BY UpvalueTypes
  <2>3. CacheOK' /\ Len(upvalues') = Len(upvalues)
    BY <2>1, ClosedUpvalues
  <2>4. \A u \in 1 .. Len(upvalues) : upvalues'[u].closed
    BY <2>1, <2>2, ClosedUpvalues
  <2> QED
    BY <1>1, <2>3, <2>4
<1>2. CASE ~Closes(fault)
  <2>1. UNCHANGED <<upvalues, uvcache>>
    BY <1>2 DEF RaisedCloses
  <2> QED
    BY <1>2, <2>1 DEF CacheOK, InOrder, ListsOpen
<1> QED
  BY <1>1, <1>2

LEMMA SameCache ==
  ASSUME CacheOK, UNCHANGED <<upvalues, uvcache>>
  PROVE  CacheOK'
BY DEF CacheOK, InOrder, ListsOpen

\* A new value for a closed upvalue.
LEMMA ValuedUpvalue ==
  ASSUME CacheOK, NEW u \in 1 .. Len(upvalues), NEW v \in Value,
         upvalues' = [upvalues EXCEPT ![u].value = v], UNCHANGED uvcache
  PROVE  /\ CacheOK' /\ Len(upvalues') = Len(upvalues)
         /\ \A w \in 1 .. Len(upvalues) :
              /\ upvalues'[w].index = upvalues[w].index
              /\ upvalues'[w].closed = upvalues[w].closed
              /\ upvalues'[w].value = IF w = u THEN v ELSE upvalues[w].value
<1> DEFINE o == [upvalues[u] EXCEPT !.value = v]
<1>1. /\ o \in Upvalue /\ o.index = upvalues[u].index /\ o.closed = upvalues[u].closed
      /\ o.value = v
  BY UpvalueTypes DEF Upvalue
<1>2. upvalues' = [upvalues EXCEPT ![u] = o]
  OBVIOUS
<1> HIDE DEF o
<1>3. /\ upvalues' \in Seq(Upvalue) /\ Len(upvalues') = Len(upvalues)
      /\ \A w \in 1 .. Len(upvalues) : upvalues'[w] = IF w = u THEN o ELSE upvalues[w]
  BY <1>1, <1>2, UpvalueTypes, ExceptSeq
<1>4. \A w \in 1 .. Len(upvalues) :
        /\ upvalues'[w].index = upvalues[w].index
        /\ upvalues'[w].closed = upvalues[w].closed
        /\ upvalues'[w].value = IF w = u THEN v ELSE upvalues[w].value
  BY <1>1, <1>3
<1>5. InOrder(upvalues', uvcache')
  BY <1>4, UpvalueTypes DEF CacheOK, InOrder
<1>6. ListsOpen(upvalues', uvcache')
  BY <1>3, <1>4 DEF CacheOK, ListsOpen
<1> QED
  BY <1>3, <1>4, <1>5, <1>6 DEF CacheOK

LEMMA CacheStep ==
  ASSUME Inv, Next
  PROVE  CacheOK'
<1>0. StackOK /\ CacheOK /\ RegistryOK
  BY DEF Inv
<1>2. ASSUME NEW v \in Value, Declare(v) PROVE CacheOK'
  BY <1>0, <1>2, SameCache DEF Declare
<1>3. ASSUME NEW i \in 0 .. FrameSize - 1, Capture(i) PROVE CacheOK'
  <2>1. Cur.localBase + i \in Register /\ FindUpvalue(Cur.localBase + i, bound[Cur.localBase + i])
    BY <1>0, <1>3, FrameFacts DEF Capture
  <2> QED
    BY <1>0, <2>1, FoundUpvalue
<1>4. ASSUME NEW i \in 0 .. FrameSize - 1, EndBlock(i) PROVE CacheOK'
  <2>1. Cur.localBase + i \in Nat /\ CloseUpvalues(Cur.localBase + i)
    BY <1>0, <1>4, FrameFacts DEF EndBlock
  <2> QED
    BY <1>0, <2>1, ClosedUpvalues
<1>5. ASSUME NEW i \in 0 .. FrameSize - 1, NEW v \in Value, Assign(i, v) PROVE CacheOK'
  BY <1>0, <1>5, SameCache DEF Assign
<1>6. ASSUME NEW c \in captures, NEW v \in Value, SetUpvalue(c, v) PROVE CacheOK'
  <2>1. c[1] \in 1 .. Len(upvalues)
    BY DEF Inv, HistoryOK
  <2>2. UNCHANGED uvcache
    BY <1>6 DEF SetUpvalue
  <2>3. CASE upvalues[c[1]].closed
    <3>1. upvalues' = [upvalues EXCEPT ![c[1]].value = v]
      BY <1>6, <2>3 DEF SetUpvalue
    <3> QED
      BY <1>0, <2>1, <2>2, <3>1, ValuedUpvalue
  <2>4. CASE ~upvalues[c[1]].closed
    BY <1>0, <1>6, <2>2, <2>4, SameCache DEF SetUpvalue
  <2> QED
    BY <2>3, <2>4
<1>7. CASE Call
  BY <1>0, <1>7, SameCache DEF Call
<1>8. CASE TailCall \/ Return \/ ReturnToPCall
  <2>1. Cur.localBase \in Nat /\ CloseUpvalues(Cur.localBase)
    BY <1>0, <1>8, FrameFacts DEF TailCall, Return, ReturnToPCall
  <2> QED
    BY <1>0, <2>1, ClosedUpvalues
<1>9. ASSUME NEW how \in Catcher, PCall(how) PROVE CacheOK'
  BY <1>0, <1>9, SameCache DEF PCall
<1>10. ASSUME NEW fault \in Fault, Catch(fault) \/ CallHandler(fault) PROVE CacheOK'
  BY <1>0, <1>10, RaisedMeans DEF Catch, CallHandler
<1> QED
  BY <1>2, <1>3, <1>4, <1>5, <1>6, <1>7, <1>8, <1>9, <1>10 DEF Next

-----------------------------------------------------------------------------
(* The variables in scope. *)

LEMMA InScopeMeans ==
  ASSUME StackOK, NEW r \in Register
  PROVE  InScope(r) <=> \E k \in 1 .. Len(frames) : Base(k) <= r /\ r < Base(k) + frames[k].locals
BY FrameFacts DEF InScope

\* The registers of frame k end where those of frame k + 1 begin.
LEMMA FrameEnds ==
  ASSUME StackOK, NEW k \in 1 .. Len(frames), NEW n \in Nat, NEW r \in Nat,
         Base(k) <= r, r < Base(k) + frames[k].locals, 1 <= n
  PROVE  /\ k <= n => r < Base(n + 1)
         /\ n < k => r >= Base(n + 1)
<1>1. /\ k \in Nat /\ k >= 1 /\ Base(k) \in Nat /\ Base(n + 1) \in Nat /\ FrameSize \in Nat
      /\ frames[k].locals \in 0 .. FrameSize
  BY FrameFacts, BaseType, ConstantTypes
<1>2. ASSUME k <= n PROVE r < Base(n + 1)
  <2>1. Base(k) + FrameSize <= Base(n + 1)
    BY <1>1, <1>2, BaseOrder
  <2> QED
    BY <1>1, <2>1
<1>3. ASSUME n < k PROVE r >= Base(n + 1)
  <2>1. CASE n + 1 = k
    BY <2>1
  <2>2. CASE n + 1 < k
    <3>1. Base(n + 1) + FrameSize <= Base(k)
      BY <1>1, <2>2, BaseOrder
    <3> QED
      BY <1>1, <3>1
  <2> QED
    BY <1>1, <1>3, <2>1, <2>2
<1> QED
  BY <1>2, <1>3

LEMMA CutScopes ==
  ASSUME StackOK, StackOK', NEW n \in 1 .. Len(frames), frames' = SubSeq(frames, 1, n)
  PROVE  \A r \in Register : InScope(r)' <=> InScope(r) /\ r < Base(n + 1)
<1>1. Len(frames') = n /\ \A k \in 1 .. n : frames'[k] = frames[k]
  BY CutFrames
<1>2. \A r \in Register : r \in Nat
  BY RegisterFacts
<1>3. Len(frames) \in Nat /\ n \in Nat /\ 1 <= n
  BY FrameFacts
<1> SUFFICES ASSUME NEW r \in Register PROVE InScope(r)' <=> InScope(r) /\ r < Base(n + 1)
  OBVIOUS
<1>4. Base(n + 1) \in Nat
  BY <1>3, BaseType
<1>5. ASSUME NEW k \in 1 .. Len(frames), Base(k) <= r, r < Base(k) + frames[k].locals
      PROVE  k <= n <=> r < Base(n + 1)
  <2>1. /\ k <= n => r < Base(n + 1)
        /\ n < k => r >= Base(n + 1)
    BY <1>2, <1>3, <1>5, FrameEnds
  <2> QED
    BY <1>2, <1>3, <1>4, <2>1
<1>6. InScope(r)' <=> \E k \in 1 .. n : Base(k) <= r /\ r < Base(k) + frames[k].locals
  BY <1>1, <1>3, CutFrames DEF InScope, FrameBases, StackOK
<1> QED
  BY <1>3, <1>5, <1>6, InScopeMeans

\* From its first register on, the locals of the running frame are in scope.
LEMMA OwnScopes ==
  ASSUME StackOK
  PROVE  \A r \in Register :
           InScope(r) <=> (InScope(r) /\ r < Cur.localBase)
                           \/ (Cur.localBase <= r /\ r < Cur.localBase + Cur.locals)
<1>1. /\ Len(frames) \in Nat \ {0} /\ Cur = frames[Len(frames)]
      /\ Cur.localBase \in Nat /\ Cur.locals \in 0 .. FrameSize
  BY FrameFacts
<1> SUFFICES ASSUME NEW r \in Register
             PROVE  InScope(r) <=> (InScope(r) /\ r < Cur.localBase)
                           \/ (Cur.localBase <= r /\ r < Cur.localBase + Cur.locals)
  OBVIOUS
<1>2. r \in Nat
  BY RegisterFacts
<1>3. ASSUME InScope(r), ~ (r < Cur.localBase) PROVE r < Cur.localBase + Cur.locals
  <2>1. PICK k \in 1 .. Len(frames) : frames[k].localBase <= r /\ r < frames[k].localBase + frames[k].locals
    BY <1>3 DEF InScope
  <2>2. CASE k = Len(frames)
    BY <1>1, <2>1, <2>2
  <2>3. CASE k # Len(frames)
    <3>1. k \in 1 .. Len(frames) - 1
      BY <1>1, <2>3
    <3>2. /\ frames[k].localBase \in Nat /\ frames[k].locals \in 0 .. FrameSize
          /\ frames[k].localBase + FrameSize <= Cur.localBase
      BY <2>3, <3>1, FrameFacts
    <3> QED
      BY <1>1, <1>2, <1>3, <2>1, <3>2, ConstantTypes
  <2> QED
    BY <2>2, <2>3
<1>4. ASSUME Cur.localBase <= r, r < Cur.localBase + Cur.locals PROVE InScope(r)
  <2>1. Len(frames) \in 1 .. Len(frames)
    BY <1>1
  <2> QED
    BY <1>1, <1>4, <2>1 DEF InScope
<1>5. Cur.localBase <= r \/ r < Cur.localBase
  BY <1>1, <1>2
<1> QED
  BY <1>2, <1>1, <1>3, <1>4, <1>5

\* The running frame's locals become the first n of its registers.
LEMMA RescopedScopes ==
  ASSUME StackOK, NEW n \in 0 .. FrameSize,
         frames' = [frames EXCEPT ![Len(frames)].locals = n]
  PROVE  \A r \in Register :
           InScope(r)' <=> (InScope(r) /\ r < Cur.localBase)
                          \/ (Cur.localBase <= r /\ r < Cur.localBase + n)
<1>1. /\ Len(frames') = Len(frames) /\ Len(frames) \in Nat \ {0}
      /\ \A k \in 1 .. Len(frames) :
           /\ frames'[k].localBase = frames[k].localBase
           /\ frames'[k].locals = IF k = Len(frames) THEN n ELSE frames[k].locals
  BY RescopedFrames, FrameFacts
<1> SUFFICES ASSUME NEW r \in Register
             PROVE  InScope(r)' <=> (InScope(r) /\ r < Cur.localBase)
                                   \/ (Cur.localBase <= r /\ r < Cur.localBase + n)
  OBVIOUS
<1>2. r \in Nat
  BY RegisterFacts
<1>3. /\ Cur = frames[Len(frames)] /\ Cur.localBase \in Nat /\ Cur.locals \in 0 .. FrameSize
      /\ \A k \in 1 .. Len(frames) :
           frames[k].localBase \in Nat /\ frames[k].locals \in 0 .. FrameSize
      /\ \A k \in 1 .. Len(frames) - 1 : frames[k].localBase + FrameSize <= Cur.localBase
  BY FrameFacts
<1> DEFINE Holds(k) == frames[k].localBase <= r /\ r < frames[k].localBase + frames[k].locals
<1>4. \A k \in 1 .. Len(frames) : k \in 1 .. Len(frames) - 1 \/ k = Len(frames)
  BY <1>1
<1>5. \A k \in 1 .. Len(frames) - 1 : Holds(k) => r < Cur.localBase
  BY <1>1, <1>2, <1>3, ConstantTypes
<1>6. InScope(r) /\ r < Cur.localBase <=> \E k \in 1 .. Len(frames) - 1 : Holds(k)
  BY <1>1, <1>2, <1>3, <1>4, <1>5 DEF InScope
<1>7. InScope(r)' <=> (\E k \in 1 .. Len(frames) - 1 : Holds(k))
                     \/ (Cur.localBase <= r /\ r < Cur.localBase + n)
  <2> DEFINE After(k) == frames'[k].localBase <= r /\ r < frames'[k].localBase + frames'[k].locals
  <2>1. InScope(r)' <=> \E k \in 1 .. Len(frames) : After(k)
    BY <1>1 DEF InScope
  <2>2. \A k \in 1 .. Len(frames) - 1 : After(k) <=> Holds(k)
    BY <1>1
  <2>3. After(Len(frames)) <=> Cur.localBase <= r /\ r < Cur.localBase + n
    BY <1>1, <1>3
  <2>4. \A k \in 1 .. Len(frames) - 1 : k \in 1 .. Len(frames)
    BY <1>1
  <2>5. Len(frames) \in 1 .. Len(frames)
    BY <1>1
  <2> HIDE DEF After, Holds
  <2>6. (\E k \in 1 .. Len(frames) : After(k)) <=>
          (\E k \in 1 .. Len(frames) - 1 : Holds(k)) \/ After(Len(frames))
    BY <1>4, <2>2, <2>4, <2>5, Zenon
  <2> QED
    BY <2>1, <2>3, <2>6, Zenon
<1> QED
  BY <1>6, <1>7

LEMMA PushedScopes ==
  ASSUME StackOK, PushFrame
  PROVE  \A r \in Register : InScope(r)' <=> InScope(r)
<1>1. /\ Len(frames') = Len(frames) + 1 /\ Len(frames) \in Nat
      /\ frames'[Len(frames) + 1] = [localBase |-> NextBase, locals |-> 0]
      /\ \A k \in 1 .. Len(frames) : frames'[k] = frames[k]
  BY PushedFrames, FrameFacts
<1>2. NextBase \in Nat
  BY FrameFacts
<1> SUFFICES ASSUME NEW r \in Register PROVE InScope(r)' <=> InScope(r)
  OBVIOUS
<1>3. r \in Nat
  BY RegisterFacts
<1>4. \A k \in 1 .. Len(frames') : k = Len(frames) + 1 \/ k \in 1 .. Len(frames)
  BY <1>1
<1>5. ~ (frames'[Len(frames) + 1].localBase <= r
        /\ r < frames'[Len(frames) + 1].localBase + frames'[Len(frames) + 1].locals)
  BY <1>1, <1>2, <1>3
<1> QED
  BY <1>1, <1>4, <1>5 DEF InScope

LEMMA UnboundScopes ==
  ASSUME ScopesOK, NEW base \in Nat, Unbind(base), UNCHANGED declared,
         \A r \in Register : InScope(r)' <=> InScope(r) /\ r < base
  PROVE  ScopesOK'
<1>1. /\ bound' = [r \in Register |-> IF r < base THEN bound[r] ELSE 0]
      /\ declared \in Seq(Value) /\ Len(declared) \in Nat
      /\ bound \in [Register -> 0 .. Len(declared)]
  BY DEF Unbind, ScopesOK
<1>2. bound' \in [Register -> 0 .. Len(declared)]
  BY <1>1
<1>3. \A r \in Register : bound'[r] # 0 <=> bound[r] # 0 /\ r < base
  BY <1>1
<1>4. \A r \in Register : bound'[r] # 0 <=> InScope(r)'
  BY <1>3 DEF ScopesOK
<1> QED
  BY <1>1, <1>2, <1>4 DEF ScopesOK

LEMMA UnwoundScopes ==
  ASSUME StackOK, ScopesOK, InPCall, Unwind
  PROVE  ScopesOK'
<1>1. /\ Last(pcalls).sp \in 1 .. Len(frames) /\ Len(frames) \in Nat
      /\ Last(pcalls).base = Base(Last(pcalls).sp + 1) /\ Last(pcalls).base \in Nat
  BY LastPCall, FrameFacts, BaseType
<1>2. StackOK' /\ frames' = SubSeq(frames, 1, Last(pcalls).sp) /\ Unbind(Last(pcalls).base)
      /\ UNCHANGED declared
  BY UnwoundStack DEF Unwind
<1>3. \A r \in Register : InScope(r)' <=> InScope(r) /\ r < Last(pcalls).base
  BY <1>1, <1>2, CutScopes
<1> QED
  BY <1>1, <1>2, <1>3, UnboundScopes

\* The register of a local in scope, and that of the next one.
LEMMA LocalScopes ==
  ASSUME StackOK, ScopesOK, NEW i \in 0 .. FrameSize - 1
  PROVE  /\ Cur.localBase + i \in Register
         /\ i < Cur.locals => bound[Cur.localBase + i] \in 1 .. Len(declared)
         /\ i >= Cur.locals => bound[Cur.localBase + i] = 0
<1>1. /\ Cur.localBase + i \in Register /\ Cur.localBase \in Nat /\ Cur.locals \in 0 .. FrameSize
      /\ i \in Nat /\ Len(frames) \in Nat \ {0} /\ Cur = frames[Len(frames)]
  BY FrameFacts
<1>2. i < Cur.locals <=> InScope(Cur.localBase + i)
  BY <1>1, OwnScopes
<1> QED
  BY <1>1, <1>2 DEF ScopesOK

LEMMA DeclaredScopes ==
  ASSUME StackOK, ScopesOK, NEW v \in Value, Declare(v)
  PROVE  /\ ScopesOK' /\ Len(declared') = Len(declared) + 1
         /\ \A x \in 1 .. Len(declared) : declared'[x] = declared[x]
         /\ declared'[Len(declared) + 1] = v
<1> DEFINE r == Cur.localBase + Cur.locals
<1>1. /\ frames' = [frames EXCEPT ![Len(frames)].locals = Cur.locals + 1]
      /\ declared' = Append(declared, v) /\ bound' = [bound EXCEPT ![r] = Len(declared')]
      /\ Cur.locals < FrameSize
  BY DEF Declare, Cur
<1>2. /\ Cur.locals \in 0 .. FrameSize - 1 /\ Cur.locals + 1 \in 0 .. FrameSize
      /\ Cur.localBase \in Nat /\ r \in Register /\ r \in Nat /\ Cur.localBase <= r
  <2>1. /\ Cur.locals \in 0 .. FrameSize /\ Cur.localBase \in Nat /\ FrameSize \in Nat
        /\ \A i \in 0 .. FrameSize - 1 : Cur.localBase + i \in Register
    BY FrameFacts, ConstantTypes
  <2>2. Cur.locals \in 0 .. FrameSize - 1
    BY <1>1, <2>1
  <2> QED
    BY <2>1, <2>2
<1>3. /\ declared' \in Seq(Value) /\ Len(declared') = Len(declared) + 1 /\ Len(declared) \in Nat
      /\ \A x \in 1 .. Len(declared) : declared'[x] = declared[x]
      /\ declared'[Len(declared) + 1] = v
  BY <1>1 DEF ScopesOK
<1>4. \A s \in Register : InScope(s)' <=> (InScope(s) /\ s < Cur.localBase)
                                        \/ (Cur.localBase <= s /\ s < r + 1)
  <2>1. Cur.localBase + (Cur.locals + 1) = r + 1
    BY <1>2
  <2> QED
    BY <1>1, <1>2, <2>1, RescopedScopes
<1>5. \A s \in Register : s \in Nat
  BY RegisterFacts
<1>6. \A s \in Register : InScope(s) <=> (InScope(s) /\ s < Cur.localBase)
                                       \/ (Cur.localBase <= s /\ s < r)
  BY OwnScopes
<1> HIDE DEF r
<1>7. \A s \in Register : InScope(s)' <=> InScope(s) \/ s = r
  <2> SUFFICES ASSUME NEW s \in Register PROVE InScope(s)' <=> InScope(s) \/ s = r
    OBVIOUS
  <2>1. /\ InScope(s)' <=> (InScope(s) /\ s < Cur.localBase) \/ (Cur.localBase <= s /\ s < r + 1)
        /\ InScope(s) <=> (InScope(s) /\ s < Cur.localBase) \/ (Cur.localBase <= s /\ s < r)
    BY <1>4, <1>6, Zenon
  <2>2. Cur.localBase <= s /\ s < r + 1 <=> (Cur.localBase <= s /\ s < r) \/ s = r
    BY <1>2, <1>5
  <2> QED
    BY <2>1, <2>2, Zenon
<1>8. bound' \in [Register -> 0 .. Len(declared')]
  BY <1>1, <1>2, <1>3 DEF ScopesOK
<1>9. \A s \in Register : bound'[s] = IF s = r THEN Len(declared) + 1 ELSE bound[s]
  BY <1>1, <1>2, <1>3 DEF ScopesOK
<1>10. \A s \in Register : bound'[s] # 0 <=> InScope(s)'
  BY <1>3, <1>7, <1>9 DEF ScopesOK
<1> QED
  BY <1>3, <1>8, <1>10 DEF ScopesOK

\* A variable is assigned.
LEMMA AssignedScopes ==
  ASSUME ScopesOK, NEW x \in 1 .. Len(declared), NEW v \in Value,
         declared' = [declared EXCEPT ![x] = v], UNCHANGED <<frames, bound>>
  PROVE  /\ ScopesOK' /\ Len(declared') = Len(declared)
         /\ \A y \in 1 .. Len(declared) : declared'[y] = IF y = x THEN v ELSE declared[y]
<1>1. declared \in Seq(Value)
  BY DEF ScopesOK
<1>2. /\ declared' \in Seq(Value) /\ Len(declared') = Len(declared)
      /\ \A y \in 1 .. Len(declared) : declared'[y] = IF y = x THEN v ELSE declared[y]
  BY <1>1, ExceptSeq
<1>3. \A r \in Register : InScope(r)' <=> InScope(r)
  BY DEF InScope
<1> QED
  BY <1>2, <1>3 DEF ScopesOK

LEMMA SameScopes ==
  ASSUME ScopesOK, UNCHANGED <<declared, bound>>,
         \A r \in Register : InScope(r)' <=> InScope(r)
  PROVE  ScopesOK'
BY DEF ScopesOK

\* The locals of the running frame from i on go out of scope.
LEMMA EndedScopes ==
  ASSUME StackOK, ScopesOK, NEW i \in 0 .. FrameSize, i <= Cur.locals,
         frames' = [frames EXCEPT ![Len(frames)].locals = i],
         Unbind(Cur.localBase + i), UNCHANGED declared
  PROVE  ScopesOK'
<1>1. Cur.localBase \in Nat /\ Cur.locals \in 0 .. FrameSize /\ i \in Nat
  BY FrameFacts, ConstantTypes
<1>2. ASSUME NEW r \in Register PROVE InScope(r)' <=> InScope(r) /\ r < Cur.localBase + i
  <2>1. r \in Nat
    BY RegisterFacts
  <2>2. InScope(r)' <=> (InScope(r) /\ r < Cur.localBase)
                         \/ (Cur.localBase <= r /\ r < Cur.localBase + i)
    BY RescopedScopes
  <2>3. InScope(r) <=> (InScope(r) /\ r < Cur.localBase)
                        \/ (Cur.localBase <= r /\ r < Cur.localBase + Cur.locals)
    BY OwnScopes
  <2>4. r < Cur.localBase + i => r < Cur.localBase + Cur.locals
    BY <1>1, <2>1
  <2>5. (r < Cur.localBase => r < Cur.localBase + i) /\ (r < Cur.localBase \/ Cur.localBase <= r)
    BY <1>1, <2>1
  <2> QED
    BY <2>2, <2>3, <2>4, <2>5, Zenon
<1> QED
  BY <1>1, <1>2, UnboundScopes

LEMMA ScopesStep ==
  ASSUME Inv, Next
  PROVE  ScopesOK'
<1>0. StackOK /\ ScopesOK /\ StackOK'
  BY StackStep DEF Inv
<1>1. ASSUME NEW v \in Value, Declare(v) PROVE ScopesOK'
  BY <1>0, <1>1, DeclaredScopes
<1>2. ASSUME NEW i \in 0 .. FrameSize - 1, Capture(i) PROVE ScopesOK'
  BY <1>0, <1>2, SameScopes DEF Capture, InScope
<1>3. ASSUME NEW i \in 0 .. FrameSize - 1, EndBlock(i) PROVE ScopesOK'
  <2>1. i \in 0 .. FrameSize /\ i <= Cur.locals
    BY <1>0, <1>3, FrameFacts, ConstantTypes DEF EndBlock
  <2> QED
    BY <1>0, <1>3, <2>1, EndedScopes DEF EndBlock
<1>4. ASSUME NEW i \in 0 .. FrameSize - 1, NEW v \in Value, Assign(i, v) PROVE ScopesOK'
  <2>1. bound[Cur.localBase + i] \in 1 .. Len(declared)
    BY <1>0, <1>4, LocalScopes DEF Assign
  <2> QED
    BY <1>0, <1>4, <2>1, AssignedScopes DEF Assign
<1>5. ASSUME NEW c \in captures, NEW v \in Value, SetUpvalue(c, v) PROVE ScopesOK'
  <2>1. c[2] \in 1 .. Len(declared)
    BY DEF Inv, HistoryOK
  <2> QED
    BY <1>0, <1>5, <2>1, AssignedScopes DEF SetUpvalue
<1>6. ASSUME PushFrame, UNCHANGED <<declared, bound>> PROVE ScopesOK'
  BY <1>0, <1>6, PushedScopes, SameScopes
<1>7. CASE TailCall
  <2>1. 0 \in 0 .. FrameSize /\ 0 <= Cur.locals /\ Cur.localBase + 0 = Cur.localBase
    BY <1>0, FrameFacts, ConstantTypes
  <2>2. Unbind(Cur.localBase + 0) /\ UNCHANGED declared
    BY <1>7, <2>1 DEF TailCall
  <2> QED
    BY <1>0, <1>7, <2>1, <2>2, EndedScopes DEF TailCall
<1>8. CASE Return
  <2>1. /\ Len(frames) - 1 \in 1 .. Len(frames) /\ Cur.localBase \in Nat
        /\ Cur.localBase = Base((Len(frames) - 1) + 1)
    BY <1>0, <1>8, FrameFacts DEF Return
  <2>2. \A r \in Register : InScope(r)' <=> InScope(r) /\ r < Base((Len(frames) - 1) + 1)
    BY <1>0, <1>8, <2>1, CutScopes DEF Return
  <2> QED
    BY <1>0, <1>8, <2>1, <2>2, UnboundScopes DEF Return
<1>9. CASE ReturnToPCall
  BY <1>0, <1>9, UnwoundScopes DEF ReturnToPCall, Awaited
<1>10. ASSUME NEW fault \in Fault, Catch(fault) PROVE ScopesOK'
  BY <1>0, <1>10, UnwoundScopes DEF Catch
<1>11. Call => PushFrame /\ UNCHANGED <<declared, bound>>
  BY DEF Call, history
<1>12. \A how : PCall(how) => PushFrame /\ UNCHANGED <<declared, bound>>
  BY DEF PCall, history
<1>13. \A fault : CallHandler(fault) => PushFrame /\ UNCHANGED <<declared, bound>>
  BY DEF CallHandler
<1> QED
  BY <1>1, <1>2, <1>3, <1>4, <1>5, <1>6, <1>7, <1>8, <1>9, <1>10, <1>11, <1>12, <1>13 DEF Next

LEMMA HistoryStep ==
  ASSUME Inv, Next
  PROVE  HistoryOK'
<1>0. StackOK /\ CacheOK /\ ScopesOK /\ HistoryOK /\ RegistryOK
  BY DEF Inv
<1>1. Len(upvalues) \in Nat /\ Len(declared) \in Nat
  BY <1>0 DEF CacheOK, ScopesOK
<1>2. ASSUME Len(upvalues') = Len(upvalues), Len(declared') = Len(declared),
             UNCHANGED captures, failed' \subseteq {"closed", "left open"}
      PROVE  HistoryOK'
  BY <1>0, <1>2 DEF HistoryOK
<1>3. ASSUME NEW v \in Value, Declare(v) PROVE HistoryOK'
  <2>1. Len(declared') = Len(declared) + 1 /\ UNCHANGED <<upvalues, captures, failed>>
    BY <1>0, <1>3, DeclaredScopes DEF Declare
  <2>2. 1 .. Len(declared) \subseteq 1 .. Len(declared')
    BY <1>1, <2>1
  <2> QED
    BY <1>0, <2>1, <2>2, Zenon DEF HistoryOK
<1>4. ASSUME NEW i \in 0 .. FrameSize - 1, Capture(i) PROVE HistoryOK'
  <2> DEFINE r == Cur.localBase + i
             x == bound[r]
  <2>1. /\ r \in Register /\ x \in 1 .. Len(declared) /\ FindUpvalue(r, x)
        /\ UNCHANGED <<declared, failed>>
    BY <1>0, <1>4, LocalScopes DEF Capture
  <2> HIDE DEF r, x
  <2>2. PICK u \in 1 .. Len(upvalues') :
          /\ captures' = captures \cup {<<u, x>>}
          /\ UNCHANGED upvalues \/ Len(upvalues') = Len(upvalues) + 1
    BY <1>0, <2>1, FoundUpvalue
  <2>3. Len(upvalues) <= Len(upvalues') /\ Len(upvalues') \in Nat
    BY <1>1, <2>2
  <2>4. captures' \subseteq (1 .. Len(upvalues')) \X (1 .. Len(declared))
    <3>1. 1 .. Len(upvalues) \subseteq 1 .. Len(upvalues')
      BY <1>1, <2>3
    <3>2. captures \subseteq (1 .. Len(upvalues')) \X (1 .. Len(declared))
      BY <1>0, <3>1 DEF HistoryOK
    <3>3. <<u, x>> \in (1 .. Len(upvalues')) \X (1 .. Len(declared))
      BY <2>1
    <3> QED
      BY <2>2, <3>2, <3>3
  <2> QED
    BY <1>0, <2>1, <2>4 DEF HistoryOK
<1>5. ASSUME NEW idx \in Nat, CloseUpvalues(idx), UNCHANGED <<declared, captures, failed>>
      PROVE  HistoryOK'
  <2>1. Len(upvalues') = Len(upvalues)
    BY <1>0, <1>5, ClosedUpvalues
  <2> QED
    BY <1>0, <1>2, <1>5, <2>1 DEF HistoryOK
<1>6. ASSUME NEW i \in 0 .. FrameSize - 1, EndBlock(i) PROVE HistoryOK'
  <2>1. Cur.localBase + i \in Nat
    BY <1>0, FrameFacts
  <2> QED
    BY <1>5, <1>6, <2>1 DEF EndBlock
<1>7. ASSUME NEW i \in 0 .. FrameSize - 1, NEW v \in Value, Assign(i, v) PROVE HistoryOK'
  <2>1. bound[Cur.localBase + i] \in 1 .. Len(declared)
    BY <1>0, <1>7, LocalScopes DEF Assign
  <2>2. Len(declared') = Len(declared)
    BY <1>0, <1>7, <2>1, AssignedScopes DEF Assign
  <2> QED
    BY <1>0, <1>2, <1>7, <2>2 DEF Assign, HistoryOK
<1>8. ASSUME NEW c \in captures, NEW v \in Value, SetUpvalue(c, v) PROVE HistoryOK'
  <2>1. c[1] \in 1 .. Len(upvalues) /\ c[2] \in 1 .. Len(declared)
    BY <1>0 DEF HistoryOK
  <2>2. Len(declared') = Len(declared)
    BY <1>0, <1>8, <2>1, AssignedScopes DEF SetUpvalue
  <2>3. Len(upvalues') = Len(upvalues)
    BY <1>0, <1>8, <2>1, ValuedUpvalue DEF SetUpvalue
  <2> QED
    BY <1>0, <1>2, <1>8, <2>2, <2>3 DEF SetUpvalue, HistoryOK
<1>9. CASE Call
  BY <1>0, <1>2, <1>9 DEF Call, history, HistoryOK
<1>10. CASE TailCall \/ Return \/ ReturnToPCall
  <2>1. /\ CloseUpvalues(Cur.localBase) /\ UNCHANGED <<declared, captures, failed>>
        /\ Cur.localBase \in Nat
    BY <1>0, <1>10, FrameFacts DEF TailCall, Return, ReturnToPCall, Unwind
  <2> QED
    BY <1>5, <2>1
<1>11. ASSUME NEW how \in Catcher, PCall(how) PROVE HistoryOK'
  BY <1>0, <1>2, <1>11 DEF PCall, history, HistoryOK
<1>12. ASSUME NEW fault \in Fault, Catch(fault) \/ CallHandler(fault) PROVE HistoryOK'
  <2>1. /\ UNCHANGED <<declared, captures>> /\ RaisedCloses(fault)
        /\ failed' = failed \cup {IF Closes(fault) THEN "closed" ELSE "left open"}
    BY <1>12 DEF Catch, CallHandler, Unwind
  <2>2. Len(upvalues') = Len(upvalues)
    BY <1>0, <2>1, RaisedMeans
  <2>3. failed' \subseteq {"closed", "left open"}
    BY <1>0, <2>1 DEF HistoryOK
  <2> QED
    BY <1>2, <2>1, <2>2, <2>3
<1> QED
  BY <1>3, <1>4, <1>6, <1>7, <1>8, <1>9, <1>10, <1>11, <1>12 DEF Next

LEMMA RegistryStep ==
  ASSUME Inv, Next
  PROVE  RegistryOK'
<1> DEFINE Held == Value \cup {LNil, Unset}
<1>0. /\ StackOK /\ CacheOK /\ ScopesOK /\ HistoryOK
      /\ reg \in [Register -> Held] /\ hasErrorFunc \in BOOLEAN
  BY DEF Inv, RegistryOK
<1>1. \A r \in Register, v \in Value : [reg EXCEPT ![r] = v] \in [Register -> Held]
  BY <1>0
<1>2. \A base \in Nat : Truncated(base) \in [Register -> Held] /\ Cleared(base) \in [Register -> Held]
  BY <1>0 DEF Truncated, Cleared
<1>3. ASSUME NEW v \in Value, Declare(v) PROVE RegistryOK'
  <2>1. Cur.localBase + Cur.locals \in Register
    <3>1. Cur.locals \in 0 .. FrameSize - 1
      BY <1>0, <1>3, FrameFacts, ConstantTypes DEF Declare
    <3> QED
      BY <1>0, <3>1, FrameFacts
  <2> QED
    BY <1>0, <1>1, <1>3, <2>1 DEF Declare, RegistryOK
<1>4. ASSUME NEW i \in 0 .. FrameSize - 1, Capture(i) \/ EndBlock(i) PROVE RegistryOK'
  BY <1>0, <1>4 DEF Capture, EndBlock, RegistryOK
<1>5. ASSUME NEW i \in 0 .. FrameSize - 1, NEW v \in Value, Assign(i, v) PROVE RegistryOK'
  <2>1. Cur.localBase + i \in Register
    BY <1>0, FrameFacts
  <2> QED
    BY <1>0, <1>1, <1>5, <2>1 DEF Assign, RegistryOK
<1>6. ASSUME NEW c \in captures, NEW v \in Value, SetUpvalue(c, v) PROVE RegistryOK'
  <2>1. c[1] \in 1 .. Len(upvalues)
    BY <1>0 DEF HistoryOK
  <2>2. upvalues[c[1]].index \in Register
    BY <1>0, <2>1, UpvalueTypes
  <2> QED
    BY <1>0, <1>1, <1>6, <2>2 DEF SetUpvalue, RegistryOK
<1>7. ASSUME PushFrame, hasErrorFunc' \in BOOLEAN PROVE RegistryOK'
  <2>1. NextBase \in Nat /\ reg' = Cleared(NextBase)
    BY <1>0, <1>7, FrameFacts DEF PushFrame
  <2> QED
    BY <1>2, <1>7, <2>1 DEF RegistryOK
<1>8. CASE TailCall \/ Return
  <2>1. /\ Cur.localBase \in Nat /\ UNCHANGED hasErrorFunc
        /\ reg' = Cleared(Cur.localBase) \/ reg' = Truncated(Cur.localBase)
    BY <1>0, <1>8, FrameFacts DEF TailCall, Return
  <2> QED
    BY <1>0, <1>2, <2>1 DEF RegistryOK
<1>9. ASSUME InPCall, Unwind PROVE RegistryOK'
  <2>1. Last(pcalls).base \in Nat
    <3>1. Last(pcalls).sp + 1 \in Nat /\ Last(pcalls).sp + 1 >= 1 /\ Last(pcalls).base = Base(Last(pcalls).sp + 1)
      BY <1>0, <1>9, LastPCall
    <3> QED
      BY <3>1, BaseType
  <2> QED
    BY <1>2, <1>9, <2>1 DEF Unwind, RegistryOK
<1>10. Call => PushFrame /\ hasErrorFunc' \in BOOLEAN
  BY <1>0 DEF Call
<1>11. \A how : PCall(how) => PushFrame /\ hasErrorFunc' \in BOOLEAN
  BY <1>0 DEF PCall
<1>12. \A fault : CallHandler(fault) => PushFrame /\ hasErrorFunc' \in BOOLEAN
  BY DEF CallHandler
<1>13. ReturnToPCall => InPCall /\ Unwind
  BY DEF ReturnToPCall, Awaited
<1>14. \A fault : Catch(fault) => InPCall /\ Unwind
  BY DEF Catch
<1> HIDE DEF Held
<1> QED
  BY <1>3, <1>4, <1>5, <1>6, <1>7, <1>8, <1>9, <1>10, <1>11, <1>12, <1>13, <1>14 DEF Next

LEMMA InvInit == Init => Inv
<1> SUFFICES ASSUME Init PROVE Inv
  OBVIOUS
<1> DEFINE f == [localBase |-> 0, locals |-> 0]
<1>1. /\ frames = <<f>> /\ f \in Frame /\ f.localBase = 0 /\ f.locals = 0
      /\ pcalls = <<>> /\ upvalues = <<>> /\ uvcache = <<>> /\ declared = <<>>
      /\ captures = {} /\ failed = {} /\ hasErrorFunc = FALSE
      /\ bound = [r \in Register |-> 0]
  BY ConstantTypes DEF Init, Frame
<1> HIDE DEF f
<1>2. /\ frames \in Seq(Frame) /\ Len(frames) = 1 /\ frames[1] = f
      /\ Len(frames) \in 1 .. MaxFrames
  BY <1>1, ConstantTypes
<1>3. FrameBases
  BY <1>1, <1>2, BaseType DEF FrameBases
<1>4. StackOK
  BY <1>1, <1>2, <1>3 DEF StackOK, PCallsNested
<1>5. CacheOK
  <2>1. 0 <= MaxUpvalues
    BY UpvaluesAssumption DEF UpvaluesAssumption
  <2> QED
    BY <1>1, <2>1 DEF CacheOK, InOrder, ListsOpen
<1>6. \A r \in Register : ~InScope(r)
  <2> SUFFICES ASSUME NEW r \in Register, InScope(r) PROVE FALSE
    OBVIOUS
  <2>1. r \in Nat
    BY RegisterFacts
  <2> QED
    BY <1>1, <1>2, <2>1 DEF InScope
<1>7. ScopesOK
  BY <1>1, <1>6 DEF ScopesOK
<1>8. HistoryOK
  BY <1>1 DEF HistoryOK
<1>9. RegistryOK
  BY <1>1 DEF Init, RegistryOK
<1> QED
  BY <1>4, <1>5, <1>7, <1>8, <1>9 DEF Inv

LEMMA InvStep == Inv /\ [Next]_vars => Inv'
<1>1. ASSUME Inv, Next PROVE Inv'
  BY <1>1, StackStep, CacheStep, ScopesStep, HistoryStep, RegistryStep DEF Inv
<1>2. ASSUME Inv, UNCHANGED vars PROVE Inv'
  BY <1>2 DEF vars, vm, history, Inv, StackOK, FrameBases, PCallsNested, CacheOK, InOrder,
              ListsOpen, ScopesOK, InScope, HistoryOK, RegistryOK
<1> QED
  BY <1>1, <1>2

-----------------------------------------------------------------------------
(* No upvalue dangles until an error leaves some open. *)

LEMMA BaseMonotone ==
  ASSUME NEW j \in Nat, NEW k \in Nat, 1 <= j, j <= k
  PROVE  Base(j) <= Base(k) /\ Base(j) \in Nat /\ Base(k) \in Nat
<1>1. Base(j) \in Nat /\ Base(k) \in Nat /\ FrameSize \in Nat
  BY BaseType, ConstantTypes
<1>2. CASE j = k
  BY <1>1, <1>2
<1>3. CASE j < k
  <2>1. Base(j) + FrameSize <= Base(k)
    BY <1>3, BaseOrder
  <2> QED
    BY <1>1, <2>1
<1> QED
  BY <1>2, <1>3

LEMMA CaptureTypes ==
  ASSUME Inv
  PROVE  \A c \in captures :
           /\ c[1] \in 1 .. Len(upvalues) /\ c[2] \in 1 .. Len(declared) /\ c[2] # 0
           /\ upvalues[c[1]].index \in Register /\ upvalues[c[1]].index \in Nat
<1>1. \A c \in captures : c[1] \in 1 .. Len(upvalues) /\ c[2] \in 1 .. Len(declared)
  BY DEF Inv, HistoryOK
<1>2. Len(declared) \in Nat
  BY DEF Inv, ScopesOK
<1>3. \A u \in 1 .. Len(upvalues) : upvalues[u].index \in Register /\ upvalues[u].index \in Nat
  BY UpvalueTypes DEF Inv
<1> QED
  BY <1>1, <1>2, <1>3

LEMMA StaysClosed ==
  ASSUME HandlersStartClosed, NoneLeft' => NoneLeft,
         \A u \in 1 .. Len(upvalues') : ~upvalues'[u].closed =>
           /\ u \in 1 .. Len(upvalues) /\ ~upvalues[u].closed
           /\ upvalues'[u].index = upvalues[u].index,
         \A k \in 1 .. Len(pcalls') : pcalls'[k].handler # 0 =>
           k \in 1 .. Len(pcalls) /\ pcalls'[k] = pcalls[k]
  PROVE  HandlersStartClosed'
<1> SUFFICES ASSUME NoneLeft',
                    NEW k \in 1 .. Len(pcalls'), NEW u \in 1 .. Len(upvalues'),
                    pcalls'[k].handler # 0, ~upvalues'[u].closed
             PROVE  \/ upvalues'[u].index < pcalls'[k].base
                    \/ upvalues'[u].index >= Base(pcalls'[k].handler)
  BY DEF HandlersStartClosed, Base
<1>1. /\ NoneLeft /\ k \in 1 .. Len(pcalls) /\ pcalls'[k] = pcalls[k]
      /\ u \in 1 .. Len(upvalues) /\ ~upvalues[u].closed
      /\ upvalues'[u].index = upvalues[u].index
  OBVIOUS
<1> QED
  BY <1>1 DEF HandlersStartClosed

LEMMA FailedGrows ==
  ASSUME Next
  PROVE  NoneLeft' => NoneLeft
<1>1. failed \subseteq failed'
  BY DEF Next, Declare, Capture, EndBlock, Assign, SetUpvalue, Call, TailCall, Return,
         ReturnToPCall, PCall, Catch, CallHandler, history
<1> QED
  BY <1>1, Zenon DEF NoneLeft

\* An error that closes the upvalues leaves none open.
LEMMA FaultCloses ==
  ASSUME NEW fault, NoneLeft', Catch(fault) \/ CallHandler(fault)
  PROVE  Closes(fault) /\ RaisedCloses(fault) /\ UNCHANGED <<captures, declared>>
<1>1. /\ RaisedCloses(fault) /\ UNCHANGED <<captures, declared>>
      /\ failed' = failed \cup {IF Closes(fault) THEN "closed" ELSE "left open"}
  BY DEF Catch, CallHandler, Unwind
<1> QED
  BY <1>1, Zenon DEF NoneLeft

LEMMA NoDanglingMeans == NoDanglingUntilLeft <=> (NoneLeft => NoDangling)
BY DEF NoDanglingUntilLeft, NoneLeft

\* The upvalues from base on are closed, the registers from base on let go.
Leaves(base) ==
  CloseUpvalues(base) /\ Unbind(base) /\ UNCHANGED <<declared, captures>>

\* Upvalues and scopes of the frames below stay as they are.
Enters == PushFrame /\ UNCHANGED <<upvalues, declared, bound, captures>>

LEMMA LeavingKeepsNoDangling ==
  ASSUME Inv, NoDangling, NEW base \in Nat, Leaves(base)
  PROVE  NoDangling'
<1> SUFFICES ASSUME NEW c \in captures', ~upvalues'[c[1]].closed
             PROVE  bound'[upvalues'[c[1]].index] = c[2]
  BY DEF NoDangling
<1>1. /\ c \in captures /\ c[1] \in 1 .. Len(upvalues)
      /\ upvalues[c[1]].index \in Register /\ upvalues[c[1]].index \in Nat
  BY CaptureTypes DEF Leaves
<1>2. /\ upvalues'[c[1]].index = upvalues[c[1]].index
      /\ ~upvalues[c[1]].closed /\ ~ (upvalues[c[1]].index >= base)
  BY <1>1, ClosedUpvalues DEF Leaves, Inv
<1>3. bound'[upvalues[c[1]].index] = bound[upvalues[c[1]].index]
  BY <1>1, <1>2 DEF Leaves, Unbind
<1> QED
  BY <1>1, <1>2, <1>3 DEF NoDangling

LEMMA LeavingStaysClosed ==
  ASSUME Inv, HandlersStartClosed, NoneLeft' => NoneLeft, NEW base \in Nat, CloseUpvalues(base),
         \A k \in 1 .. Len(pcalls') : k \in 1 .. Len(pcalls) /\ pcalls'[k] = pcalls[k]
  PROVE  HandlersStartClosed'
<1>1. \A u \in 1 .. Len(upvalues') : ~upvalues'[u].closed =>
        /\ u \in 1 .. Len(upvalues) /\ ~upvalues[u].closed
        /\ upvalues'[u].index = upvalues[u].index
  BY ClosedUpvalues DEF Inv
<1> QED
  BY <1>1, StaysClosed

\* The function PCall called, or its handler, leaves nothing open above base.
LEMMA ReturnLeaves ==
  ASSUME ScopeInv, ReturnToPCall, NoneLeft
  PROVE  NoDangling'
<1>0. /\ Inv /\ StackOK /\ CacheOK /\ RegistryOK /\ NoDangling
      /\ HandlersStartClosed /\ InPCall /\ CloseUpvalues(Cur.localBase) /\ Unwind
      /\ Len(frames) = AwaitedDepth
  BY NoDanglingMeans DEF ScopeInv, Inv, ReturnToPCall, Awaited
<1> DEFINE p == Last(pcalls)
<1>1. /\ Len(pcalls) \in 1 .. Len(pcalls) /\ p = pcalls[Len(pcalls)] /\ p \in Activation
      /\ p.base = Base(p.sp + 1) /\ Len(frames) = DepthOf(p)
      /\ Cur.localBase = Base(Len(frames)) /\ Cur.localBase \in Nat
  BY <1>0, LastPCall, FrameFacts
<1>2. p.base \in Nat
  BY <1>1 DEF Activation
<1>3. Unbind(p.base) /\ UNCHANGED captures
  BY <1>0 DEF Unwind
<1> HIDE DEF p
<1> SUFFICES ASSUME NEW c \in captures', ~upvalues'[c[1]].closed
             PROVE  bound'[upvalues'[c[1]].index] = c[2]
  BY DEF NoDangling
<1>4. /\ c \in captures /\ c[1] \in 1 .. Len(upvalues)
      /\ upvalues[c[1]].index \in Register /\ upvalues[c[1]].index \in Nat
  BY <1>0, <1>3, CaptureTypes
<1>5. /\ upvalues'[c[1]].index = upvalues[c[1]].index
      /\ ~upvalues[c[1]].closed /\ ~ (upvalues[c[1]].index >= Cur.localBase)
  BY <1>0, <1>1, <1>4, ClosedUpvalues
<1>6. upvalues[c[1]].index < p.base
  <2>1. CASE p.handler = 0
    <3>1. Cur.localBase = p.base
      BY <1>1, <2>1 DEF DepthOf
    <3> QED
      BY <1>2, <1>4, <1>5, <3>1
  <2>2. CASE p.handler # 0
    <3>1. Cur.localBase = Base(p.handler)
      BY <1>1, <2>2 DEF DepthOf
    <3>2. upvalues[c[1]].index < p.base \/ upvalues[c[1]].index >= Base(p.handler)
      BY <1>0, <1>1, <1>4, <1>5, <2>2 DEF HandlersStartClosed
    <3> QED
      BY <1>5, <3>1, <3>2
  <2> QED
    BY <2>1, <2>2
<1>7. bound'[upvalues[c[1]].index] = bound[upvalues[c[1]].index]
  BY <1>3, <1>4, <1>6 DEF Unbind
<1> QED
  BY <1>0, <1>4, <1>5, <1>7 DEF NoDangling

\* A new closure captures a variable of the running frame.
LEMMA CaptureStep ==
  ASSUME Inv, NEW i \in 0 .. FrameSize - 1, Capture(i)
  PROVE  LET r == Cur.localBase + i
         IN  /\ r \in Register /\ bound[r] \in 1 .. Len(declared)
             /\ \E u \in 1 .. Len(upvalues') :
                  /\ captures' = captures \cup {<<u, bound[r]>>}
                  /\ upvalues'[u].index = r /\ ~upvalues'[u].closed
                  /\ \/ UNCHANGED upvalues
                     \/ /\ u = Len(upvalues) + 1 /\ Len(upvalues') = Len(upvalues) + 1
                        /\ \A w \in 1 .. Len(upvalues) :
                             /\ upvalues'[w] = upvalues[w]
                             /\ upvalues[w].closed \/ upvalues[w].index # r
<1>1. CacheOK /\ StackOK /\ ScopesOK
  BY DEF Inv
<1>2. /\ Cur.localBase + i \in Register /\ bound[Cur.localBase + i] \in 1 .. Len(declared)
      /\ FindUpvalue(Cur.localBase + i, bound[Cur.localBase + i])
  BY <1>1, LocalScopes DEF Capture
<1> QED
  BY <1>1, <1>2, FoundUpvalue

LEMMA NoDanglingStep ==
  ASSUME ScopeInv, Next
  PROVE  NoDanglingUntilLeft'
<1>0. Inv /\ StackOK /\ CacheOK /\ ScopesOK /\ RegistryOK
  BY DEF ScopeInv, Inv
<1> SUFFICES ASSUME NoneLeft' PROVE NoDangling'
  BY DEF NoDanglingUntilLeft, NoneLeft
<1>1. NoneLeft /\ NoDangling
  BY FailedGrows, NoDanglingMeans DEF ScopeInv
<1>2. ASSUME UNCHANGED <<upvalues, bound, captures>> PROVE NoDangling'
  BY <1>1, <1>2 DEF NoDangling
<1>3. ASSUME NEW v \in Value, Declare(v) PROVE NoDangling'
  <2> DEFINE r == Cur.localBase + Cur.locals
  <2>1. Cur.locals \in 0 .. FrameSize - 1
    BY <1>0, <1>3, FrameFacts, ConstantTypes DEF Declare
  <2>2. r \in Register /\ bound[r] = 0
    BY <1>0, <2>1, LocalScopes
  <2>3. /\ bound' = [bound EXCEPT ![r] = Len(declared')] /\ UNCHANGED <<upvalues, captures>>
    BY <1>3 DEF Declare
  <2> HIDE DEF r
  <2>4. ASSUME NEW c \in captures, ~upvalues[c[1]].closed PROVE bound'[upvalues[c[1]].index] = c[2]
    <3>1. bound[upvalues[c[1]].index] = c[2] /\ c[2] # 0 /\ upvalues[c[1]].index \in Register
      BY <1>0, <1>1, <2>4, CaptureTypes DEF NoDangling
    <3>2. upvalues[c[1]].index # r
      BY <2>2, <3>1
    <3> QED
      BY <1>0, <2>3, <3>1, <3>2 DEF ScopesOK
  <2> QED
    BY <2>3, <2>4 DEF NoDangling
<1>4. ASSUME NEW i \in 0 .. FrameSize - 1, Capture(i) PROVE NoDangling'
  <2> DEFINE r == Cur.localBase + i
  <2>1. PICK u \in 1 .. Len(upvalues') :
          /\ captures' = captures \cup {<<u, bound[r]>>}
          /\ upvalues'[u].index = r /\ ~upvalues'[u].closed
          /\ \A w \in 1 .. Len(upvalues) : upvalues'[w] = upvalues[w]
    BY <1>0, <1>4, CaptureStep
  <2>2. UNCHANGED bound
    BY <1>4 DEF Capture
  <2> HIDE DEF r
  <2>3. ASSUME NEW c \in captures, ~upvalues'[c[1]].closed PROVE bound[upvalues'[c[1]].index] = c[2]
    <3>1. upvalues'[c[1]] = upvalues[c[1]]
      BY <1>0, <2>1, CaptureTypes
    <3> QED
      BY <1>1, <2>3, <3>1 DEF NoDangling
  <2>4. bound[upvalues'[u].index] = bound[r] /\ <<u, bound[r]>>[1] = u /\ <<u, bound[r]>>[2] = bound[r]
    BY <2>1
  <2> QED
    BY <2>1, <2>2, <2>3, <2>4 DEF NoDangling
<1>5. ASSUME NEW i \in 0 .. FrameSize - 1, EndBlock(i) PROVE NoDangling'
  <2>1. Cur.localBase + i \in Nat /\ Leaves(Cur.localBase + i)
    BY <1>0, <1>5, FrameFacts DEF EndBlock, Leaves
  <2> QED
    BY <1>0, <1>1, <2>1, LeavingKeepsNoDangling
<1>6. ASSUME NEW i \in 0 .. FrameSize - 1, NEW v \in Value, Assign(i, v) PROVE NoDangling'
  BY <1>2, <1>6 DEF Assign
<1>7. ASSUME NEW c \in captures, NEW v \in Value, SetUpvalue(c, v) PROVE NoDangling'
  <2>1. c[1] \in 1 .. Len(upvalues) /\ UNCHANGED <<uvcache, bound, captures>>
    BY <1>0, <1>7, CaptureTypes DEF SetUpvalue
  <2>2. \A w \in 1 .. Len(upvalues) :
          upvalues'[w].index = upvalues[w].index /\ upvalues'[w].closed = upvalues[w].closed
    <3>1. CASE upvalues[c[1]].closed
      <4>1. upvalues' = [upvalues EXCEPT ![c[1]].value = v]
        BY <1>7, <3>1 DEF SetUpvalue
      <4> QED
        BY <1>0, <2>1, <4>1, ValuedUpvalue
    <3>2. CASE ~upvalues[c[1]].closed
      BY <1>7, <3>2 DEF SetUpvalue
    <3> QED
      BY <3>1, <3>2
  <2>3. \A d \in captures : d[1] \in 1 .. Len(upvalues)
    BY <1>0, CaptureTypes
  <2> QED
    BY <1>1, <2>1, <2>2, <2>3 DEF NoDangling
<1>8. CASE Call
  BY <1>2, <1>8 DEF Call, history
<1>9. CASE TailCall \/ Return
  <2>1. Cur.localBase \in Nat /\ Leaves(Cur.localBase)
    BY <1>0, <1>9, FrameFacts DEF TailCall, Return, Leaves
  <2> QED
    BY <1>0, <1>1, <2>1, LeavingKeepsNoDangling
<1>10. CASE ReturnToPCall
  BY <1>1, <1>10, ReturnLeaves
<1>11. ASSUME NEW how \in Catcher, PCall(how) PROVE NoDangling'
  BY <1>2, <1>11 DEF PCall, history
<1>12. ASSUME NEW fault \in Fault, Catch(fault) \/ CallHandler(fault) PROVE NoDangling'
  <2>1. RaisedCloses(fault) /\ UNCHANGED captures /\ Closes(fault)
    BY <1>12, FaultCloses
  <2>2. Len(upvalues') = Len(upvalues) /\ \A u \in 1 .. Len(upvalues') : upvalues'[u].closed
    BY <1>0, <2>1, RaisedMeans
  <2>3. \A c \in captures : c[1] \in 1 .. Len(upvalues)
    BY <1>0, CaptureTypes
  <2> QED
    BY <2>1, <2>2, <2>3 DEF NoDangling
<1> QED
  BY <1>3, <1>4, <1>5, <1>6, <1>7, <1>8, <1>9, <1>10, <1>11, <1>12 DEF Next

LEMMA HandlersStep ==
  ASSUME ScopeInv, Next
  PROVE  HandlersStartClosed'
<1>0. /\ Inv /\ StackOK /\ CacheOK /\ ScopesOK /\ RegistryOK /\ HandlersStartClosed
      /\ NoneLeft' => NoneLeft
  BY FailedGrows DEF ScopeInv, Inv
<1>1. ASSUME UNCHANGED <<upvalues, pcalls>> PROVE HandlersStartClosed'
  BY <1>0, <1>1, StaysClosed
<1>2. ASSUME NEW v \in Value, Declare(v) PROVE HandlersStartClosed'
  BY <1>1, <1>2 DEF Declare
<1>3. ASSUME NEW i \in 0 .. FrameSize - 1, Capture(i) PROVE HandlersStartClosed'
  <2> DEFINE r == Cur.localBase + i
  <2>1. PICK u \in 1 .. Len(upvalues') :
          /\ upvalues'[u].index = r
          /\ \/ UNCHANGED upvalues
             \/ /\ u = Len(upvalues) + 1 /\ Len(upvalues') = Len(upvalues) + 1
                /\ \A w \in 1 .. Len(upvalues) : upvalues'[w] = upvalues[w]
    BY <1>0, <1>3, CaptureStep
  <2>2. UNCHANGED pcalls
    BY <1>3 DEF Capture
  <2>3. ASSUME NEW k \in 1 .. Len(pcalls), pcalls[k].handler # 0 PROVE r >= Base(pcalls[k].handler)
    <3>1. /\ pcalls[k].handler \in Nat /\ pcalls[k].handler >= 1 /\ pcalls[k].handler <= Len(frames)
          /\ Len(frames) \in Nat /\ Cur.localBase = Base(Len(frames)) /\ i \in Nat
      <4>1. DepthOf(pcalls[k]) = pcalls[k].handler
        BY <2>3 DEF DepthOf
      <4> QED
        <5>1. /\ DepthOf(pcalls[k]) \in Nat /\ DepthOf(pcalls[k]) <= Len(frames)
              /\ pcalls[k].sp \in Nat /\ pcalls[k].sp < DepthOf(pcalls[k])
          BY <1>0, PCallTypes
        <5>2. Len(frames) \in Nat /\ Cur.localBase = Base(Len(frames))
          BY <1>0, FrameFacts
        <5> QED
          BY <4>1, <5>1, <5>2
    <3>2. /\ Base(pcalls[k].handler) <= Base(Len(frames)) /\ Base(Len(frames)) \in Nat
          /\ Base(pcalls[k].handler) \in Nat
      BY <3>1, BaseMonotone
    <3> QED
      BY <3>1, <3>2
  <2> HIDE DEF r
  <2>4. CASE UNCHANGED upvalues
    BY <1>1, <2>2, <2>4
  <2>5. CASE /\ u = Len(upvalues) + 1 /\ Len(upvalues') = Len(upvalues) + 1
             /\ \A w \in 1 .. Len(upvalues) : upvalues'[w] = upvalues[w]
    <3>1. \A w \in 1 .. Len(upvalues') : w = u \/ w \in 1 .. Len(upvalues)
      BY <1>0, <2>5, UpvalueTypes
    <3>2. ASSUME NoneLeft, NEW k \in 1 .. Len(pcalls), NEW w \in 1 .. Len(upvalues'),
                 pcalls[k].handler # 0, ~upvalues'[w].closed
          PROVE  upvalues'[w].index < pcalls[k].base \/ upvalues'[w].index >= Base(pcalls[k].handler)
      <4>1. CASE w = u
        BY <2>1, <2>3, <3>2, <4>1
      <4>2. CASE w \in 1 .. Len(upvalues)
        BY <1>0, <2>5, <3>2, <4>2 DEF HandlersStartClosed
      <4> QED
        BY <3>1, <4>1, <4>2
    <3> QED
      BY <1>0, <2>2, <3>2 DEF HandlersStartClosed, Base
  <2> QED
    BY <2>1, <2>4, <2>5
<1>4. ASSUME NEW i \in 0 .. FrameSize - 1, EndBlock(i) PROVE HandlersStartClosed'
  <2>1. Cur.localBase + i \in Nat /\ CloseUpvalues(Cur.localBase + i) /\ UNCHANGED pcalls
    BY <1>0, <1>4, FrameFacts DEF EndBlock
  <2> QED
    BY <1>0, <2>1, LeavingStaysClosed
<1>5. ASSUME NEW i \in 0 .. FrameSize - 1, NEW v \in Value, Assign(i, v) PROVE HandlersStartClosed'
  BY <1>1, <1>5 DEF Assign
<1>6. ASSUME NEW c \in captures, NEW v \in Value, SetUpvalue(c, v) PROVE HandlersStartClosed'
  <2>1. c[1] \in 1 .. Len(upvalues) /\ UNCHANGED <<uvcache, pcalls>>
    BY <1>0, <1>6, CaptureTypes DEF SetUpvalue
  <2>2. CASE upvalues[c[1]].closed
    <3>1. upvalues' = [upvalues EXCEPT ![c[1]].value = v]
      BY <1>6, <2>2 DEF SetUpvalue
    <3>2. /\ Len(upvalues') = Len(upvalues)
          /\ \A w \in 1 .. Len(upvalues) :
               upvalues'[w].index = upvalues[w].index /\ upvalues'[w].closed = upvalues[w].closed
      BY <1>0, <2>1, <3>1, ValuedUpvalue
    <3> QED
      BY <1>0, <2>1, <3>2, StaysClosed
  <2>3. CASE ~upvalues[c[1]].closed
    BY <1>1, <1>6, <2>3 DEF SetUpvalue
  <2> QED
    BY <2>2, <2>3
<1>7. CASE Call
  BY <1>1, <1>7 DEF Call
<1>8. CASE TailCall \/ Return
  <2>1. Cur.localBase \in Nat /\ CloseUpvalues(Cur.localBase) /\ UNCHANGED pcalls
    BY <1>0, <1>8, FrameFacts DEF TailCall, Return
  <2> QED
    BY <1>0, <2>1, LeavingStaysClosed
<1>9. CASE ReturnToPCall
  <2>1. /\ Cur.localBase \in Nat /\ CloseUpvalues(Cur.localBase) /\ InPCall
        /\ pcalls' = SubSeq(pcalls, 1, Len(pcalls) - 1)
    BY <1>0, <1>9, FrameFacts DEF ReturnToPCall, Awaited, Unwind, Front
  <2>2. \A k \in 1 .. Len(pcalls') : k \in 1 .. Len(pcalls) /\ pcalls'[k] = pcalls[k]
    <3>1. pcalls \in Seq(Activation) /\ Len(pcalls) \in Nat \ {0} /\ Len(pcalls) - 1 \in 0 .. Len(pcalls)
      BY <1>0, <2>1, PCallTypes, LastPCall
    <3>2. Len(pcalls') = Len(pcalls) - 1 /\ \A k \in 1 .. Len(pcalls) - 1 : pcalls'[k] = pcalls[k]
      BY <2>1, <3>1, PrefixProperties
    <3> QED
      BY <3>1, <3>2
  <2> QED
    BY <1>0, <2>1, <2>2, LeavingStaysClosed
<1>10. ASSUME NEW how \in Catcher, PCall(how) PROVE HandlersStartClosed'
  <2> DEFINE p == [sp |-> Len(frames), base |-> NextBase, errfunc |-> how = "xpcall", handler |-> 0]
  <2>1. pcalls' = Append(pcalls, p) /\ UNCHANGED upvalues /\ p.handler = 0
    BY <1>10 DEF PCall
  <2> HIDE DEF p
  <2>2. \A k \in 1 .. Len(pcalls') : pcalls'[k].handler # 0 => k \in 1 .. Len(pcalls) /\ pcalls'[k] = pcalls[k]
    BY <1>0, <2>1, PCallTypes
  <2> QED
    BY <1>0, <2>1, <2>2, StaysClosed
<1>11. ASSUME NEW fault \in Fault, Catch(fault) \/ CallHandler(fault) PROVE HandlersStartClosed'
  <2>1. NoneLeft' => \A u \in 1 .. Len(upvalues') : upvalues'[u].closed
    BY <1>0, <1>11, FaultCloses, RaisedMeans
  <2> QED
    BY <2>1 DEF HandlersStartClosed
<1> QED
  BY <1>2, <1>3, <1>4, <1>5, <1>6, <1>7, <1>8, <1>9, <1>10, <1>11 DEF Next

LEMMA ScopeInvInit == Init => ScopeInv
<1> SUFFICES ASSUME Init PROVE ScopeInv
  OBVIOUS
<1>1. captures = {} /\ pcalls = <<>>
  BY DEF Init
<1> QED
  BY <1>1, InvInit DEF ScopeInv, NoDanglingUntilLeft, NoDangling, HandlersStartClosed

LEMMA ScopeInvStep == ScopeInv /\ [Next]_vars => ScopeInv'
<1>1. ASSUME ScopeInv, Next PROVE ScopeInv'
  BY <1>1, InvStep, NoDanglingStep, HandlersStep DEF ScopeInv
<1>2. ASSUME ScopeInv, UNCHANGED vars PROVE ScopeInv'
  <2>1. Inv'
    BY <1>2, InvStep DEF ScopeInv
  <2> QED
    BY <1>2, <2>1 DEF vars, vm, history, ScopeInv, NoDanglingUntilLeft, NoDangling,
                      HandlersStartClosed, NoneLeft, Base
<1> QED
  BY <1>1, <1>2

-----------------------------------------------------------------------------
(* Until the first error, a variable has one value. *)

\* What holds of the variables as long as no error has been raised.
Shared == Inv /\ NoDangling /\ BoundOnce /\ OneUpvalueEach /\ Agreement

LEMMA BoundOnceStep ==
  ASSUME Inv, BoundOnce, Next
  PROVE  BoundOnce'
<1>0. StackOK /\ ScopesOK /\ bound \in [Register -> 0 .. Len(declared)] /\ Len(declared) \in Nat
  BY DEF Inv, ScopesOK
<1>1. ASSUME UNCHANGED bound PROVE BoundOnce'
  BY <1>1 DEF BoundOnce
<1>2. ASSUME NEW base, Unbind(base) PROVE BoundOnce'
  <2>1. \A r \in Register : bound'[r] # 0 => bound'[r] = bound[r]
    BY <1>2 DEF Unbind
  <2> QED
    BY <2>1 DEF BoundOnce
<1>3. ASSUME NEW v \in Value, Declare(v) PROVE BoundOnce'
  <2> DEFINE r == Cur.localBase + Cur.locals
             x == Len(declared) + 1
  <2>1. bound' = [bound EXCEPT ![r] = x]
    BY <1>0, <1>3, DeclaredScopes DEF Declare
  <2>2. \A s \in Register : bound[s] # x
    BY <1>0
  <2> HIDE DEF r, x
  <2>3. \A s \in Register : bound'[s] = IF s = r THEN x ELSE bound[s]
    BY <1>0, <2>1
  <2> QED
    BY <2>2, <2>3 DEF BoundOnce
<1>4. ASSUME NEW i, Capture(i) \/ EndBlock(i) PROVE BoundOnce'
  BY <1>1, <1>2, <1>4 DEF Capture, EndBlock
<1>5. ASSUME NEW i, NEW v, Assign(i, v) PROVE BoundOnce'
  BY <1>1, <1>5 DEF Assign
<1>6. ASSUME NEW c, NEW v, SetUpvalue(c, v) PROVE BoundOnce'
  BY <1>1, <1>6 DEF SetUpvalue
<1>7. CASE Call \/ TailCall \/ Return \/ ReturnToPCall
  BY <1>1, <1>2, <1>7 DEF Call, TailCall, Return, ReturnToPCall, Unwind, history
<1>8. ASSUME NEW how, PCall(how) PROVE BoundOnce'
  BY <1>1, <1>8 DEF PCall, history
<1>9. ASSUME NEW fault, Catch(fault) \/ CallHandler(fault) PROVE BoundOnce'
  BY <1>1, <1>2, <1>9 DEF Catch, CallHandler, Unwind
<1> QED
  BY <1>3, <1>4, <1>5, <1>6, <1>7, <1>8, <1>9 DEF Next

\* What the closures of c read.
LEMMA CaptureValue ==
  ASSUME Shared, NEW c \in captures
  PROVE  /\ c[1] \in 1 .. Len(upvalues) /\ c[2] \in 1 .. Len(declared) /\ c[2] # 0
         /\ upvalues[c[1]].index \in Register /\ upvalues[c[1]].index \in Nat
         /\ upvalues[c[1]].closed => upvalues[c[1]].value = declared[c[2]]
         /\ ~upvalues[c[1]].closed =>
              /\ bound[upvalues[c[1]].index] = c[2]
              /\ reg[upvalues[c[1]].index] = declared[c[2]]
BY CaptureTypes DEF Shared, NoDangling, Agreement, UpvalueValue

\* The registers that are let go are those whose upvalues are closed.
LEMMA LeavingAgrees ==
  ASSUME Shared, NEW base \in Nat, Leaves(base),
         \A r \in Register : r < base => reg'[r] = reg[r]
  PROVE  OneUpvalueEach' /\ Agreement'
<1>0. Inv /\ CacheOK /\ RegistryOK /\ ScopesOK
  BY DEF Shared, Inv
<1>1. /\ UNCHANGED <<declared, captures>>
      /\ \A r \in Register : bound'[r] = IF r < base THEN bound[r] ELSE 0
  BY DEF Leaves, Unbind
<1>2. \A u \in 1 .. Len(upvalues) :
        /\ upvalues'[u].index = upvalues[u].index
        /\ upvalues'[u].closed <=> upvalues[u].closed \/ upvalues[u].index >= base
        /\ upvalues[u].closed => upvalues'[u].value = upvalues[u].value
        /\ ~upvalues[u].closed /\ upvalues'[u].closed =>
             upvalues'[u].value = reg[upvalues[u].index]
  BY <1>0, ClosedUpvalues DEF Leaves
<1>3. ASSUME NEW c \in captures PROVE UpvalueValue(c[1])' = declared[c[2]]
  <2>1. CASE upvalues'[c[1]].closed
    <3>1. upvalues'[c[1]].value = declared[c[2]]
      BY <1>2, <2>1, CaptureValue
    <3> QED
      BY <2>1, <3>1 DEF UpvalueValue
  <2>2. CASE ~upvalues'[c[1]].closed
    <3>1. ~upvalues[c[1]].closed /\ upvalues[c[1]].index < base
      BY <1>2, <2>2, CaptureValue
    <3>2. reg'[upvalues'[c[1]].index] = declared[c[2]]
      BY <1>2, <3>1, CaptureValue
    <3> QED
      BY <2>2, <3>2 DEF UpvalueValue
  <2> QED
    BY <2>1, <2>2
<1>4. Agreement'
  <2>1. \A r \in Register : bound'[r] # 0 => reg'[r] = declared[bound'[r]]
    BY <1>1 DEF Shared, Agreement
  <2> QED
    BY <1>1, <1>3, <2>1 DEF Agreement
<1>5. ASSUME NEW c \in captures, upvalues'[c[1]].closed, NEW r \in Register, bound'[r] = c[2]
      PROVE  FALSE
  <2>1. bound[r] = c[2] /\ r < base /\ c[2] # 0 /\ r \in Nat
    BY <1>1, <1>5, CaptureValue, RegisterFacts
  <2>2. ~upvalues[c[1]].closed
    BY <2>1 DEF Shared, OneUpvalueEach
  <2>3. /\ upvalues[c[1]].index \in Register /\ upvalues[c[1]].index >= base
        /\ bound[upvalues[c[1]].index] = c[2]
    BY <1>2, <1>5, <2>2, CaptureValue
  <2>4. upvalues[c[1]].index = r
    BY <2>1, <2>3 DEF Shared, BoundOnce
  <2> QED
    BY <2>1, <2>3, <2>4
<1>6. OneUpvalueEach'
  BY <1>1, <1>5 DEF Shared, OneUpvalueEach
<1> QED
  BY <1>4, <1>6

\* A new frame is above all variables in scope.
LEMMA EnteringAgrees ==
  ASSUME Shared, Enters
  PROVE  OneUpvalueEach' /\ Agreement'
<1>0. Inv /\ StackOK /\ ScopesOK
  BY DEF Shared, Inv
<1>1. /\ NextBase \in Nat /\ UNCHANGED <<upvalues, declared, bound, captures>>
      /\ \A r \in Register : r < NextBase => reg'[r] = reg[r]
  BY <1>0, FrameFacts DEF Enters, PushFrame, Cleared
<1>2. ASSUME NEW r \in Register, bound[r] # 0 PROVE reg'[r] = reg[r]
  <2>1. InScope(r)
    BY <1>0, <1>2 DEF ScopesOK
  <2>2. /\ (r < Cur.localBase \/ r < Cur.localBase + Cur.locals) /\ r \in Nat
        /\ Cur.localBase \in Nat /\ Cur.locals \in 0 .. FrameSize
    BY <1>0, <2>1, OwnScopes, FrameFacts, RegisterFacts
  <2>3. r < NextBase
    BY <2>2, ConstantTypes DEF NextBase
  <2> QED
    BY <1>1, <2>3
<1>3. ASSUME NEW c \in captures PROVE UpvalueValue(c[1])' = declared[c[2]]
  BY <1>1, <1>2, CaptureValue DEF UpvalueValue
<1>4. Agreement'
  BY <1>1, <1>2, <1>3 DEF Shared, Agreement
<1>5. OneUpvalueEach'
  BY <1>1 DEF Shared, OneUpvalueEach
<1> QED
  BY <1>4, <1>5

\* Register r, which holds variable x, is assigned.
LEMMA RegisterAgrees ==
  ASSUME Shared, NEW r \in Register, NEW x \in 1 .. Len(declared), NEW v \in Value,
         bound[r] = x, reg' = [reg EXCEPT ![r] = v], declared' = [declared EXCEPT ![x] = v],
         UNCHANGED <<frames, upvalues, bound, captures>>
  PROVE  OneUpvalueEach' /\ Agreement'
<1>0. Inv /\ ScopesOK /\ Len(declared) \in Nat /\ x # 0
  BY DEF Shared, Inv, ScopesOK
<1>1. \A y \in 1 .. Len(declared) : declared'[y] = IF y = x THEN v ELSE declared[y]
  BY <1>0, AssignedScopes
<1>2. \A s \in Register : reg'[s] = IF s = r THEN v ELSE reg[s]
  BY <1>0 DEF Inv, RegistryOK
<1>3. \A s \in Register : bound[s] # 0 => bound[s] \in 1 .. Len(declared) /\ (bound[s] = x <=> s = r)
  BY <1>0 DEF Shared, BoundOnce, ScopesOK
<1>4. ASSUME NEW c \in captures PROVE UpvalueValue(c[1])' = declared'[c[2]]
  <2>1. CASE upvalues[c[1]].closed
    <3>1. c[2] # x
      BY <2>1 DEF Shared, OneUpvalueEach
    <3>2. declared'[c[2]] = declared[c[2]] /\ upvalues[c[1]].value = declared[c[2]]
      BY <1>1, <2>1, <3>1, CaptureValue
    <3> QED
      BY <2>1, <3>2 DEF UpvalueValue
  <2>2. CASE ~upvalues[c[1]].closed
    <3> DEFINE s == upvalues[c[1]].index
    <3>1. /\ s \in Register /\ bound[s] = c[2] /\ c[2] # 0 /\ c[2] \in 1 .. Len(declared)
          /\ reg[s] = declared[c[2]]
      BY <2>2, CaptureValue
    <3>2. c[2] = x <=> s = r
      BY <1>3, <3>1
    <3>3. reg'[s] = declared'[c[2]]
      BY <1>1, <1>2, <3>1, <3>2
    <3> QED
      BY <2>2, <3>3 DEF UpvalueValue
  <2> QED
    BY <2>1, <2>2
<1>5. ASSUME NEW s \in Register, bound[s] # 0 PROVE reg'[s] = declared'[bound[s]]
  <2>1. reg[s] = declared[bound[s]]
    BY <1>5 DEF Shared, Agreement
  <2> QED
    BY <1>1, <1>2, <1>3, <1>5, <2>1
<1>6. Agreement'
  BY <1>4, <1>5 DEF Agreement
<1>7. OneUpvalueEach'
  BY DEF Shared, OneUpvalueEach
<1> QED
  BY <1>6, <1>7

\* A closed upvalue is all that is left of its variable.
LEMMA ClosedAgrees ==
  ASSUME Shared, NEW c \in captures, NEW v \in Value, upvalues[c[1]].closed,
         upvalues' = [upvalues EXCEPT ![c[1]].value = v],
         declared' = [declared EXCEPT ![c[2]] = v],
         UNCHANGED <<reg, frames, uvcache, bound, captures>>
  PROVE  OneUpvalueEach' /\ Agreement'
<1>0. Inv /\ ScopesOK /\ CacheOK /\ c[1] \in 1 .. Len(upvalues) /\ c[2] \in 1 .. Len(declared)
  BY CaptureValue DEF Shared, Inv
<1>1. \A y \in 1 .. Len(declared) : declared'[y] = IF y = c[2] THEN v ELSE declared[y]
  BY <1>0, AssignedScopes
<1>2. \A w \in 1 .. Len(upvalues) :
        /\ upvalues'[w].index = upvalues[w].index
        /\ upvalues'[w].closed = upvalues[w].closed
        /\ upvalues'[w].value = IF w = c[1] THEN v ELSE upvalues[w].value
  BY <1>0, ValuedUpvalue
<1>3. ASSUME NEW d \in captures PROVE UpvalueValue(d[1])' = declared'[d[2]]
  <2>1. d[1] = c[1] <=> d[2] = c[2]
    BY DEF Shared, OneUpvalueEach
  <2>2. CASE d[1] = c[1]
    <3>1. upvalues'[d[1]].closed /\ upvalues'[d[1]].value = v /\ declared'[d[2]] = v
      BY <1>0, <1>1, <1>2, <2>1, <2>2
    <3> QED
      BY <3>1 DEF UpvalueValue
  <2>3. CASE d[1] # c[1]
    <3>1. /\ d[1] \in 1 .. Len(upvalues) /\ declared'[d[2]] = declared[d[2]]
          /\ upvalues'[d[1]].closed = upvalues[d[1]].closed
          /\ upvalues'[d[1]].value = upvalues[d[1]].value
          /\ upvalues'[d[1]].index = upvalues[d[1]].index
      BY <1>1, <1>2, <2>1, <2>3, CaptureValue
    <3> QED
      BY <3>1, CaptureValue DEF UpvalueValue
  <2> QED
    BY <2>2, <2>3
<1>4. ASSUME NEW s \in Register, bound[s] # 0 PROVE reg[s] = declared'[bound[s]]
  <2>1. bound[s] \in 1 .. Len(declared) /\ bound[s] # c[2]
    BY <1>0, <1>4 DEF Shared, OneUpvalueEach, ScopesOK
  <2> QED
    BY <1>1, <1>4, <2>1 DEF Shared, Agreement
<1>5. Agreement'
  BY <1>3, <1>4 DEF Agreement
<1>6. \A d \in captures : d[1] \in 1 .. Len(upvalues)
  BY CaptureValue
<1>7. OneUpvalueEach'
  BY <1>2, <1>6 DEF Shared, OneUpvalueEach
<1> QED
  BY <1>5, <1>7

\* A register that held nothing gets a new variable.
LEMMA DeclaringAgrees ==
  ASSUME Shared, NEW v \in Value, Declare(v)
  PROVE  OneUpvalueEach' /\ Agreement'
<1>0. Inv /\ StackOK /\ ScopesOK /\ Len(declared) \in Nat
  BY DEF Shared, Inv, ScopesOK
<1> DEFINE r == Cur.localBase + Cur.locals
           x == Len(declared) + 1
<1>1. Cur.locals \in 0 .. FrameSize - 1
  BY <1>0, FrameFacts, ConstantTypes DEF Declare
<1>2. r \in Register /\ bound[r] = 0
  BY <1>0, <1>1, LocalScopes
<1>3. /\ \A y \in 1 .. Len(declared) : declared'[y] = declared[y]
      /\ declared'[x] = v /\ Len(declared') = x
  BY <1>0, DeclaredScopes
<1>4. /\ reg' = [reg EXCEPT ![r] = v] /\ bound' = [bound EXCEPT ![r] = x]
      /\ UNCHANGED <<upvalues, captures>>
  BY <1>3 DEF Declare
<1> HIDE DEF r
<1>5. /\ \A s \in Register : reg'[s] = IF s = r THEN v ELSE reg[s]
      /\ \A s \in Register : bound'[s] = IF s = r THEN x ELSE bound[s]
      /\ \A s \in Register : bound[s] \in 0 .. Len(declared)
  BY <1>0, <1>4 DEF Inv, RegistryOK, ScopesOK
<1>6. ASSUME NEW c \in captures PROVE UpvalueValue(c[1])' = declared'[c[2]]
  <2>1. ~upvalues[c[1]].closed => upvalues[c[1]].index # r
    BY <1>2, CaptureValue
  <2> QED
    BY <1>3, <1>4, <1>5, <2>1, CaptureValue DEF UpvalueValue
<1>7. ASSUME NEW s \in Register, bound'[s] # 0 PROVE reg'[s] = declared'[bound'[s]]
  <2>1. CASE s = r
    BY <1>3, <1>5, <2>1
  <2>2. CASE s # r
    <3>1. bound'[s] = bound[s] /\ bound[s] \in 1 .. Len(declared) /\ reg'[s] = reg[s]
      BY <1>5, <1>7, <2>2
    <3>2. reg[s] = declared[bound[s]]
      BY <1>7, <3>1 DEF Shared, Agreement
    <3> QED
      BY <1>3, <3>1, <3>2
  <2> QED
    BY <2>1, <2>2
<1>8. Agreement'
  BY <1>4, <1>6, <1>7 DEF Agreement
<1>9. ASSUME NEW c \in captures, upvalues[c[1]].closed, NEW s \in Register PROVE bound'[s] # c[2]
  <2>1. c[2] \in 1 .. Len(declared) /\ c[2] # x
    BY <1>0, CaptureValue
  <2> QED
    BY <1>5, <1>9, <2>1 DEF Shared, OneUpvalueEach
<1>10. OneUpvalueEach'
  BY <1>4, <1>9 DEF Shared, OneUpvalueEach
<1> QED
  BY <1>8, <1>10

\* All closures of a variable in scope get the same upvalue.
LEMMA CapturingAgrees ==
  ASSUME Shared, NEW i \in 0 .. FrameSize - 1, Capture(i)
  PROVE  OneUpvalueEach' /\ Agreement'
<1>0. Inv /\ CacheOK /\ ScopesOK /\ Len(declared) \in Nat
  BY DEF Shared, Inv, ScopesOK
<1> DEFINE r == Cur.localBase + i
           x == bound[r]
<1>1. /\ r \in Register /\ x \in 1 .. Len(declared)
      /\ \E u \in 1 .. Len(upvalues') :
           /\ captures' = captures \cup {<<u, x>>}
           /\ upvalues'[u].index = r /\ ~upvalues'[u].closed
           /\ \/ UNCHANGED upvalues
              \/ /\ u = Len(upvalues) + 1 /\ Len(upvalues') = Len(upvalues) + 1
                 /\ \A w \in 1 .. Len(upvalues) :
                      /\ upvalues'[w] = upvalues[w]
                      /\ upvalues[w].closed \/ upvalues[w].index # r
  BY <1>0, CaptureStep
<1>2. UNCHANGED <<reg, bound, declared>>
  BY DEF Capture
<1>3. reg[r] = declared[x] /\ x # 0
  BY <1>0, <1>1 DEF Shared, Agreement
<1> HIDE DEF r
<1>4. PICK u \in 1 .. Len(upvalues') :
        /\ captures' = captures \cup {<<u, x>>}
        /\ upvalues'[u].index = r /\ ~upvalues'[u].closed
        /\ \/ UNCHANGED upvalues
           \/ /\ u = Len(upvalues) + 1 /\ Len(upvalues') = Len(upvalues) + 1
              /\ \A w \in 1 .. Len(upvalues) :
                   /\ upvalues'[w] = upvalues[w]
                   /\ upvalues[w].closed \/ upvalues[w].index # r
  BY <1>1
<1>5. \A c \in captures : upvalues'[c[1]] = upvalues[c[1]]
  BY <1>4, CaptureValue
<1>6. ASSUME NEW c \in captures PROVE c[1] = u <=> c[2] = x
  <2> DEFINE s == upvalues[c[1]].index
  <2>1. c[1] \in 1 .. Len(upvalues) /\ c[2] # 0 /\ s \in Register /\ Len(upvalues) \in Nat
    BY <1>0, CaptureValue, UpvalueTypes
  <2>2. ASSUME c[1] = u PROVE c[2] = x
    <3>1. ~upvalues[c[1]].closed /\ s = r
      BY <1>4, <1>5, <2>2
    <3> QED
      BY <3>1, CaptureValue
  <2>3. ASSUME c[2] = x PROVE c[1] = u
    <3>1. ~upvalues[c[1]].closed
      BY <1>1, <2>3 DEF Shared, OneUpvalueEach
    <3>2. s = r
      BY <1>1, <2>1, <2>3, <3>1, CaptureValue DEF Shared, BoundOnce
    <3>3. UNCHANGED upvalues
      BY <1>4, <2>1, <3>1, <3>2
    <3>4. /\ u \in 1 .. Len(upvalues) /\ upvalues[u].index = upvalues[c[1]].index
          /\ ~upvalues[u].closed /\ upvalues[u].index \in Nat
      BY <1>0, <1>4, <3>2, <3>3, UpvalueTypes
    <3>5. PICK j \in 1 .. Len(uvcache), k \in 1 .. Len(uvcache) : uvcache[j] = u /\ uvcache[k] = c[1]
      BY <1>0, <2>1, <3>1, <3>4 DEF CacheOK, ListsOpen
    <3>6. ~ (j < k) /\ ~ (k < j)
      BY <1>0, <3>4, <3>5 DEF CacheOK, InOrder
    <3> QED
      BY <3>5, <3>6
  <2> QED
    BY <2>2, <2>3
<1>7. ASSUME NEW c \in captures, NEW d \in captures PROVE c[1] = d[1] <=> c[2] = d[2]
  BY DEF Shared, OneUpvalueEach
<1>8. <<u, x>>[1] = u /\ <<u, x>>[2] = x
  OBVIOUS
<1> DEFINE new == <<u, x>>
<1> HIDE DEF new, x
<1>9. /\ captures' = captures \cup {new} /\ new[1] = u /\ new[2] = x
  BY <1>4, <1>8 DEF new
<1>10. \A c \in captures', d \in captures' : c[1] = d[1] <=> c[2] = d[2]
  BY <1>6, <1>7, <1>9
<1>11. ASSUME NEW c \in captures', upvalues'[c[1]].closed, NEW s \in Register PROVE bound'[s] # c[2]
  <2>1. c \in captures
    BY <1>4, <1>9, <1>11
  <2> QED
    BY <1>2, <1>5, <1>11, <2>1 DEF Shared, OneUpvalueEach
<1>12. OneUpvalueEach'
  BY <1>10, <1>11 DEF OneUpvalueEach
<1>13. ASSUME NEW c \in captures' PROVE UpvalueValue(c[1])' = declared'[c[2]]
  <2>1. CASE c = new
    <3>1. UpvalueValue(c[1])' = reg'[r]
      BY <1>4, <1>9, <2>1 DEF UpvalueValue
    <3> QED
      BY <1>2, <1>3, <1>9, <2>1, <3>1
  <2>2. CASE c \in captures
    <3>1. UpvalueValue(c[1])' = UpvalueValue(c[1])
      BY <1>2, <1>5, <2>2 DEF UpvalueValue
    <3> QED
      BY <1>2, <2>2, <3>1 DEF Shared, Agreement
  <2> QED
    BY <1>9, <2>1, <2>2
<1>14. Agreement'
  BY <1>2, <1>13 DEF Shared, Agreement
<1> QED
  BY <1>12, <1>14

\* A protected call that succeeds leaves as a call does.
LEMMA ReturnToPCallLeaves ==
  ASSUME Inv, NoHandlers, ReturnToPCall
  PROVE  /\ Cur.localBase \in Nat /\ Leaves(Cur.localBase)
         /\ \A r \in Register : r < Cur.localBase => reg'[r] = reg[r]
         /\ \A k \in 1 .. Len(pcalls') : k \in 1 .. Len(pcalls) /\ pcalls'[k] = pcalls[k]
<1>0. /\ StackOK /\ InPCall /\ CloseUpvalues(Cur.localBase) /\ Unwind
      /\ Len(frames) = AwaitedDepth
  BY DEF Inv, ReturnToPCall, Awaited
<1> DEFINE p == Last(pcalls)
<1>1. /\ Len(pcalls) \in 1 .. Len(pcalls) /\ p = pcalls[Len(pcalls)]
      /\ p.base = Base(p.sp + 1) /\ Len(frames) = DepthOf(p)
      /\ Cur.localBase = Base(Len(frames)) /\ Cur.localBase \in Nat
  BY <1>0, LastPCall, FrameFacts
<1>2. p.handler = 0
  BY <1>1 DEF NoHandlers
<1>3. Cur.localBase = p.base
  BY <1>1, <1>2 DEF DepthOf
<1>4. /\ reg' = Truncated(p.base) /\ Unbind(p.base) /\ UNCHANGED <<declared, captures>>
      /\ pcalls' = SubSeq(pcalls, 1, Len(pcalls) - 1)
  BY <1>0 DEF Unwind, Front
<1> HIDE DEF p
<1>5. Leaves(Cur.localBase)
  BY <1>0, <1>3, <1>4 DEF Leaves
<1>6. \A r \in Register : r < Cur.localBase => reg'[r] = reg[r]
  BY <1>3, <1>4 DEF Truncated
<1>7. \A k \in 1 .. Len(pcalls') : k \in 1 .. Len(pcalls) /\ pcalls'[k] = pcalls[k]
  <2>1. pcalls \in Seq(Activation) /\ Len(pcalls) \in Nat \ {0} /\ Len(pcalls) - 1 \in 0 .. Len(pcalls)
    BY <1>0, PCallTypes, LastPCall
  <2>2. Len(pcalls') = Len(pcalls) - 1 /\ \A k \in 1 .. Len(pcalls) - 1 : pcalls'[k] = pcalls[k]
    BY <1>4, <2>1, PrefixProperties
  <2> QED
    BY <2>1, <2>2
<1> QED
  BY <1>1, <1>5, <1>6, <1>7

LEMMA NoErrorsStep ==
  ASSUME Next, NoErrors'
  PROVE  /\ NoErrors /\ NoneLeft
         /\ \A fault : ~Catch(fault) /\ ~CallHandler(fault)
<1>1. failed \subseteq failed'
  BY DEF Next, Declare, Capture, EndBlock, Assign, SetUpvalue, Call, TailCall, Return,
         ReturnToPCall, PCall, Catch, CallHandler, history
<1>2. failed' = {} /\ failed = {}
  BY <1>1 DEF NoErrors
<1>3. ASSUME NEW fault, Catch(fault) \/ CallHandler(fault) PROVE FALSE
  <2>1. \E f : failed' = failed \cup {f}
    BY <1>3, Zenon DEF Catch, CallHandler
  <2> QED
    BY <1>2, <2>1
<1>4. NoErrors /\ NoneLeft
  BY <1>2, Zenon DEF NoErrors, NoneLeft
<1> QED
  BY <1>3, <1>4

LEMMA AgreementStep ==
  ASSUME AgreementInv, Next
  PROVE  AgreementUntil'
<1> SUFFICES ASSUME NoErrors' PROVE OneUpvalueEach' /\ NoHandlers' /\ Agreement'
  BY DEF AgreementUntil
<1>1. NoErrors /\ NoneLeft /\ \A fault : ~Catch(fault) /\ ~CallHandler(fault)
  BY NoErrorsStep
<1>2. Shared /\ NoHandlers /\ Inv /\ StackOK /\ ScopesOK
  BY <1>1, NoDanglingMeans DEF AgreementInv, ScopeInv, AgreementUntil, Shared, Inv
<1> DEFINE Kept == OneUpvalueEach' /\ NoHandlers' /\ Agreement'
<1>3. ASSUME UNCHANGED pcalls, OneUpvalueEach' /\ Agreement' PROVE Kept
  BY <1>2, <1>3 DEF NoHandlers
<1> HIDE DEF Kept
<1>4. ASSUME NEW v \in Value, Declare(v) PROVE Kept
  BY <1>2, <1>3, <1>4, DeclaringAgrees DEF Declare
<1>5. ASSUME NEW i \in 0 .. FrameSize - 1, Capture(i) PROVE Kept
  BY <1>2, <1>3, <1>5, CapturingAgrees DEF Capture
<1>6. ASSUME NEW i \in 0 .. FrameSize - 1, EndBlock(i) PROVE Kept
  <2>1. Cur.localBase + i \in Nat /\ Leaves(Cur.localBase + i) /\ UNCHANGED <<reg, pcalls>>
    BY <1>2, <1>6, FrameFacts DEF EndBlock, Leaves
  <2> QED
    BY <1>2, <1>3, <2>1, LeavingAgrees
<1>7. ASSUME NEW i \in 0 .. FrameSize - 1, NEW v \in Value, Assign(i, v) PROVE Kept
  <2> DEFINE r == Cur.localBase + i
  <2>1. /\ r \in Register /\ bound[r] \in 1 .. Len(declared)
        /\ reg' = [reg EXCEPT ![r] = v] /\ declared' = [declared EXCEPT ![bound[r]] = v]
        /\ UNCHANGED <<frames, upvalues, bound, captures, pcalls>>
    BY <1>2, <1>7, LocalScopes DEF Assign
  <2> HIDE DEF r
  <2>2. OneUpvalueEach' /\ Agreement'
    BY <1>2, <2>1, RegisterAgrees
  <2> QED
    BY <1>3, <2>1, <2>2
<1>8. ASSUME NEW c \in captures, NEW v \in Value, SetUpvalue(c, v) PROVE Kept
  <2>1. /\ declared' = [declared EXCEPT ![c[2]] = v]
        /\ UNCHANGED <<frames, uvcache, bound, captures, pcalls>>
    BY <1>8 DEF SetUpvalue
  <2>2. CASE upvalues[c[1]].closed
    <3>1. upvalues' = [upvalues EXCEPT ![c[1]].value = v] /\ UNCHANGED reg
      BY <1>8, <2>2 DEF SetUpvalue
    <3>2. OneUpvalueEach' /\ Agreement'
      BY <1>2, <2>1, <2>2, <3>1, ClosedAgrees
    <3> QED
      BY <1>3, <2>1, <3>2
  <2>3. CASE ~upvalues[c[1]].closed
    <3> DEFINE r == upvalues[c[1]].index
    <3>1. reg' = [reg EXCEPT ![r] = v] /\ UNCHANGED upvalues
      BY <1>8, <2>3 DEF SetUpvalue
    <3>2. r \in Register /\ bound[r] = c[2] /\ c[2] \in 1 .. Len(declared)
      BY <1>2, <2>3, CaptureValue
    <3> HIDE DEF r
    <3>3. OneUpvalueEach' /\ Agreement'
      BY <1>2, <2>1, <3>1, <3>2, RegisterAgrees
    <3> QED
      BY <1>3, <2>1, <3>3
  <2> QED
    BY <2>2, <2>3
<1>9. ASSUME Call PROVE Kept
  <2>1. Enters /\ UNCHANGED pcalls
    BY <1>9 DEF Call, Enters, history
  <2> QED
    BY <1>2, <1>3, <2>1, EnteringAgrees
<1>10. ASSUME TailCall \/ Return PROVE Kept
  <2>1. /\ Cur.localBase \in Nat /\ Leaves(Cur.localBase) /\ UNCHANGED pcalls
        /\ reg' = Cleared(Cur.localBase) \/ reg' = Truncated(Cur.localBase)
    BY <1>2, <1>10, FrameFacts DEF TailCall, Return, Leaves
  <2>2. \A r \in Register : r < Cur.localBase => reg'[r] = reg[r]
    BY <2>1, RegisterFacts DEF Cleared, Truncated
  <2> QED
    BY <1>2, <1>3, <2>1, <2>2, LeavingAgrees
<1>11. ASSUME ReturnToPCall PROVE Kept
  <2>1. OneUpvalueEach' /\ Agreement'
    BY <1>2, <1>11, ReturnToPCallLeaves, LeavingAgrees
  <2>2. NoHandlers'
    BY <1>2, <1>11, ReturnToPCallLeaves DEF NoHandlers
  <2> QED
    BY <2>1, <2>2 DEF Kept
<1>12. ASSUME NEW how \in Catcher, PCall(how) PROVE Kept
  <2> DEFINE p == [sp |-> Len(frames), base |-> NextBase, errfunc |-> how = "xpcall", handler |-> 0]
  <2>1. Enters /\ pcalls' = Append(pcalls, p) /\ p.handler = 0
    BY <1>12 DEF PCall, Enters, history
  <2> HIDE DEF p
  <2>2. NoHandlers'
    BY <1>2, <2>1, PCallTypes DEF NoHandlers
  <2>3. OneUpvalueEach' /\ Agreement'
    BY <1>2, <2>1, EnteringAgrees
  <2> QED
    BY <2>2, <2>3 DEF Kept
<1>13. Kept
  BY <1>1, <1>4, <1>5, <1>6, <1>7, <1>8, <1>9, <1>10, <1>11, <1>12 DEF Next
<1> QED
  BY <1>13 DEF Kept

LEMMA AgreementInvInit == Init => AgreementInv
<1> SUFFICES ASSUME Init PROVE AgreementInv
  OBVIOUS
<1>1. captures = {} /\ pcalls = <<>> /\ bound = [r \in Register |-> 0]
  BY DEF Init
<1> QED
  BY <1>1, ScopeInvInit DEF AgreementInv, BoundOnce, AgreementUntil, OneUpvalueEach,
                            NoHandlers, Agreement

LEMMA AgreementInvStep == AgreementInv /\ [Next]_vars => AgreementInv'
<1>1. ASSUME AgreementInv, Next PROVE AgreementInv'
  BY <1>1, ScopeInvStep, BoundOnceStep, AgreementStep DEF AgreementInv, ScopeInv
<1>2. ASSUME AgreementInv, UNCHANGED vars PROVE AgreementInv'
  <2>1. ScopeInv'
    BY <1>2, ScopeInvStep DEF AgreementInv
  <2> QED
    BY <1>2, <2>1 DEF vars, vm, history, AgreementInv, BoundOnce, AgreementUntil, NoErrors,
                      OneUpvalueEach, NoHandlers, Agreement, UpvalueValue
<1> QED
  BY <1>1, <1>2

-----------------------------------------------------------------------------
\* The state of the registry, the frames, the upvalues and the protected calls
\* has its types whatever the program does (state.go, _state.go, vm.go).
THEOREM TypeCorrect == Spec => []TypeOK
<1> QED
  BY InvInit, InvStep, InvIsTyped, PTL DEF Spec

\* findUpvalue and closeUpvalues keep uvcache complete and in order, through any
\* sequence of calls, block ends, errors and returns (state.go).
THEOREM CacheStaysInOrder == Spec => []CacheHoldsOpenInOrder
<1> QED
  BY InvInit, InvStep, InvIsOrdered, PTL DEF Spec

\* An upvalue is open only while its variable is in scope in a live frame, as long
\* as every error closes what the frames it drops left open (closeUpvalues,
\* raiseError, PCall).
THEOREM NothingDanglesUntilLeft == Spec => []NoDanglingUntilLeft
<1>1. ScopeInv => NoDanglingUntilLeft
  BY DEF ScopeInv
<1> QED
  BY <1>1, ScopeInvInit, ScopeInvStep, PTL DEF Spec

\* Until the first error, every closure that captured a variable and the function
\* that declared it read the value last assigned to it by any of them, protected
\* calls that succeed included (findUpvalue, closeUpvalues, Upvalue.SetValue, PCall).
THEOREM ClosuresAgreeUntilError == Spec => []AgreementUntilError
<1>1. AgreementInv => AgreementUntilError
  BY DEF AgreementInv, AgreementUntil, AgreementUntilError, NoErrors
<1> QED
  BY <1>1, AgreementInvInit, AgreementInvStep, PTL DEF Spec

=============================================================================
