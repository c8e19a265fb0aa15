------------------------------ MODULE Upvalues ------------------------------
(***************************************************************************)
(* How the closures of one LState share the local variables they capture:  *)
(* the open upvalues that point into the registry, the list uvcache that   *)
(* finds them, and everything that closes them: block ends, returns, tail  *)
(* calls and the errors that pcall and xpcall catch (src/state.go,         *)
(* src/vm.go, src/function.go).                                            *)
(*                                                                         *)
(* A frame owns FrameSize registers from its LocalBase on, the first       *)
(* "locals" of them the variables in scope.  Frames of Go functions hold   *)
(* no locals and capture nothing: they are left out, and sp counts frames  *)
(* of Lua functions.  A closure is what it captures; that it runs is the   *)
(* assignment it makes.                                                    *)
(***************************************************************************)
EXTENDS Naturals, Sequences, SequencesExt

CONSTANTS
  Value,      \* what Lua variables hold
  LNil,       \* Lua's nil
  Unset,      \* Go's nil: a register above the top of the registry
  Catcher,    \* the protected calls made: a subset of {"pcall", "xpcall"}
  Fault,      \* what goes wrong: "error" is raised, "panic" is Go's runtime
  FrameSize,  \* registers of a frame
  MaxFrames,  \* bound: frames at once
  MaxVars,    \* bound: variables declared in a run
  MaxUpvalues,\* bound: upvalues created in a run
  MaxCatches  \* bound: protected calls in progress at once

ASSUME UpvaluesAssumption ==
  /\ LNil \notin Value /\ Unset \notin Value /\ LNil # Unset
  /\ Catcher \subseteq {"pcall", "xpcall"}
  /\ Fault \subseteq {"error", "panic"}
  /\ {FrameSize, MaxFrames} \subseteq Nat \ {0}
  /\ {MaxVars, MaxUpvalues, MaxCatches} \subseteq Nat

Register == 0 .. FrameSize * MaxFrames - 1

VARIABLES
  reg,        \* the registry
  frames,     \* the call stack
  upvalues,   \* every Upvalue created, by order of creation
  uvcache,    \* the list of open ones
  pcalls,     \* the PCalls in progress
  hasErrorFunc,
  \* history variables, what the program text says
  declared,   \* the last value assigned to each variable, by declaration
  bound,      \* bound[r]: the variable register r holds, 0 for none
  captures,   \* <<u, x>>: a closure captured variable x and got upvalue u
  failed      \* the errors raised: whether they closed upvalues

vm == <<reg, frames, upvalues, uvcache, pcalls, hasErrorFunc>>
history == <<declared, bound, captures, failed>>
vars == <<vm, history>>

Frame == [localBase : Nat, locals : 0 .. FrameSize]
Upvalue == [index : Register, closed : BOOLEAN, value : Value \cup {LNil, Unset}]
Activation == [sp : Nat, base : Nat, errfunc : BOOLEAN, handler : Nat]

Init ==
  /\ reg = [r \in Register |-> IF r < FrameSize THEN LNil ELSE Unset]
  /\ frames = <<[localBase |-> 0, locals |-> 0]>>
  /\ upvalues = <<>>
  /\ uvcache = <<>>
  /\ pcalls = <<>>
  /\ hasErrorFunc = FALSE
  /\ declared = <<>>
  /\ bound = [r \in Register |-> 0]
  /\ captures = {}
  /\ failed = {}

-----------------------------------------------------------------------------
(* Upvalues. *)

Cur == frames[Len(frames)]

UpvalueValue(u) ==
  IF upvalues[u].closed THEN upvalues[u].value ELSE reg[upvalues[u].index]

\* Mutant: a new upvalue goes to the front of the list.
FrontSearchStop(idx) == 1

\* The place in uvcache where the search for idx stops: at the first upvalue
\* whose index is not below it.
SearchStop(idx) ==
  CHOOSE k \in 1 .. Len(uvcache) + 1 :
    /\ k <= Len(uvcache) => upvalues[uvcache[k]].index >= idx
    /\ \A j \in 1 .. k - 1 : upvalues[uvcache[j]].index < idx

Cached(idx) ==
  LET k == SearchStop(idx)
  IN  k <= Len(uvcache) /\ upvalues[uvcache[k]].index = idx

\* findUpvalue: the cached upvalue for idx, or a new one linked in its place;
\* x is the variable the closure captures there.
FindUpvalue(idx, x) ==
  \/ /\ Cached(idx)
     /\ captures' = captures \cup {<<uvcache[SearchStop(idx)], x>>}
     /\ UNCHANGED <<upvalues, uvcache>>
  \/ /\ ~Cached(idx)
     /\ Len(upvalues) < MaxUpvalues
     /\ upvalues' =
          Append(upvalues, [index |-> idx, closed |-> FALSE, value |-> Unset])
     /\ uvcache' = InsertAt(uvcache, SearchStop(idx), Len(upvalues'))
     /\ captures' = captures \cup {<<Len(upvalues'), x>>}

\* closeUpvalues: the list is cut before the first upvalue at idx or above, and
\* every such upvalue in it keeps from now on the value its register has.
CloseUpvalues(idx) ==
  LET hit == {k \in 1 .. Len(uvcache) : upvalues[uvcache[k]].index >= idx}
      cut == CHOOSE k \in 1 .. Len(uvcache) + 1 :
               \A j \in 1 .. Len(uvcache) : j < k <=> \A h \in hit : j < h
  IN  /\ uvcache' = SubSeq(uvcache, 1, cut - 1)
      /\ upvalues' = [u \in DOMAIN upvalues |->
           IF \E k \in hit : uvcache[k] = u
           THEN [upvalues[u] EXCEPT !.closed = TRUE, !.value = UpvalueValue(u)]
           ELSE upvalues[u]]

-----------------------------------------------------------------------------
(* Registers and scopes. *)

\* The registry's top comes down to base: what is above becomes Go's nil.
Truncated(base) == [r \in Register |-> IF r < base THEN reg[r] ELSE Unset]

\* initCallFrame of a function whose frame starts at base.
Cleared(base) ==
  [r \in Register |-> IF r \in base .. base + FrameSize - 1 THEN LNil ELSE reg[r]]

Unbind(base) == bound' = [r \in Register |-> IF r < base THEN bound[r] ELSE 0]

NextBase == Cur.localBase + FrameSize

PushFrame ==
  /\ Len(frames) < MaxFrames
  /\ frames' = Append(frames, [localBase |-> NextBase, locals |-> 0])
  /\ reg' = Cleared(NextBase)

-----------------------------------------------------------------------------
(* What a running Lua function does. *)

\* A new local variable: its register is set by the instruction that computes
\* its first value.
Declare(v) ==
  LET r == Cur.localBase + Cur.locals
  IN  /\ Cur.locals < FrameSize
      /\ Len(declared) < MaxVars
      /\ reg' = [reg EXCEPT ![r] = v]
      /\ frames' = [frames EXCEPT ![Len(frames)].locals = @ + 1]
      /\ declared' = Append(declared, v)
      /\ bound' = [bound EXCEPT ![r] = Len(declared')]
      /\ UNCHANGED <<upvalues, uvcache, pcalls, hasErrorFunc, captures, failed>>

\* OP_MOVE or OP_LOADK into a local in scope.
Assign(i, v) ==
  LET r == Cur.localBase + i
  IN  /\ i < Cur.locals
      /\ reg' = [reg EXCEPT ![r] = v]
      /\ declared' = [declared EXCEPT ![bound[r]] = v]
      /\ UNCHANGED <<frames, upvalues, uvcache, pcalls, hasErrorFunc, bound,
                     captures, failed>>

\* OP_CLOSURE of a function that captures local i of the running one.
Capture(i) ==
  LET r == Cur.localBase + i
  IN  /\ i < Cur.locals
      /\ FindUpvalue(r, bound[r])
      /\ UNCHANGED <<reg, frames, pcalls, hasErrorFunc, declared, bound, failed>>

\* OP_SETUPVAL in a closure that captured c: Upvalue.SetValue.
SetUpvalue(c, v) ==
  LET u == c[1]
  IN  /\ IF upvalues[u].closed
         THEN /\ upvalues' = [upvalues EXCEPT ![u].value = v]
              /\ UNCHANGED reg
         ELSE /\ reg' = [reg EXCEPT ![upvalues[u].index] = v]
              /\ UNCHANGED upvalues
      /\ declared' = [declared EXCEPT ![c[2]] = v]
      /\ UNCHANGED <<frames, uvcache, pcalls, hasErrorFunc, bound, captures, failed>>

\* Mutant: the first variable of the block keeps its upvalue open.
LateEndBlock(i) ==
  /\ i < Cur.locals
  /\ CloseUpvalues(Cur.localBase + i + 1)
  /\ frames' = [frames EXCEPT ![Len(frames)].locals = i]
  /\ Unbind(Cur.localBase + i)
  /\ UNCHANGED <<reg, pcalls, hasErrorFunc, declared, captures, failed>>

\* OP_CLOSE, at the end of the block that declared locals i and up.
EndBlock(i) ==
  /\ i < Cur.locals
  /\ CloseUpvalues(Cur.localBase + i)
  /\ frames' = [frames EXCEPT ![Len(frames)].locals = i]
  /\ Unbind(Cur.localBase + i)
  /\ UNCHANGED <<reg, pcalls, hasErrorFunc, declared, captures, failed>>

Call ==
  /\ PushFrame
  /\ UNCHANGED <<upvalues, uvcache, pcalls, hasErrorFunc, history>>

\* OP_TAILCALL of a Lua function: the frame is taken over by the callee.
TailCall ==
  /\ CloseUpvalues(Cur.localBase)
  /\ frames' = [frames EXCEPT ![Len(frames)].locals = 0]
  /\ reg' = Cleared(Cur.localBase)
  /\ Unbind(Cur.localBase)
  /\ UNCHANGED <<pcalls, hasErrorFunc, declared, captures, failed>>

-----------------------------------------------------------------------------
(* Protected calls. *)

InPCall == pcalls # <<>>

\* The depth of the frame PCall waits for: its callee, or its error handler.
AwaitedDepth == IF Last(pcalls).handler = 0
                THEN Last(pcalls).sp + 1 ELSE Last(pcalls).handler

\* The function PCall was given, or the handler, returns when it is on top.
Awaited == InPCall /\ Len(frames) = AwaitedDepth

\* OP_RETURN to a Lua caller.
Return ==
  /\ ~Awaited
  /\ Len(frames) > 1
  /\ CloseUpvalues(Cur.localBase)
  /\ frames' = SubSeq(frames, 1, Len(frames) - 1)
  /\ reg' = Truncated(Cur.localBase)
  /\ Unbind(Cur.localBase)
  /\ UNCHANGED <<pcalls, hasErrorFunc, declared, captures, failed>>

PCall(how) ==
  /\ Len(pcalls) < MaxCatches
  /\ PushFrame
  /\ pcalls' = Append(pcalls, [sp |-> Len(frames), base |-> NextBase,
                               errfunc |-> how = "xpcall", handler |-> 0])
  /\ hasErrorFunc' = (hasErrorFunc \/ how = "xpcall")
  /\ UNCHANGED <<upvalues, uvcache, history>>

\* Mutant: sp is taken for the index of the last frame to drop.
DeepUnwind ==
  /\ frames' = SubSeq(frames, 1, Last(pcalls).sp - 1)
  /\ reg' = Truncated(Last(pcalls).base)
  /\ pcalls' = Front(pcalls)
  /\ hasErrorFunc' = FALSE
  /\ Unbind(Last(pcalls).base)
  /\ UNCHANGED <<declared, captures>>

\* The deferred function of PCall: the frames above sp are dropped, the registry
\* is cut back to base, hasErrorFunc is cleared whatever it was on entry.
Unwind ==
  /\ frames' = SubSeq(frames, 1, Last(pcalls).sp)
  /\ reg' = Truncated(Last(pcalls).base)
  /\ pcalls' = Front(pcalls)
  /\ hasErrorFunc' = FALSE
  /\ Unbind(Last(pcalls).base)
  /\ UNCHANGED <<declared, captures>>

\* The function PCall called, or its handler, returns, and PCall after it.
ReturnToPCall ==
  /\ Awaited
  /\ CloseUpvalues(Cur.localBase)
  /\ Unwind
  /\ UNCHANGED failed

Closes(fault) == fault = "error" /\ ~hasErrorFunc

\* Mutant: an error closes nothing.
RaisedClosesNothing(fault) == UNCHANGED <<upvalues, uvcache>>

\* closeAllUpvalues from the running frame to the first, in raiseError and
\* Error; Go's own panics (a nil pointer, a closed channel, Push on a full
\* auto-growing stack) reach PCall without it.
RaisedCloses(fault) ==
  IF Closes(fault)
  THEN CloseUpvalues(frames[1].localBase)
  ELSE UNCHANGED <<upvalues, uvcache>>

\* An error that PCall recovers from at once: it has no handler, or the error
\* comes from the handler.
Catch(fault) ==
  /\ InPCall
  /\ ~Last(pcalls).errfunc \/ Last(pcalls).handler # 0
  /\ RaisedCloses(fault)
  /\ Unwind
  /\ failed' = failed \cup {IF Closes(fault) THEN "closed" ELSE "left open"}

\* An error that PCall recovers from by calling the handler, on top of the
\* frames that are to be dropped.
CallHandler(fault) ==
  /\ InPCall
  /\ Last(pcalls).errfunc /\ Last(pcalls).handler = 0
  /\ RaisedCloses(fault)
  /\ PushFrame
  /\ pcalls' = [pcalls EXCEPT ![Len(pcalls)].handler = Len(frames')]
  /\ hasErrorFunc' = FALSE
  /\ failed' = failed \cup {IF Closes(fault) THEN "closed" ELSE "left open"}
  /\ UNCHANGED <<declared, bound, captures>>

Next ==
  \/ \E v \in Value : Declare(v)
  \/ \E i \in 0 .. FrameSize - 1 : Capture(i) \/ EndBlock(i)
  \/ \E i \in 0 .. FrameSize - 1, v \in Value : Assign(i, v)
  \/ \E c \in captures, v \in Value : SetUpvalue(c, v)
  \/ Call \/ TailCall \/ Return \/ ReturnToPCall
  \/ \E how \in Catcher : PCall(how)
  \/ \E fault \in Fault : Catch(fault) \/ CallHandler(fault)

Spec == Init /\ [][Next]_vars

-----------------------------------------------------------------------------
TypeOK ==
  /\ reg \in [Register -> Value \cup {LNil, Unset}]
  /\ frames \in Seq(Frame) /\ Len(frames) \in 1 .. MaxFrames
  /\ upvalues \in Seq(Upvalue) /\ Len(upvalues) <= MaxUpvalues
  /\ uvcache \in Seq(1 .. Len(upvalues))
  /\ pcalls \in Seq(Activation)
  /\ hasErrorFunc \in BOOLEAN
  /\ declared \in Seq(Value)
  /\ bound \in [Register -> 0 .. Len(declared)]
  /\ captures \subseteq (1 .. Len(upvalues)) \X (1 .. Len(declared))
  /\ failed \subseteq {"closed", "left open"}

\* uvcache holds every open upvalue and no closed one, in strictly increasing
\* order of index: the early stop of findUpvalue never misses the upvalue of a
\* register, and closeUpvalues, which cuts the list at the first hit, loses none.
CacheHoldsOpenInOrder ==
  /\ \A i, j \in 1 .. Len(uvcache) :
       i < j => upvalues[uvcache[i]].index < upvalues[uvcache[j]].index
  /\ {u \in DOMAIN upvalues : ~upvalues[u].closed} = ToSet(uvcache)

\* An open upvalue points to the variable its closures captured, in scope in a
\* live frame: the register is not one a later call reuses (Upvalue.Value).
NoDangling ==
  \A c \in captures :
    ~upvalues[c[1]].closed => bound[upvalues[c[1]].index] = c[2]

\* As long as every error closed the upvalues, as those under pcall alone do, none
\* is left open in a dropped frame (raiseError, Error).
NoDanglingUntilLeft == "left open" \notin failed => NoDangling

\* What every closure reads, and what the function that declared a variable
\* reads, is the value last assigned to the variable by any of them: "GopherLua
\* is a Lua5.1(+ `goto` statement in Lua5.2) VM" (README.rst:22).
Agreement ==
  /\ \A c \in captures : UpvalueValue(c[1]) = declared[c[2]]
  /\ \A r \in Register : bound[r] # 0 => reg[r] = declared[bound[r]]

\* Closures and functions agree on every variable as long as no error has been
\* raised, protected calls that succeed included (findUpvalue, closeUpvalues).
AgreementUntilError == failed = {} => Agreement
=============================================================================
