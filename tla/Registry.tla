------------------------------ MODULE Registry ------------------------------
(***************************************************************************)
(* The registry of an LState (state.go, registry) under the calls, tail    *)
(* calls, returns, metamethods and errors that share it: every frame is a  *)
(* window on it, given by the positions Base, LocalBase and ReturnBase     *)
(* that the frame remembers while the array moves and top goes up and      *)
(* down.  Which function has how many registers in use is what the         *)
(* compiler knows of Lua functions; a Go function uses those below top.    *)
(*                                                                         *)
(* The first frame stands for the host, which has no frame: its positions  *)
(* count from 0; it pushes values and makes protected calls of the lowest. *)
(* MaxFrames and MaxLive bound the programs.                               *)
(***************************************************************************)
EXTENDS RegistryArray

CONSTANTS Values,       \* what is stored, besides nil
          Functions,    \* [isG, np, vararg, used]
          Wants,        \* the numbers of results asked for
          InitialSize,
          MaxFrames, MaxLive

ASSUME SizeAssumption == InitialSize \in Nat \ {0}
ASSUME FunctionAssumption ==
    \A f \in Functions :
        /\ f.isG \in BOOLEAN /\ f.vararg \in BOOLEAN /\ f.np \in Nat /\ f.used \in Nat
        /\ IF f.isG THEN ~f.vararg ELSE f.np < f.used     \* patchCode's maxreg
ASSUME WantAssumption == Wants \subseteq Nat \cup {MultRet}
ASSUME BoundAssumption == MaxFrames \in Nat /\ MaxLive \in Nat
ASSUME NilAssumption == LNil \notin Values /\ Empty \notin Values

VARIABLES rg, frames, marks

vars == <<rg, frames, marks>>

-----------------------------------------------------------------------------
(* A value that is no function is called by way of __call and becomes the  *)
(* first argument.                                                         *)
WithCallee(r, meta, base) == IF meta THEN Insert(r, Get(r, base), base + 1) ELSE r
Arguments(nargs, meta) == IF meta THEN nargs + 1 ELSE nargs

(* NArgs of functions without extra arguments is not read again.           *)
callFrame(f, base, returnBase, nargs, want, into, tail) ==
    [f |-> f, base |-> base, localBase |-> LocalBaseOf(f, base + 1, nargs),
     returnBase |-> returnBase, nargs |-> IF f.vararg THEN nargs ELSE 0, want |-> want, into |-> into, tail |-> tail,
     live |-> IF f.isG THEN 0 ELSE f.np, open |-> FALSE]

-----------------------------------------------------------------------------
Host == [callFrame([isG |-> TRUE, vararg |-> FALSE], -1, 0, 0, 0, 0, FALSE) EXCEPT !.localBase = 0]

Init ==
    /\ rg = [array |-> [i \in 0..InitialSize - 1 |-> Empty], size |-> InitialSize, top |-> 0,
             overflow |-> FALSE]
    /\ frames = <<Host>>
    /\ marks = <<>>

cf == frames[Len(frames)]

(* The registers in use end at top in a Go function, and in a Lua function *)
(* after a call or ... that left a list of unknown length.                 *)
Live == IF cf.f.isG \/ cf.open THEN rg.top - cf.localBase ELSE cf.live
Register(k) == cf.localBase + k

(* The current frame, as the compiler of its function knows it.            *)
WithLive(n, open) ==
    IF cf.f.isG THEN frames ELSE [frames EXCEPT ![Len(frames)].live = n, ![Len(frames)].open = open]

(* raiseError makes room for its message by force; PCall recovers.         *)
Raised(r) ==
    LET s == IF IsFull(r) THEN forceResize(r, r.top + 1) ELSE r
    IN  Push([s EXCEPT !.overflow = FALSE], LNil)

Recovers(r) ==
    /\ marks # <<>>
    /\ rg' = SetTop(r, Last(marks).base)
    /\ frames' = SubSeq(frames, 1, Last(marks).sp)
    /\ marks' = Front(marks)

(* A step ends with these frames, or with the error of an overflow.        *)
Ends(r, newFrames, newMarks) ==
    IF r.overflow THEN Recovers(Raised(r))
    ELSE rg' = r /\ frames' = newFrames /\ marks' = newMarks

RaiseError == Recovers(Raised(rg))

(* An error that is no string is pushed as it is.                          *)
Thrown(r) == IF r.overflow THEN Raised(r) ELSE r
Error(v) == Recovers(Thrown(Push(rg, v)))

-----------------------------------------------------------------------------
(* Instructions of a Lua function that store a value: in a register it has *)
(* in use, or in the next one.  That may be one above its window, for      *)
(* patchCode does not count the registers of closures.                     *)
SetRegister(i, v) ==
    /\ ~cf.f.isG /\ ~cf.open
    /\ i <= Live /\ i < MaxLive
    /\ Ends(Set(rg, Register(i), v), WithLive(LargerOf(Live, i + 1), FALSE), marks)

(* The API of Go functions.                                                *)
Serves == cf.f.isG /\ Len(frames) > 1

APIPush(v) ==
    /\ cf.f.isG /\ Live < MaxLive
    /\ Ends(Push(rg, v), frames, marks)

APISetTop(n) ==
    /\ cf.f.isG /\ n <= Live + 1 /\ n <= MaxLive
    /\ Ends(SetTop(rg, Register(n)), frames, marks)

APIReplace(i, v) ==
    /\ Serves /\ i < Live
    /\ Ends(Set(rg, Register(i), v), frames, marks)

APIInsert(i, v) ==
    /\ Serves /\ i <= Live /\ Live < MaxLive
    /\ Ends(Insert(rg, v, Register(i)), frames, marks)

APIRemove(i) ==
    /\ Serves /\ i < Live
    /\ IF Register(i) = rg.top - 1 THEN Ends(Pop(rg), frames, marks)
       ELSE LET moved == [j \in Register(i)..rg.top - 2 |-> rg.array[j + 1]]
            IN  Ends(SetTop(Stored(rg, moved, rg.top), rg.top - 1), frames, marks)

-----------------------------------------------------------------------------
(* Register k holds what is called, the registers in use above it the      *)
(* arguments (OP_CALL, callR).                                             *)
NArgs(k) == Live - (k + 1)

Pushed(k, f, meta, want) ==
    Append(WithLive(k, FALSE),
           callFrame(f, Register(k), Register(k), Arguments(NArgs(k), meta), want, 0, FALSE))

Called(k, f, meta) ==
    initCallFrame(WithCallee(rg, meta, Register(k)), f, Register(k) + 1, Arguments(NArgs(k), meta))

(* nil is called by no program: that is an error like any other.           *)
Callable(k) == k < Live /\ Live <= MaxLive /\ Get(rg, Register(k)) # LNil
CanCall(k) == Callable(k) /\ Len(frames) < MaxFrames

Call(k, f, meta, want) ==
    /\ CanCall(k) /\ k + want <= MaxLive /\ Len(frames) > 1
    /\ Ends(Called(k, f, meta), Pushed(k, f, meta, want), marks)

(* PCall remembers how many frames there are, and the register it calls.   *)
PCall(k, f, meta, want) ==
    /\ CanCall(k) /\ k + want <= MaxLive /\ cf.f.isG /\ (Len(frames) = 1 => k = 0)
    /\ LET marked == Append(marks, [sp |-> Len(frames), base |-> Register(k)])
       IN  IF Called(k, f, meta).overflow
           THEN /\ rg' = SetTop(Raised(Called(k, f, meta)), Register(k))
                /\ frames' = WithLive(k, FALSE) /\ UNCHANGED marks
           ELSE Ends(Called(k, f, meta), Pushed(k, f, meta, want), marked)

(* objectArith and its like push a metamethod and its operands on top of   *)
(* the window, wherever the registers in use end.  One operand is nil here. *)
Metamethod(f, x, into) ==
    /\ ~cf.f.isG /\ ~cf.open /\ Len(frames) < MaxFrames
    /\ into <= Live /\ into < MaxLive
    /\ LET pushed == Push(Push(Push(rg, LNil), x), LNil)
       IN  Ends(IF pushed.overflow THEN pushed ELSE initCallFrame(pushed, f, rg.top + 1, 2),
                Append(frames, callFrame(f, rg.top, rg.top, 2, 1, into + 1, FALSE)), marks)

(* OP_TAILCALL of a Go function: a frame on top of the one it will replace. *)
TailCallGo(k, f, meta) ==
    /\ ~cf.f.isG /\ f.isG /\ CanCall(k)
    /\ Ends(Called(k, f, meta),
            Append(WithLive(0, FALSE),
                   callFrame(f, Register(k), cf.returnBase, Arguments(NArgs(k), meta),
                             cf.want, cf.into, TRUE)),
            marks)

(* OP_TAILCALL of a Lua function: its window is moved down to the base of  *)
(* the frame it takes over.                                                *)
MovedDown(r, ra, base) == CopyRange(r, base, ra, NoLimit, r.top - ra - 1)

TailCallLua(k, f, meta) ==
    /\ ~cf.f.isG /\ ~f.isG /\ Callable(k)
    /\ LET entered == Called(k, f, meta)
           new == callFrame(f, Register(k), cf.returnBase, Arguments(NArgs(k), meta),
                            cf.want, cf.into, cf.tail)
       IN  Ends(IF entered.overflow THEN entered ELSE MovedDown(entered, Register(k), cf.base),
                [frames EXCEPT ![Len(frames)] =
                    [new EXCEPT !.base = cf.base,
                                !.localBase = cf.base + (new.localBase - (Register(k) + 1) + 1)]],
                marks)

(* OP_VARARG: n of the extra arguments, which lie below the parameters.    *)
VarArgs == LargerOf(cf.nargs - cf.f.np, 0)

\* Mutant: the function below the arguments is forgotten.
FirstExtraBelow == cf.base + cf.f.np

FirstExtra == cf.base + cf.f.np + 1

VarArg(k, n) ==
    /\ cf.f.vararg /\ ~cf.open /\ k <= Live
    /\ LET wanted == IF n = MultRet THEN VarArgs ELSE n
       IN  /\ k + wanted <= MaxLive
           /\ Ends(CopyRange(rg, Register(k), FirstExtra, cf.localBase, wanted),
                   WithLive(k + wanted, n = MultRet), marks)

-----------------------------------------------------------------------------
(* The frame that goes on when the current one returns; a frame called by  *)
(* a tail call took the place of the one below it.                         *)
CallerIndex == Len(frames) - (IF cf.tail THEN 2 ELSE 1)
caller == frames[CallerIndex]

(* What callR does after the call, and who called it: for a metamethod,    *)
(* the instruction takes the result off the top and stores it.             *)
AfterCall(r) ==
    IF cf.into # 0
    THEN LET s == SetTop(r, cf.returnBase + cf.want)
         IN  Set(Pop(s), caller.localBase + cf.into - 1, Get(s, s.top - 1))
    ELSE IF caller.f.isG /\ cf.want # MultRet THEN SetTop(r, cf.returnBase + cf.want)
    ELSE r

Resumed(n) ==
    IF caller.f.isG THEN caller
    ELSE IF cf.into # 0 THEN [caller EXCEPT !.live = LargerOf(@, cf.into)]
    ELSE [caller EXCEPT !.live = cf.returnBase - caller.localBase + n, !.open = cf.want = MultRet]

Wanted(n) == IF cf.want = MultRet THEN n ELSE cf.want

Returns(r, n) ==
    Ends(IF r.overflow THEN r ELSE AfterCall(r),
         Append(SubSeq(frames, 1, CallerIndex - 1), Resumed(n)),
         IF marks # <<>> /\ Last(marks).sp = CallerIndex THEN Front(marks) ELSE marks)

(* OP_RETURN of the registers a..b-1, or of an open list (B is 0 then).    *)
Return(a, b) ==
    /\ ~cf.f.isG /\ a <= b /\ b <= Live
    /\ cf.open => b = Live
    /\ Returns(copyReturnValues(rg, cf.returnBase, Register(a), Wanted(b - a),
                                IF cf.open THEN 0 ELSE b - a + 1),
               Wanted(b - a))

(* callGFunction: the last n values.                                       *)
ReturnGo(n) ==
    /\ Serves /\ n <= Live
    /\ Returns(CopyRange(rg, cf.returnBase, rg.top - n, NoLimit, Wanted(n)), Wanted(n))

Lengths == 0..MaxLive \cup {MultRet}
LuaValues == Values \cup {LNil}

Next ==
    \/ \E i \in 0..MaxLive, v \in LuaValues :
        SetRegister(i, v) \/ APIReplace(i, v) \/ APIInsert(i, v)
    \/ \E v \in LuaValues : APIPush(v)
    \/ \E v \in Values : Error(v)
    \/ \E n \in 0..MaxLive : APISetTop(n) \/ APIRemove(n)
    \/ \E k \in 0..MaxLive, f \in Functions, meta \in BOOLEAN :
        \/ TailCallGo(k, f, meta) \/ TailCallLua(k, f, meta)
        \/ \E want \in Wants : Call(k, f, meta, want) \/ PCall(k, f, meta, want)
    \/ \E f \in Functions, x \in Values, into \in 0..MaxLive : Metamethod(f, x, into)
    \/ \E k \in 0..MaxLive, n \in Lengths : VarArg(k, n)
    \/ \E a, b \in 0..MaxLive + 1 : Return(a, b)
    \/ \E n \in 0..MaxLive + 1 : ReturnGo(n)
    \/ RaiseError

Spec == Init /\ [][Next]_vars

-----------------------------------------------------------------------------
Stores == LuaValues \cup {Empty}

(* The array has the size it is taken to have (no operation stores outside *)
(* of it), and top and the windows of all frames lie in it.                *)
TypeOK ==
    /\ rg.array \in [0..rg.size - 1 -> Stores]
    /\ rg.top \in 0..rg.size
    /\ rg.overflow = FALSE
    /\ \A k \in 1..Len(frames) :
        /\ frames[k].localBase \in 0..rg.top
        /\ frames[k].localBase + frames[k].live <= rg.top
    /\ \A m \in 1..Len(marks) : marks[m].sp \in 1..Len(frames) /\ marks[m].base \in 0..rg.top

(* Nothing below top is without a value, although the array is replaced    *)
(* by a larger one with only what is below top (TestUninitializedVarAccess *)
(* of state_test.go).                                                      *)
Initialised == \A i \in 0..rg.top - 1 : rg.array[i] # Empty

(* The functions of the program never see each other's registers, lose one *)
(* of their own or get a wrong argument or result.                         *)
InUse(k) ==
    IF ~frames[k].f.isG /\ ~frames[k].open THEN frames[k].live
    ELSE IF k = Len(frames) THEN rg.top - frames[k].localBase
    ELSE frames[k + 1].base - frames[k].localBase

Registers(from, n) == [i \in 1..n |-> rg.array[from + i - 1]]

Extra(k) ==
    IF frames[k].f.vararg
    THEN Registers(frames[k].base + frames[k].f.np + 1, LargerOf(frames[k].nargs - frames[k].f.np, 0))
    ELSE <<>>

CallOf(k) ==
    [f |-> frames[k].f, locals |-> Registers(frames[k].localBase, InUse(k)), extra |-> Extra(k),
     want |-> frames[k].want, into |-> frames[k].into, tail |-> frames[k].tail]

Abstract == INSTANCE LuaCalls WITH
    running <- CallOf(Len(frames)),
    callers <- [k \in 1..Len(frames) - 1 |-> CallOf(k)],
    marks <- [m \in 1..Len(marks) |-> marks[m].sp]

ImplementsLuaCalls == Abstract!Spec

(* README.rst: RegistryMaxSize is the maximum size the registry can grow   *)
(* to.                                                                     *)
WithinMaxSize == rg.size <= LargerOf(InitialSize, MaxSize)
=============================================================================
