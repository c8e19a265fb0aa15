----------------------------- MODULE Coroutines -----------------------------
(* The threads of a Lua state (state.go: Resume, Yield, NewThread, PCall,     *)
(* callR; vm.go: mainLoop, callGFunction, threadRun, switchToParentThread,    *)
(* OP_CALL, OP_TAILCALL, OP_RETURN).  Every thread has a call-frame stack of  *)
(* its own but all of them share the Go stack of one goroutine: a thread that *)
(* resumes another one, calls a function from Go or runs a metamethod does so *)
(* in nested activations, which the variable go lists.  A thread yields by    *)
(* returning from its mainLoop; the Go activations between that loop and the  *)
(* Resume that started it are still there, which is where things may go wrong.*)
(*                                                                            *)
(* Frames are reduced to the kind of their function, registers to the flag    *)
(* switchToParentThread pushes for Resume to read.  Tail calls of Lua         *)
(* functions reuse the frame and change nothing here.                         *)
EXTENDS Naturals, FiniteSets, SequencesExt

CONSTANTS
  Main,      \* the LState the host program made with NewState
  Cos,       \* the threads made with NewThread
  None,
  Habits,    \* what the host's Go functions and scripts do, see below
  MaxDepth,  \* slots of a call-frame stack (CallStackSize)
  MaxGo      \* bound: nested Go activations

\* "crossGo": yield below a Go function's Call or PCall or a metamethod;
\* "tailYield": the first function of a thread returns a yield;
\* "goMain": the first function of a thread is a Go function;
\* "resumeNormal": resume a thread that itself waits for a Resume;
\* "skipOpenLibs": the host opens no library, so that nothing was called yet.
AllHabits == {"crossGo", "tailYield", "goMain", "resumeNormal", "skipOpenLibs"}

ASSUME CoroutinesAssumption ==
  /\ Main \notin Cos
  /\ None \notin Cos \cup {Main}
  /\ Habits \subseteq AllHabits
  /\ MaxDepth \in Nat \ {0}
  /\ MaxGo \in Nat

Threads == Cos \cup {Main}

Kinds == {"Lua", "G"}

VARIABLES
  stack,         \* the frames of each thread
  currentFrame,  \* the slot of each thread's current frame, 0 for nil
  Parent,        \* who resumed the thread, None when it does not run
  Dead,          \* set by kill
  MainThread,    \* G.MainThread
  CurrentThread, \* G.CurrentThread
  go,            \* the Go activations, innermost last
  begun          \* history: the threads that were ever run

lstate == <<stack, currentFrame, Parent, Dead>>
vars == <<stack, currentFrame, Parent, Dead, MainThread, CurrentThread, go, begun>>

-----------------------------------------------------------------------------
(* Go activations. *)

\* mainLoop of t; base is the slot of baseframe, 0 for nil.
Loop(t, base) == [kind |-> "mainLoop", th |-> t, base |-> base]

\* A Go function called by callGFunction of t; its frame is in slot at.  via
\* says who called callGFunction: OP_CALL, OP_TAILCALL or mainLoop itself.
GFn(t, via, at) == [kind |-> "GFunction", th |-> t, via |-> via, at |-> at]

\* PCall of t with its deferred recovery; sp is the depth to restore.
Protected(t, sp) == [kind |-> "PCall", th |-> t, sp |-> sp]

\* Resume of co by t, with the deferred recovery of threadRun; got is the first
\* value switchToParentThread pushed on t's registry.
Resuming(t, co) == [kind |-> "Resume", th |-> t, co |-> co, got |-> "nothing"]

Top == go[Len(go)]
Running(kind) == go # <<>> /\ Top.kind = kind
Depth(t) == Len(stack[t])
\* Mutant: one frame too late.
LateHasRoom(t) == Depth(t) <= MaxDepth

HasRoom(t) == Depth(t) < MaxDepth
Kind(t) == IF currentFrame[t] \in 1 .. Depth(t) THEN stack[t][currentFrame[t]] ELSE "nil"

\* The thread whose code the goroutine executes.
Executing == IF go = <<>> THEN Main ELSE Top.th

\* t waits in a Resume of its own, or runs.
OnGoStack(t) == \E i \in 1 .. Len(go) : go[i].kind = "Resume" /\ t \in {go[i].th, go[i].co}

\* The innermost Resume of t receives the flag.
Delivered(acts, t, flag) ==
  LET waits == {i \in 1 .. Len(acts) : acts[i].kind = "Resume" /\ acts[i].th = t /\ acts[i].got = "nothing"}
  IN  IF waits = {} THEN acts ELSE [acts EXCEPT ![Max(waits)].got = flag]

\* The frames become fs, the current frame the last of them.
SetFrames(t, fs) ==
  /\ stack' = [stack EXCEPT ![t] = fs]
  /\ currentFrame' = [currentFrame EXCEPT ![t] = Len(fs)]

\* What mainLoop(t, base) does first: a Go function on top is called at once.
Enter(t, kind, base, slot) == IF kind = "G" THEN GFn(t, "mainLoop", slot) ELSE Loop(t, base)

-----------------------------------------------------------------------------
(* Switching and failing. *)

\* Mutant: Parent is not reset.
KeepsParent(t, fs, acts, flag, kill) ==
  /\ CurrentThread' = Parent[t]
  /\ SetFrames(t, Front(fs))
  /\ Dead' = [Dead EXCEPT ![t] = @ \/ kill]
  /\ go' = Delivered(acts, Parent[t], flag)
  /\ UNCHANGED <<Parent, MainThread, begun>>

\* Mutant: the thread that ends is not killed.
NeverKills(t, fs, acts, flag, kill) ==
  /\ CurrentThread' = Parent[t]
  /\ Parent' = [Parent EXCEPT ![t] = None]
  /\ SetFrames(t, Front(fs))
  /\ go' = Delivered(acts, Parent[t], flag)
  /\ UNCHANGED <<Dead, MainThread, begun>>

\* switchToParentThread: fs are the frames of t, acts the activations left when
\* its caller has returned.
SwitchToParentThread(t, fs, acts, flag, kill) ==
  /\ CurrentThread' = Parent[t]
  /\ Parent' = [Parent EXCEPT ![t] = None]
  /\ SetFrames(t, Front(fs))
  /\ Dead' = [Dead EXCEPT ![t] = @ \/ kill]
  /\ go' = Delivered(acts, Parent[t], flag)
  /\ UNCHANGED <<MainThread, begun>>

\* The activations whose deferred functions recover a panic: PCall always,
\* threadRun only when its thread still has a Parent.
Recovering == {i \in 1 .. Len(go) : \/ go[i].kind = "PCall"
                                    \/ go[i].kind = "Resume" /\ Parent[go[i].co] # None}

\* A Lua error or a Go panic unwinds the Go stack to the innermost recovery; the
\* host program ends when there is none.
Raise ==
  IF Recovering = {}
  THEN /\ go' = <<>>
       /\ UNCHANGED <<lstate, MainThread, CurrentThread, begun>>
  ELSE LET i == Max(Recovering)
           a == go[i]
       IN IF a.kind = "PCall"
          THEN /\ SetFrames(a.th, SubSeq(stack[a.th], 1, a.sp))
               /\ go' = SubSeq(go, 1, i - 1)
               /\ UNCHANGED <<Parent, Dead, MainThread, CurrentThread, begun>>
          ELSE SwitchToParentThread(a.co, stack[a.co], SubSeq(go, 1, i), "false", TRUE)

-----------------------------------------------------------------------------
(* Calls. *)

\* callR: a frame is pushed and mainLoop entered; acts are the activations so
\* far.  The first call of all makes its thread the main thread.
CallR(t, kind, acts) ==
  LET slot == Depth(t) + 1 IN
  /\ HasRoom(t)
  /\ Len(acts) < MaxGo
  /\ SetFrames(t, Append(stack[t], kind))
  /\ MainThread' = IF MainThread = None THEN t ELSE MainThread
  /\ CurrentThread' = IF MainThread = None THEN t ELSE CurrentThread
  /\ go' = Append(acts, Enter(t, kind, IF MainThread = None THEN 0 ELSE slot, slot))
  /\ begun' = begun \cup {t}
  /\ UNCHANGED <<Parent, Dead>>

PCall(t, kind) == CallR(t, kind, Append(go, Protected(t, Depth(t))))

\* The deferred function of PCall when nothing was raised.
PCallReturns ==
  /\ Running("PCall")
  /\ LET t == Top.th IN
     /\ stack' = [stack EXCEPT ![t] = SubSeq(@, 1, Top.sp)]
     /\ currentFrame' = IF Top.sp = 0 THEN [currentFrame EXCEPT ![t] = 0] ELSE currentFrame
  /\ go' = Front(go)
  /\ UNCHANGED <<Parent, Dead, MainThread, CurrentThread, begun>>

-----------------------------------------------------------------------------
(* Resume. *)

\* A frame is pushed for a thread that has none before anything is checked; a
\* started thread goes on with the frame on top.
Frames0(co, kind) == IF currentFrame[co] = 0 THEN Append(stack[co], kind) ELSE stack[co]

\* Mutant: kill is not looked at.
RejectsRunningOnly(co) == CurrentThread = co

\* Mutant: a thread may resume itself.
RejectsDeadOnly(co) == Dead[co]

Rejected(co) == CurrentThread = co \/ Dead[co]


ResumeRejected(co, kind) ==
  /\ Rejected(co)
  /\ Len(Frames0(co, kind)) <= MaxDepth
  /\ stack' = [stack EXCEPT ![co] = Frames0(co, kind)]
  /\ UNCHANGED <<currentFrame, Parent, Dead, MainThread, CurrentThread, go, begun>>

\* Resume does not ask IsFull: Push panics.
ResumePanics(co, kind) == Len(Frames0(co, kind)) > MaxDepth /\ Raise

ResumeRuns(t, co, kind) ==
  LET fs == Frames0(co, kind)
      frame == IF currentFrame[co] = 0 THEN Len(fs) ELSE currentFrame[co]
  IN
  /\ ~Rejected(co)
  /\ Len(fs) <= MaxDepth
  /\ Len(go) < MaxGo - 1
  /\ SetFrames(co, fs)
  /\ Parent' = [Parent EXCEPT ![co] = t]
  /\ CurrentThread' = co
  /\ go' = go \o (IF fs = <<>> THEN <<Resuming(t, co)>>
                  ELSE <<Resuming(t, co), Enter(co, Last(fs), 0, Len(fs))>>)
  /\ begun' = begun \cup {co}
  /\ UNCHANGED <<Dead, MainThread>>

Resume(t, co, kind) ==
  /\ "resumeNormal" \in Habits \/ co = Executing \/ ~OnGoStack(co)
  /\ "goMain" \in Habits \/ kind = "Lua"
  /\ ResumeRejected(co, kind) \/ ResumePanics(co, kind) \/ ResumeRuns(t, co, kind)

\* Mutant: an error is looked for after the frames.
OutcomeByFrames(a) ==
  IF stack[a.co] # <<>> THEN "ResumeYield"
  ELSE IF a.got = "true" THEN "ResumeOK" ELSE "ResumeError"

\* What Resume returns: a missing flag reads as nil, hence as an error.
Outcome(a) ==
  IF a.got # "true" THEN "ResumeError"
  ELSE IF stack[a.co] = <<>> THEN "ResumeOK" ELSE "ResumeYield"

ResumeReturns ==
  /\ Running("Resume")
  /\ go' = Front(go)
  /\ UNCHANGED <<lstate, MainThread, CurrentThread, begun>>

-----------------------------------------------------------------------------
(* The instructions of a Lua function. *)

InLua == Running("mainLoop") /\ Kind(Top.th) = "Lua"

OpCall ==
  /\ InLua
  /\ LET t == Top.th IN
     /\ HasRoom(t)
     /\ \E kind \in Kinds :
          /\ kind = "G" => Len(go) < MaxGo
          /\ SetFrames(t, Append(stack[t], kind))
          /\ go' = IF kind = "G" THEN Append(go, GFn(t, "OP_CALL", Depth(t) + 1)) ELSE go
  /\ UNCHANGED <<Parent, Dead, MainThread, CurrentThread, begun>>

OpTailCall ==
  /\ InLua
  /\ LET t == Top.th IN
     /\ HasRoom(t)
     /\ Len(go) < MaxGo
     /\ SetFrames(t, Append(stack[t], "G"))
     /\ go' = Append(go, GFn(t, "OP_TAILCALL", Depth(t) + 1))
  /\ UNCHANGED <<Parent, Dead, MainThread, CurrentThread, begun>>

\* An instruction runs a metamethod: callR without a Go function in between.
OpMetamethod == InLua /\ \E kind \in Kinds : CallR(Top.th, kind, go)

\* A thread's first function ends only when it is the last one left.
EndsThread(t, fs) == Parent[t] # None /\ Len(fs) = 1

\* The frame of the call this mainLoop was entered for, or the last of all.
IsLast(base, fs) == base = Len(fs) \/ Len(fs) = 1

OpReturn ==
  /\ InLua
  /\ LET t == Top.th
         fs == stack[t]
         rest == Front(fs)
     IN IF EndsThread(t, fs)
        THEN SwitchToParentThread(t, fs, Front(go), "true", TRUE)
        ELSE /\ SetFrames(t, rest)
             /\ go' = IF IsLast(Top.base, fs) \/ Last(rest) = "G" THEN Front(go) ELSE go
             /\ UNCHANGED <<Parent, Dead, MainThread, CurrentThread, begun>>

-----------------------------------------------------------------------------
(* What a Go function does, and what callGFunction does when it ends. *)

InGo == Running("GFunction")

GoCall == InGo /\ \E kind \in Kinds : CallR(Top.th, kind, go)

GoPCall == InGo /\ \E kind \in Kinds : PCall(Top.th, kind)

GoResume == InGo /\ \E co \in Threads, kind \in Kinds : Resume(Top.th, co, kind)

\* RemoveCallerFrame: the frame on top takes the slot below it.
WithoutCaller(fs) == Append(SubSeq(fs, 1, Len(fs) - 2), Last(fs))

FramesAfter(a) == IF a.via = "OP_TAILCALL" THEN WithoutCaller(stack[a.th]) ELSE stack[a.th]

\* callGFunction returned true: so does its caller.
Abandoned(a) == IF a.via = "mainLoop" THEN Front(go) ELSE Front(Front(go))

GoReturns ==
  /\ InGo
  /\ LET a == Top
         t == a.th
         fs == FramesAfter(a)
         rest == Front(fs)
         endsLoop == /\ a.via = "OP_TAILCALL"
                     /\ \/ rest = <<>> \/ Last(rest) = "G"
                        \/ go[Len(go) - 1].base = a.at - 1
     IN IF a.via = "OP_TAILCALL" /\ EndsThread(t, fs)
        THEN SwitchToParentThread(t, fs, Abandoned(a), "true", TRUE)
        ELSE /\ SetFrames(t, rest)
             /\ go' = IF endsLoop THEN Abandoned(a) ELSE Front(go)
             /\ UNCHANGED <<Parent, Dead, MainThread, CurrentThread, begun>>

\* Only the mainLoop of the Resume is left when the yield returns.
DirectlyResumed ==
  LET i == Len(go) - (IF Top.via = "mainLoop" THEN 1 ELSE 2)
  IN  Parent[Top.th] # None => i > 0 /\ go[i].kind = "Resume" /\ go[i].co = Top.th

FirstFunction == Len(FramesAfter(Top)) = 1

\* return L.Yield(...).
GoYields ==
  /\ InGo
  /\ "crossGo" \in Habits \/ DirectlyResumed
  /\ Habits \cap {"tailYield", "goMain"} # {} \/ Parent[Top.th] = None \/ ~FirstFunction
  /\ LET t == Top.th IN
     IF Parent[t] = None
     THEN Raise
     ELSE SwitchToParentThread(t, FramesAfter(Top), Abandoned(Top), "true", FALSE)

\* Any Lua error, any Go panic, the nil dereference of a mainLoop whose current
\* frame is no Lua function included.
Fails == (Running("mainLoop") \/ InGo) /\ Raise

-----------------------------------------------------------------------------
(* The host program, outside all of its LStates. *)

HostCalls == go = <<>> /\ \E kind \in Kinds : PCall(Main, kind)

HostResumes == go = <<>> /\ \E co \in Cos, kind \in Kinds : Resume(Main, co, kind)

Init ==
  /\ stack = [t \in Threads |-> <<>>]
  /\ currentFrame = [t \in Threads |-> 0]
  /\ Parent = [t \in Threads |-> None]
  /\ Dead = [t \in Threads |-> FALSE]
  /\ MainThread = IF "skipOpenLibs" \in Habits THEN None ELSE Main
  /\ CurrentThread = MainThread
  /\ go = <<>>
  /\ begun = {}

Next ==
  \/ HostCalls \/ HostResumes
  \/ OpCall \/ OpTailCall \/ OpMetamethod \/ OpReturn
  \/ GoCall \/ GoPCall \/ GoResume \/ GoReturns \/ GoYields
  \/ Fails \/ PCallReturns \/ ResumeReturns

Spec == Init /\ [][Next]_vars

-----------------------------------------------------------------------------
\* Activations and threads have their shapes, frames stay within the stack.
TypeOK ==
  /\ \A t \in Threads : /\ stack[t] \in Seq(Kinds)
                        /\ Depth(t) <= MaxDepth
                        /\ currentFrame[t] \in 0 .. MaxDepth
  /\ Parent \in [Threads -> Threads \cup {None}]
  /\ Dead \in [Threads -> BOOLEAN]
  /\ {MainThread, CurrentThread} \subseteq Threads \cup {None}
  /\ \A i \in 1 .. Len(go) : go[i].th \in Threads
  /\ begun \subseteq Threads

\* A Go function whose Call, PCall or Resume came back finds its own frame on
\* top again, and a mainLoop a Lua function (callGFunction and OP_RETURN pop
\* "the" frame without looking at it).
FrameOnTop ==
  go # <<>> /\ Top.kind \in {"mainLoop", "GFunction"} =>
    LET t == Top.th IN
    /\ currentFrame[t] = Depth(t)
    /\ Depth(t) > 0
    /\ Kind(t) = IF Top.kind = "mainLoop" THEN "Lua" ELSE "G"
    /\ Top.kind = "GFunction" => Top.at = Depth(t)

\* The thread whose code runs is G.CurrentThread (switchToParentThread and Resume
\* keep them together through yields, ends and errors at any depth).
ExecutingIsCurrent == begun # {} /\ go # <<>> => CurrentThread = Executing

\* Parent names the thread whose Resume waits for this one, exactly while it
\* waits; a thread that is not being run has none.
ParentIsResumer ==
  \A t \in Threads :
    Parent[t] # None <=> \E i \in 1 .. Len(go) : /\ go[i].kind = "Resume"
                                                 /\ go[i].co = t
                                                 /\ go[i].th = Parent[t]
                                                 /\ go[i].got = "nothing"

\* The Go activations and the threads are in step: what lies on the Go stack
\* finds its frame on top again, runs as the current thread, and every thread
\* knows the one whose Resume waits for it.
ActivationsMatchThreads == FrameOnTop /\ ExecutingIsCurrent /\ ParentIsResumer

\* A thread that was run and is not being run either has frames to go on with,
\* or is dead: no Resume starts its function again.
FinishedIsDead ==
  \A t \in begun \cap Cos : OnGoStack(t) \/ Dead[t] \/ stack[t] # <<>>

\* Resume says ResumeYield of a thread that can be resumed again, and ResumeOK
\* or ResumeError of one that cannot.
ReportsStatus ==
  [][ResumeReturns => (Outcome(Top) = "ResumeYield" <=> ~Dead[Top.co])]_vars

\* A thread is in one Resume at a time: its Go activations never interleave
\* with those of an earlier Resume.
ResumedOnce ==
  \A i, j \in 1 .. Len(go) :
    go[i].kind = "Resume" /\ go[j].kind = "Resume" /\ go[i].co = go[j].co => i = j

\* A thread that runs above a Resume is inside of a coroutine: it has a Parent
\* to yield to, switchToParentThread does not refuse it as being outside.
InsideHasParent ==
  \A i \in 1 .. Len(go) - 1 : go[i].kind = "Resume" => Parent[go[i].co] # None

\* Resume of a dead thread can always answer that it is dead: the frame it
\* pushes before it looks finds room.
DeadIsReported == \A t \in Cos : Dead[t] => Len(Frames0(t, "Lua")) <= MaxDepth

\* The threads take turns as asymmetric coroutines do.
Turns == INSTANCE AsymmetricCoroutines WITH
  running <- IF CurrentThread = None THEN Main ELSE CurrentThread,
  resumer <- Parent,
  dead <- {t \in Threads : Dead[t]}

TakesTurns == Turns!Spec
=============================================================================
