------------------------------ MODULE LuaCalls ------------------------------
(***************************************************************************)
(* What the functions of an LState may rely on: each running function has  *)
(* values of its own, which only it changes; a call hands over arguments,  *)
(* a return hands back as many results as were asked for, and an error     *)
(* that is caught leaves the function that catches it its values.          *)
(*                                                                         *)
(* callers[1] is the host program, unless that is what runs.               *)
(***************************************************************************)
EXTENDS Integers, SequencesExt

CONSTANTS Values, LNil, Functions,
          Wants,      \* the numbers of results asked for
          Lengths     \* the numbers of extra arguments asked for

MultRet == -1   \* "as many results as there are"

VARIABLES running, callers, marks

(* n values: those of s, nil for those it lacks.                           *)
Adjusted(s, n) ==
    IF n = MultRet THEN s ELSE [i \in 1..n |-> IF i <= Len(s) THEN s[i] ELSE LNil]

(* A function f runs with these arguments; want results go to its caller,  *)
(* into the variable number into or, if that is 0, behind its variables.   *)
Entered(f, args, want, into, tail) ==
    [f |-> f,
     locals |-> IF f.isG THEN args ELSE Adjusted(args, f.np),
     extra |-> IF f.vararg THEN SubSeq(args, f.np + 1, Len(args)) ELSE <<>>,
     want |-> want, into |-> into, tail |-> tail]

Host == Entered([isG |-> TRUE, vararg |-> FALSE], <<>>, 0, 0, FALSE)

Init == running = Host /\ callers = <<>> /\ marks = <<>>

Locals == running.locals

Becomes(locals) ==
    /\ running' = [running EXCEPT !.locals = locals]
    /\ UNCHANGED <<callers, marks>>

(* Lua or Go code sets, adds, inserts, removes or drops a value.           *)
Assign(i, v) == Becomes(IF i = Len(Locals) + 1 THEN Append(Locals, v) ELSE ReplaceAt(Locals, i, v))
Insert(i, v) == Becomes(InsertAt(Locals, i, v))
DropAt(i) == Becomes(RemoveAt(Locals, i))
SetTop(n) == Becomes(Adjusted(Locals, n))

(* The first k variables, then n of the extra arguments.                   *)
VarArg(k, n) == Becomes(SubSeq(Locals, 1, k) \o Adjusted(running.extra, n))

(* Values k + 2 and the following are the arguments of a call of value     *)
(* k + 1, which is an argument too if it is called by way of __call.       *)
ArgumentsAt(k, meta) == SubSeq(Locals, IF meta THEN k + 1 ELSE k + 2, Len(Locals))

Suspended(locals) == callers' = Append(callers, [running EXCEPT !.locals = locals])

HandOver(k, f, meta, want) ==
    /\ running' = Entered(f, ArgumentsAt(k, meta), want, 0, FALSE)
    /\ Suspended(SubSeq(Locals, 1, k))

Call(k, f, meta, want) == HandOver(k, f, meta, want) /\ UNCHANGED marks

ProtectedCall(k, f, meta, want) ==
    /\ HandOver(k, f, meta, want)
    /\ marks' = Append(marks, Len(callers) + 1)

(* An instruction calls a metamethod for its result.                       *)
Metamethod(f, args, into) ==
    /\ running' = Entered(f, args, 1, into, FALSE)
    /\ Suspended(Locals)
    /\ UNCHANGED marks

(* A Go function keeps the function it replaces as its caller, for the     *)
(* time it runs.                                                           *)
TailCall(k, f, meta) ==
    /\ ~running.f.isG
    /\ running' = Entered(f, ArgumentsAt(k, meta), running.want, running.into,
                          IF f.isG THEN TRUE ELSE running.tail)
    /\ IF f.isG THEN Suspended(<<>>) ELSE UNCHANGED callers
    /\ UNCHANGED marks

CallerIndex == Len(callers) - (IF running.tail THEN 1 ELSE 0)
Receives(locals, results) ==
    IF running.into \in 1..Len(locals) THEN ReplaceAt(locals, running.into, results[1])
    ELSE locals \o results

(* Values a..b are returned.                                               *)
Return(a, b) ==
    /\ callers # <<>>
    /\ running' = [callers[CallerIndex] EXCEPT
                    !.locals = Receives(@, Adjusted(SubSeq(Locals, a, b), running.want))]
    /\ callers' = SubSeq(callers, 1, CallerIndex - 1)
    /\ marks' = IF marks # <<>> /\ Last(marks) = CallerIndex THEN Front(marks) ELSE marks

(* An error is caught by the innermost protected call.                     *)
Fail ==
    /\ marks # <<>>
    /\ running' = (callers \o <<running>>)[Last(marks)]
    /\ callers' = SubSeq(callers, 1, Last(marks) - 1)
    /\ marks' = Front(marks)

Count == Len(Locals)

OwnStep ==
    \/ \E i \in 1..Count + 1, v \in Values \cup {LNil} : Assign(i, v) \/ Insert(i, v)
    \/ \E i \in 1..Count : DropAt(i)
    \/ \E n \in 0..Count + 1 : SetTop(n)
    \/ \E k \in 0..Count, n \in Lengths : VarArg(k, n)

CallStep ==
    \/ \E k \in 0..Count - 1, f \in Functions, meta \in BOOLEAN, want \in Wants :
        Call(k, f, meta, want) \/ ProtectedCall(k, f, meta, want)
    \/ \E k \in 0..Count - 1, f \in Functions, meta \in BOOLEAN : TailCall(k, f, meta)
    \/ \E f \in Functions, x, y \in Values \cup {LNil}, into \in 1..Count + 1 : Metamethod(f, <<x, y>>, into)

Depth == Len(callers)

(* What Depth does follows from the step; it is said first for TLC.        *)
Next ==
    \/ Depth' = Depth /\ OwnStep
    \/ Depth' \in {Depth, Depth + 1} /\ CallStep
    \/ Fail
    \/ Depth' < Depth /\ \E a \in 1..Count + 1, b \in 0..Count : Return(a, b)

Spec == Init /\ [][Next]_<<running, callers, marks>>
=============================================================================
