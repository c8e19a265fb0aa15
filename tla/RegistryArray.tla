--------------------------- MODULE RegistryArray ----------------------------
(***************************************************************************)
(* The operations of a registry (state.go, registry): an array with a size, *)
(* a top, and whether it had to grow beyond its limit; and initCallFrame,  *)
(* which prepares the registers of a function.                             *)
(***************************************************************************)
EXTENDS Integers, FiniteSets, SequencesExt

CONSTANTS LNil,         \* Lua's nil
          Empty,        \* Go's nil: no value at all
          GrowBy, MaxSize

ASSUME GrowAssumption == GrowBy \in Nat /\ MaxSize \in Nat /\ LNil # Empty

MultRet == -1

LargerOf(m, n) == IF m > n THEN m ELSE n
SmallerOf(m, n) == IF m < n THEN m ELSE n

(* The values of f, and those of g where f has none.                       *)
Overlay(f, g) == [i \in DOMAIN f \cup DOMAIN g |-> IF i \in DOMAIN f THEN f[i] ELSE g[i]]
Single(i, v) == [j \in {i} |-> v]

-----------------------------------------------------------------------------
(* The operations of the registry.  An overflow raises a Lua error: what   *)
(* an operation would do after it is not done.                             *)
forceResize(r, size) ==
    [r EXCEPT !.array = [i \in 0..size - 1 |-> IF i < r.top THEN r.array[i] ELSE Empty],
              !.size = size]

PaddedSize(required) == SmallerOf(required + GrowBy, MaxSize)

resize(r, required) ==
    IF PaddedSize(required) < required THEN [r EXCEPT !.overflow = TRUE]
    ELSE forceResize(r, PaddedSize(required))

checkSize(r, required) ==
    IF r.overflow \/ required <= r.size THEN r ELSE resize(r, required)

(* The values of contents are stored; top moves.                           *)
Stored(r, contents, top) ==
    IF r.overflow THEN r
    ELSE [r EXCEPT !.array = Overlay(contents, @), !.top = top]

(* As Stored, and what is left above the new top is cleared.               *)
Cleared(r, contents, top) ==
    Stored(r, Overlay([i \in top..r.top - 1 |-> Empty], contents), top)

Nils(from, to) == [i \in from..to - 1 |-> LNil]

SetTop(r, topi) == LET s == checkSize(r, topi) IN Cleared(s, Nils(s.top, topi), topi)

Push(r, v) == LET s == checkSize(r, r.top + 1) IN Stored(s, Single(s.top, v), s.top + 1)

Pop(r) == Stored(r, Single(r.top - 1, LNil), r.top - 1)

Get(r, reg) == r.array[reg]

\* Mutant: no room is made.
SetUnchecked(r, regi, v) == Stored(r, Single(regi, v), LargerOf(r.top, regi + 1))

Set(r, regi, v) == LET s == checkSize(r, regi + 1) IN Stored(s, Single(regi, v), LargerOf(s.top, regi + 1))

(* The loop that moves values up by one stores the last of them first, so  *)
(* that only its first step can need room.                                 *)
Insert(r, v, reg) ==
    LET s == checkSize(r, r.top + 1)
    IN  IF reg >= r.top THEN Set(r, reg, v)
        ELSE Stored(s, [i \in reg..s.top |-> IF i = reg THEN v ELSE s.array[i - 1]], s.top + 1)

FillNil(r, regm, n) == Cleared(checkSize(r, regm + n), Nils(regm, regm + n), regm + n)

(* One value after the other, from below: a value that was overwritten is  *)
(* not seen any more.                                                      *)
NoLimit == -1
CopyRange(r, regv, start, limit, n) ==
    LET s == checkSize(r, regv + n)
        end == IF limit = NoLimit \/ limit > s.top THEN s.top ELSE limit
        copied[i \in regv..regv + n - 1] ==
            LET src == start + (i - regv)
            IN  IF src >= end \/ src < 0 THEN LNil
                ELSE IF src \in regv..i - 1 THEN copied[src]
                ELSE s.array[src]
    IN  Cleared(s, copied, regv + n)

IsFull(r) == r.top >= r.size

copyReturnValues(r, regv, start, n, b) ==
    IF b = 1 THEN FillNil(r, regv, n)
    ELSE IF b > 1 /\ n > b - 1
    THEN FillNil(CopyRange(r, regv, start, NoLimit, n), regv + b - 1, n - (b - 1))
    ELSE CopyRange(r, regv, start, NoLimit, n)

-----------------------------------------------------------------------------
(* initCallFrame: the registers of a function that is called with nargs    *)
(* arguments at lbase, given of them or as many as it has parameters.      *)

\* Mutant: top stays where it is, so that a resize loses what was stored.
MissingAboveTop(r, f, lbase, nargs) ==
    IF nargs >= f.np THEN r
    ELSE Stored(checkSize(r, lbase + f.np), Nils(lbase + nargs, lbase + f.np), r.top)

Missing(r, f, lbase, nargs) ==
    IF nargs >= f.np THEN r
    ELSE Stored(checkSize(r, lbase + f.np), Nils(lbase + nargs, lbase + f.np), lbase + f.np)

FixedWindow(r, f, lbase, given) ==
    LET end == lbase + LargerOf(given, f.used)
    IN  Stored(checkSize(r, end), Nils(lbase + f.np, end), lbase + f.used)

(* The parameters move above the extra arguments.                          *)
Swapped(r, f, lbase, given) ==
    Stored(r, Overlay([i \in lbase..lbase + f.np - 1 |-> LNil],
                   [i \in lbase + given..lbase + given + f.np - 1 |-> r.array[i - given]]),
           r.top)

ArgSlot(r, f, lbase, given) ==
    Stored(r, Single(lbase + given + f.np, LNil), r.top)

VarArgWindow(r, f, lbase, given) ==
    LET moved == Swapped(SetTop(r, lbase + given + f.np), f, lbase, given)
        slotted == ArgSlot(SetTop(moved, lbase + given + f.np + 1), f, lbase, given)
    IN  SetTop(slotted, lbase + given + f.used)

initCallFrame(r, f, lbase, nargs) ==
    IF f.isG THEN SetTop(r, lbase + nargs)
    ELSE IF f.vararg THEN VarArgWindow(Missing(r, f, lbase, nargs), f, lbase, LargerOf(nargs, f.np))
    ELSE FixedWindow(Missing(r, f, lbase, nargs), f, lbase, LargerOf(nargs, f.np))

LocalBaseOf(f, lbase, nargs) == IF f.vararg THEN lbase + LargerOf(nargs, f.np) ELSE lbase
=============================================================================
