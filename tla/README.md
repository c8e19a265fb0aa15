# TLA+ models of lua-solvm

lua-solvm is a fork of GopherLua: a Lua 5.1 compiler and virtual machine in Go,
to be embedded in a host program. This directory models the parts of it whose
correctness is a matter of protocol: who owns which call frame, register,
upvalue and thread at each moment, through calls, tail calls, errors, protected
calls and coroutines; and the compiler with the instructions it writes, compared with
what Lua programs mean. Everything is translated from the Go sources of the
repository root (package `lua`); `state.go` and `vm.go` are the files that are
built. `_state.go` and `_vm.go` are their templates for the inlining tool
`_tools/go-inline`; they are not compiled, and `_vm.go` has drifted from `vm.go`
(in `mainLoop` and `stringConcat`), so that the models follow the former.

## 1. Inventory

| component | state | operations | interacts with |
|---|---|---|---|
| call-frame stacks (`state.go` 133-360) | fixed array and `sp`, or segments, `segIdx`, `segSp`, the process-wide `segmentPool` | `Push`, `Pop`, `SetSp`, `Last`, `At`, `IsFull`, `FreeAll`, `RemoveCallerFrame` | every call and return; `PCall` unwinds it |
| registry (`state.go` 366-650) | `array`, `top`, growth limits, a number allocator | `Push`, `Pop`, `SetTop`, `Set`, `Insert`, `CopyRange`, `FillNil`, `resize` | frames are windows on it; open upvalues point into it |
| closures and upvalues (`function.go`, `state.go` 948-994, `vm.go` CLOSURE, CLOSE, GETUPVAL, SETUPVAL) | `uvcache`, the sorted list of open upvalues | `findUpvalue`, `closeUpvalues`, `Value`, `SetValue`, `Close` | registry, calls, errors |
| protected calls and errors (`state.go` `PCall`, `raiseError`, `Error`; `baselib.go` pcall, xpcall, error) | `Panic`, `hasErrorFunc`, the depths saved by nested PCalls | `PCall`, `raiseError`, the error handler | frames, registry, upvalues, Go panics |
| coroutines (`state.go` `NewThread`, `Resume`, `Yield`, `kill`; `vm.go` `switchToParentThread`, `threadRun`, `mainLoop`, `callGFunction`) | per thread `stack`, `currentFrame`, `Parent`, `Dead`; `G.CurrentThread`, `G.MainThread`; the nesting of Go activations | resume, yield, end, fail | everything above |
| contexts (`state.go` `SetContext`, `vm.go` `mainLoopWithContext`) | `ctx`, `ctxCancelFn` | cancellation between instructions | coroutines, channels |
| tables (`table.go`) | `array`, `strdict`, `dict`, `keys`, `k2i` | raw get and set, `Append`, `Insert`, `Remove`, `Next`, `Len` | every library |
| channels (`channellib.go`) | a Go channel of LValues | `make`, `send`, `receive`, `select`, `close` | several LStates in several goroutines |
| instructions (`vm.go` jumpTable, `opcode.go`) | registers of the frame | arithmetic, comparison, loops, table access, metamethods | all of the above |
| compiler (`compile.go`) | registers in use, blocks, labels, pending jumps, constants | code generation, `patchCode` | parser, instructions |
| parser and lexer (`parse/`, `ast/`) | input position, token | scanning, a goyacc grammar | compiler |
| pattern matcher (`pm/pm.go`) | captures; process-wide `globalPatternCache` and `globalDFACache` | `Find`: cache, literal search, parser, compiler, backtracking machine | string library; every LState of the process |
| module loader (`baselib.go` `loRequire`, `loadlib.go`) | `package.loaded`, `package.preload` | `require`, `module` | protected calls |
| libraries (`baselib.go`, `stringlib.go`, `tablelib.go`, `mathlib.go`, `oslib.go`, `iolib.go`, `auxlib.go`) | open files | one Go function each | LState API |
| allocator (`alloc.go`) | blocks of preallocated numbers | `LNumber2I` | registry |
| profiling structures (`function.go` `CallGraph`) | edges, costs | none is called | nothing |
| command line tools (`cmd/`) | none | read, evaluate, print | LState API |

What is hard in this code: a Go program that recovers from panics at any depth
and has to put four structures back in step (frames, registry, upvalues, thread
links); threads that share one Go stack; positions kept as numbers (`sp`, `base`,
`segSp`) that are read after the thing they point to has moved; boundaries of
segments and of the registry; and memory shared between LStates of different
goroutines (the segment pool, channels).

What makes each component correct:

- frame stacks: the two implementations are the same bounded stack, PCall gets back
  the depth it saved, no segment is in two places;
- registry: a register read was written by the frame that owns it, growth keeps the
  contents, the limit is reported as a Lua error;
- closures: all closures of a variable, and its function, see one value; an upvalue
  is closed before its register is reused;
- protected calls: frames, registers, upvalues and handler flags after the call are
  those before it, whatever went wrong inside;
- coroutines: one thread runs, resumers are found again, a thread that ended says so;
- contexts: an LState whose context is cancelled stops;
- tables: a map, its lists and its traversal, whichever half a key lies in;
- channels: no value is lost or invented, none leaves its goroutine that must not;
- instructions: each does what Lua's manual says, metamethods included;
- compiler: no two live variables share a register, every jump lands where its label
  is, an operand fits its field;
- lexer: every input ends in tokens or an error;
- pattern matcher: the match Lua prefers, from each position asked for, whatever was
  asked before;
- module loader: a module is loaded once, a loop is reported, and a failure is not
  remembered as a loop;
- allocator: a number handed out is never written again.

## 2. Modules

| module | models | built on |
|---|---|---|
| `CallFrameStack` | what an LState asks of a call-frame stack (abstract) | |
| `FixedFrameStack` | `fixedCallFrameStack` under calls, returns, tail calls, PCall | refines `CallFrameStack` |
| `AutoGrowFrameStack` | `autoGrowingCallFrameStack` of several LStates and `segmentPool` | refines `CallFrameStack`, per LState |
| `FixedFrameStackProofs`, `AutoGrowFrameStackProofs` | theorems about the two | |
| `Upvalues` | closures, `uvcache`, pcall and xpcall, `raiseError` | |
| `UpvaluesProofs` | theorems about it | |
| `AsymmetricCoroutines` | what coroutines promise (abstract) | |
| `Coroutines` | threads, their frames and the Go activations between them | refines `AsymmetricCoroutines` |
| `CoroutinesProofs` | theorems about it | |
| `LuaTable` | a map with list operations and a traversal (abstract) | |
| `LTable` | `LTable`'s array, hash, `keys` and `k2i` | refines `LuaTable` |
| `LTableProofs` | theorems about it | |
| `LuaPatterns` | what Lua's patterns match, declaratively (reference) | |
| `PatternMatcher` | parser, compiler, machine and literal search of `pm` | compared with `LuaPatterns` |
| `PatternCache` | the two caches of `pm.Find`, called from several goroutines, for any searcher | |
| `PatternCacheProofs` | theorems about it | |
| `PatternFind` | `pm.Find`: the caches with the searcher of `pm` | `PatternMatcher`, `PatternCache` |
| `Channels` | `channellib.go` and contexts, several LStates | |
| `ChannelsProofs` | theorems about it | |
| `LuaCalls` | the variables, arguments and results of functions that call each other (abstract) | |
| `RegistryArray` | the operations of the struct `registry`, and `initCallFrame` | |
| `Registry` | the registry and the windows of frames on it | `RegistryArray`; refines `LuaCalls` |
| `RegistryProofs` | theorems about it | |
| `Syntax` | the syntax trees of `ast/`, and Lua's values | |
| `Compiler` | `compile.go`: from a tree to prototypes and instructions | `Syntax` |
| `LuaSemantics` | what a program means by the manual: cells and scopes, no registers (reference) | `Syntax` |
| `VirtualMachine` | `vm.go`'s instructions, running compiled programs | `Compiler`, `RegistryArray`; compared with `LuaSemantics` |
| `MCPrograms` | the programs: those compiled right, by family, and one for each way to go wrong | `Compiler`, `LuaSemantics` |
| `MC...` | constants for TLC | the module they are named after |

How state and actions correspond to the code:

**Frame stacks.** `FixedFrameStack`: `array` and `sp` are the fields of the struct,
`marks` the local variable `sp` of each PCall in progress. The operations of the
structure (`Push`, `Pop`, `SetSp`, `RemoveCallerFrame`) are operators; the actions are
the uses the LState makes of them: `Call` (`pushCallFrame`), `Return`, `TailCall`
(`callGFunction` with `tailcall`), `Protect`, `ProtectFails`, `ReturnProtected` and
`Raise` (the ways in and out of `PCall`). `AutoGrowFrameStack` has the same actions for
each of its LStates and `Close`. Segments are objects with an identity, `segments[t]`
holds pointers, so that a segment in two stacks would be seen. `sync.Pool` may drop what
it holds: `NewSegment` chooses from the pool or from the segments in no stack.

**Upvalues.** `reg` is the registry cut into frames of `FrameSize` registers; `upvalues`
the objects, `uvcache` the linked list of the open ones, `pcalls` the activations of
`PCall` with the `sp` and `base` they restore. What the program text says is kept in
`declared`, `bound` and `captures`: the value last assigned to a variable, the variable a
register holds, which closure captured which variable. The safety properties relate the
two. An error is one action: `Catch` (raise, close, recover, unwind) or `CallHandler`
(raise, close, recover, push the handler), since nothing else runs in between.

**Coroutines.** All threads share one Go stack: `go` is the list of activations of
`mainLoop`, a Go function, `PCall` and `Resume` on it. Every action is one instruction or
one return of such an activation. `SwitchToParentThread` is `vm.go`'s; `Raise` finds the
innermost recovery as Go's runtime does, whose `threadRun` recovers only while the thread
has a `Parent`. `Habits` says which of five kinds of program are admitted: with none of
them the properties hold, each of them breaks one (section 6).

**Tables.** `array`, `hash` (`strdict` and `dict`), `keys` and `k2i` are the fields.
`last`, `visited` and `pending` are the program that traverses: it knows what it was given
and what is left. Lua lets a program change and clear fields during a traversal, not add
any; an addition ends the traversal. `isArrayKey` takes 1 to `MaxArrayIndex - 1` for array keys, but
Append and Insert look at no limit: the array of the model grows past `MaxArrayIndex` as the code's does,
and what lies there is not found by `RawGet` nor by `Next`. `Fits` says that it is shorter;
`LuaTable` promises lists and traversals for as long, and its action `Exceed` is what is left beyond.

**Patterns.** `PatternMatcher` follows `pm.go` function by function: `ParsePattern`,
`CompileItems`, `RecursiveVM` (with the capture array every branch shares, and its
growth), `Search` with both Boyer-Moore tables. `LuaPatterns` says what a pattern matches
by quantifiers over positions and lengths, and which match is preferred. `PatternCache` has
one action for a call answered from the cache (`Hit`), one for the search after a miss
(`Miss`) and one for the store (`Store`), since lookup and store lock separately. What a search
finds is its constant operator `Searched`, of which `SearchAssumption` says what the cache relies on;
`PatternFind` puts both together, and its configurations give `Searched` the value `SearchResult`,
the literal search and the machine. The assumption is evaluated for all programs of a run
before it starts.

**Channels.** `op` says what an LState is blocked in, as the list of cases its call built;
`Proceeds` is the choice Go makes among those ready. The channel itself, buffer,
rendezvous and closing, is Go's and marked external in the map. `taken` and `got` are
histories of what left a channel and what Lua code was given.

**Registry.** `rg` is the struct: `array` (with Go's nil as `Empty`), its capacity `size`, and
`top`; each operation is an operator on it, and sets `overflow` where the code raises an error,
so that what would follow is not done. `frames` has the positions of a `callFrame` and, for Lua
functions, what the compiler knows: how many registers hold values (`live`), or that a list
reaches up to `top` (`open`). An action is an instruction or an API call with everything it does
to the registry (`Ends` turns an overflow into the error and `PCall`'s recovery). `initCallFrame`
is one operator for all the places it is inlined in. `LuaCalls` has no registers: a
function has a list of values, arguments and results are handed over, so that an overlap of
windows, a stale value or a wrong base shows as a step it does not have. A stack overflow is an
error at any call (`RaiseError`), whatever the number of frames. Of the host only pushes,
`SetTop` and `PCall` of its lowest value are modelled, and calls in the run ask for all results
(instructions that call a metamethod ask for one); `MCRegistryResults.cfg` checks calls for two results
as well, by hand, for functions without extra arguments; error handlers are `Upvalues`' part.

**Compiler.** An operator for each function of `compile.go`, under its name. It takes the context
of the function that is being compiled and returns it as the Go code leaves it; what the Go code
returns besides, by value or through a pointer, is in fields of the context (`inc`, `reg`, `save`, `acs`,
`closed`), and `err` stands for the panic of `raiseCompileError`: once set, nothing more is done.
The code so far, the blocks with their variables and labels, the gotos without a
label and the constants are the fields of `funcContext`. `patchCode` works on the finished code as
in the source, jumps of jumps and MOVEN included. The parents of a function are in its context, and
a captured variable is marked in them (`refUpvalue`) on the way back. Strings are pieces that are never looked into, numbers
integers; division and powers are left out. Of the limits of an instruction three are kept, as
constants: the constants an operand reaches, the values of a SETLIST, and its blocks.

**Instructions.** `VirtualMachine` has one action per instruction (arithmetic, comparison and the two
forms of string key share one), on the registry of `RegistryArray`, the frames, the upvalues with
`findUpvalue` and `closeUpvalues`, and tables. `frames[i].iterates` marks the function that TFORLOOP
runs in a `mainLoop` of its own; what the loop does with its first result is done when that function
returns. Two Go functions are known: `emit` shows its arguments to the
host, `same` returns them. An error ends the program, and there are no metatables: errors,
protected calls and metamethods are `Registry`'s and `Upvalues`' part. The length of a table is
the one of a list without holes (`LTable` has the others). `LuaSemantics` evaluates the tree:
a variable is a cell made anew each time its declaration is executed, a scope maps names to
cells, and a statement tells how it was left. `AgreesWithLua` compares what the host was shown,
how the program ended and its results. Programs the manual does not allow (a goto without label, `...`
outside of a vararg function) have to be rejected.

Composition: each component is checked against the interface the others use.
`Upvalues` has frames and PCalls of its own, as the frame stacks promise them, and
`Coroutines` a stack of frame kinds for each thread; `CallFrameStack` is that interface,
and both stacks are shown to implement it. `Channels` runs LStates whose instructions are
calls of the library. `VirtualMachine` composes compiler, instructions, registry, frames and
upvalues.

## 3. Runs

| run | configuration | states | shows |
|---|---|---|---|
| `fixed_stack` | 4 slots, 2 functions, 3 nested PCalls | small | the fixed stack is the abstract stack; marks nest |
| `segment_pool` | 2 LStates, 2 segments of 2 frames each, 4 segments, values that cannot be called | large | no segment is shared; frames stay linked; a popped frame may still be read |
| `segmented_refines` | 1 LState, 3 segments of 2 frames, 2 functions, 2 nested PCalls | medium | the segmented stack is the abstract stack, for PCalls of functions below the capacity |
| `upvalues` | 3 frames of 2 registers, 2 variables, 2 upvalues, pcall and xpcall nested twice, errors and Go panics | large | the list of open upvalues is complete and sorted; closures agree until an error; none dangles unless an error left some open |
| `coroutines` | main and 2 threads, 3 frames each, 9 Go activations | large | frames, parents and Go stack stay in step (`ActivationsMatchThreads`), no thread is in two Resumes, and the threads take turns |
| `table` | keys 0 to 4, array keys 1 and 2, lists of up to 4, 2 values | 129 thousand, about 3 minutes | the table is a map whose traversals are complete, until a list is `MaxArrayIndex` = 3 long and when it is shorter again |
| `patterns` | 165 patterns and every source of up to 3 characters of 2; 2 goroutines, cache of 2, 3 patterns, sources of 3 to 5 characters, offsets and limits | 428 thousand | the machine finds what Lua's rules prefer; the cache stays bounded and true |
| `channels` | 2 LStates, one with a context, channels of size 0 and 1, one value each | 577 thousand | no value is lost; receive and select end with the context |
| `registry` | host and 2 frames, Go functions and Lua functions with and without extra arguments, 2 values each; the array grows from 2 to 6 by 2, then overflows | 122 thousand | functions keep their values, get their arguments and results, also after tail calls and resizes; nothing below top is a Go nil |
| `compiler` | 15834 programs; operands reach 2 constants, a SETLIST stores 3 values and 3 blocks; a registry of 4 that grows by 4 | 295 thousand, about 2 minutes | compiled programs show, return and end as Lua's manual says, each frame stands at an instruction of its function, and every program ends |
| `miscompiled` | 15 programs, one for each cause | small | divergences, section 6 |
| `find_stale` | 1 pattern, 1 source, 2 offsets | small | divergence, section 6 |

Why the bounds are enough. Segments of 2 frames and stacks of 2 or 3 segments put every
operation on both sides of a segment boundary, at the first and at the last segment, where
the arithmetic of `segIdx` and `segSp` differs; a fourth segment lets the pool hold two
while another stack takes one. Upvalues of three frames are enough for a catching frame, a
frame that stays and one that goes, with an order of registers in each. Two coroutines and
the main thread have all relations of resumer, resumed and bystander; 9 activations are
main loop, Go function, PCall and Resume twice over. Table keys lie below, in, at and
above the range of the array, and lists end before, at and one beyond `MaxArrayIndex`; keys that are no numbers
take the way of those outside of the range. Two goroutines with a cache of 2 and 3 patterns evict, and
store the same pattern twice. Offsets of patterns include the end of a source and one
behind it. Two frames above the host's are a caller, a callee and,
by tail calls and metamethods, one that takes the place of either; two values each give calls
with none or one argument, results that are too few and too many, and windows that overlap; one
value and nil tell a register that was moved from one that was not. With two values an
insertion moves at most one of them; the order in which it would move several is not exercised.
The array is too small for
two frames, so that every operation meets both a resize and an overflow. A value, an LState that sends and one that receives, and a channel of each kind
are all that a choice of `reflect.Select` can depend on.

The programs of `compiler` are all members of families, so that constructs meet that nobody would
write a test for: every `and` or `or` of two of ten kinds of operand (and of three or of a negated one
of five) in each of 13 uses of the value; every operator on eight kinds of operand; assignments of one or two values of
seven kinds to any two different kinds of targets; lists of one or two of nine kinds of expression in each of
8 uses; tables of 0 to 7 items with eleven endings, around the block size of 3; every pair of eleven bits of a body in each of
8 loops, with `break`, `goto`, `return` and captured variables; every triple of twelve parts
with labels and gotos in 4 blocks, most of which no program may have; 18 functions with 5 lists
of arguments. The small limits have every operand, block and resize meet both sides of its
bound. Programs that show one of the divergences of section 6 are not among them, and none of the members of `Right` is excepted from `AgreesWithLua`.

Bounds that are no part of the code: `MaxDepth`, `MaxMarks` (`AutoGrowFrameStack`),
`MaxMarks` (`FixedFrameStack`), `MaxFrames`, `MaxVars`, `MaxUpvalues`, `MaxCatches`
(`Upvalues`), `MaxGo` (`Coroutines`), `MaxLength` (`LTable`), `MaxSends` (`Channels`),
`MaxFrames`, `MaxLive` (`Registry`), and the
finite sets of programs of `PatternCache` and `VirtualMachine`. `MaxIndexRk`, `MaxArgC` and `FieldsPerFlush`
are 255, 511 and 50 in the code. Each is named in the guard it limits. The runs that
switch off the check for deadlock are those of programs that may stop: every LState closed,
every bound reached, the host done.

Symmetry is used for segments and values, no definition of which tells one from another; it
is not used in the run with a liveness property.

## 4. Fairness

Two modules have liveness properties. `Channels`' `FairSpec` asks for weak fairness of
`Proceeds(L)`, a blocked call one of whose cases is ready, and of `RaiseCancelled(L)`, the
loop of instructions that looks at its context: both are steps of a goroutine that can run,
and Go's scheduler runs every such goroutine some day. Nothing is asked of scripts, which
need not call anything, or of the host, which need not cancel. Weak fairness is enough:
a cancelled context stays cancelled, so that the `Done` case stays ready. No fairness is
assumed among the cases of one select.

`VirtualMachine` promises that every program of the run ends (`ProgramsEnd`), as no jump leads back by mistake.
`mainLoop` executes one instruction after the other, which is weak fairness of `Next`. A step is enabled exactly
while the program runs, so this is written out: the program stops or there is always another step. A jump
to itself leaves everything as it was, and would be no step: the variable `even`, whether the number of instructions
executed is even, makes it one, so that a program caught in a single instruction is a counterexample
(the mutant `JumpsToItself`).

The other components are sequential programs driven
by a script; that the script goes on is not theirs to promise.

## 5. Proofs

Proved with TLAPS, for every value of the constants that satisfies the assumption stated in
the module of the component:

- `FixedFrameStackProofs`: `TypeCorrect`, `MarksStayNested` and `ImplementsCallFrameStack`.
  The inductive invariant is `TypeOK /\ MarksNested`: that PCall's depth is below `sp`
  depends on the marks below it being in order, which depends on no return digging below
  the last mark. The refinement compares the slots below `sp` with a sequence
  (`PushAppends`, `LowerSp`, `TailCallMoves`).
- `AutoGrowFrameStackProofs`: `NeverAliased` and `AlwaysAllocated`, from
  `PointersTyped /\ SegmentsAllocated /\ NoAliasing`. None of the three is inductive alone:
  a push that overwrote a pointer, not nil, would leak a segment, and one given back twice
  would be handed out twice. `TypeCorrect` and `FramesStayLinked` hold without a condition
  on programs, although `SetSp` can lower a depth too far (section 6): an outer `PCall`
  may then raise it again, so `FramesKept` keeps linked also the slots below a mark, and
  `MarksInv` bounds the marks by the segments still used, and each by the segment after that
  of the marks above it. `PoppedFrameStays` is an action property from the same invariant: the segment
  a return gives back is the one above that of the frame it returns. `ImplementsCallFrameStack` assumes `FunctionsFit`: PCall is given
  functions and no call is made beyond the capacity; without it `SetSp` and `IsFull` do
  not do what the abstract stack says, see the findings. One lemma for each operation of
  the structure (`PushInv`, `SetSpInv`, `PushLinked`, `PopEffect`, ...), one step for each
  action.
- `LTableProofs`: `TypeCorrect`, `KeysStayIndexed`, `TraversalInOrder`, `NextReturnsNew`,
  `ImplementsMap` and `OperationsAgreeWithMap`. The inductive invariant is
  `TypeOK /\ KeysIndexed /\ VisitedInOrder`: that `next` returns something new follows from
  the order of what it returned (`NextKeyIsNext`), which the list `keys` never changes.
  The list operations are related to the map by `InsertedShifts` and `RemovedShifts`. `TypeCorrect` and
  `KeysStayIndexed` are about lists of every length; the others promise of the list and of traversals what they
  do while the list is shorter than `MaxArrayIndex`, and of longer ones that the hash stays as it is.
  `MaxLength` is any number, below `MaxArrayIndex` or above it.

- `ChannelsProofs`: `TypeCorrect`, `NothingLost`, `OnlySafeLeaves` and `FalseOnlyWhenOver`,
  for any number of LStates, contexts and channels. The inductive invariant adds to
  `TakenIsReturned` what a blocked call waits for (`CasesFit`): a select under a context has
  `Done` as its last case and nowhere else does its result disappear; a receive waits for
  one channel; only safe values are in `send` cases. Each kind of call, and each way one
  returns, has a lemma.

- `UpvaluesProofs`: `TypeCorrect`, `CacheStaysInOrder`, `NothingDanglesUntilLeft` and
  `ClosuresAgreeUntilError`, for any number of frames, registers, upvalues and protected
  calls. The inductive invariant `Inv` says that frames stand at multiples of `FrameSize` and
  each PCall waits above the frames of the one before (`StackOK`), that `uvcache` is sorted and
  complete (`CacheOK`), that the registers of the locals in scope are exactly the bound ones
  (`ScopesOK`), and that registers, upvalues and history have their types. `ScopeInv` adds
  that a handler starts above frames without open upvalues (`HandlersStartClosed`), for as
  long as no error has left one open. `AgreementInv` adds that a variable has one register
  and, until the first error, one upvalue (`BoundOnce`, `OneUpvalueEach`). `findUpvalue` and
  `closeUpvalues` have lemmas of their own (an insertion keeps the order, a cut leaves a
  prefix), and each operation has one.

- `CoroutinesProofs`: `TypeCorrect`, `ActivationsAndThreads`, `ResumesDoNotNest`,
  `CoroutinesHaveParents` and `ImplementsCoroutines`, for any number of threads and any depth of
  calls and resumes. The inductive invariant `IInv` has four parts. `Chained` is about the
  list `go` of activations alone: each may be called by the one below it, a thread waits in its
  Resume as long as others run above it, and no thread is resumed that has activations. `Framed` says
  which frames each activation owns: it stands on those of the activations of the same
  thread below it, so that what returns finds its frame on top. `Status` ties `Parent`, `Dead`,
  `CurrentThread` and the flags that Resume waits for to the list; `Typed` is the types. Every
  operation is shown to be a step of one of five kinds, each with a lemma of its own: the current thread goes
  on (`Goes`), gives control back to its parent by a yield, a return or an error (`GivesBack`),
  resumes another (`Resumes`), is refused one (`Rejects`), or the program ends (`Ends`).
  The theorems assume `Orderly`: of the habits of section 6 only
  `tailYield`, since each of the others makes one of the invariants false. `ResumesDoNotNest` assumes less
  (`MayNest`): programs may resume what waits for a Resume, as nothing in the code stops them, and the theorem is about
  every behaviour until one does; `ResumeOfWaitingNests` proves that the code does not refuse it and that the
  coroutine is in two Resumes then.
  `FinishedThreadsAreDead` and `ResumeTellsTheTruth` assume `Habits = {}`, as `tailYield` breaks
  them; their invariant adds `BegunLast` and `Reported`.

- `PatternCacheProofs`: `TypeCorrect`, `EntriesAreReal`, `AnswersAreInOrder` and
  `OneCallHistoryFree`, for any goroutines, programs, size of the cache and searcher. The inductive
  invariant `Inv` says where everything comes from: an entry is what some call of the program found
  for its pattern, a call that is about to store holds what it found itself, and an answer was searched for
  or taken of an entry of its pattern. It is needed since goroutines that miss together store one after
  the other: none of the other invariants says that what is still to be stored is of the right pattern.
  `PutProperties` says what an eviction and a store leave of the entries, `FilteredInOrder` and
  `FilteredWhole` what the loop over an entry's matches takes, by induction over its turns. The
  theorems assume what the search of a miss returns (`SearchAssumption`): matches of its pattern, in order,
  from its offset on, within a positive limit. TLC evaluates this for the searcher of `pm` and the programs of
  the runs; it cannot be proved of it, whose definitions are recursive. It is true of patterns the machine
gets right: for one like `[^a-d]`, which finds b (section 6), it fails with `AreLuaMatches`, Lua's rules, for `AreMatches`,
and what the theorem says of the cache holds with any relation the searcher does respect. `HistoryFree`, which the code
  violates (section 6), holds for programs that use each pattern in one call only, with a limit
  (`OneCallPerPattern`).

- `RegistryProofs`: `TypeCorrect`, `RegistersInitialised` and `RegistryImplementsLuaCalls`, for any functions,
  numbers of arguments and results, initial size, growth and limit of the array. The inductive invariant is
  `IInv`: the array is as large as it is taken to be and has a value everywhere below top (`Sound`);
  each frame was called by the one below it (`Framed`), so that its window
  begins above the registers that one goes on with, and its results go where they are expected; and the
  current window lies below top (`Covered`), which then holds of all others (`AllCovered`).
  Each operation of the array has a lemma that says what it makes of every index below the new top,
  with or without a resize, and when it overflows; each action has one that says where the frames are
  afterwards. That a `PCall`'s mark is the base of the frame above its caller
  (`MarkFits`) is what makes recovery safe, and only the last frames of a Lua function and its tail call
  of a Go function can be removed at once. The assumptions are those of the model: a Lua function has
  more registers than parameters (`patchCode`), a call asks for a number of results or for all
  (`WantAssumption`).
  `RegistryImplementsLuaCalls` needs no more than this invariant: the refinement mapping reads the
  variables of a function out of its window (`View`), so a step must be shown to leave the windows
  of the callers alone (`Keeps`, `CallersKept`) and to leave in the current one the list of values `LuaCalls` computes
  (`Lists`). An operation that overflows leaves the array as it was (`OperationsLeave`); what a
  step had stored before is above the base of the current frame, and so above that of the last mark,
  so that every overflow and every error is the step `Fail` of `LuaCalls` (`EndsFails`, `RecoversFails`). A
  call hands over the row of registers behind the function (`ArgumentsRow`, `CallHandsOver`), with
  the copy `initCallFrame` makes of it for a vararg function (`EnteredView`); a
  tail call of a Lua function does so after the row was moved down onto the frame it replaces
  (`MovedHolds`); a return copies results down over the frame that ends (`ResultsMoved`), and what
  `callR` does after it, for a metamethod or a Go caller, completes the row (`ReceivedLists`). One lemma for
  each action of `Registry` (`CallNext`, `TailCallLuaNext`, `ReturnNext`, ...), and `NextAbstract` for all.

Only model-checked: the pattern matcher and that `pm.Find`'s searcher is as the cache expects it
(`MatcherAgrees`, `SearchAssumption`), whose definitions are recursive
over texts and programs and so out of the prover's reach; the compiler, the machine that
runs its code and the semantics it is compared with, for the same reason; liveness, of
`Channels` and of programs.

## 6. Divergences

Where the code does something else than the repository says. `MCCompilerWrong` and
`MCPatternFindStale` are the runs `miscompiled` and `find_stale`; the other configurations are kept to be run by hand, and each ends in the violation
named. `MCCoroutinesHabits`, `MCUpvaluesCaught`, `MCLTableWrong` and `MCPatternFindFirst` say in their first lines how to set them for each case.

| configuration | violated | what happens |
|---|---|---|
| `MCCompilerWrong` | `AgreesWithLua` | programs that do something else than they say; the table below |
| `MCUpvaluesCaught`, pcall | `Agreement` | `closeAllUpvalues` closes the upvalues of functions that survive the error (`state.go:749`); closures and function then have a variable each |
| `MCPatternFindStale` | `HistoryFree` | the cache answers for another source or offset (`pm.go:988`) |
| `MCChannelsSend` | `CancelledAlwaysStops` | a blocked send does not watch its context (`channellib.go:174`) |
| `MCRegistryLimit` | `WithinMaxSize` | an overflow that is caught leaves the registry larger than RegistryMaxSize (`state.go:767`) |
| `MCUpvaluesCaught`, xpcall | `NoDangling` | under xpcall none is closed, and a closure of a dropped frame writes into registers of others (`state.go:757`) |
| `MCAutoGrowIsFull` | `IsFullBeforeOverflow` | `IsFull` is never true (`state.go:265`): the overflow is a Go panic, for which no upvalue is closed |
| `MCAutoGrowSetSp` | `SetSpSetsSp` | `SetSp` of a multiple of the segment size loses a segment (`state.go:313`) |
| `MCCoroutinesHabits`, no habit | `DeadIsReported` | every Resume of a thread that died with an empty stack pushes a frame (`state.go:2181`) |
| `MCCoroutinesHabits`, crossGo | `InsideHasParent` | a yield below a Go function's call or a metamethod leaves the activations of the thread running (`vm.go:179`) |
| `MCCoroutinesHabits`, tailYield | `ReportsStatus` | the first function of a thread does `return coroutine.yield()`: its only frame is removed, and Resume takes the yield for the end (`vm.go:204`) |
| `MCCoroutinesHabits`, goMain | `ReportsStatus` | the same for a thread whose first function is a Go function that yields (`vm.go:23`) |
| `MCCoroutinesHabits`, resumeNormal | `ResumedOnce` | a thread that waits in a Resume of its own can be resumed (`state.go:2195`) |
| `MCCoroutinesHabits`, skipOpenLibs | `FrameOnTop` | the first call of an LState with no library opened enters `mainLoop` without a base frame (`state.go:1288`) |
| `MCLTableWrong` | `PushIsFound` | `Append` goes on at `MaxArrayIndex`, where `RawGet` looks in the hash (`table.go:73`) |
| `MCLTableWrong` | `NextMissesNothing` | of a list that long, `Next` goes on behind `keys[0]` and misses that field (`table.go:359`) |
| `MCLTableWrong` | `GetsAgree` | `RawGetInt` answers nil for every key of the hash (`table.go:283`) |
| `MCLTableWrong` | `RemovesLast` | `table.remove(t)` drops a slot that was cleared instead of the last element (`table.go:134`) |
| `MCPatternFindFirst`, MCLiterals | `FirstCallFinds` | the good-suffix table compares the wrong way and skips occurrences: "ab" in "aabaab" is not found where it is first (`pm.go:919`) |
| `MCPatternFindFirst`, MCUnlimited | `FirstCallFinds` | the limit -1 of gmatch and gsub takes no match of a literal text (`pm.go:1011`) |
| `MCPatternFindFirst`, MCCaptures | `FirstCallCaptures` | the doubled capture array shows as captures that are not in the pattern (`pm.go:94`) |
| `MCPatternFindFirst`, MCSets | `FirstCallFinds` | `[a-d]` matches a and - only, and `[^a-d]` so b, c and d as well (`pm.go:424`): the end of a range is read as its start |

The programs of `MCCompilerWrong` (`Wrong` in `MCPrograms`), in their order; lines are of
`compile.go` where no file is named:

| program | what happens |
|---|---|
| `a, b = b, a` with locals | each value is moved straight into its variable, before the other is read: both end alike (702) |
| `a = (f(a, 1))`, `a` the parameter | the call is made in the register of `a`, and its argument written over the local after it (1681) |
| `while true do if false then ... end ... end` | the jump at the end of a chain is patched already, and its distance is read as a label (1808) |
| `local r, s = g or nil` | the nil for `s` is merged into the LOADNIL of the branch not taken, past a label (238) |
| `local y = nil` first in a loop | the nil is merged into the instruction before the loop (238) |
| `do local x; fn = function() return x end; break end` | the break leaves `x` open: its closure sees what uses the register next (1023) |
| `do goto out end ::out:: x = 2`, `x` captured | the goto's CLOSE 0 closes variables it stays in the scope of (1134) |
| `for k in it do` | state and control variable are whatever the registers held (1103) |
| a list of more than 511 blocks | C is 0, and so is the word after it, which should be the number of the block (1404) |
| `{v, ..., f()}` with full blocks before the call | the results are stored over the first block (1395) |
| `{v, ..., k = v}` with full blocks before the field | the last block is stored twice (1389) |
| `{1, k = f()}` | the value of the call becomes an item of the list as well (1397) |
| `a = (b or a) and a` | `a` is set before it is read (1661, 1673) |
| `a = (...)` | the copy of the argument ends the registers there: the locals above `a` are nil (`vm.go` VARARG, 2145) |
| `("s").x = 1` | the constant's number loses its mark and is a register: another table gets the field (707) |

The programs below the limits of `compiler` show them at smaller sizes: 511 is `MaxArgC`, 50 is
`FieldsPerFlush`. Besides, the parser's tree does not tell `local f = function` from
`local function f`, so that a function sees itself in both; the manual says so of the second only. `LuaSemantics` follows the tree.

## 7. Not modelled, and the plan

Left out for good: `parser.go` (generated by goyacc; `Syntax` has the trees it makes); the templates,
which are not compiled; `CallGraph`, `Trie` and `CharBitmap`, which nothing calls; `SetMx`, which
watches the memory of the process; the command line tools; formatting and arithmetic of
`mathlib.go`, `oslib.go` and `string.format`, which are Go's.

What remains, in this order:

1. **Compiler and instructions**: division and powers, strings that are numbers, metamethods other than
   those `Registry` has, and protected calls inside `VirtualMachine`'s programs.
2. **Error handlers in `Registry`** (`state.go` 2080-2105). The handler of xpcall runs on top of the
   frames that failed, and the room for it has to be found on a registry that has just
   overflowed: the pushes of handler and error object lie outside of the inner recovery.
3. **Contexts of threads**. `Channels`' contexts made a tree: `NewThread`, `kill`, and threads
   resumed by others than their creator.
4. **Lexer**. Positions, long brackets, escapes, numbers, against a declarative definition of tokens.
5. **Module loader**. `require` with preload, searchers, loops and loaders that fail.
6. **Files** (`iolib.go`) and the **number allocator** (`alloc.go`).

No property that a run checks is left whose proof is only a matter of writing it: those without one need
recursion or liveness (section 5). What would come next is the handlers of item 2, as steps of
`LuaCalls` as well.
