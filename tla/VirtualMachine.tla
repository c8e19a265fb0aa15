--------------------------- MODULE VirtualMachine ---------------------------
(***************************************************************************)
(* The virtual machine (vm.go) running what the compiler made of a program: *)
(* the instructions of one thread, as registers, frames and upvalues see   *)
(* them.  A step is an instruction; a Go function, of which the programs   *)
(* know two, and what it returns to are part of the one that calls it.     *)
(*                                                                         *)
(* Metamethods, coroutines and recovery from errors are modelled in        *)
(* Registry and Coroutines: here an error ends the program.                *)
(***************************************************************************)
EXTENDS Compiler, RegistryArray

CONSTANTS Programs,     \* a sequence: main, a chunk compiled, and outcome, what it means
          InitialSize   \* of the registry

VARIABLES program, rg, frames, upvals, tables, closures, globals, out, status,
          even          \* history: whether an even number of instructions was run

heap == <<upvals, tables, closures, globals>>
(* With even every instruction is a step, also one that jumps to itself.   *)
vars == <<program, rg, frames, upvals, tables, closures, globals, out, status, even>>

-----------------------------------------------------------------------------
main == Programs[program].main

(* A closure knows where its prototype lies in the one of the program.     *)
RECURSIVE Within(_, _)
Within(proto, path) == IF path = <<>> THEN proto ELSE Within(proto.protos[Head(path)], Tail(path))
ProtoOf(fn) == Within(main, closures[fn].path)

callFrame(fn, base, localBase, returnBase, nargs, nret) ==
    [fn |-> fn, pc |-> 0, base |-> base, localBase |-> localBase, returnBase |-> returnBase,
     nargs |-> nargs, nret |-> nret, iterates |-> FALSE]

NoRegisters == [array |-> [i \in 0..InitialSize - 1 |-> Empty], size |-> InitialSize, top |-> 0,
                overflow |-> FALSE]

Init ==
    /\ program \in 1..Len(Programs)
    /\ closures = <<[path |-> <<>>, upvals |-> <<>>]>>
    /\ upvals = <<>> /\ tables = <<>> /\ globals = GoFunctions /\ out = <<>> /\ even = TRUE
    /\ IF main.err
       THEN status = "rejected" /\ frames = <<>> /\ rg = NoRegisters
       ELSE /\ status = "running"
            /\ frames = <<callFrame(1, 0, 1, 0, 0, MultRet)>>
            /\ rg = initCallFrame(Push(NoRegisters, Closure(1)), main, 1, 0)

cf == frames[Len(frames)]
caller == frames[Len(frames) - 1]
proto == ProtoOf(cf.fn)
inst == proto.code[cf.pc + 1]

RegisterIndex(i) == cf.localBase + i
R(i) == Get(rg, RegisterIndex(i))
rkValue(x) == IF opIsK(x) THEN proto.constants[opIndexK(x) + 1] ELSE R(x)
K == proto.constants[inst.b + 1]

Executes(op) == status = "running" /\ inst.op = op /\ even' = ~even
Continues(skip) == [frames EXCEPT ![Len(frames)].pc = @ + 1 + skip]

(* The ways an instruction ends: in the next one or skipping some, with a  *)
(* value in a register, or in an error.                                    *)
Goes(skip) ==
    frames' = Continues(skip) /\ UNCHANGED <<program, rg, heap, out, status>>

SetsTo(a, v, skip) ==
    rg' = Set(rg, RegisterIndex(a), v) /\ frames' = Continues(skip) /\ UNCHANGED <<program, heap, out, status>>

Sets(v) == SetsTo(inst.a, v, 0)

RaiseError == status' = "error" /\ UNCHANGED <<program, rg, frames, heap, out>>

-----------------------------------------------------------------------------
Move == Executes("MOVE") /\ Sets(R(inst.b))

MoveN ==
    /\ Executes("MOVEN")
    /\ LET moves == SubSeq(proto.code, cf.pc + 1, cf.pc + 1 + inst.c)
       IN  rg' = FoldLeft(LAMBDA r, m : Set(r, RegisterIndex(m.a), Get(r, RegisterIndex(m.b))), rg, moves)
    /\ frames' = Continues(inst.c)
    /\ UNCHANGED <<program, heap, out, status>>

LoadK == Executes("LOADK") /\ Sets(K)

LoadBool == Executes("LOADBOOL") /\ SetsTo(inst.a, Bool(inst.b # 0), IF inst.c # 0 THEN 1 ELSE 0)

LoadNil ==
    /\ Executes("LOADNIL")
    /\ rg' = FoldLeft(LAMBDA r, i : Set(r, RegisterIndex(i), LNil), rg,
                      [n \in 1..inst.b - inst.a + 1 |-> inst.a + n - 1])
    /\ frames' = Continues(0)
    /\ UNCHANGED <<program, heap, out, status>>

Nop == Executes("NOP") /\ Goes(0)
Jmp == Executes("JMP") /\ Goes(inst.b)

GetGlobal ==
    Executes("GETGLOBAL") /\ Sets(IF K[2][1] \in DOMAIN globals THEN globals[K[2][1]] ELSE LNil)

SetGlobal ==
    /\ Executes("SETGLOBAL")
    /\ globals' = (K[2][1] :> R(inst.a)) @@ globals
    /\ frames' = Continues(0)
    /\ UNCHANGED <<program, rg, upvals, tables, closures, out, status>>

-----------------------------------------------------------------------------
(* Upvalues.  An open one is a register, which the closures that captured  *)
(* it share; a closed one has a value of its own.                          *)
ValueOf(u) == IF upvals[u].open THEN rg.array[upvals[u].index] ELSE upvals[u].value

closeUpvalues(from) ==
    [u \in DOMAIN upvals |->
        IF upvals[u].open /\ upvals[u].index >= from
        THEN [open |-> FALSE, index |-> 0, value |-> ValueOf(u)] ELSE upvals[u]]

findUpvalue(us, index) ==
    LET u == SelectInSeq(us, LAMBDA v : v.open /\ v.index = index)
    IN  IF u # 0 THEN [upvals |-> us, found |-> u]
        ELSE [upvals |-> Append(us, [open |-> TRUE, index |-> index, value |-> LNil]), found |-> Len(us) + 1]

GetUpval == Executes("GETUPVAL") /\ Sets(ValueOf(closures[cf.fn].upvals[inst.b + 1]))

SetUpval ==
    /\ Executes("SETUPVAL")
    /\ LET u == closures[cf.fn].upvals[inst.b + 1]
       IN  IF upvals[u].open
           THEN rg' = Set(rg, upvals[u].index, R(inst.a)) /\ UNCHANGED upvals
           ELSE upvals' = [upvals EXCEPT ![u].value = R(inst.a)] /\ UNCHANGED rg
    /\ frames' = Continues(0)
    /\ UNCHANGED <<program, tables, closures, globals, out, status>>

Close ==
    /\ Executes("CLOSE")
    /\ upvals' = closeUpvalues(RegisterIndex(inst.a))
    /\ frames' = Continues(0)
    /\ UNCHANGED <<program, rg, tables, closures, globals, out, status>>

(* The words after the instruction say which variables are captured.       *)
MakeClosure ==
    /\ Executes("CLOSURE")
    /\ LET n == Len(proto.protos[inst.b + 1].upvalues)
           capture(found, i) ==
               LET word == proto.code[cf.pc + 1 + i]
               IN  IF word.op = "MOVE"
                   THEN LET f == findUpvalue(found.upvals, RegisterIndex(word.b))
                        IN  [upvals |-> f.upvals, of |-> Append(found.of, f.found)]
                   ELSE [found EXCEPT !.of = Append(@, closures[cf.fn].upvals[word.b + 1])]
           captured == FoldLeft(capture, [upvals |-> upvals, of |-> <<>>], [i \in 1..n |-> i])
       IN  /\ closures' = Append(closures, [path |-> Append(closures[cf.fn].path, inst.b + 1),
                                            upvals |-> captured.of])
           /\ upvals' = captured.upvals
           /\ rg' = Set(rg, RegisterIndex(inst.a), Closure(Len(closures) + 1))
           /\ frames' = Continues(n)
    /\ UNCHANGED <<program, tables, globals, out, status>>

-----------------------------------------------------------------------------
(* Tables.                                                                 *)
FieldOf(t, key) == IF key \in DOMAIN tables[t[2]] THEN tables[t[2]][key] ELSE LNil

WithField(fields, key, v) ==
    IF v = LNil THEN Restrict(fields, DOMAIN fields \ {key}) ELSE (key :> v) @@ fields

NewTable ==
    /\ Executes("NEWTABLE")
    /\ tables' = Append(tables, <<>>)
    /\ rg' = Set(rg, RegisterIndex(inst.a), Table(Len(tables) + 1))
    /\ frames' = Continues(0)
    /\ UNCHANGED <<program, upvals, closures, globals, out, status>>

GetTable ==
    /\ Executes("GETTABLE") \/ Executes("GETTABLEKS")
    /\ IF IsTable(R(inst.b)) THEN Sets(FieldOf(R(inst.b), rkValue(inst.c))) ELSE RaiseError

SetTable ==
    /\ Executes("SETTABLE") \/ Executes("SETTABLEKS")
    /\ IF IsTable(R(inst.a)) /\ rkValue(inst.b) # LNil
       THEN /\ tables' = [tables EXCEPT ![R(inst.a)[2]] = WithField(@, rkValue(inst.b), rkValue(inst.c))]
            /\ frames' = Continues(0)
            /\ UNCHANGED <<program, rg, upvals, closures, globals, out, status>>
       ELSE RaiseError

Self ==
    /\ Executes("SELF")
    /\ IF IsTable(R(inst.b))
       THEN /\ rg' = Set(Set(rg, RegisterIndex(inst.a), FieldOf(R(inst.b), rkValue(inst.c))),
                         RegisterIndex(inst.a + 1), R(inst.b))
            /\ frames' = Continues(0)
            /\ UNCHANGED <<program, heap, out, status>>
       ELSE RaiseError

(* Where C is 0 the number of the block is the next word: a MOVE of no     *)
(* operands, or a MOVEN where patchCode found moves after it.              *)
Word(w) == (IF w.op = "MOVEN" THEN 2^26 ELSE 0) + 512 * w.c

SetList ==
    /\ Executes("SETLIST")
    /\ LET block == IF inst.c = 0 THEN Word(proto.code[cf.pc + 2]) ELSE inst.c
           offset == (block - 1) * FieldsPerFlush
           nelem == IF inst.b = 0 THEN rg.top - RegisterIndex(inst.a) - 1 ELSE inst.b
           t == R(inst.a)[2]
       IN  tables' = [tables EXCEPT ![t] =
               FoldLeft(LAMBDA f, i : WithField(f, Num(offset + i), R(inst.a + i)), @, [i \in 1..nelem |-> i])]
    /\ frames' = Continues(IF inst.c = 0 THEN 1 ELSE 0)
    /\ UNCHANGED <<program, rg, upvals, closures, globals, out, status>>

-----------------------------------------------------------------------------
(* Operators.                                                              *)
Arithmetic ==
    /\ \E op \in {"+", "-", "*", "%"} : Executes(op)
    /\ LET l == rkValue(inst.b)
           r == rkValue(inst.c)
       IN  IF IsNumber(l) /\ IsNumber(r) THEN Sets(Num(Arith(inst.op, l[2], r[2]))) ELSE RaiseError

Unm == Executes("UNM") /\ IF IsNumber(R(inst.b)) THEN Sets(Num(-R(inst.b)[2])) ELSE RaiseError
Not == Executes("NOT") /\ Sets(Bool(IsFalse(R(inst.b))))

Border(t) == CHOOSE n \in 0..Cardinality(DOMAIN tables[t[2]]) :
    (\A i \in 1..n : Num(i) \in DOMAIN tables[t[2]]) /\ Num(n + 1) \notin DOMAIN tables[t[2]]

Length ==
    /\ Executes("LEN")
    /\ CASE IsTable(R(inst.b)) -> Sets(Num(Border(R(inst.b))))
         [] R(inst.b)[1] = "string" -> Sets(Num(Len(R(inst.b)[2])))
         [] ~IsTable(R(inst.b)) /\ R(inst.b)[1] # "string" -> RaiseError

stringConcat(from, to) ==
    <<"string", FoldLeft(LAMBDA s, i : s \o Text(R(i)), <<>>, [n \in 1..to - from + 1 |-> from + n - 1])>>

Concat ==
    /\ Executes("CONCAT")
    /\ IF \A i \in inst.b..inst.c : IsText(R(i)) THEN Sets(stringConcat(inst.b, inst.c)) ELSE RaiseError

(* A comparison that comes out other than A skips the jump after it.       *)
Compares(holds) == Goes(IF (IF holds THEN 0 ELSE 1) = inst.a THEN 1 ELSE 0)

Eq == Executes("EQ") /\ Compares(rkValue(inst.b) = rkValue(inst.c))

Less ==
    /\ Executes("LT") \/ Executes("LE")
    /\ LET l == rkValue(inst.b)
           r == rkValue(inst.c)
       IN  IF IsNumber(l) /\ IsNumber(r)
           THEN Compares(IF inst.op = "LT" THEN l[2] < r[2] ELSE l[2] <= r[2])
           ELSE RaiseError

Test == Executes("TEST") /\ Goes(IF IsFalse(R(inst.a)) = (inst.c # 0) THEN 1 ELSE 0)

TestSet ==
    /\ Executes("TESTSET")
    /\ IF IsFalse(R(inst.b)) = (inst.c # 0) THEN Goes(1) ELSE Sets(R(inst.b))

-----------------------------------------------------------------------------
(* Loops.                                                                  *)
ForPrep ==
    /\ Executes("FORPREP")
    /\ IF IsNumber(R(inst.a)) /\ IsNumber(R(inst.a + 2))
       THEN SetsTo(inst.a, Num(R(inst.a)[2] - R(inst.a + 2)[2]), inst.b) ELSE RaiseError

ForLoop ==
    /\ Executes("FORLOOP")
    /\ IF \A i \in 0..2 : IsNumber(R(inst.a + i))
       THEN LET index == R(inst.a)[2] + R(inst.a + 2)[2]
                limit == R(inst.a + 1)[2]
                goesOn == IF R(inst.a + 2)[2] > 0 THEN index <= limit ELSE index >= limit
                stepped == Set(rg, RegisterIndex(inst.a), Num(index))
            IN  /\ rg' = IF goesOn THEN Set(stepped, RegisterIndex(inst.a + 3), Num(index))
                         ELSE SetTop(stepped, RegisterIndex(inst.a + 1))
                /\ frames' = Continues(IF goesOn THEN inst.b ELSE 0)
                /\ UNCHANGED <<program, heap, out, status>>
       ELSE RaiseError

(* What TFORLOOP does when its generator has returned: the loop goes on    *)
(* with the jump after it, unless the first value is nil.                  *)
Iterated(r, fs) ==
    LET f == Last(fs)
        code == ProtoOf(f.fn).code
        ra == f.localBase + code[f.pc].a
        v == Get(r, ra + 3)
    IN  [rg |-> IF v = LNil THEN r ELSE Set(r, ra + 2, v),
         frames |-> [fs EXCEPT ![Len(fs)].pc = @ + 1 + (IF v = LNil THEN 0 ELSE code[f.pc + 1].b)]]

-----------------------------------------------------------------------------
(* Calls.  The caller goes on with its next instruction; the one that      *)
(* iterates, with the rest of its TFORLOOP.                                *)
Returns(r, frame, below) ==
    LET done == IF frame.iterates THEN Iterated(SetTop(r, frame.returnBase + frame.nret), below)
                ELSE [rg |-> r, frames |-> below]
    IN  /\ rg' = done.rg
        /\ frames' = done.frames
        /\ status' = IF below = <<>> THEN "ended" ELSE "running"

(* The last nret of the registers of a Go function are what it returns.    *)
CallsGo(r, f, frame, below) ==
    LET ready == SetTop(r, frame.localBase + frame.nargs)
        args == [i \in 1..frame.nargs |-> Get(ready, frame.localBase + i - 1)]
        nret == IF f = Native("same") THEN frame.nargs ELSE 0
        want == IF frame.nret = MultRet THEN nret ELSE frame.nret
    IN  /\ Returns(CopyRange(ready, frame.returnBase, ready.top - nret, NoLimit, want), frame, below)
        /\ out' = IF f = Native("emit") THEN Append(out, args) ELSE out

(* A function with ... that may want arg gets a table of its extra         *)
(* arguments in the register after its parameters.                         *)
NeedsArg(f) == f[1] = "function" /\ ProtoOf(f[2]).vararg /\ ProtoOf(f[2]).needsArg

ArgTable(r, p, lbase, nargs) ==
    LET n == LargerOf(nargs - p.np, 0)
    IN  (Str("n") :> Num(n)) @@ [k \in {Num(i) : i \in 1..n} |-> Get(r, lbase + p.np + k[2] - 1)]

Entered(r, f, lbase, nargs) ==
    LET p == ProtoOf(f[2])
        window == initCallFrame(r, p, lbase, nargs)
    IN  IF NeedsArg(f)
        THEN Stored(window, (LocalBaseOf(p, lbase, nargs) + p.np) :> Table(Len(tables) + 1), window.top)
        ELSE window

NewTables(r, f, lbase, nargs) ==
    IF NeedsArg(f)
    THEN LET fields == ArgTable(r, ProtoOf(f[2]), lbase, nargs)
         IN  Append(tables, Restrict(fields, {k \in DOMAIN fields : fields[k] # LNil}))
    ELSE tables

CallsLua(r, f, frame, below) ==
    /\ rg' = Entered(r, f, frame.base + 1, frame.nargs)
    /\ tables' = NewTables(r, f, frame.base + 1, frame.nargs)
    /\ frames' = Append(below, [frame EXCEPT !.localBase = LocalBaseOf(ProtoOf(f[2]), frame.base + 1, frame.nargs)])
    /\ UNCHANGED <<out, status>>

IsGo(f) == f[1] = "native"
IsFunction(f) == IsGo(f) \/ f[1] = "function"
NArgs == IF inst.b = 0 THEN rg.top - (RegisterIndex(inst.a) + 1) ELSE inst.b - 1

Calls(r, f, frame, below) ==
    IF IsGo(f) THEN CallsGo(r, f, frame, below) /\ UNCHANGED tables ELSE CallsLua(r, f, frame, below)

FrameOf(f, base, returnBase, nargs, nret) ==
    callFrame(IF IsGo(f) THEN 0 ELSE f[2], base, base + 1, returnBase, nargs, nret)

Call ==
    /\ Executes("CALL")
    /\ LET f == R(inst.a)
           ra == RegisterIndex(inst.a)
       IN  IF ~IsFunction(f) THEN RaiseError
           ELSE /\ Calls(rg, f, FrameOf(f, ra, ra, NArgs, inst.c - 1), Continues(0))
                /\ UNCHANGED <<program, upvals, closures, globals>>

(* The generator and its arguments are copied above the loop's variables.  *)
TForLoop ==
    /\ Executes("TFORLOOP")
    /\ LET ra == RegisterIndex(inst.a)
           copied == FoldLeft(LAMBDA r, i : Set(r, ra + 3 + i, Get(r, ra + i)),
                              SetTop(rg, ra + 5), <<2, 1, 0>>)
           f == R(inst.a)
       IN  IF ~IsFunction(f) THEN RaiseError
           ELSE /\ Calls(copied, f, [FrameOf(f, ra + 3, ra + 3, 2, inst.c) EXCEPT !.iterates = TRUE], Continues(0))
                /\ UNCHANGED <<program, upvals, closures, globals>>

(* A Lua function takes over the frame, moved down to its base; the result *)
(* of a Go function is the one of the frame.                               *)
TailCall ==
    /\ Executes("TAILCALL")
    /\ LET f == R(inst.a)
           ra == RegisterIndex(inst.a)
           entered == Entered(rg, f, ra + 1, NArgs)
           lbase == LocalBaseOf(ProtoOf(f[2]), ra + 1, NArgs)
       IN  IF ~IsFunction(f) THEN RaiseError
           ELSE /\ upvals' = closeUpvalues(cf.localBase)
                /\ IF IsGo(f)
                   THEN /\ CallsGo(rg, f, [FrameOf(f, ra, cf.returnBase, NArgs, cf.nret)
                                                EXCEPT !.iterates = cf.iterates], Front(frames))
                        /\ UNCHANGED tables
                   ELSE /\ rg' = CopyRange(entered, cf.base, ra, NoLimit, entered.top - ra - 1)
                        /\ tables' = NewTables(rg, f, ra + 1, NArgs)
                        /\ frames' = Append(Front(frames),
                               [FrameOf(f, cf.base, cf.returnBase, NArgs, cf.nret) EXCEPT
                                    !.localBase = cf.base + (lbase - (ra + 1) + 1), !.iterates = cf.iterates])
                        /\ UNCHANGED <<out, status>>
                /\ UNCHANGED <<program, closures, globals>>

Return ==
    /\ Executes("RETURN")
    /\ upvals' = closeUpvalues(cf.localBase)
    /\ LET ra == RegisterIndex(inst.a)
           nret == IF inst.b = 0 THEN rg.top - ra ELSE inst.b - 1
           n == IF cf.nret = MultRet THEN nret ELSE cf.nret
       IN  Returns(copyReturnValues(rg, cf.returnBase, ra, n, inst.b), cf, Front(frames))
    /\ UNCHANGED <<program, tables, closures, globals, out>>

VarArg ==
    /\ Executes("VARARG")
    /\ LET extra == LargerOf(cf.nargs - proto.np, 0)
           wanted == IF inst.b = 0 THEN extra ELSE inst.b - 1
       IN  rg' = CopyRange(rg, RegisterIndex(inst.a), cf.base + proto.np + 1, cf.localBase, wanted)
    /\ frames' = Continues(0)
    /\ UNCHANGED <<program, heap, out, status>>

(* The program is over.                                                    *)
Over == status # "running" /\ UNCHANGED vars

Next ==
    \/ Move \/ MoveN \/ LoadK \/ LoadBool \/ LoadNil \/ Nop \/ Jmp \/ GetGlobal \/ SetGlobal
    \/ GetUpval \/ SetUpval \/ Close \/ MakeClosure
    \/ NewTable \/ GetTable \/ SetTable \/ Self \/ SetList
    \/ Arithmetic \/ Unm \/ Not \/ Length \/ Concat \/ Eq \/ Less \/ Test \/ TestSet
    \/ ForPrep \/ ForLoop \/ TForLoop \/ Call \/ TailCall \/ Return \/ VarArg
    \/ Over

(* Weak fairness of Next, mainLoop's loop.  A step is enabled exactly as   *)
(* long as the program runs, whatever it executes (that no state without   *)
(* an instruction is reached is the check for deadlock, that each is a     *)
(* step is even), so that this is WF_vars(Next) with ENABLED written out.  *)
Fairness == []<>(status # "running") \/ []<><<Next>>_vars

Spec == Init /\ [][Next]_vars /\ Fairness

-----------------------------------------------------------------------------
(* The properties.                                                         *)
Results == [i \in 1..rg.top |-> rg.array[i - 1]]

(* Words that belong to the instruction before: they are never run.        *)
IsOperand(p, pc) ==
    \/ \E q \in 0..pc - 1 : /\ p.code[q + 1].op = "CLOSURE"
                           /\ pc <= q + Len(p.protos[p.code[q + 1].b + 1].upvalues)
    \/ pc > 0 /\ p.code[pc].op = "SETLIST" /\ p.code[pc].c = 0

(* Every frame stands at an instruction of its function, with its          *)
(* registers below those of the frame it has called.                       *)
TypeOK ==
    /\ status \in {"rejected", "running", "ended", "error"}
    /\ ~rg.overflow
    /\ \A i \in 1..Len(frames) :
           LET p == ProtoOf(frames[i].fn)
           IN  frames[i].pc \in 0..Len(p.code) - 1 /\ ~IsOperand(p, frames[i].pc)
    /\ \A i \in 2..Len(frames) : frames[i - 1].localBase <= frames[i].base /\ frames[i].base < frames[i].localBase
    /\ \A u \in DOMAIN upvals : upvals[u].open => frames # <<>> /\ upvals[u].index < rg.top

(* A program shows its host what the program means by the manual, and ends *)
(* as it should: compile.go and vm.go together are an implementation of    *)
(* Lua 5.1 with goto (README.rst:22).                                      *)
AgreesWithLua ==
    LET expected == Programs[program].outcome
    IN  status # "running" =>
            /\ status = expected.status
            /\ out = expected.out
            /\ status = "ended" => Results = expected.results

(* A program that ends by the manual ends: no jump leads back by mistake,  *)
(* were it only to itself.                                                 *)
ProgramsEnd == (status = "running") ~> (status # "running")
=============================================================================
