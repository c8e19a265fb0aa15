------------------------------ MODULE Compiler ------------------------------
(***************************************************************************)
(* The compiler (compile.go): a chunk becomes a prototype, by one walk over *)
(* its tree that hands out registers as it writes instructions, and a pass *)
(* over the instructions of a function when it is done (patchCode).        *)
(*                                                                         *)
(* Every operator takes the context of a function as it is and returns it  *)
(* as it leaves it, with what it returns besides in fields of the context: *)
(* inc is the number of registers an expression took; reg and save are the *)
(* next register and the operand of WithPropagation; acs is what           *)
(* compileAssignStmtLeft has found; closed is what a repeat must close.    *)
(* A panic of raiseCompileError is an error that stays.                    *)
(*                                                                         *)
(* Lines, debug names and the limits of what an instruction can hold are   *)
(* left out, but for three: an operand reaches MaxIndexRk constants, C of  *)
(* SETLIST and MOVEN goes up to MaxArgC, and a SETLIST stores              *)
(* FieldsPerFlush values (255, 511 and 50).                                *)
(***************************************************************************)
EXTENDS Syntax, SequencesExt

CONSTANTS MaxIndexRk, MaxArgC, FieldsPerFlush

ASSUME LimitAssumption ==
    MaxIndexRk \in 0..255 /\ MaxArgC \in 1..511 /\ FieldsPerFlush \in Nat \ {0}

Indices(seq) == [i \in 1..Len(seq) |-> i]

-----------------------------------------------------------------------------
(* Instructions.  Operand A has 8 bits, also when it is given a constant.  *)
(* Operand b of a jump is a label until patchCode.                         *)
ABC(op, a, b, c) == [op |-> op, a |-> a % 256, b |-> b, c |-> c]
ABx(op, a, b) == ABC(op, a, b, 0)
JMP(label) == ABC("JMP", 0, label, 0)

BitRk == 256
opIsK(operand) == operand >= BitRk
opIndexK(operand) == operand - BitRk
opRkAsk(index) == index + BitRk

(* What an expression is compiled for.                                     *)
NotDefined == 256
Context(ctype, reg, opt) == [ctype |-> ctype, reg |-> reg, opt |-> opt]
ecnone(opt) == Context("none", NotDefined, opt)
ecfuncdef == Context("method", NotDefined, 0)
HasRegister(ec) == ec.ctype = "local" /\ ec.reg # NotDefined
savereg(ec, reg) == IF HasRegister(ec) THEN ec.reg ELSE reg
shouldmove(ec, reg) == HasRegister(ec) /\ ec.reg # reg

-----------------------------------------------------------------------------
(* The context of a function: its code, positions counting from 0.         *)
NoJump == 0
NewBlock(offset, breakLabel, firstGoto) ==
    [vars |-> <<>>, offset |-> offset, breakLabel |-> breakLabel, refUpvalue |-> FALSE,
     labels |-> <<>>, firstGoto |-> firstGoto]

newFuncContext(parents) ==
    [code |-> <<>>, blocks |-> <<NewBlock(0, NoJump, 0)>>, regTop |-> 0, labelId |-> 1,
     labelPc |-> <<>>, gotos |-> <<>>, upvalues |-> <<>>, constants |-> <<>>, protos |-> <<>>,
     np |-> 0, vararg |-> FALSE, needsArg |-> FALSE, parents |-> parents, err |-> FALSE,
     inc |-> 0, reg |-> 0, save |-> 0, acs |-> <<>>, closed |-> NotDefined]

raiseCompileError(fc) == [fc EXCEPT !.err = TRUE]
Returning(fc, inc) == [fc EXCEPT !.inc = inc]

(* One after the other, until one panics.                                  *)
InTurn(fc, op(_, _), seq) == FoldLeft(LAMBDA c, x : IF c.err THEN c ELSE op(c, x), fc, seq)

Add(fc, inst) == [fc EXCEPT !.code = Append(@, inst)]
LastPC(fc) == Len(fc.code) - 1
At(fc, pc) == fc.code[pc + 1]
PopInst(fc) == [fc EXCEPT !.code = Front(@)]
NoInstruction == ABC("none", 0, 0, 0)
LastInst(fc) == IF fc.code = <<>> THEN NoInstruction ELSE Last(fc.code)
Patched(fc, pc, inst) == [fc EXCEPT !.code[pc + 1] = inst]

(* The last instruction only moves a register, or a constant, to where it  *)
(* is used: it is not needed.                                              *)
CanPropagate(fc, ofConstants) ==
    /\ LastInst(fc).a >= fc.regTop
    /\ \/ LastInst(fc).op = "MOVE"
       \/ ofConstants /\ LastInst(fc).op = "LOADK" /\ LastInst(fc).b <= MaxIndexRk

Propagate(fc, reg, ofConstants) ==
    IF CanPropagate(fc, ofConstants)
    THEN [PopInst(fc) EXCEPT !.reg = reg,
              !.save = IF LastInst(fc).op = "LOADK" THEN opRkAsk(LastInst(fc).b) ELSE LastInst(fc).b]
    ELSE [fc EXCEPT !.reg = reg + fc.inc, !.save = reg]

AddLoadNil(fc, a, b) ==
    IF LastInst(fc).op = "LOADNIL" /\ LastInst(fc).b + 1 = a
    THEN Patched(fc, LastPC(fc), [LastInst(fc) EXCEPT !.b = b])
    ELSE Add(fc, ABC("LOADNIL", a, b, 0))

NewLabel(fc) == [fc EXCEPT !.labelId = @ + 1]
SetLabelPc(fc, label) == [fc EXCEPT !.labelPc = (label :> LastPC(fc)) @@ @]
GetLabelPc(fc, label) == IF label \in DOMAIN fc.labelPc THEN fc.labelPc[label] ELSE 0

ConstIndex(fc, value) == SelectInSeq(fc.constants, LAMBDA v : v = value) - 1
WithConst(fc, value) ==
    IF value \in Range(fc.constants) THEN fc ELSE [fc EXCEPT !.constants = Append(@, value)]

(* loadRk and its like: the constant, then the instruction with its index. *)
AddK(fc, op, a, value) ==
    LET k == WithConst(fc, value) IN Add(k, ABx(op, a, ConstIndex(k, value)))

loadRk(fc, reg, value) ==
    LET k == WithConst(fc, value)
    IN  IF ConstIndex(k, value) <= MaxIndexRk
        THEN [k EXCEPT !.save = opRkAsk(ConstIndex(k, value)), !.reg = reg]
        ELSE [AddK(k, "LOADK", reg, value) EXCEPT !.save = reg, !.reg = reg + 1]

-----------------------------------------------------------------------------
(* Blocks, innermost last, with the local variables registered in each.    *)
Block(fc) == Last(fc.blocks)
Parent(fc) == fc.blocks[Len(fc.blocks) - 1]
LastIndex(block) == block.offset + Len(block.vars)
CountLocals(blocks) == FoldLeft(LAMBDA n, b : n + Len(b.vars), 0, blocks)
LocalVarsCount(fc) == CountLocals(fc.blocks)

RegisterLocalVar(fc, name) ==
    [fc EXCEPT !.blocks[Len(fc.blocks)].vars = Append(@, name), !.regTop = @ + 1]
RegisterLocalVars(fc, names) == FoldLeft(RegisterLocalVar, fc, names)

(* The index of the innermost block with the variable; 0 when it is none.  *)
FindBlock(fc, name) == SelectLastInSeq(fc.blocks, LAMBDA b : name \in Range(b.vars))
IsLocal(fc, name) == FindBlock(fc, name) # 0
FindLocalVar(fc, name) ==
    LET b == fc.blocks[FindBlock(fc, name)]
    IN  b.offset + SelectLastInSeq(b.vars, LAMBDA v : v = name) - 1

NamesOf(fc) == UNION {Range(fc.blocks[i].vars) : i \in 1..Len(fc.blocks)}
getIdentRefType(fc, name) ==
    IF IsLocal(fc, name) THEN "local"
    ELSE IF name \in UNION Range(fc.parents) THEN "upvalue"
    ELSE "global"

RegisterUnique(fc, name) ==
    IF name \in Range(fc.upvalues) THEN fc ELSE [fc EXCEPT !.upvalues = Append(@, name)]
UpvalueIndex(fc, name) == SelectInSeq(fc.upvalues, LAMBDA u : u = name) - 1
AddUpvalue(fc, op, a, name) ==
    LET u == RegisterUnique(fc, name) IN Add(u, ABC(op, a, UpvalueIndex(u, name), 0))

EnterBlock(fc, breakLabel) ==
    [fc EXCEPT !.blocks = Append(@, NewBlock(fc.regTop, breakLabel, Len(fc.gotos)))]

-----------------------------------------------------------------------------
(* Labels and gotos.  A goto is a CLOSE and a jump; which registers it has *)
(* to close, and whether it may reach its label, is known once the label   *)
(* is found: active are the local variables in scope at either.            *)
ResolveGoto(fc, i, target) ==
    IF fc.gotos[i].active < target.active THEN raiseCompileError(fc)
    ELSE [Patched(fc, fc.gotos[i].pc, JMP(target.id)) EXCEPT !.gotos[i].resolved = TRUE]

(* The CLOSE before the jump of goto i closes from register a.             *)
ClosesFrom(fc, i, a) == Patched(fc, fc.gotos[i].pc - 1, ABC("CLOSE", a, 0, 0))

FindLabel(fc, block, i) ==
    IF fc.gotos[i].name \notin DOMAIN block.labels THEN fc
    ELSE LET target == block.labels[fc.gotos[i].name]
         IN  ResolveGoto(IF fc.gotos[i].active > target.active /\ block.refUpvalue
                         THEN ClosesFrom(fc, i, target.active) ELSE fc,
                         i, target)

(* Over the gotos made since the block was entered that found no label.    *)
ForUnresolved(fc, Op(_, _)) ==
    FoldLeft(LAMBDA c, i : IF c.gotos[i].resolved THEN c ELSE Op(c, i), fc,
             [n \in 1..Len(fc.gotos) - Block(fc).firstGoto |-> Block(fc).firstGoto + n])

\* Mutant: the goto keeps the variables of the block it leaves.
ResolveKeepingActive(fc) ==
    ForUnresolved(fc, LAMBDA c, i : FindLabel(c, Parent(c), i))

ResolveCurrentBlockGotosWithParentBlock(fc) ==
    LET outer == CountLocals(Front(fc.blocks))
        leaves(c, i) ==
            IF c.gotos[i].active <= outer THEN c
            ELSE [(IF Block(c).refUpvalue THEN ClosesFrom(c, i, outer) ELSE c)
                      EXCEPT !.gotos[i].active = outer]
    IN  ForUnresolved(fc, LAMBDA c, i : FindLabel(leaves(c, i), Parent(c), i))

CloseUpvalues(fc) ==
    IF Block(fc).refUpvalue
    THEN [Add(fc, ABC("CLOSE", LastIndex(Parent(fc)), 0, 0)) EXCEPT !.closed = LastIndex(Parent(fc))]
    ELSE [fc EXCEPT !.closed = NotDefined]

LeaveBlock(fc) ==
    LET left == ResolveCurrentBlockGotosWithParentBlock(CloseUpvalues(fc))
    IN  [left EXCEPT !.blocks = Front(@), !.regTop = LastIndex(Parent(left))]

compileLabelStmt(fc, stmt, isLastStmt) ==
    LET target == [id |-> fc.labelId, pc |-> LastPC(fc),
                   active |-> IF isLastStmt THEN CountLocals(Front(fc.blocks)) ELSE LocalVarsCount(fc)]
        named == [SetLabelPc(NewLabel(fc), fc.labelId)
                    EXCEPT !.blocks[Len(fc.blocks)].labels = (stmt.name :> target) @@ @]
    IN  IF stmt.name \in DOMAIN Block(fc).labels THEN raiseCompileError(fc)
        ELSE ForUnresolved(named, LAMBDA c, i :
                 IF c.gotos[i].name = stmt.name THEN ResolveGoto(c, i, target) ELSE c)

compileGotoStmt(fc, stmt) ==
    LET jumping == Add(Add(fc, ABC("CLOSE", 0, 0, 0)), JMP(NoJump))
        waiting == [jumping EXCEPT !.gotos = Append(@,
                        [name |-> stmt.label, pc |-> LastPC(jumping),
                         active |-> LocalVarsCount(fc), resolved |-> FALSE])]
    IN  FindLabel(waiting, Block(waiting), Len(waiting.gotos))

CheckUnresolvedGoto(fc) ==
    IF \E i \in 1..Len(fc.gotos) : ~fc.gotos[i].resolved THEN raiseCompileError(fc) ELSE fc

-----------------------------------------------------------------------------
(* Constant expressions of numbers are computed (constFold).               *)
luaModulo(l, r) == IF r > 0 THEN l % r ELSE -((-l) % (-r))
Arith(op, l, r) ==
    CASE op = "+" -> l + r [] op = "-" -> l - r [] op = "*" -> l * r [] op = "%" -> luaModulo(l, r)

RECURSIVE constFold(_)
constFold(e) ==
    IF e.node = "Arithmetic"
    THEN LET l == constFold(e.lhs)
             r == constFold(e.rhs)
         IN  IF l.node = "Number" /\ r.node = "Number"
             THEN NumberExpr(Arith(e.operator, l.value, r.value)) ELSE e
    ELSE IF e.node = "UnaryMinus"
    THEN LET operand == constFold(e.expr)
         IN  IF operand.node = "Number" THEN NumberExpr(-operand.value) ELSE UnaryMinusOpExpr(operand)
    ELSE e

(* The concatenations to the right of one are done by one instruction.     *)
RECURSIVE ConcatRange(_)
ConcatRange(e) == IF e.node = "Concat" THEN 1 + ConcatRange(e.rhs) ELSE 0

RECURSIVE WithoutConcats(_)
WithoutConcats(fc) ==
    IF LastPC(fc) # 0 /\ LastInst(fc).op = "CONCAT" THEN WithoutConcats(PopInst(fc)) ELSE fc

RECURSIVE compileExpr(_, _, _, _), compileChunk(_, _, _), compileFunctionExpr(_, _, _)

WithPropagation(fc, reg, e, ofConstants) ==
    LET done == compileExpr(fc, reg, e, ecnone(0))
    IN  IF e.node = "Logical" THEN [done EXCEPT !.save = reg, !.reg = reg + done.inc]
        ELSE Propagate(done, reg, ofConstants)

(* Both operands, and then the instruction that op makes of them.          *)
Binary(fc, reg, lhs, rhs, op(_, _)) ==
    LET l == WithPropagation(fc, reg, lhs, TRUE)
        r == WithPropagation(l, l.reg, rhs, TRUE)
    IN  Add(r, op(l.save, r.save))

compileAttrGetExpr(fc, reg, e, sreg) ==
    LET o == WithPropagation(fc, reg, e.object, FALSE)
        k == WithPropagation(o, o.reg, e.key, TRUE)
    IN  Add(k, ABC(IF e.key.node = "String" THEN "GETTABLEKS" ELSE "GETTABLE", sreg, o.save, k.save))

(* A comparison skips the jump that follows it unless it comes out as flip. *)
compileRelationalOpExprAux(fc, reg, e, flip, label) ==
    LET compare(b, c) ==
            CASE e.operator = "<" -> ABC("LT", flip, b, c)
              [] e.operator = ">" -> ABC("LT", flip, c, b)
              [] e.operator = "<=" -> ABC("LE", flip, b, c)
              [] e.operator = ">=" -> ABC("LE", flip, c, b)
              [] e.operator = "==" -> ABC("EQ", flip, b, c)
              [] e.operator = "~=" -> ABC("EQ", 1 - flip, b, c)
    IN  Add(Binary(fc, reg, e.lhs, e.rhs, compare), JMP(label))

compileRelationalOpExpr(fc, reg, e, ec) ==
    LET a == savereg(ec, reg)
        compared == compileRelationalOpExprAux(NewLabel(fc), reg, e, 1, fc.labelId)
    IN  Add(SetLabelPc(Add(compared, ABC("LOADBOOL", a, 0, 1)), fc.labelId), ABC("LOADBOOL", a, 1, 0))

compileUnaryOpExpr(fc, reg, e, ec) ==
    LET a == savereg(ec, reg)
        folded == constFold(e)
        apply(op, operand) ==
            LET o == WithPropagation(fc, reg, operand, FALSE) IN Add(o, ABC(op, a, o.save, 0))
    IN  CASE e.node = "UnaryMinus" /\ folded.node = "Number" -> compileExpr(fc, reg, folded, ec)
          [] e.node = "UnaryMinus" /\ folded.node # "Number" -> apply("UNM", folded.expr)
          [] e.node = "UnaryLen" -> apply("LEN", e.expr)
          [] e.node = "UnaryNot" /\ e.expr = TrueExpr -> Add(fc, ABC("LOADBOOL", a, 0, 0))
          [] e.node = "UnaryNot" /\ e.expr \in {FalseExpr, NilExpr} -> Add(fc, ABC("LOADBOOL", a, 1, 0))
          [] OTHER -> apply("NOT", e.expr)

compileArithmeticOpExpr(fc, reg, e, ec) ==
    LET folded == constFold(e)
    IN  IF folded.node = "Number" THEN compileExpr(fc, reg, folded, ec)
        ELSE Binary(fc, reg, e.lhs, e.rhs, LAMBDA b, c : ABC(e.operator, savereg(ec, reg), b, c))

compileStringConcatOpExpr(fc, reg, e, ec) ==
    LET l == compileExpr(fc, reg, e.lhs, ecnone(0))
        r == compileExpr(l, reg + l.inc, e.rhs, ecnone(0))
    IN  Add(WithoutConcats(r), ABC("CONCAT", savereg(ec, reg), reg, reg + ConcatRange(e)))

-----------------------------------------------------------------------------
(* Conditions.  A test skips the jump that follows it; hasnextcond turns it *)
(* round.                                                                  *)
RECURSIVE compileBranchCondition(_, _, _, _, _, _)
compileBranchCondition(fc, reg, e, then, else, hasnextcond) ==
    LET flip == IF hasnextcond THEN 1 ELSE 0
        target == IF hasnextcond THEN then ELSE else
        next == fc.labelId
        first == IF e.operator = "and"
                 THEN compileBranchCondition(NewLabel(fc), reg, e.lhs, next, else, FALSE)
                 ELSE compileBranchCondition(NewLabel(fc), reg, e.lhs, then, next, TRUE)
        tested == WithPropagation(fc, reg, e, FALSE)
    IN  CASE e.node \in {"False", "Nil"} /\ ~hasnextcond -> Add(fc, JMP(else))
          [] e.node \in {"True", "Number", "String"} /\ ~hasnextcond -> fc
          [] e.node = "UnaryNot" -> compileBranchCondition(fc, reg, e.expr, else, then, ~hasnextcond)
          [] e.node = "Logical" ->
                compileBranchCondition(SetLabelPc(first, next), reg, e.rhs, then, else, hasnextcond)
          [] e.node = "Relational" -> compileRelationalOpExprAux(fc, reg, e, flip, target)
          [] OTHER -> Add(Add(tested, ABC("TEST", tested.save, 0, flip)), JMP(target))

(* lb are the labels of the whole expression: where it is true, where it is *)
(* false, its end.  That one of the first two is needed is seen from the   *)
(* jumps to them.                                                          *)
JumpsTo(fc, labels) == \E i \in 1..Len(fc.code) : fc.code[i].op = "JMP" /\ fc.code[i].b \in labels

LogicalOperand(fc, reg, e, ec, then, else, hasnextcond, lb) ==
    LET flip == IF hasnextcond THEN 1 ELSE 0
        sreg == savereg(ec, reg)
        isLast == \/ else = lb.e /\ then # else
                  \/ then = lb.e /\ hasnextcond
        whole == compileExpr(fc, reg, e, Context(ec.ctype, IF sreg > reg THEN sreg ELSE reg, ec.opt))
        operand == compileExpr(fc, reg, e, ecnone(0))
    IN  IF e.node = "Ident" /\ isLast /\ IsLocal(fc, e.name)
        THEN LET b == FindLocalVar(fc, e.name)
             IN  Add(fc, IF sreg = b THEN ABC("TEST", sreg, b, flip) ELSE ABC("TESTSET", sreg, b, flip))
        ELSE IF ~hasnextcond /\ then = else
        THEN IF LastInst(whole).op = "MOVE" /\ LastInst(whole).a = reg
             THEN Patched(whole, LastPC(whole), [LastInst(whole) EXCEPT !.a = sreg])
             ELSE Add(whole, ABC("MOVE", sreg, reg, 0))
        ELSE Add(operand, IF hasnextcond THEN ABC("TESTSET", sreg, reg, flip) ELSE ABC("TEST", reg, 0, flip))

RECURSIVE compileLogicalOpExprAux(_, _, _, _, _, _, _, _)
compileLogicalOpExprAux(fc, reg, e, ec, then, else, hasnextcond, lb) ==
    LET flip == IF hasnextcond THEN 1 ELSE 0
        target == IF hasnextcond THEN then ELSE else
        next == fc.labelId
        first == IF e.operator = "and"
                 THEN compileLogicalOpExprAux(NewLabel(fc), reg, e.lhs, ec, next, else, FALSE, lb)
                 ELSE compileLogicalOpExprAux(NewLabel(fc), reg, e.lhs, ec, then, next, TRUE, lb)
        valued == compileExpr(fc, reg, e, ec)
    IN  CASE e.node = "False" -> Add(fc, JMP(IF else = lb.e THEN lb.f ELSE else))
          [] e.node = "True" -> Add(fc, JMP(IF then = lb.e THEN lb.t ELSE then))
          [] e.node = "Nil" -> IF else = lb.e THEN Add(valued, JMP(lb.e)) ELSE Add(fc, JMP(else))
          [] e.node \in {"Number", "String"} ->
                IF then = lb.e THEN Add(valued, JMP(lb.e)) ELSE Add(fc, JMP(then))
          [] e.node = "Logical" ->
                compileLogicalOpExprAux(SetLabelPc(first, next), reg, e.rhs, ec, then, else, hasnextcond, lb)
          [] e.node = "Relational" ->
                IF then = else THEN compileRelationalOpExprAux(fc, reg, e, 1 - flip, lb.t)
                ELSE compileRelationalOpExprAux(fc, reg, e, flip,
                        IF then = lb.e THEN lb.t ELSE IF else = lb.e THEN lb.f ELSE target)
          [] OTHER -> Add(LogicalOperand(fc, reg, e, ec, then, else, hasnextcond, lb), JMP(target))

compileLogicalOpExpr(fc, reg, e, ec) ==
    LET a == savereg(ec, reg)
        end == fc.labelId
        lb == [e |-> end, t |-> end + 1, f |-> end + 2]
        next == end + 3
        labelled == [fc EXCEPT !.labelId = @ + 4]
        first == IF e.operator = "and"
                 THEN compileLogicalOpExprAux(labelled, reg, e.lhs, ec, next, end, FALSE, lb)
                 ELSE compileLogicalOpExprAux(labelled, reg, e.lhs, ec, end, next, TRUE, lb)
        both == compileLogicalOpExprAux(SetLabelPc(first, next), reg, e.rhs, ec, end, end, FALSE, lb)
        loaded == IF JumpsTo(both, {lb.t, lb.f})
                  THEN Add(SetLabelPc(Add(SetLabelPc(both, lb.f), ABC("LOADBOOL", a, 0, 1)), lb.t),
                           ABC("LOADBOOL", a, 1, 0))
                  ELSE both
    IN  SetLabelPc(IF LastInst(loaded) = JMP(end) THEN PopInst(loaded) ELSE loaded, end)

-----------------------------------------------------------------------------
(* Calls, tables and functions.                                            *)

(* Expressions in registers that follow each other.                        *)
InARow(fc, reg, es) ==
    InTurn([fc EXCEPT !.reg = reg],
           LAMBDA c, e : LET done == compileExpr(c, c.reg, e, ecnone(0))
                         IN  [done EXCEPT !.reg = c.reg + done.inc],
           es)

(* The same, with all the values of the last one.                          *)
AllInARow(fc, reg, es) ==
    IF es # <<>> /\ HasManyValues(Last(es))
    THEN LET most == InARow(fc, reg, Front(es)) IN compileExpr(most, most.reg, Last(es), ecnone(-2))
    ELSE InARow(fc, reg, es)

compileCallee(fc, reg, e, funcreg) ==
    IF e.node = "FuncCall"
    THEN LET f == compileExpr(fc, reg, e.func, ecnone(0)) IN [f EXCEPT !.reg = reg + f.inc]
    ELSE LET o == WithPropagation(fc, reg, e.receiver, FALSE)
             m == loadRk(o, o.reg, Str(e.method))
         IN  [Add(m, ABC("SELF", funcreg, o.save, m.save))
                 EXCEPT !.reg = IF funcreg + 2 > o.save + 1 THEN funcreg + 2 ELSE o.save + 1]

compileFuncCallExpr(fc, reg, e, ec) ==
    LET funcreg == IF ec.ctype = "local" /\ ec.reg = fc.np - 1 THEN ec.reg ELSE reg
        callee == compileCallee(fc, funcreg, e, funcreg)
        ready == AllInARow(callee, callee.reg, e.args)
        self == IF e.node = "MethodCall" THEN 1 ELSE 0
        b == IF e.args # <<>> /\ HasManyValues(Last(e.args)) THEN 0 ELSE Len(e.args) + self + 1
        called == Add(ready, ABC("CALL", funcreg, b, ec.opt + 2))
    IN  IF ec.opt = 0 /\ shouldmove(ec, funcreg)
        THEN Returning(Add(called, ABC("MOVE", ec.reg, funcreg, 0)), 1)
        ELSE IF called.regTop > funcreg + 2 + ec.opt \/ ec.opt < -1 THEN Returning(called, 0)
        ELSE Returning(called, ec.opt + 1)

(* A field of the list takes the next register, until they are flushed.    *)
compileListField(fc, reg, value, islast) ==
    IF islast /\ HasManyValues(value)
    THEN LET many == compileExpr(fc, reg, value, ecnone(-2)) IN [many EXCEPT !.reg = reg + many.inc]
    ELSE LET one == compileExpr(fc, reg, value, ecnone(0)) IN [one EXCEPT !.reg = reg + one.inc]

compileKeyField(fc, reg, tablereg, field) ==
    LET op == IF field.key.node = "String" THEN "SETTABLEKS" ELSE "SETTABLE"
    IN  [Binary(fc, reg, field.key, field.value, LAMBDA b, c : ABC(op, tablereg, b, c))
            EXCEPT !.reg = reg]

(* The division of Go rounds towards 0: without fields before a list of    *)
(* many values, that is block 1 all the same.  A block with a number that  *)
(* does not fit is followed by a word, which is 0 as well.                 *)
FlushBlock(fc, tablereg, count, many) ==
    LET block == (IF count = 0 THEN 0 ELSE (count - 1) \div FieldsPerFlush) + 1
        num == IF count % FieldsPerFlush = 0 THEN FieldsPerFlush ELSE count % FieldsPerFlush
        setlist(c) == Add(fc, ABC("SETLIST", tablereg, IF many THEN 0 ELSE num, c))
    IN  IF block <= MaxArgC THEN setlist(block) ELSE Add(setlist(0), ABC("MOVE", 0, 0, 0))

compileTableExpr(fc, reg, e, ec) ==
    LET count(i) == Cardinality({j \in 1..i : /\ e.fields[j].key = NoKey
                                              /\ ~(j = Len(e.fields) /\ HasManyValues(e.fields[j].value))})
        store(c, i) ==
            LET field == e.fields[i]
                islast == i = Len(e.fields)
                many == islast /\ HasManyValues(field.value)
                stored == IF field.key = NoKey THEN compileListField(c, c.reg, field.value, islast)
                          ELSE compileKeyField(c, c.reg, reg, field)
                full == count(i) # 0 /\ (count(i) % FieldsPerFlush = 0 \/ islast)
            IN  IF full \/ (field.key = NoKey /\ many)
                THEN [FlushBlock(stored, reg, count(i), many) EXCEPT !.reg = reg + 1]
                ELSE stored
        filled == InTurn([Add(fc, ABC("NEWTABLE", reg, 0, 0)) EXCEPT !.reg = reg + 1], store,
                         Indices(e.fields))
    IN  IF shouldmove(ec, reg) THEN Add(filled, ABC("MOVE", ec.reg, reg, 0)) ELSE filled

(* The closure's instruction is followed by one for each upvalue, which it *)
(* reads and nobody runs.                                                  *)
Capture(fc, name) ==
    IF IsLocal(fc, name)
    THEN [Add(fc, ABC("MOVE", 0, FindLocalVar(fc, name), 0))
             EXCEPT !.blocks[FindBlock(fc, name)].refUpvalue = TRUE]
    ELSE AddUpvalue(fc, "GETUPVAL", 0, name)

compileClosure(fc, sreg, e, ec) ==
    LET child == compileFunctionExpr(newFuncContext(Append(fc.parents, NamesOf(fc))), e, ec)
        made == [fc EXCEPT !.protos = Append(@, child), !.err = @ \/ child.err]
    IN  InTurn(Add(made, ABx("CLOSURE", sreg, Len(fc.protos))), Capture, child.upvalues)

compileIdentExpr(fc, sreg, name) ==
    CASE getIdentRefType(fc, name) = "global" -> AddK(fc, "GETGLOBAL", sreg, Str(name))
      [] getIdentRefType(fc, name) = "upvalue" -> AddUpvalue(fc, "GETUPVAL", sreg, name)
      [] getIdentRefType(fc, name) = "local" -> Add(fc, ABC("MOVE", sreg, FindLocalVar(fc, name), 0))

compileComma3Expr(fc, reg, sreg, ec) ==
    LET added == Add([fc EXCEPT !.needsArg = FALSE], ABC("VARARG", sreg, 2 + ec.opt, 0))
    IN  IF ~fc.vararg THEN raiseCompileError(added)
        ELSE Returning(added, IF fc.regTop > sreg + 2 + ec.opt \/ ec.opt < -1 THEN 0
                              ELSE sreg + 1 + ec.opt - reg)

compileExpr(fc, reg, e, ec) ==
    LET sreg == savereg(ec, reg)
        used(c) == Returning(c, IF sreg < reg THEN 0 ELSE 1)
    IN  CASE e.node = "String" -> used(AddK(fc, "LOADK", sreg, Str(e.value)))
          [] e.node = "Number" -> used(AddK(fc, "LOADK", sreg, Num(e.value)))
          [] e.node = "Nil" -> used(AddLoadNil(fc, sreg, sreg))
          [] e.node = "False" -> used(Add(fc, ABC("LOADBOOL", sreg, 0, 0)))
          [] e.node = "True" -> used(Add(fc, ABC("LOADBOOL", sreg, 1, 0)))
          [] e.node = "Ident" -> used(compileIdentExpr(fc, sreg, e.name))
          [] e.node = "Comma3" -> compileComma3Expr(fc, reg, sreg, ec)
          [] e.node = "AttrGet" -> used(compileAttrGetExpr(fc, reg, e, sreg))
          [] e.node = "Table" -> Returning(compileTableExpr(fc, reg, e, ec), 1)
          [] e.node = "Arithmetic" -> used(compileArithmeticOpExpr(fc, reg, e, ec))
          [] e.node = "Concat" -> used(compileStringConcatOpExpr(fc, reg, e, ec))
          [] e.node \in {"UnaryMinus", "UnaryNot", "UnaryLen"} -> used(compileUnaryOpExpr(fc, reg, e, ec))
          [] e.node = "Relational" -> used(compileRelationalOpExpr(fc, reg, e, ec))
          [] e.node = "Logical" -> used(compileLogicalOpExpr(fc, reg, e, ec))
          [] e.node \in {"FuncCall", "MethodCall"} -> compileFuncCallExpr(fc, reg, e, ec)
          [] e.node = "Function" -> used(compileClosure(fc, sreg, e, ec))

-----------------------------------------------------------------------------
(* Statements.  The targets of an assignment are looked at first; a value  *)
(* goes right into a local variable, anything else waits in a register and *)
(* is stored when all values are there, the last one first.                *)
Target(ec, keyrk, keyks) == [ec |-> ec, keyrk |-> keyrk, keyks |-> keyks, valuerk |-> 0, needmove |-> FALSE]
WithTarget(fc, reg, ac) == [fc EXCEPT !.reg = reg, !.acs = Append(@, ac)]

compileTarget(fc, lhs) ==
    IF lhs.node = "Ident"
    THEN CASE getIdentRefType(fc, lhs.name) = "global" ->
                WithTarget(WithConst(fc, Str(lhs.name)), fc.reg, Target(Context("global", NotDefined, 0), 0, FALSE))
           [] getIdentRefType(fc, lhs.name) = "upvalue" ->
                WithTarget(RegisterUnique(fc, lhs.name), fc.reg, Target(Context("upvalue", NotDefined, 0), 0, FALSE))
           [] getIdentRefType(fc, lhs.name) = "local" ->
                WithTarget(fc, fc.reg, Target(Context("local", FindLocalVar(fc, lhs.name), 0), 0, FALSE))
    ELSE LET o == WithPropagation(fc, fc.reg, lhs.object, TRUE)
             k == compileExpr(o, o.reg, lhs.key, ecnone(0))
         IN  WithTarget(k, o.reg + k.inc,
                        Target(Context("table", o.save, 0), o.reg, lhs.key.node = "String"))

compileAssignStmtLeft(fc, stmt) ==
    InTurn([fc EXCEPT !.reg = fc.regTop, !.acs = <<>>], compileTarget, stmt.lhs)

(* The value of target i; targets without an expression get nil.           *)
compileValue(fc, stmt, i) ==
    LET ac == fc.acs[i]
        e == IF i <= Len(stmt.rhs) THEN stmt.rhs[i] ELSE NilExpr
        done == compileExpr(fc, fc.reg, e, ac.ec)
        kept == IF e.node = "Logical" THEN [done EXCEPT !.save = fc.reg, !.reg = fc.reg + done.inc]
                ELSE Propagate(done, fc.reg, TRUE)
    IN  IF ac.ec.ctype = "table"
        THEN [kept EXCEPT !.acs = [fc.acs EXCEPT ![i].valuerk = kept.save]]
        ELSE [done EXCEPT !.reg = fc.reg + done.inc, !.acs = [fc.acs EXCEPT ![i].needmove = done.inc # 0]]

(* The last expression has values for target i and those after it.         *)
compileManyValues(fc, stmt, i) ==
    LET done == compileExpr(fc, fc.reg, stmt.rhs[i], ecnone(Len(stmt.lhs) - i))
    IN  [done EXCEPT !.reg = fc.reg + done.inc,
            !.acs = [j \in DOMAIN fc.acs |->
                        IF j \in i..i + done.inc - 1
                        THEN [fc.acs[j] EXCEPT !.needmove = TRUE,
                                 !.valuerk = IF fc.acs[j].ec.ctype = "table" THEN fc.reg + j - i ELSE @]
                        ELSE fc.acs[j]]]

compileExtraValue(fc, e, islast) ==
    LET done == compileExpr(fc, fc.reg, e, ecnone(IF islast THEN -1 ELSE 0))
    IN  [done EXCEPT !.reg = fc.reg + done.inc]

compileAssignStmtRight(fc, stmt) ==
    LET n == Len(stmt.rhs)
        value(c, i) ==
            IF i > Len(stmt.lhs) THEN compileExtraValue(c, stmt.rhs[i], i = n)
            ELSE IF i = n /\ HasManyValues(stmt.rhs[i]) THEN compileManyValues(c, stmt, i)
            ELSE compileValue(c, stmt, i)
        manyAtEnd == n <= Len(stmt.lhs) /\ HasManyValues(stmt.rhs[n])
        targets == IF manyAtEnd THEN n ELSE Len(stmt.lhs)
        assigned == InTurn(fc, value, [i \in 1..targets |-> i])
        extra == InTurn(assigned, value, [i \in 1..n - targets |-> targets + i])
    IN  [extra EXCEPT !.reg = assigned.reg - 1]

StoreTarget(fc, lhs, ac) ==
    LET taken(c) == [c EXCEPT !.reg = fc.reg - 1]
        op == IF ac.keyks THEN "SETTABLEKS" ELSE "SETTABLE"
        set == Add(fc, ABC(op, ac.ec.reg, ac.keyrk, ac.valuerk))
    IN  CASE ac.ec.ctype = "local" ->
                IF ac.needmove THEN taken(Add(fc, ABC("MOVE", FindLocalVar(fc, lhs.name), fc.reg, 0))) ELSE fc
          [] ac.ec.ctype = "global" -> taken(AddK(fc, "SETGLOBAL", fc.reg, Str(lhs.name)))
          [] ac.ec.ctype = "upvalue" -> taken(AddUpvalue(fc, "SETUPVAL", fc.reg, lhs.name))
          [] ac.ec.ctype = "table" -> IF opIsK(ac.valuerk) THEN set ELSE taken(set)

compileAssignStmt(fc, stmt) ==
    LET ready == compileAssignStmtRight(compileAssignStmtLeft(fc, stmt), stmt)
    IN  FoldRight(LAMBDA i, c : StoreTarget(c, stmt.lhs[i], ready.acs[i]), Indices(stmt.lhs), ready)

(* Values for the registers from reg, of which names needs some.           *)
compileRegAssignment(fc, names, exprs, reg, nvars) ==
    LET manyAt == IF exprs # <<>> /\ Len(exprs) <= Len(names) /\ HasManyValues(Last(exprs))
                  THEN Len(exprs) ELSE 0
        n == IF Len(exprs) < Len(names) THEN Len(exprs) ELSE Len(names)
        value(c, i) ==
            IF i = manyAt THEN compileExpr(c, reg + i - 1, exprs[i], Context("vararg", reg + i - 1, nvars - i))
            ELSE compileExpr(c, reg + i - 1, exprs[i], Context("local", reg + i - 1, 0))
        assigned == InTurn(fc, value, [i \in 1..n |-> i])
        filled == IF manyAt = 0 /\ n < Len(names)
                  THEN AddLoadNil(assigned, reg + n, reg + Len(names) - 1) ELSE assigned
    IN  InTurn([filled EXCEPT !.reg = reg + n],
               LAMBDA c, i : compileExtraValue(c, exprs[i], i = Len(exprs)),
               [i \in 1..Len(exprs) - n |-> n + i])

compileLocalAssignStmt(fc, stmt) ==
    IF Len(stmt.names) = 1 /\ Len(stmt.exprs) = 1 /\ stmt.exprs[1].node = "Function"
    THEN compileRegAssignment(RegisterLocalVar(fc, stmt.names[1]), stmt.names, stmt.exprs, fc.regTop, 1)
    ELSE RegisterLocalVars(compileRegAssignment(fc, stmt.names, stmt.exprs, fc.regTop, Len(stmt.names)),
                           stmt.names)

compileReturnStmt(fc, stmt) ==
    LET reg == fc.regTop
        only == stmt.exprs[1]
        one == Len(stmt.exprs) = 1
        many == stmt.exprs # <<>> /\ HasManyValues(Last(stmt.exprs))
        called == compileExpr(fc, reg, only, ecnone(IF many THEN -2 ELSE 0))
        values == AllInARow(fc, reg, stmt.exprs)
    IN  IF one /\ only.node = "Ident" /\ IsLocal(fc, only.name)
        THEN Add(fc, ABC("RETURN", FindLocalVar(fc, only.name), 2, 0))
        ELSE IF one /\ only.node \in {"FuncCall", "MethodCall"}
        THEN Add(IF many THEN Patched(called, LastPC(called), [LastInst(called) EXCEPT !.op = "TAILCALL"])
                 ELSE called,
                 ABC("RETURN", reg, 0, 0))
        ELSE Add(values, ABC("RETURN", reg, IF many THEN 0 ELSE values.reg - reg + 1, 0))

-----------------------------------------------------------------------------
(* Blocks, branches and loops.                                             *)
compileBlock(fc, chunk) ==
    IF chunk = <<>> THEN fc ELSE LeaveBlock(compileChunk(EnterBlock(fc, NoJump), chunk, FALSE))

compileIfStmt(fc, stmt) ==
    LET then == fc.labelId
        else == then + 1
        end == then + 2
        tested == compileBranchCondition([fc EXCEPT !.labelId = @ + 3], fc.regTop, stmt.cond, then, else, FALSE)
        first == compileBlock(SetLabelPc(tested, then), stmt.then)
    IN  IF stmt.else = <<>> THEN SetLabelPc(first, else)
        ELSE SetLabelPc(compileBlock(SetLabelPc(Add(first, JMP(end)), else), stmt.else), end)

compileWhileStmt(fc, stmt) ==
    LET then == fc.labelId
        else == then + 1
        cond == then + 2
        tested == compileBranchCondition(SetLabelPc([fc EXCEPT !.labelId = @ + 3], cond),
                                         fc.regTop, stmt.cond, then, else, FALSE)
        body == compileChunk(EnterBlock(SetLabelPc(tested, then), else), stmt.stmts, FALSE)
    IN  SetLabelPc(LeaveBlock(Add(CloseUpvalues(body), JMP(cond))), else)

(* A loop that captures closes on the way back as well as on the way out.  *)
compileRepeatStmt(fc, stmt) ==
    LET init == fc.labelId
        then == init + 1
        else == init + 2
        started == SetLabelPc(SetLabelPc([fc EXCEPT !.labelId = @ + 3], init), else)
        body == compileChunk(EnterBlock(started, then), stmt.stmts, TRUE)
        tested == compileBranchCondition(body, body.regTop, stmt.cond, then, else, FALSE)
        left == LeaveBlock(SetLabelPc(tested, then))
        end == left.labelId
        again == SetLabelPc(Add(NewLabel(left), JMP(end)), else)
    IN  IF left.closed = NotDefined THEN left
        ELSE SetLabelPc(Add(Add(again, ABC("CLOSE", left.closed, 0, 0)), JMP(init)), end)

compileBreakStmt(fc) ==
    LET loop == SelectLastInSeq(fc.blocks, LAMBDA b : b.breakLabel # NoJump)
        jump(c) == Add(c, JMP(fc.blocks[loop].breakLabel))
    IN  IF loop = 0 THEN raiseCompileError(fc)
        ELSE IF fc.blocks[loop].refUpvalue
        THEN jump(Add(fc, ABC("CLOSE", LastIndex(fc.blocks[loop - 1]), 0, 0)))
        ELSE jump(fc)

compileFuncDefStmt(fc, stmt) ==
    IF stmt.node = "FuncDef" THEN compileAssignStmt(fc, AssignStmt(<<stmt.name>>, <<stmt.func>>))
    ELSE LET receiver == WithPropagation(fc, fc.regTop, stmt.receiver, TRUE)
             key == loadRk(receiver, receiver.reg, Str(stmt.method))
             made == compileExpr(key, key.reg, stmt.func, ecfuncdef)
         IN  Add(made, ABC("SETTABLE", receiver.save, key.save, key.reg))

(* The index, limit and step of a loop, each registered as a variable      *)
(* before its value is computed into it.                                   *)
compileLoopValue(fc, e) ==
    compileExpr(RegisterLocalVar(fc, "(for)"), fc.regTop, e, Context("local", fc.regTop, 0))

LoopBack(bodypc, flpc) == bodypc - (flpc + 1)

compileNumberForStmt(fc, stmt) ==
    LET index == fc.regTop
        end == fc.labelId
        values == compileLoopValue(compileLoopValue(compileLoopValue(
                      EnterBlock(NewLabel(fc), end), stmt.init), stmt.limit), stmt.step)
        prepared == RegisterLocalVar(Add(values, ABx("FORPREP", index, 0)), stmt.name)
        bodypc == LastPC(prepared)
        left == LeaveBlock(compileChunk(prepared, stmt.stmts, FALSE))
        flpc == LastPC(left)
        looped == SetLabelPc(Add(left, ABx("FORLOOP", index, LoopBack(bodypc, flpc))), end)
    IN  Patched(looped, bodypc, ABx("FORPREP", index, flpc - bodypc))

compileGenericForStmt(fc, stmt) ==
    LET gen == fc.regTop
        end == fc.labelId
        body == end + 1
        loop == end + 2
        hidden == RegisterLocalVars(EnterBlock([fc EXCEPT !.labelId = @ + 3], end), <<"(for)", "(for)", "(for)">>)
        ready == Add(compileRegAssignment(hidden, stmt.names, stmt.exprs, gen, 3), JMP(loop))
        inside == SetLabelPc(RegisterLocalVars(ready, stmt.names), body)
        left == SetLabelPc(LeaveBlock(compileChunk(inside, stmt.stmts, FALSE)), loop)
    IN  SetLabelPc(Add(Add(left, ABC("TFORLOOP", gen, 0, Len(stmt.names))), JMP(body)), end)

compileStmt(fc, stmt, isLastStmt) ==
    CASE stmt.node = "Assign" -> compileAssignStmt(fc, stmt)
      [] stmt.node = "LocalAssign" -> compileLocalAssignStmt(fc, stmt)
      [] stmt.node = "Call" -> compileFuncCallExpr(fc, fc.regTop, stmt.expr, ecnone(-1))
      [] stmt.node = "Do" -> LeaveBlock(compileChunk(EnterBlock(fc, NoJump), stmt.stmts, FALSE))
      [] stmt.node = "While" -> compileWhileStmt(fc, stmt)
      [] stmt.node = "Repeat" -> compileRepeatStmt(fc, stmt)
      [] stmt.node \in {"FuncDef", "MethodDef"} -> compileFuncDefStmt(fc, stmt)
      [] stmt.node = "Return" -> compileReturnStmt(fc, stmt)
      [] stmt.node = "If" -> compileIfStmt(fc, stmt)
      [] stmt.node = "Break" -> compileBreakStmt(fc)
      [] stmt.node = "NumberFor" -> compileNumberForStmt(fc, stmt)
      [] stmt.node = "GenericFor" -> compileGenericForStmt(fc, stmt)
      [] stmt.node = "Label" -> compileLabelStmt(fc, stmt, isLastStmt)
      [] stmt.node = "Goto" -> compileGotoStmt(fc, stmt)

compileChunk(fc, chunk, untilFollows) ==
    LET isLast(i) == ~untilFollows /\ \A j \in i + 1..Len(chunk) : chunk[j].node = "Label"
    IN  InTurn(fc, LAMBDA c, i : compileStmt(c, chunk[i], isLast(i)), Indices(chunk))

-----------------------------------------------------------------------------
(* patchCode: the highest register, jumps to where they lead in the end,   *)
(* and one instruction in front of moves in a row for all of them.         *)
SetsNoRegister == {"SETGLOBAL", "SETUPVAL", "EQ", "LT", "LE", "TEST", "TAILCALL", "RETURN", "FORPREP",
                   "FORLOOP", "TFORLOOP", "SETLIST", "CLOSE", "JMP", "CLOSURE"}

HighestRegister(inst) ==
    CASE inst.op \in SetsNoRegister -> 0
      [] inst.op = "CALL" -> inst.a + inst.c - 2
      [] inst.op = "VARARG" -> inst.a + inst.b - 1
      [] inst.op = "SELF" -> inst.a + 1
      [] inst.op = "LOADNIL" -> inst.b
      [] OTHER -> inst.a

\* Mutant: a jump leads one instruction too far.
DistanceFromPc(fc, pc, inst, count) == GetLabelPc(fc, inst.b) + 1 - pc

(* A jump that leads to a jump leads where that one does, five times.      *)
RECURSIVE Distance(_, _, _, _)
Distance(fc, pc, inst, count) ==
    LET d == GetLabelPc(fc, inst.b) - pc
        next == At(fc, pc + d + 1)
    IN  IF next.op = "JMP" /\ count < 5 THEN Distance(fc, pc, next, count + 1) ELSE d

\* Mutant: a jump to the next instruction is made one to itself.
JumpsToItself(fc, pc) ==
    LET d == Distance(fc, pc, At(fc, pc), 1)
    IN  Patched(fc, pc, JMP(IF d = 0 THEN -1 ELSE d))

PatchedJump(fc, pc) ==
    LET d == Distance(fc, pc, At(fc, pc), 1)
    IN  Patched(fc, pc, IF d = 0 THEN [At(fc, pc) EXCEPT !.op = "NOP"] ELSE JMP(d))

MergedMoves(fc, pc, moves) ==
    IF moves <= 1 THEN fc
    ELSE Patched(fc, pc - moves, [At(fc, pc - moves) EXCEPT
                    !.op = "MOVEN", !.c = IF moves - 1 < MaxArgC THEN moves - 1 ELSE MaxArgC])

RECURSIVE PatchFrom(_, _, _)
PatchFrom(fc, pc, moves) ==
    IF pc > LastPC(fc) THEN fc
    ELSE LET inst == At(fc, pc)
         IN  CASE inst.op = "CLOSURE" ->
                    PatchFrom(fc, pc + Len(fc.protos[inst.b + 1].upvalues) + 1, 0)
               [] inst.op = "MOVE" -> PatchFrom(fc, pc + 1, moves + 1)
               [] inst.op \notin {"CLOSURE", "MOVE"} ->
                    PatchFrom(MergedMoves(IF inst.op = "JMP" THEN PatchedJump(fc, pc) ELSE fc, pc, moves),
                              pc + 1, 0)

(* Neither the registers of closures nor their upvalues are counted.       *)
NumUsedRegisters(fc) ==
    LET upvalueOf(pc) == \E c \in 0..pc - 1 :
            At(fc, c).op = "CLOSURE" /\ pc <= c + Len(fc.protos[At(fc, c).b + 1].upvalues)
    IN  Max({1, fc.np} \cup {HighestRegister(At(fc, pc)) : pc \in {p \in 0..LastPC(fc) : ~upvalueOf(p)}}) + 1

patchCode(fc) ==
    [code |-> PatchFrom(fc, 0, 0).code, constants |-> fc.constants, protos |-> fc.protos,
     upvalues |-> fc.upvalues, np |-> fc.np, vararg |-> fc.vararg, needsArg |-> fc.needsArg,
     isG |-> FALSE, used |-> NumUsedRegisters(fc), err |-> FALSE]

Rejected(fc) == [err |-> TRUE, upvalues |-> <<>>]

(* With CompatVarArg a function with ... has a local variable arg, but not *)
(* the main one.                                                           *)
compileFunctionExpr(fc, e, ec) ==
    LET names == IF ec.ctype = "method" THEN <<"self">> \o e.names ELSE e.names
        params == RegisterLocalVars([fc EXCEPT !.np = Len(names), !.vararg = e.vargs, !.needsArg = e.vargs], names)
        started == IF e.vargs /\ fc.parents # <<>> THEN RegisterLocalVar(params, "arg") ELSE params
        body == compileChunk(started, e.stmts, FALSE)
        done == CheckUnresolvedGoto(Add(body, ABC("RETURN", 0, 1, 0)))
    IN  IF done.err THEN Rejected(done) ELSE patchCode(done)

Compile(chunk) == compileFunctionExpr(newFuncContext(<<>>), FunctionExpr(<<>>, TRUE, chunk), ecnone(0))
=============================================================================
