----------------------------- MODULE MCPrograms -----------------------------
(***************************************************************************)
(* Programs for VirtualMachine, by what they are after: Right are those    *)
(* the compiler gets right, and each of Wrong shows a way it goes wrong.   *)
(***************************************************************************)
EXTENDS Compiler

Lua == INSTANCE LuaSemantics

I(name) == IdentExpr(name)
N(n) == NumberExpr(n)
Key(s) == StringExpr(s)
Dot(t, s) == AttrGetExpr(I(t), Key(s))
At1(t, e) == AttrGetExpr(I(t), e)
Fn(names, stmts) == FunctionExpr(names, FALSE, stmts)
VFn(names, stmts) == FunctionExpr(names, TRUE, stmts)
CallOf(f, args) == FuncCallExpr(f, args, FALSE)
One(f, args) == FuncCallExpr(f, args, TRUE)
Do1(f, args) == FuncCallStmt(CallOf(f, args))
Emit(args) == Do1(I("emit"), args)
Local(name, e) == LocalAssignStmt(<<name>>, <<e>>)
Assign(target, e) == AssignStmt(<<target>>, <<e>>)
Plus(l, r) == ArithmeticOpExpr(l, "+", r)
Less1(l, r) == RelationalOpExpr(l, "<", r)
When(cond, stmts) == IfStmt(cond, stmts, <<>>)
Item(e) == Field(NoKey, e)

(* All pairs; all pairs with what comes before them.                       *)
Cross(as, bs, Op(_, _)) ==
    LET m == Len(as)
        n == Len(bs)
    IN  <<>> \o [k \in 1..m * n |-> Op(as[((k - 1) \div n) + 1], bs[((k - 1) % n) + 1])]
Pairs(as, bs) == Cross(as, bs, LAMBDA a, b : <<a, b>>)
Joined(as, bs) == Cross(as, bs, LAMBDA a, b : a \o b)

-----------------------------------------------------------------------------
(* Expressions, where their value goes to a register, decides a branch,    *)
(* is stored, returned or dropped.                                         *)
Prelude == <<
    LocalAssignStmt(<<"a", "b">>, <<N(5), FalseExpr>>),
    Local("t", TableExpr(<<Item(N(7)), Field(Key("x"), N(8))>>)),
    Local("f", Fn(<<"p", "q">>, <<ReturnStmt(<<I("p"), I("q")>>)>>)),
    Assign(I("g"), N(9))>>

Leaves == <<TrueExpr, FalseExpr, NilExpr, N(3), I("a"), I("b"), I("g"), Dot("t", "x"),
            CallOf(I("f"), <<I("a"), N(2)>>), Less1(I("a"), N(6))>>

Logical == Cross(<<"and", "or">>, Pairs(Leaves, Leaves), LAMBDA o, p : LogicalOpExpr(p[1], o, p[2]))
Deep(leaves) == Cross(Cross(<<"and", "or">>, Pairs(leaves, leaves), LAMBDA o, p : LogicalOpExpr(p[1], o, p[2])),
                      Pairs(<<"and", "or">>, leaves), LAMBDA e, p : LogicalOpExpr(e, p[1], p[2]))
                \o Cross(Cross(<<"and", "or">>, Pairs(leaves, leaves), LAMBDA o, p : LogicalOpExpr(p[1], o, p[2])),
                      Pairs(<<"and", "or">>, leaves), LAMBDA e, p : LogicalOpExpr(p[2], p[1], UnaryNotOpExpr(e)))
Three == <<I("a"), I("b"), Dot("t", "x"), Less1(I("a"), N(6)), NilExpr>>

Operators ==
    LET sides == <<N(3), N(-2), I("a"), I("g"), Dot("t", "x"), One(I("f"), <<N(4)>>), Key("s"), I("b")>>
        strings == <<I("a"), Dot("t", "x"), One(I("f"), <<N(4)>>), Key("s")>>
    IN  Cross(<<"+", "-", "*", "%">>, Pairs(sides, sides), LAMBDA o, p : ArithmeticOpExpr(p[1], o, p[2]))
        \o Cross(<<"<", ">", "<=", ">=", "==", "~=">>, Pairs(sides, sides), LAMBDA o, p : RelationalOpExpr(p[1], o, p[2]))
        \o Cross(strings, Pairs(strings, strings), LAMBDA l, p : StringConcatOpExpr(l, StringConcatOpExpr(p[1], p[2])))
        \o Cross(<<1, 2, 3>>, sides, LAMBDA k, e : IF k = 1 THEN UnaryMinusOpExpr(e) ELSE IF k = 2 THEN UnaryNotOpExpr(e) ELSE UnaryLenOpExpr(e))

InContext(c, e) ==
    Prelude \o
    CASE c = 1 -> <<Emit(<<e>>)>>
      [] c = 2 -> <<Local("r", e), Emit(<<I("r")>>)>>
      [] c = 3 -> <<Assign(I("a"), e), Emit(<<I("a"), I("b")>>)>>
      [] c = 4 -> <<IfStmt(e, <<Emit(<<N(1)>>)>>, <<Emit(<<N(2)>>)>>), Emit(<<N(3)>>)>>
      [] c = 5 -> <<ReturnStmt(<<e>>)>>
      [] c = 6 -> <<Assign(Dot("t", "x"), e), Emit(<<Dot("t", "x")>>)>>
      [] c = 7 -> <<WhileStmt(e, <<Emit(<<N(1)>>), BreakStmt>>), Emit(<<N(3)>>)>>
      [] c = 8 -> <<Emit(<<UnaryNotOpExpr(e), RelationalOpExpr(e, "==", I("a")), I("a")>>)>>
      [] c = 9 -> <<Do1(Fn(<<>>, <<Assign(I("a"), e), Emit(<<I("a")>>)>>), <<>>), Emit(<<I("a")>>)>>
      [] c = 10 -> <<LocalAssignStmt(<<"r", "s">>, <<N(1), e>>), Emit(<<I("r"), I("s"), I("a")>>)>>
      [] c = 11 -> <<Emit(<<AttrGetExpr(TableExpr(<<Item(e), Item(N(4))>>), N(1))>>)>>
      [] c = 12 -> <<RepeatStmt(<<Local("x", e)>>, LogicalOpExpr(I("x"), "or", TrueExpr)), Emit(<<I("a"), I("b")>>)>>
      [] c = 13 -> <<AssignStmt(<<I("h"), At1("t", I("a"))>>, <<e, e>>), Emit(<<I("h"), At1("t", N(5))>>)>>

-----------------------------------------------------------------------------
(* Assignments to two targets of any kind, none of which is read again.    *)
Targets == <<I("a"), I("g"), I("u"), Dot("t", "x"), At1("t", I("k"))>>
SomeValues == <<N(3), I("k"), I("g2"), Dot("t2", "x"), CallOf(I("f"), <<I("k"), N(2)>>), NilExpr, Comma3Expr(FALSE)>>

Assigns(targets, values) ==
    <<LocalAssignStmt(<<"a", "b", "u", "k">>, <<N(5), FalseExpr, N(4), N(6)>>),
      LocalAssignStmt(<<"t", "t2">>, <<TableExpr(<<>>), TableExpr(<<Field(Key("x"), N(8))>>)>>),
      Local("f", Fn(<<"p", "q">>, <<ReturnStmt(<<I("p"), I("q")>>)>>)),
      Assign(I("g2"), N(9)),
      Local("body", VFn(<<"a", "last">>, <<AssignStmt(targets, values),
                                   Emit(<<I("a"), I("g"), I("u"), Dot("t", "x"), At1("t", N(6))>>)>>)),
      Do1(I("body"), <<N(1), N(2), N(21), N(22)>>), Emit(<<I("a"), I("u"), I("k")>>)>>

TwoTargets == SelectSeq(Pairs(Targets, Targets), LAMBDA p : p[1] # p[2])
Assignments ==
    Cross(TwoTargets, Pairs(Front(SomeValues), SomeValues), Assigns)
    \o Cross(TwoTargets, Cross(SomeValues, <<0>>, LAMBDA v, z : <<v>>), Assigns)

-----------------------------------------------------------------------------
(* Lists of expressions, where they are arguments, results, items or       *)
(* values of variables.                                                    *)
ListItems == <<N(3), I("a"), NilExpr, CallOf(I("f"), <<N(1), N(2)>>), One(I("f"), <<N(1), N(2)>>), CallOf(I("none"), <<>>),
               Comma3Expr(FALSE), Comma3Expr(TRUE), MethodCallExpr(I("o"), "m", <<N(4)>>)>>
Lists == Cross(ListItems, <<0>>, LAMBDA v, z : <<v>>) \o Pairs(ListItems, ListItems)

Listed(c, es) ==
    <<Local("f", Fn(<<"p", "q">>, <<ReturnStmt(<<I("p"), I("q")>>)>>)),
      Local("none", Fn(<<>>, <<>>)),
      Assign(I("o"), TableExpr(<<Field(Key("n"), N(7))>>)),
      MethodDefStmt(I("o"), "m", Fn(<<"x">>, <<ReturnStmt(<<Dot("self", "n"), I("x")>>)>>)),
      Local("body", VFn(<<"a">>,
        CASE c = 1 -> <<Emit(es)>>
          [] c = 2 -> <<LocalAssignStmt(<<"x", "y", "z">>, es), Emit(<<I("x"), I("y"), I("z"), I("a")>>)>>
          [] c = 3 -> <<LocalAssignStmt(<<"x">>, es), Emit(<<I("x"), I("a")>>)>>
          [] c = 4 -> <<ReturnStmt(es)>>
          [] c = 5 -> <<Local("t", TableExpr([i \in 1..Len(es) |-> Item(es[i])])),
                        Emit(<<At1("t", N(1)), At1("t", N(2)), At1("t", N(3)), At1("t", N(4))>>)>>
          [] c = 6 -> <<ReturnStmt(<<CallOf(I("same"), es)>>)>>
          [] c = 7 -> <<AssignStmt(<<I("x"), I("y"), I("z")>>, es), Emit(<<I("x"), I("y"), I("z")>>)>>
          [] c = 8 -> <<ReturnStmt(<<MethodCallExpr(I("o"), "m", es)>>)>>)),
      Emit(<<CallOf(I("body"), <<N(11), N(12), N(13)>>)>>),
      ReturnStmt(<<CallOf(I("body"), <<>>)>>)>>

-----------------------------------------------------------------------------
(* Tables: items and fields, as many as fill some blocks.                  *)
Items(n) == [i \in 1..n |-> Item(N(i + 10))]
TableOf(fields) ==
    Prelude \o <<Local("x", TableExpr(fields)),
                 Emit([i \in 1..9 |-> At1("x", N(i))]), Emit(<<Dot("x", "k"), UnaryLenOpExpr(I("x")), I("a")>>)>>
Endings == <<
    <<>>, <<Item(I("a"))>>, <<Item(CallOf(I("f"), <<N(1), N(2)>>))>>, <<Item(One(I("f"), <<N(1), N(2)>>))>>,
    <<Field(Key("k"), N(3))>>, <<Field(N(9), N(3))>>, <<Field(Key("k"), N(3)), Item(I("a"))>>,
    <<Field(Key("k"), CallOf(I("f"), <<N(1)>>)), Item(I("a"))>>, <<Item(Comma3Expr(FALSE))>>, <<Item(NilExpr), Item(N(2))>>,
    <<Item(TableExpr(<<Item(N(1))>>)), Item(N(2))>>>>
Tables == Cross(<<0, 1, 2, 4, 5, 7>>, Endings, LAMBDA n, e : TableOf(Items(n) \o e))
          \o Cross(<<0, 3, 6>>, <<<<>>, <<Item(I("a"))>>, <<Item(NilExpr), Item(N(2))>>>>, LAMBDA n, e : TableOf(Items(n) \o e))
          \o Cross(<<1, 2, 3>>, Endings, LAMBDA n, e : TableOf(e \o Items(n)))

-----------------------------------------------------------------------------
(* Loops, with variables that functions capture, left in every way.        *)
C == I("c")
Kept(name) == Assign(At1("fs", C), Fn(<<>>, <<Assign(I(name), Plus(I(name), N(10))), ReturnStmt(<<I(name)>>)>>))
Bits == <<
    <<Emit(<<C>>)>>,
    <<Local("x", C), Kept("x")>>,
    <<When(RelationalOpExpr(C, "==", N(2)), <<BreakStmt>>)>>,
    <<When(LogicalOpExpr(RelationalOpExpr(C, "==", N(2)), "and", UnaryNotOpExpr(I("done"))), <<Assign(I("done"), TrueExpr), GotoStmt("continue")>>)>>,
    <<When(RelationalOpExpr(C, "==", N(2)), <<ReturnStmt(<<C>>)>>)>>,
    <<Local("y", NilExpr), Emit(<<I("y")>>), Assign(I("y"), C)>>,
    <<DoBlockStmt(<<Local("z", C), Kept("z"), When(LogicalOpExpr(RelationalOpExpr(C, "==", N(2)), "and", UnaryNotOpExpr(I("done"))), <<Assign(I("done"), TrueExpr), GotoStmt("continue")>>)>>)>>,
    <<DoBlockStmt(<<Local("z", C), Kept("z"), When(RelationalOpExpr(C, "==", N(2)), <<GotoStmt("out")>>)>>)>>,
    <<LabelStmt("continue")>>,
    <<NumberForStmt("i", N(1), N(2), N(1), <<When(RelationalOpExpr(I("i"), "==", N(2)), <<BreakStmt>>), Kept("i")>>)>>,
    <<When(RelationalOpExpr(C, "==", N(2)), <<GotoStmt("out")>>)>> >>

LoopOf(k, body) ==
    CASE k = 1 -> <<WhileStmt(Less1(C, N(3)), <<Assign(C, Plus(C, N(1)))>> \o body)>>
      [] k = 2 -> <<RepeatStmt(<<Assign(C, Plus(C, N(1)))>> \o body, RelationalOpExpr(C, ">=", N(3)))>>
      [] k = 3 -> <<NumberForStmt("c", N(1), N(3), N(1), body)>>
      [] k = 4 -> <<NumberForStmt("c", N(3), N(1), N(-1), body)>>
      [] k = 5 -> <<GenericForStmt(<<"c", "d">>, <<I("upto"), N(3), N(0)>>, body \o <<Emit(<<I("d")>>)>>)>>
      [] k = 6 -> <<LabelStmt("top"), Assign(C, Plus(C, N(1)))>> \o body \o
                  <<When(Less1(C, N(3)), <<GotoStmt("top")>>)>>
      [] k = 7 -> <<WhileStmt(TrueExpr, <<Assign(C, Plus(C, N(1))), When(RelationalOpExpr(C, ">", N(3)), <<BreakStmt>>)>> \o body)>>
      [] k = 8 -> <<DoBlockStmt(<<LabelStmt("top"), Assign(C, Plus(C, N(1))), DoBlockStmt(body),
                  When(Less1(C, N(3)), <<GotoStmt("top")>>)>>)>>

Looping(k, bits) ==
    <<Local("fs", TableExpr(<<>>)), Assign(C, N(0)),
      Assign(I("upto"), Fn(<<"n", "i">>, <<When(Less1(I("i"), I("n")), <<ReturnStmt(<<Plus(I("i"), N(1)), I("n")>>)>>)>>)),
      Local("body", Fn(<<>>, LoopOf(k, bits) \o <<LabelStmt("out"), LocalAssignStmt(<<"v", "w">>, <<N(71), N(72)>>), Emit(<<I("v"), I("w")>>)>>)),
      Emit(<<CallOf(I("body"), <<>>)>>),
      NumberForStmt("j", N(1), N(3), N(1),
          <<When(At1("fs", I("j")), <<Emit(<<CallOf(At1("fs", I("j")), <<>>), CallOf(At1("fs", I("j")), <<>>)>>)>>)>>)>>

-----------------------------------------------------------------------------
(* Blocks with labels and gotos, many of which no program may have.        *)
Jump(label) == When(Less1(I("n"), N(2)), <<Assign(I("n"), Plus(I("n"), N(1))), GotoStmt(label)>>)
Captured(name) == Assign(I("fn"), Fn(<<>>, <<ReturnStmt(<<I(name)>>)>>))
Parts == <<
    <<Local("x", I("n"))>>,
    <<Jump("L")>>,
    <<LabelStmt("L")>>,
    <<LabelStmt("M")>>,
    <<DoBlockStmt(<<Local("z", I("n")), Captured("z"), Jump("L")>>)>>,
    <<DoBlockStmt(<<LabelStmt("L"), Emit(<<I("n")>>), Jump("L")>>)>>,
    <<RepeatStmt(<<Local("r", N(1)), Jump("L"), Captured("r"), Jump("K"), LabelStmt("K")>>, RelationalOpExpr(I("r"), "==", N(1)))>>,
    <<RepeatStmt(<<Jump("K"), Local("r", N(1)), LabelStmt("K")>>, TrueExpr)>>,
    <<WhileStmt(Less1(I("n"), N(2)), <<Local("w", I("n")), Jump("M"), Jump("K"), Captured("w"), LabelStmt("K")>>)>>,
    <<Do1(Fn(<<>>, <<Jump("L")>>), <<>>)>>,
    <<BreakStmt>>,
    <<Do1(Fn(<<>>, <<Emit(<<Comma3Expr(FALSE)>>)>>), <<>>)>> >>

Jumping(parts, c) ==
    <<Assign(I("n"), N(0)), Assign(I("fn"), I("same"))>>
    \o (CASE c = 1 -> parts
          [] c = 2 -> parts \o <<Emit(<<I("n"), I("x")>>)>>
          [] c = 3 -> <<DoBlockStmt(parts), LabelStmt("L")>>
          [] c = 4 -> <<RepeatStmt(parts, TrueExpr)>>)
    \o <<Emit(<<I("n"), CallOf(I("fn"), <<>>)>>)>>

-----------------------------------------------------------------------------
(* Functions: recursion, calls in the place of the caller, variables of    *)
(* functions that have returned, extra arguments, errors.                  *)
Bodies == <<
    <<ReturnStmt(<<CallOf(I("f"), <<I("p"), N(2)>>)>>)>>,
    <<ReturnStmt(<<One(I("f"), <<I("p"), N(2)>>)>>)>>,
    <<Local("x", I("p")), Local("up", Fn(<<>>, <<Assign(I("x"), Plus(I("x"), N(1))), ReturnStmt(<<I("x"), I("p")>>)>>)),
      Do1(I("up"), <<>>), ReturnStmt(<<CallOf(I("up"), <<>>)>>)>>,
    <<Local("x", I("p")), ReturnStmt(<<CallOf(I("f"), <<I("x"), Fn(<<>>, <<ReturnStmt(<<I("x")>>)>>)>>)>>)>>,
    <<Local("x", I("p")), ReturnStmt(<<I("x"), Fn(<<>>, <<ReturnStmt(<<Fn(<<>>, <<Assign(I("x"), Plus(I("x"), N(1))), ReturnStmt(<<I("x"), I("p")>>)>>)>>)>>)>>)>>,
    <<Local("loop", Fn(<<"i">>, <<When(Less1(I("i"), I("p")), <<ReturnStmt(<<CallOf(I("loop"), <<Plus(I("i"), N(1))>>)>>)>>), ReturnStmt(<<I("i"), I("p")>>)>>)),
      ReturnStmt(<<CallOf(I("loop"), <<N(0)>>)>>)>>,
    <<IfStmt(RelationalOpExpr(I("p"), "<=", N(1)), <<ReturnStmt(<<N(1)>>)>>, <<>>),
      ReturnStmt(<<ArithmeticOpExpr(I("p"), "*", CallOf(I("body"), <<ArithmeticOpExpr(I("p"), "-", N(1))>>))>>)>>,
    <<ReturnStmt(<<CallOf(I("p"), <<>>)>>)>>,
    <<Local("x", Plus(I("p"), I("q"))), ReturnStmt(<<I("x")>>)>>,
    <<ReturnStmt(<<MethodCallExpr(I("o"), "m", <<I("p")>>)>>)>>,
    <<AssignStmt(<<I("p")>>, <<Plus(I("p"), N(1))>>), Assign(Dot("o", "n"), I("p")), ReturnStmt(<<CallOf(I("body2"), <<I("p")>>)>>)>>,
    <<GenericForStmt(<<"x">>, <<I("same"), NilExpr, I("p")>>, <<Emit(<<I("x")>>)>>), ReturnStmt(<<CallOf(I("same"), <<I("p")>>)>>)>>,
    <<Emit(<<StringConcatOpExpr(Key("s"), StringConcatOpExpr(I("p"), Key("e"))), UnaryLenOpExpr(Key("s"))>>), ReturnStmt(<<>>)>>,
    <<ReturnStmt(<<Comma3Expr(FALSE)>>)>>,
    <<ReturnStmt(<<Dot("arg", "n"), At1("arg", N(1)), At1("arg", N(2))>>)>>,
    <<ReturnStmt(<<I("p"), At1("arg", N(1)), CallOf(Fn(<<>>, <<ReturnStmt(<<Dot("arg", "n")>>)>>), <<>>)>>)>>,
    <<Emit(<<I("arg"), Comma3Expr(TRUE), I("p")>>)>>,
    <<ReturnStmt(<<CallOf(I("f"), <<Comma3Expr(FALSE)>>)>>)>> >>

Calling(b, args) ==
    <<Local("f", VFn(<<"a">>, <<ReturnStmt(<<I("a"), Comma3Expr(FALSE)>>)>>)),
      Assign(I("o"), TableExpr(<<Field(Key("n"), N(7))>>)),
      MethodDefStmt(I("o"), "m", VFn(<<"x">>, <<ReturnStmt(<<Dot("self", "n"), I("x"), Comma3Expr(FALSE)>>)>>)),
      FuncDefStmt(I("body2"), Fn(<<"a">>, <<Emit(<<I("a"), Dot("o", "n")>>)>>)),
      FuncDefStmt(I("body"), FunctionExpr(<<"p", "q">>, b > 13, Bodies[b])),
      LocalAssignStmt(<<"r", "s">>, <<CallOf(I("body"), args)>>),
      Emit(<<I("r")>>),
      When(LogicalOpExpr(I("s"), "and", RelationalOpExpr(I("s"), "~=", N(2))),
           <<Emit(<<CallOf(I("s"), <<>>)>>), Emit(<<CallOf(CallOf(I("s"), <<>>), <<>>)>>)>>),
      ReturnStmt(<<I("r"), CallOf(I("body"), args)>>)>>
Args == <<<<N(3)>>, <<N(4), N(5)>>, <<N(1), N(6), N(7), NilExpr, N(8)>>, <<>>, <<I("same"), I("same")>>>>

-----------------------------------------------------------------------------
Numbered(n) == [i \in 1..n |-> i]
Right ==
    Cross(Numbered(13), Logical, InContext) \o Cross(<<1, 4>>, Deep(Three), InContext)
    \o Cross(<<1, 4>>, Operators, InContext)
    \o Assignments \o Cross(Numbered(8), Lists, Listed) \o Tables
    \o Cross(Numbered(8), Joined(Bits, Bits), Looping)
    \o Cross(Joined(Parts, Joined(Parts, Parts)), Numbered(4), Jumping)
    \o Cross(Numbered(Len(Bodies)), Args, Calling)

-----------------------------------------------------------------------------
(* Programs the compiler gets wrong, each in its own way.                  *)
F2 == Local("f", Fn(<<"p", "q">>, <<ReturnStmt(<<I("p"), I("q")>>)>>))
Wrong == <<
    \* Both variables end with the value of the second.
    <<LocalAssignStmt(<<"a", "b">>, <<N(1), N(2)>>), AssignStmt(<<I("a"), I("b")>>, <<I("b"), I("a")>>),
      Emit(<<I("a"), I("b")>>)>>,
    \* The call is made in the register of the parameter and those after it.
    <<F2, Local("g", Fn(<<"a">>, <<Local("x", N(7)), Assign(I("a"), One(I("f"), <<I("a"), N(1)>>)), ReturnStmt(<<I("a"), I("x")>>)>>)),
      Emit(<<CallOf(I("g"), <<N(5)>>)>>)>>,
    \* The jump back finds a jump that is patched already.
    <<Assign(C, N(0)), WhileStmt(TrueExpr, <<When(FalseExpr, <<Assign(I("g"), N(1))>>), Assign(C, Plus(C, N(1))),
      When(RelationalOpExpr(C, ">", N(2)), <<BreakStmt>>)>>), Emit(<<C>>)>>,
    \* The nil for s is loaded by the instruction of the nil that is not needed.
    <<Assign(I("g"), N(9)), DoBlockStmt(<<LocalAssignStmt(<<"x", "y">>, <<N(1), N(2)>>)>>), LocalAssignStmt(<<"r", "s">>, <<LogicalOpExpr(I("g"), "or", NilExpr)>>), Emit(<<I("r"), I("s")>>)>>,
    \* y is set to nil before the loop and not in it.
    <<Assign(C, N(0)), Local("x", NilExpr),
      WhileStmt(TrueExpr, <<Local("y", NilExpr), Emit(<<I("y")>>), Assign(I("y"), C), When(RelationalOpExpr(C, "==", N(1)), <<BreakStmt>>),
                            Assign(C, N(1))>>)>>,
    \* The break does not close x: its function gets y's value.
    <<WhileStmt(TrueExpr, <<DoBlockStmt(<<Local("x", N(1)), Captured("x"), BreakStmt>>)>>), Local("y", N(2)),
      Emit(<<CallOf(I("fn"), <<>>)>>)>>,
    \* The goto closes a variable that it stays in the scope of.
    <<Local("x", N(1)), Captured("x"), DoBlockStmt(<<GotoStmt("out")>>), LabelStmt("out"), Assign(I("x"), N(2)),
      Emit(<<CallOf(I("fn"), <<>>)>>)>>,
    \* The state and the control variable of the loop are what was there.
    <<Local("it", VFn(<<>>, <<Emit(<<Comma3Expr(FALSE)>>)>>)), DoBlockStmt(<<LocalAssignStmt(<<"x", "y", "z">>, <<N(1), N(2), N(3)>>)>>),
      GenericForStmt(<<"k">>, <<I("it")>>, <<>>)>>,
    \* The number of the block is not found.
    <<Local("x", TableExpr(Items(11))), Emit(<<At1("x", N(1)), At1("x", N(10)), At1("x", N(11))>>)>>,
    \* The values of the call are stored over the block before.
    <<F2, Local("x", TableExpr(Items(3) \o <<Item(CallOf(I("f"), <<N(1), N(2)>>))>>)), Emit(<<At1("x", N(1)), At1("x", N(4))>>)>>,
    \* A block is stored twice.
    <<Local("x", TableExpr(Items(3) \o <<Field(N(9), I("emit"))>>)), Emit(<<At1("x", N(1)), At1("x", N(2))>>)>>,
    \* What is stored in x.k is an item of the list as well.
    <<F2, Local("x", TableExpr(<<Item(N(1)), Field(Key("k"), CallOf(I("f"), <<N(6)>>))>>)), Emit(<<At1("x", N(1)), At1("x", N(2))>>)>>,
    \* a is set before it is read.
    <<LocalAssignStmt(<<"a", "b">>, <<N(5), N(8)>>), Assign(I("a"), LogicalOpExpr(LogicalOpExpr(I("b"), "or", I("a")), "and", I("a"))),
      Emit(<<I("a")>>)>>,
    \* The variables after a are no more.
    <<Local("g", VFn(<<>>, <<LocalAssignStmt(<<"a", "b">>, <<N(1), N(2)>>), Assign(I("a"), Comma3Expr(TRUE)), ReturnStmt(<<I("b")>>)>>)),
      Emit(<<CallOf(I("g"), <<N(5)>>)>>)>>,
    \* The string to store into is constant 0: the table in register 0 gets x.
    <<Local("t", TableExpr(<<>>)), Assign(AttrGetExpr(Key("s"), Key("x")), N(1)), Emit(<<Dot("t", "x")>>)>> >>

-----------------------------------------------------------------------------
(* Each program is compiled, and its meaning found, once.                  *)
Loaded(chunk) == [main |-> Compile(chunk), outcome |-> Lua!Outcome(chunk)]
AllLoaded(chunks) == <<>> \o [i \in 1..Len(chunks) |-> Loaded(chunks[i])]
RightLoaded == AllLoaded(Right)
WrongLoaded == AllLoaded(Wrong)
=============================================================================
