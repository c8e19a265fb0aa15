---------------------------- MODULE LuaSemantics ----------------------------
(***************************************************************************)
(* What a program means, by the reference manual of Lua 5.1 and, for goto, *)
(* of Lua 5.2: no registers, no jumps, no instructions.  A variable is a   *)
(* cell, made anew each time its declaration is executed; a scope maps     *)
(* names to cells.                                                         *)
(*                                                                         *)
(* Every operator takes an execution and returns it as it is afterwards:   *)
(* vals are the values an expression or a return has given, sig how a      *)
(* statement was left ("next", "break", "goto" with a label, "return", or  *)
(* "error"), scope the one after a declaration.                            *)
(***************************************************************************)
EXTENDS Syntax, SequencesExt

NoFunction == FunctionExpr(<<>>, TRUE, <<>>)

(* The first function is the program itself.                               *)
Start == [cells |-> <<>>, tables |-> <<>>, closures |-> <<[func |-> NoFunction, vars |-> <<>>]>>, globals |-> GoFunctions, out |-> <<>>,
          vals |-> <<>>, sig |-> "next", label |-> "", scope |-> [vars |-> <<>>, more |-> <<>>]]

Giving(x, vals) == [x EXCEPT !.vals = vals]
GivingOne(x, v) == Giving(x, <<v>>)
First(x) == IF x.vals = <<>> THEN Nil ELSE x.vals[1]
Fails(x) == [x EXCEPT !.sig = "error"]
Nth(vals, i) == IF i <= Len(vals) THEN vals[i] ELSE Nil

(* The rest is done only if nothing has failed or left.                    *)
Then(x, rest(_)) == IF x.sig = "next" THEN rest(x) ELSE x

Declared(x, scope, names, vals) ==
    [x EXCEPT !.cells = @ \o [i \in 1..Len(names) |-> Nth(vals, i)],
              !.scope = [scope EXCEPT !.vars =
                  [n \in Range(names) |-> Len(x.cells) + SelectLastInSeq(names, LAMBDA m : m = n)] @@ @]]

Lookup(x, scope, name) ==
    IF name \in DOMAIN scope.vars THEN x.cells[scope.vars[name]]
    ELSE IF name \in DOMAIN x.globals THEN x.globals[name] ELSE Nil

Assigned(x, scope, name, v) ==
    IF name \in DOMAIN scope.vars THEN [x EXCEPT !.cells[scope.vars[name]] = v]
    ELSE [x EXCEPT !.globals = (name :> v) @@ @]

Read(x, t, key) ==
    IF ~IsTable(t) THEN Fails(x)
    ELSE GivingOne(x, IF key \in DOMAIN x.tables[t[2]] THEN x.tables[t[2]][key] ELSE Nil)

Written(x, t, key, v) ==
    IF ~IsTable(t) \/ key = Nil THEN Fails(x)
    ELSE [x EXCEPT !.tables[t[2]] = IF v = Nil THEN Restrict(@, DOMAIN @ \ {key}) ELSE (key :> v) @@ @]

IsBorder(fields, n) == (n = 0 \/ Num(n) \in DOMAIN fields) /\ Num(n + 1) \notin DOMAIN fields

Floor(l, r) == IF r > 0 THEN l \div r ELSE (-l) \div (-r)

Binary(x, op, l, r) ==
    LET numbers == IsNumber(l) /\ IsNumber(r)
    IN  CASE op = "==" -> GivingOne(x, Bool(l = r))
          [] op = "~=" -> GivingOne(x, Bool(l # r))
          [] op = ".." -> IF IsText(l) /\ IsText(r) THEN GivingOne(x, <<"string", Text(l) \o Text(r)>>) ELSE Fails(x)
          [] op \notin {"==", "~=", ".."} /\ ~numbers -> Fails(x)
          [] op = "<" /\ numbers -> GivingOne(x, Bool(l[2] < r[2]))
          [] op = "<=" /\ numbers -> GivingOne(x, Bool(l[2] <= r[2]))
          [] op = ">" /\ numbers -> GivingOne(x, Bool(l[2] > r[2]))
          [] op = ">=" /\ numbers -> GivingOne(x, Bool(l[2] >= r[2]))
          [] op = "+" /\ numbers -> GivingOne(x, Num(l[2] + r[2]))
          [] op = "-" /\ numbers -> GivingOne(x, Num(l[2] - r[2]))
          [] op = "*" /\ numbers -> GivingOne(x, Num(l[2] * r[2]))
          [] op = "%" /\ numbers -> GivingOne(x, Num(l[2] - Floor(l[2], r[2]) * r[2]))

Unary(x, op, v) ==
    CASE op = "UnaryNot" -> GivingOne(x, Bool(IsFalse(v)))
      [] op = "UnaryMinus" -> IF IsNumber(v) THEN GivingOne(x, Num(-v[2])) ELSE Fails(x)
      [] op = "UnaryLen" /\ IsTable(v) ->
            GivingOne(x, Num(CHOOSE n \in 0..Cardinality(DOMAIN x.tables[v[2]]) : IsBorder(x.tables[v[2]], n)))
      [] op = "UnaryLen" /\ v[1] = "string" -> GivingOne(x, Num(Len(v[2])))
      [] op = "UnaryLen" /\ ~IsTable(v) /\ v[1] # "string" -> Fails(x)

-----------------------------------------------------------------------------
(* Expressions.                                                            *)
RECURSIVE Eval(_, _, _), Block(_, _, _), UsesVarArgs(_)

(* One value of each expression.                                           *)
Singles(x, scope, es) ==
    FoldLeft(LAMBDA y, e : Then(y, LAMBDA z :
                 LET done == Eval(z, scope, e) IN Giving(done, Append(z.vals, First(done)))),
             Giving(x, <<>>), es)

(* One value of each but the last, and all of that one.                    *)
Values(x, scope, es) ==
    IF es = <<>> \/ ~HasManyValues(Last(es)) THEN Singles(x, scope, es)
    ELSE Then(Singles(x, scope, Front(es)), LAMBDA y :
             LET done == Eval(y, scope, Last(es)) IN Giving(done, y.vals \o done.vals))

(* A function that does not use ... finds its extra arguments in arg.      *)
ArgTable(more) ==
    [k \in {Str("n")} \cup {Num(i) : i \in {j \in 1..Len(more) : more[j] # Nil}} |->
        IF k = Str("n") THEN Num(Len(more)) ELSE more[k[2]]]

Enter(x, closure, args) ==
    LET f == closure.func
        n == Len(f.names)
        more == IF f.vargs /\ n < Len(args) THEN SubSeq(args, n + 1, Len(args)) ELSE <<>>
        bound == Declared(x, [vars |-> closure.vars, more |-> more], f.names, args)
        needsArg == ~\E i \in 1..Len(f.stmts) : UsesVarArgs(f.stmts[i])
    IN  IF ~f.vargs THEN bound
        ELSE IF needsArg
        THEN Declared([bound EXCEPT !.tables = Append(@, ArgTable(more))], bound.scope, <<"arg">>,
                      <<Table(Len(x.tables) + 1)>>)
        ELSE Declared(bound, bound.scope, <<"arg">>, <<Nil>>)

CallClosure(x, closure, args) ==
    LET entered == Enter(x, closure, args)
        left == Block(entered, entered.scope, closure.func.stmts)
    IN  CASE left.sig = "return" -> [left EXCEPT !.sig = "next"]
          [] left.sig = "next" -> Giving(left, <<>>)
          [] left.sig = "error" -> left

CallValue(x, f, args) ==
    CASE f = Native("emit") -> Giving([x EXCEPT !.out = Append(@, args)], <<>>)
      [] f = Native("same") -> Giving(x, args)
      [] f[1] = "function" -> CallClosure(x, x.closures[f[2]], args)
      [] OTHER -> Fails(x)

NewTable(x, scope, fields) ==
    LET t == Len(x.tables) + 1
        listed(i) == Cardinality({j \in 1..i : fields[j].key = NoKey})
        writeAll(y, from) ==
            FoldLeft(LAMBDA z, n : Written(z, Table(t), Num(from + n - 1), y.vals[n]), y, [n \in 1..Len(y.vals) |-> n])
        store(y, i) ==
            LET f == fields[i]
            IN  IF f.key = NoKey /\ i = Len(fields)
                THEN Then(Values(y, scope, <<f.value>>), LAMBDA z : writeAll(z, listed(i)))
                ELSE IF f.key = NoKey
                THEN Then(Eval(y, scope, f.value), LAMBDA z : Written(z, Table(t), Num(listed(i)), First(z)))
                ELSE Then(Singles(y, scope, <<f.key, f.value>>),
                          LAMBDA z : Written(z, Table(t), z.vals[1], z.vals[2]))
    IN  Then(FoldLeft(LAMBDA y, i : Then(y, LAMBDA z : store(z, i)), [x EXCEPT !.tables = Append(@, <<>>)],
                      [i \in 1..Len(fields) |-> i]),
             LAMBDA y : GivingOne(y, Table(t)))

Adjusted(x, adjust) == IF adjust THEN Then(x, LAMBDA y : GivingOne(y, First(y))) ELSE x

Eval(x, scope, e) ==
    CASE e.node = "True" -> GivingOne(x, Bool(TRUE))
      [] e.node = "False" -> GivingOne(x, Bool(FALSE))
      [] e.node = "Nil" -> GivingOne(x, Nil)
      [] e.node = "Number" -> GivingOne(x, Num(e.value))
      [] e.node = "String" -> GivingOne(x, Str(e.value))
      [] e.node = "Comma3" -> Adjusted(Giving(x, scope.more), e.adjust)
      [] e.node = "Ident" -> GivingOne(x, Lookup(x, scope, e.name))
      [] e.node = "AttrGet" ->
            Then(Singles(x, scope, <<e.object, e.key>>), LAMBDA y : Read(y, y.vals[1], y.vals[2]))
      [] e.node = "Table" -> NewTable(x, scope, e.fields)
      [] e.node = "FuncCall" ->
            Then(Eval(x, scope, e.func), LAMBDA y :
                Then(Values(y, scope, e.args), LAMBDA z : Adjusted(CallValue(z, First(y), z.vals), e.adjust)))
      [] e.node = "MethodCall" ->
            Then(Eval(x, scope, e.receiver), LAMBDA o :
                Then(Read(o, First(o), Str(e.method)), LAMBDA m :
                    Then(Values(m, scope, e.args), LAMBDA z :
                        CallValue(z, First(m), <<First(o)>> \o z.vals))))
      [] e.node = "Logical" ->
            Then(Eval(x, scope, e.lhs), LAMBDA y :
                IF IsFalse(First(y)) = (e.operator = "and") THEN GivingOne(y, First(y))
                ELSE Adjusted(Eval(y, scope, e.rhs), TRUE))
      [] e.node \in {"Relational", "Arithmetic"} ->
            Then(Singles(x, scope, <<e.lhs, e.rhs>>), LAMBDA y : Binary(y, e.operator, y.vals[1], y.vals[2]))
      [] e.node = "Concat" ->
            Then(Singles(x, scope, <<e.lhs, e.rhs>>), LAMBDA y : Binary(y, "..", y.vals[1], y.vals[2]))
      [] e.node \in {"UnaryMinus", "UnaryNot", "UnaryLen"} ->
            Then(Eval(x, scope, e.expr), LAMBDA y : Unary(y, e.node, First(y)))
      [] e.node = "Function" ->
            GivingOne([x EXCEPT !.closures = Append(@, [func |-> e, vars |-> scope.vars])],
                      Closure(Len(x.closures) + 1))

-----------------------------------------------------------------------------
(* Statements.                                                             *)
RECURSIVE Repeats(_, _, _), While(_, _, _), CountsOn(_, _, _, _, _, _), Iterates(_, _, _, _, _, _)

(* All that targets and values need is evaluated before anything is set.   *)
Assign(x, scope, lhs, rhs) ==
    LET parts(t) == IF t.node = "Ident" THEN <<>> ELSE <<t.object, t.key>>
        before(i) == FoldLeft(LAMBDA n, t : n + Len(parts(t)), 0, SubSeq(lhs, 1, i - 1))
        set(y, refs, vals, i) ==
            IF lhs[i].node = "Ident" THEN Assigned(y, scope, lhs[i].name, Nth(vals, i))
            ELSE Written(y, refs[before(i) + 1], refs[before(i) + 2], Nth(vals, i))
    IN  Then(Singles(x, scope, FlattenSeq([i \in 1..Len(lhs) |-> parts(lhs[i])])), LAMBDA y :
            Then(Values(y, scope, rhs), LAMBDA z :
                FoldRight(LAMBDA i, w : Then(w, LAMBDA v : set(v, y.vals, z.vals, i)),
                          [i \in 1..Len(lhs) |-> i], z)))

(* A local function may call itself.                                       *)
Declares(x, scope, names, exprs) ==
    IF Len(names) = 1 /\ Len(exprs) = 1 /\ exprs[1].node = "Function"
    THEN LET known == Declared(x, scope, names, <<>>)
             made == Eval(known, known.scope, exprs[1])
         IN  Assigned(made, known.scope, names[1], First(made))
    ELSE Then(Values(x, scope, exprs), LAMBDA y : Declared(y, scope, names, y.vals))

AfterBreak(x) == IF x.sig = "break" THEN [x EXCEPT !.sig = "next"] ELSE x
Holds(x) == ~IsFalse(First(x))

While(x, scope, stmt) ==
    Then(Eval(x, scope, stmt.cond), LAMBDA y :
        IF Holds(y) THEN AfterBreak(Then(Block(y, scope, stmt.stmts), LAMBDA z : While(z, scope, stmt))) ELSE y)

(* The condition still sees the variables of the block.                    *)
Repeats(x, scope, stmt) ==
    AfterBreak(Then(Block(x, scope, stmt.stmts), LAMBDA y :
        Then(Eval(y, y.scope, stmt.cond), LAMBDA z : IF Holds(z) THEN z ELSE Repeats(z, scope, stmt))))

CountsOn(x, scope, stmt, i, limit, step) ==
    IF IF step > 0 THEN i > limit ELSE i < limit THEN x
    ELSE LET bound == Declared(x, scope, <<stmt.name>>, <<Num(i)>>)
         IN  AfterBreak(Then(Block(bound, bound.scope, stmt.stmts), LAMBDA y :
                 CountsOn(y, scope, stmt, i + step, limit, step)))

Iterates(x, scope, stmt, f, state, control) ==
    Then(CallValue(x, f, <<state, control>>), LAMBDA y :
        IF First(y) = Nil THEN y
        ELSE LET bound == Declared(y, scope, stmt.names, y.vals)
             IN  AfterBreak(Then(Block(bound, bound.scope, stmt.stmts), LAMBDA z :
                     Iterates(z, scope, stmt, f, state, First(y)))))

Exec(x, scope, stmt) ==
    CASE stmt.node = "Assign" -> Assign(x, scope, stmt.lhs, stmt.rhs)
      [] stmt.node = "LocalAssign" -> Declares(x, scope, stmt.names, stmt.exprs)
      [] stmt.node = "Call" -> Eval(x, scope, stmt.expr)
      [] stmt.node = "Do" -> Block(x, scope, stmt.stmts)
      [] stmt.node = "While" -> While(x, scope, stmt)
      [] stmt.node = "Repeat" -> Repeats(x, scope, stmt)
      [] stmt.node = "If" ->
            Then(Eval(x, scope, stmt.cond), LAMBDA y :
                Block(y, scope, IF Holds(y) THEN stmt.then ELSE stmt.else))
      [] stmt.node = "NumberFor" ->
            Then(Singles(x, scope, <<stmt.init, stmt.limit, stmt.step>>), LAMBDA y :
                IF \A i \in 1..3 : IsNumber(y.vals[i])
                THEN CountsOn(y, scope, stmt, y.vals[1][2], y.vals[2][2], y.vals[3][2]) ELSE Fails(y))
      [] stmt.node = "GenericFor" ->
            Then(Values(x, scope, stmt.exprs), LAMBDA y :
                Iterates(y, scope, stmt, Nth(y.vals, 1), Nth(y.vals, 2), Nth(y.vals, 3)))
      [] stmt.node = "FuncDef" -> Assign(x, scope, <<stmt.name>>, <<stmt.func>>)
      [] stmt.node = "MethodDef" ->
            Assign(x, scope, <<AttrGetExpr(stmt.receiver, StringExpr(stmt.method))>>,
                   <<[stmt.func EXCEPT !.names = <<"self">> \o @]>>)
      [] stmt.node = "Return" -> Then(Values(x, scope, stmt.exprs), LAMBDA y : [y EXCEPT !.sig = "return"])
      [] stmt.node = "Break" -> [x EXCEPT !.sig = "break"]
      [] stmt.node = "Label" -> x
      [] stmt.node = "Goto" -> [x EXCEPT !.sig = "goto", !.label = stmt.label]

LabelAt(stmts, name) == SelectInSeq(stmts, LAMBDA s : s.node = "Label" /\ s.name = name)

(* From statement i; scopes[j] is the scope statement j is in.             *)
RECURSIVE RunFrom(_, _, _, _)
RunFrom(x, scopes, stmts, i) ==
    IF i > Len(stmts) THEN [x EXCEPT !.scope = scopes[i]]
    ELSE LET done == Exec([x EXCEPT !.scope = scopes[i]], scopes[i], stmts[i])
             next == IF stmts[i].node = "LocalAssign" THEN done.scope ELSE scopes[i]
             to == LabelAt(stmts, done.label)
             known == SubSeq(scopes, 1, IF to < i THEN to ELSE i)
         IN  IF done.sig = "next" THEN RunFrom(done, Append(scopes, next), stmts, i + 1)
             ELSE IF done.sig = "goto" /\ to # 0
             THEN RunFrom([done EXCEPT !.sig = "next"],
                          known \o [j \in 1..to - Len(known) |-> scopes[i]], stmts, to)
             ELSE done

Block(x, scope, stmts) == RunFrom(x, <<scope>>, stmts, 1)

-----------------------------------------------------------------------------
(* Which programs there are: where a break or ... may stand, and which     *)
(* labels a goto may name.                                                 *)
Pieces(n) ==
    CASE n.node \in {"AttrGet"} -> <<n.object, n.key>>
      [] n.node = "Table" -> FlattenSeq([i \in 1..Len(n.fields) |->
                                 IF n.fields[i].key = NoKey THEN <<n.fields[i].value>>
                                 ELSE <<n.fields[i].key, n.fields[i].value>>])
      [] n.node = "FuncCall" -> <<n.func>> \o n.args
      [] n.node = "MethodCall" -> <<n.receiver>> \o n.args
      [] n.node \in {"Logical", "Relational", "Concat", "Arithmetic"} -> <<n.lhs, n.rhs>>
      [] n.node \in {"UnaryMinus", "UnaryNot", "UnaryLen", "Call"} -> <<n.expr>>
      [] n.node = "Assign" -> n.lhs \o n.rhs
      [] n.node = "LocalAssign" -> n.exprs
      [] n.node \in {"While", "Repeat"} -> <<n.cond>>
      [] n.node = "If" -> <<n.cond>>
      [] n.node = "NumberFor" -> <<n.init, n.limit, n.step>>
      [] n.node \in {"GenericFor", "Return"} -> n.exprs
      [] n.node = "FuncDef" -> <<n.name, n.func>>
      [] n.node = "MethodDef" -> <<n.receiver, n.func>>
      [] OTHER -> <<>>

Bodies(n) ==
    CASE n.node \in {"Do", "While", "Repeat", "NumberFor", "GenericFor"} -> <<n.stmts>>
      [] n.node = "If" -> <<n.then, n.else>>
      [] OTHER -> <<>>

UsesVarArgs(n) ==
    \/ n.node = "Comma3"
    \/ \E i \in 1..Len(Pieces(n)) : UsesVarArgs(Pieces(n)[i])
    \/ \E i \in 1..Len(Bodies(n)) : \E j \in 1..Len(Bodies(n)[i]) : UsesVarArgs(Bodies(n)[i][j])

(* A goto in statement i may name label j of its block, unless that is in  *)
(* the scope of a variable declared in between; a label with nothing but   *)
(* labels after it is in the scope of none.                                *)
MayJump(stmts, untilFollows, i, j) ==
    \/ j < i
    \/ \A k \in i..j : stmts[k].node # "LocalAssign"
    \/ ~untilFollows /\ \A k \in j..Len(stmts) : stmts[k].node = "Label"

Reachable(stmts, untilFollows, i) ==
    {stmts[j].name : j \in {k \in 1..Len(stmts) : stmts[k].node = "Label" /\ MayJump(stmts, untilFollows, i, k)}}

RECURSIVE ExprOk(_, _), BlockOk(_, _, _, _, _)
ExprOk(e, vargs) ==
    CASE e.node = "Function" -> BlockOk(e.stmts, {}, FALSE, e.vargs, FALSE)
      [] e.node = "Comma3" -> vargs
      [] OTHER -> \A i \in 1..Len(Pieces(e)) : ExprOk(Pieces(e)[i], vargs)

BlockOk(stmts, outer, inLoop, vargs, untilFollows) ==
    /\ \A i, j \in 1..Len(stmts) :
           stmts[i].node = "Label" /\ stmts[j].node = "Label" /\ stmts[i].name = stmts[j].name => i = j
    /\ \A i \in 1..Len(stmts) :
           LET s == stmts[i]
               labels == outer \cup Reachable(stmts, untilFollows, i)
               isLoop == s.node \in {"While", "Repeat", "NumberFor", "GenericFor"}
           IN  /\ s.node = "Break" => inLoop
               /\ s.node = "Goto" => s.label \in labels
               /\ \A k \in 1..Len(Pieces(s)) : ExprOk(Pieces(s)[k], vargs)
               /\ \A k \in 1..Len(Bodies(s)) :
                      BlockOk(Bodies(s)[k], labels, inLoop \/ isLoop, vargs, s.node = "Repeat")

WellFormed(chunk) == BlockOk(chunk, {}, FALSE, TRUE, FALSE)

(* What a host sees of a program.                                          *)
Outcome(chunk) ==
    IF ~WellFormed(chunk) THEN [status |-> "rejected", out |-> <<>>, results |-> <<>>]
    ELSE LET left == Block(Start, Start.scope, chunk)
         IN  [status |-> IF left.sig = "error" THEN "error" ELSE "ended", out |-> left.out,
              results |-> IF left.sig = "return" THEN left.vals ELSE <<>>]
=============================================================================
