------------------------------- MODULE Syntax -------------------------------
(***************************************************************************)
(* The syntax trees of Lua programs (ast/expr.go, ast/stmt.go, ast/misc.go) *)
(* as the parser leaves them, without their line numbers, and the values   *)
(* that constants and registers hold.  A string is a sequence of pieces,   *)
(* which are never looked into; numbers are integers.                      *)
(***************************************************************************)
EXTENDS Integers, Sequences, TLC

Nil == <<"nil">>
Bool(b) == <<"boolean", b>>
Num(n) == <<"number", n>>
Str(s) == <<"string", <<s>>>>
Table(i) == <<"table", i>>
Closure(i) == <<"function", i>>
Native(name) == <<"native", name>>

(* emit shows its arguments to the host; same returns them.                *)
GoFunctions == "emit" :> Native("emit") @@ "same" :> Native("same")

IsFalse(v) == v \in {Nil, Bool(FALSE)}
IsNumber(v) == v[1] = "number"
IsTable(v) == v[1] = "table"
IsText(v) == v[1] \in {"string", "number"}
Text(v) == IF IsNumber(v) THEN <<ToString(v[2])>> ELSE v[2]

-----------------------------------------------------------------------------
(* Expressions.                                                            *)
TrueExpr == [node |-> "True"]
FalseExpr == [node |-> "False"]
NilExpr == [node |-> "Nil"]
NumberExpr(n) == [node |-> "Number", value |-> n]
StringExpr(s) == [node |-> "String", value |-> s]
Comma3Expr(adjust) == [node |-> "Comma3", adjust |-> adjust]
IdentExpr(name) == [node |-> "Ident", name |-> name]
AttrGetExpr(object, key) == [node |-> "AttrGet", object |-> object, key |-> key]

(* A field without a key belongs to the list.                              *)
NoKey == [node |-> "NoKey"]
Field(key, value) == [key |-> key, value |-> value]
TableExpr(fields) == [node |-> "Table", fields |-> fields]

(* adjust: in parentheses, so that there is one result.                    *)
FuncCallExpr(func, args, adjust) ==
    [node |-> "FuncCall", func |-> func, args |-> args, adjust |-> adjust]
MethodCallExpr(receiver, method, args) ==
    [node |-> "MethodCall", receiver |-> receiver, method |-> method, args |-> args, adjust |-> FALSE]

LogicalOpExpr(lhs, op, rhs) == [node |-> "Logical", operator |-> op, lhs |-> lhs, rhs |-> rhs]
RelationalOpExpr(lhs, op, rhs) == [node |-> "Relational", operator |-> op, lhs |-> lhs, rhs |-> rhs]
StringConcatOpExpr(lhs, rhs) == [node |-> "Concat", lhs |-> lhs, rhs |-> rhs]
ArithmeticOpExpr(lhs, op, rhs) == [node |-> "Arithmetic", operator |-> op, lhs |-> lhs, rhs |-> rhs]
UnaryMinusOpExpr(expr) == [node |-> "UnaryMinus", expr |-> expr]
UnaryNotOpExpr(expr) == [node |-> "UnaryNot", expr |-> expr]
UnaryLenOpExpr(expr) == [node |-> "UnaryLen", expr |-> expr]
FunctionExpr(names, hasVargs, stmts) ==
    [node |-> "Function", names |-> names, vargs |-> hasVargs, stmts |-> stmts]

-----------------------------------------------------------------------------
(* Statements.                                                             *)
AssignStmt(lhs, rhs) == [node |-> "Assign", lhs |-> lhs, rhs |-> rhs]
LocalAssignStmt(names, exprs) == [node |-> "LocalAssign", names |-> names, exprs |-> exprs]
FuncCallStmt(expr) == [node |-> "Call", expr |-> expr]
DoBlockStmt(stmts) == [node |-> "Do", stmts |-> stmts]
WhileStmt(cond, stmts) == [node |-> "While", cond |-> cond, stmts |-> stmts]
RepeatStmt(stmts, cond) == [node |-> "Repeat", cond |-> cond, stmts |-> stmts]
IfStmt(cond, then, else) == [node |-> "If", cond |-> cond, then |-> then, else |-> else]
NumberForStmt(name, init, limit, step, stmts) ==
    [node |-> "NumberFor", name |-> name, init |-> init, limit |-> limit, step |-> step, stmts |-> stmts]
GenericForStmt(names, exprs, stmts) ==
    [node |-> "GenericFor", names |-> names, exprs |-> exprs, stmts |-> stmts]
FuncDefStmt(name, func) == [node |-> "FuncDef", name |-> name, func |-> func]
MethodDefStmt(receiver, method, func) ==
    [node |-> "MethodDef", receiver |-> receiver, method |-> method, func |-> func]
ReturnStmt(exprs) == [node |-> "Return", exprs |-> exprs]
BreakStmt == [node |-> "Break"]
LabelStmt(name) == [node |-> "Label", name |-> name]
GotoStmt(label) == [node |-> "Goto", label |-> label]

(* isVarArgReturnExpr: as many values as there are.                        *)
HasManyValues(e) == e.node \in {"FuncCall", "MethodCall", "Comma3"} /\ ~e.adjust
=============================================================================
