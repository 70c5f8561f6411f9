---------------------------- MODULE Translation ----------------------------
(***************************************************************************)
(* From the AST of a function to the opcodes the analyzer reads (struct    *)
(* Scope of details/pass/c-ast2ir).  Producer models the same visitors one *)
(* step at a time, with the values left out, for the registers and labels  *)
(* alone; here a visitor is an operator and the opcodes are complete, so   *)
(* that Analyzer can be given what it really gets.                         *)
(*                                                                         *)
(* An expression is the sequence of the nodes that continue one another    *)
(* (`f', then its call; `o', then `.m'): Scope::visitASTExprContinuation.  *)
(* The state `ir' of a translation has the last register taken, the code,  *)
(* the register of the last expression, the position of the last identify  *)
(* and, for the current block, the jumps out of its error handlers.        *)
(***************************************************************************)
EXTENDS Integers, SequencesExt

void    == 0
builtin == -1
any     == -2

-----------------------------------------------------------------------------
(* The nodes of the AST.                                                   *)

Id(name)          == [k |-> "identifier", name |-> name]
CallNode(args)    == [k |-> "call", args |-> args]
NewNode(class, args) == [k |-> "new", class |-> class, args |-> args]
Number(type, value) == [k |-> "number", class |-> type, value |-> value]
TextNode          == [k |-> "text"]
RegisterNode(r)   == [k |-> "register", lvid |-> r]
StringNode(parts) == [k |-> "string", parts |-> parts]
ArrayNode(class, items) == [k |-> "array", class |-> class, items |-> items]
IntrinsicNode(name, args) == [k |-> "intrinsic", name |-> name, args |-> args]
IfNode(cond, then, else) == [k |-> "if", cond |-> cond, then |-> then, else |-> else]

(* A part of a string is a text, or an interpolated expression.            *)
TextPart(length) == [text |-> TRUE, length |-> length]
ExprPart(expr)   == [text |-> FALSE, expr |-> expr]

(* A function knows whether it belongs to a class by its parameter `self'. *)
Var(name, ref, type, init) ==
  [s |-> "var", name |-> name, ref |-> ref, type |-> type, init |-> init]
Value(expr)         == [s |-> "value", expr |-> expr]
Do(expr)            == [s |-> "expr", expr |-> expr]
Return(expr)        == [s |-> "return", expr |-> expr]
Raise(expr)         == [s |-> "raise", expr |-> expr]
If(cond, then, else) == [s |-> "if", cond |-> cond, then |-> then, else |-> else]
While(cond, body)   == [s |-> "while", cond |-> cond, body |-> body]
DoWhile(body, cond) == [s |-> "do while", cond |-> cond, body |-> body]
Switch(value, cases) == [s |-> "switch", value |-> value, cases |-> cases]
Scope(stmts)        == [s |-> "scope", stmts |-> stmts]
OnFail(name, class, stmts) ==
  [s |-> "on scope fail", name |-> name, class |-> class, stmts |-> stmts]

isShortcircuit(expr, i) ==
  /\ i > 1 /\ expr[i - 1].k = "identifier" /\ expr[i - 1].name \in {"^and", "^or"}
  /\ Len(expr[i].args) = 2

-----------------------------------------------------------------------------
(* Emission.                                                               *)

Put(ir, opc) == [ir EXCEPT !.code = Append(@, opc)]

nextvar(ir) == [ir EXCEPT !.next = @ + 1]

(* The register allocated is the value of the result.                      *)
Alloc(ir, type) ==
  LET took == nextvar(ir)
  IN [Put(took, [op |-> "stackalloc", lvid |-> took.next, type |-> type])
        EXCEPT !.value = took.next]

AllocConstant(ir, value) ==
  LET made == Alloc(ir, builtin)
  IN Put(made, [op |-> "constant", lvid |-> made.value, value |-> value])

AllocText(ir) ==
  LET made == Alloc(ir, builtin)
  IN Put(made, [op |-> "text", lvid |-> made.value])

Identify(ir, name, self) ==
  LET made == Alloc(ir, any)
  IN Put(made, [op |-> "identify", lvid |-> made.value, name |-> name, self |-> self,
                set |-> FALSE])

NewLabel(ir) ==
  LET took == nextvar(ir)
  IN Put(took, [op |-> "label", label |-> took.next])

Jump(ir, op, lvid, label) ==
  Put(ir, [op |-> op, lvid |-> lvid, result |-> 0, label |-> label])

Patch(ir, offset, label) == [ir EXCEPT !.code[offset].label = label]

Offset(ir) == Len(ir.code) + 1

(* A slip: the label is not a register of its own.                         *)
JzRaiseSharingLabel(ir) == Put(ir, [op |-> "jzraise", label |-> ir.next])

(* jzraise: its label is the register taken next.                          *)
JzRaise(ir) ==
  LET took == nextvar(ir)
  IN Put(took, [op |-> "jzraise", label |-> took.next])

ScopeBegin(ir) == Put(ir, [op |-> "scope"])
ScopeEnd(ir)   == Put(ir, [op |-> "end"])

Assign(ir, lhs, rhs) == Put(ir, [op |-> "assign", lhs |-> lhs, rhs |-> rhs, dispose |-> FALSE])

Follow(ir, follower, lvid) ==
  Put(ir, [op |-> "follow", follower |-> follower, lvid |-> lvid, symlink |-> FALSE])

QualifierRef(ir, lvid, on) == Put(ir, [op |-> "ref qualifier", lvid |-> lvid, on |-> on])

Push(ir, lvid) == Put(ir, [op |-> "push", lvid |-> lvid])

PushAll(ir, lvids) == FoldLeft(Push, ir, lvids)

Call(ir, lvid, functor) == Put(ir, [op |-> "call", lvid |-> lvid, functor |-> functor])

Codegen(ir, on) == Put(ir, [op |-> "codegen", on |-> on])

EnsureResolved(ir, lvid) ==
  IF lvid = 0 THEN ir ELSE Put(ir, [op |-> "ensureresolved", lvid |-> lvid])

-----------------------------------------------------------------------------
(* Expressions.                                                            *)

(* Op of a value that is known first: TLC would otherwise compute it within*)
(* Op, and a whole translation within its last step.                       *)
With(value, Op(_)) == CHOOSE r \in {Op(v) : v \in {value}} : TRUE

(* Expressions and statements hold one another: one operator visits both.  *)
RECURSIVE Visit(_, _)

VisitExpr(ir, expr) == Visit(ir, Value(expr))

(* Several expressions, one after the other; `values' are their registers. *)
VisitArgs(ir, args) ==
  LET one(acc, arg) ==
        LET done == VisitExpr(acc.ir, arg)
        IN [ir |-> done, values |-> Append(acc.values, done.value)]
  IN FoldLeft(one, [ir |-> ir, values |-> << >>], args)

(* An `=' that is called makes a write of the name before it.              *)
VisitIdentifier(ir, expr, i) ==
  LET node     == expr[i]
      offset   == Offset(ir) + 1
      done     == Identify(ir, node.name, ir.value)
      promoted == i < Len(expr) /\ ir.last # 0 /\ node.name = "="
  IN IF promoted THEN [done EXCEPT !.code[ir.last].set = TRUE, !.last = 0]
     ELSE [done EXCEPT !.last = offset]

(* A slip: no error is looked for after a call without parameters.         *)
FunCallUnchecked(ir, functor) ==
  LET made == Alloc(ir, any)
  IN Call(made, made.value, functor)

FunCallNoParameter(ir, functor) ==
  LET made == Alloc(ir, any)
  IN JzRaise(Call(made, made.value, functor))

(* jzraise comes after the scope: the parameters are released before.      *)
FuncCallWithParameters(ir, functor, args) ==
  LET made   == Alloc(ir, any)
      inside == VisitArgs(ScopeBegin(made), args)
      called == Call(PushAll(inside.ir, inside.values), made.value, functor)
  IN [JzRaise(ScopeEnd(called)) EXCEPT !.value = made.value]

(* The second operand may not be evaluated: room is left before it for a   *)
(* jump, and a register after the label for what the jump tests.           *)
RoomForJump(ir) ==
  Put(Put(Put(ir, [op |-> "stackalloc", lvid |-> 0, type |-> any]), [op |-> "nop"]),
      [op |-> "nop"])

(* `room' is where the first operand ended, `first' its register.          *)
OperandsKnown(second, room, first, retbool, functor) ==
  LET label    == second.next + 1
      marked   == Put(second, [op |-> "shortcircuit", label |-> 0])
      called   == Call(PushAll(marked, << first, second.value >>), retbool, functor)
      labelled == nextvar(NewLabel(ScopeEnd(called)))
      patched  == [labelled EXCEPT !.code[Offset(second)].label = label,
                                   !.code[room].lvid = label + 1]
      sized    == Alloc(ScopeEnd(patched), builtin)
  IN [Put(sized, [op |-> "mutate to bool", lvid |-> retbool + 1, source |-> retbool])
        EXCEPT !.value = retbool + 1]

SecondOperand(first, retbool, functor, arg) ==
  OperandsKnown(VisitExpr(ScopeBegin(RoomForJump(first)), arg), Offset(first), first.value,
                retbool, functor)

(* The register of the call is followed by that of the bool made from it.  *)
ShortCircuitFuncCall(ir, functor, args) ==
  SecondOperand(VisitExpr(ScopeBegin(Alloc(Alloc(ir, any), any)), args[1]), ir.next + 1,
                functor, args[2])

VisitCall(ir, expr, i) ==
  LET functor == Identify(ir, "^()", ir.value)
      args    == expr[i].args
  IN IF args = << >> THEN FunCallNoParameter(functor, functor.value)
     ELSE IF isShortcircuit(expr, i) THEN ShortCircuitFuncCall(functor, functor.value, args)
     ELSE FuncCallWithParameters(functor, functor.value, args)

(* A type is an expression nothing is generated for.                       *)
VisitType(ir, class) == Codegen(VisitExpr(Codegen(ir, FALSE), << Id(class) >>), TRUE)

(* A type that is written: visitASTType.                                   *)
VisitDeclaredType(ir, class) ==
  LET type == VisitType(ir, class) IN QualifierRef(type, type.value, FALSE)

(* The register allocated first is kept for the size of the object.        *)
NewObject(type, args) ==
  LET object == type.next + 2
      given  == Follow(Put(Alloc(Alloc(type, builtin), any),
                           [op |-> "allocate", lvid |-> object, class |-> type.value]),
                       object, type.value)
  IN [VisitCall(Identify(given, "^new", object), << CallNode(args) >>, 1) EXCEPT
        !.value = object]

VisitNew(ir, class, args) == NewObject(VisitType(ir, class), args)

(* A literal is a builtin, or an object made from one.                     *)
VisitNumber(ir, node) ==
  LET hardcoded == AllocConstant(ir, node.value)
  IN IF node.class = "" THEN hardcoded
     ELSE VisitNew(hardcoded, node.class, << << RegisterNode(hardcoded.value) >> >>)

(* Strings and arrays are filled with the `append' of the object just made.*)
Appender(ir) ==
  LET named == Identify(ir, "append", ir.value)
  IN Identify(named, "^()", named.value)

(* The texts and the expressions are appended to a new string.  No error   *)
(* is looked for after these calls.                                        *)
Appended(made, parts) ==
  LET functor == made.next + 2
      text(acc, part) ==
        LET sid == AllocText(acc)
            lid == AllocConstant(sid, 0)
            ret == Alloc(lid, void)
        IN Call(PushAll(ret, << sid.value, lid.value >>), ret.value, functor)
      interpolated(acc, part) ==
        LET value == VisitExpr(ScopeBegin(acc), part.expr)
            ret   == Alloc(value, void)
        IN ScopeEnd(Call(Push(ret, value.value), ret.value, functor))
      append(acc, part) == IF part.text THEN text(acc, part) ELSE interpolated(acc, part)
  IN [FoldLeft(append, Appender(made), parts) EXCEPT !.value = made.value]

VisitString(ir, parts) == Appended(VisitNew(ir, "string", << >>), parts)

(* [a, b]: a new array, then its items; no error is looked for here either.*)
Filled(made, items) ==
  LET functor == made.next + 2
      append(acc, item) ==
        LET value == VisitExpr(acc, item)
            ret   == Alloc(value, any)
        IN Call(Push(ret, value.value), ret.value, functor)
  IN [ScopeEnd(FoldLeft(append, Appender(ScopeBegin(made)), items)) EXCEPT !.value = made.value]

VisitArray(ir, class, items) == Filled(VisitNew(ir, class, << >>), items)

VisitIntrinsic(ir, name, args) ==
  LET inside == VisitArgs(ir, args)
      made   == Alloc(PushAll(inside.ir, inside.values), any)
  IN Put(made, [op |-> "intrinsic", lvid |-> made.value, name |-> name])

(* A condition is evaluated in a scope of its own; `value' is the boolean. *)
Condition(ir, expr) ==
  LET cond == Alloc(ir, builtin)
      eval == VisitExpr(ScopeBegin(cond), expr)
  IN [ScopeEnd(Assign(eval, cond.value, eval.value)) EXCEPT !.value = cond.value]

(* `jz' is where the jump to the second branch is, `jmp' the one over it.  *)
Joined(else, jz, label, jmp) ==
  Patch(Patch(NewLabel(else), jz, label), jmp, else.next + 1)

Otherwise(then, jz, Else(_)) ==
  Joined(Else(NewLabel(Jump(then, "jmp", 0, 0))), jz, then.next + 1, Offset(then))

(* Both branches, each in a scope of its own.                              *)
Branches(cond, Then(_), Else(_)) ==
  Otherwise(Then(Jump(cond, "jz", cond.value, 0)), Offset(cond), Else)

(* generateIfExpr.                                                         *)
VisitIfExpr(ir, node) ==
  LET ret  == ir.next + 1
      give(value) == ScopeEnd(Assign(value, ret, value.value))
      then(acc) == give(VisitExpr(ScopeBegin(acc), node.then))
      else(acc) == give(VisitExpr(ScopeBegin(acc), node.else))
  IN [Branches(Condition(QualifierRef(Alloc(ir, any), ret, TRUE), node.cond), then, else)
        EXCEPT !.value = ret]

VisitNode(ir, expr, i) ==
  LET node == expr[i]
  IN CASE node.k = "identifier" -> VisitIdentifier(ir, expr, i)
       [] node.k = "call"       -> VisitCall(ir, expr, i)
       [] node.k = "new"        -> VisitNew(ir, node.class, node.args)
       [] node.k = "number"     -> VisitNumber(ir, node)
       [] node.k = "text"       -> AllocText(ir)
       [] node.k = "register"   -> [ir EXCEPT !.value = node.lvid]
       [] node.k = "string"     -> VisitString(ir, node.parts)
       [] node.k = "array"      -> VisitArray(ir, node.class, node.items)
       [] node.k = "intrinsic"  -> VisitIntrinsic(ir, node.name, node.args)
       [] node.k = "if"         -> VisitIfExpr(ir, node)

Resolved(ir, last) ==
  With(ir, LAMBDA known : [EnsureResolved(known, known.value) EXCEPT !.last = last])

(* Every expression has a Scope of its own: it forgets the last identify.  *)
VisitNodes(ir, expr) ==
  LET node(acc, i) == With(acc, LAMBDA known : VisitNode(known, expr, i))
  IN Resolved(FoldLeft(node, [ir EXCEPT !.value = 0, !.last = 0], [i \in DOMAIN expr |-> i]),
              ir.last)

-----------------------------------------------------------------------------
(* Statements.                                                             *)

(* The name is declared after the value: the value cannot use it.          *)
VisitVar(ir, stmt) ==
  LET var   == Alloc(ir, any)
      typed == IF stmt.type = "" THEN var
               ELSE LET type == VisitDeclaredType(var, stmt.type)
                    IN Follow(type, var.value, type.value)
      init  == VisitExpr(ScopeBegin(QualifierRef(typed, var.value, stmt.ref)), stmt.init)
      given == IF stmt.ref
               THEN Put(Put(init, [op |-> "store", lvid |-> var.value, source |-> init.value]),
                        [op |-> "ref", lvid |-> var.value])
               ELSE Assign(init, var.value, init.value)
  IN Put(ScopeEnd(given),
         [op |-> "namealias", lvid |-> var.value, name |-> stmt.name, real |-> FALSE])

VisitReturn(ir, stmt) ==
  LET value == VisitExpr(ScopeBegin(ir), stmt.expr)
      tmp   == Alloc(value, any)
  IN IF stmt.expr = << >> THEN Put(ir, [op |-> "ret", lvid |-> 0, tmp |-> 0])
     ELSE ScopeEnd(Put(tmp, [op |-> "ret", lvid |-> value.value, tmp |-> tmp.value]))

VisitRaise(ir, stmt) ==
  LET value == VisitExpr(ScopeBegin(ir), stmt.expr)
  IN ScopeEnd(Put(value, [op |-> "raise", lvid |-> value.value]))

(* A statement in a scope: a branch, the body of a loop.                   *)
Body(ir, stmt) == ScopeEnd(Visit(ScopeBegin(ir), stmt))

Skipped(then, jz) == Patch(NewLabel(then), jz, then.next + 1)

(* generateIfStmt.                                                         *)
VisitIf(ir, stmt) ==
  LET cond      == Condition(ir, stmt.cond)
      then(acc) == Body(acc, stmt.then)
      else(acc) == Body(acc, stmt.else[1])
  IN IF stmt.else # << >> THEN Branches(cond, then, else)
     ELSE Skipped(then(Jump(cond, "jz", cond.value, 0)), Offset(cond))

VisitWhile(ir, stmt) ==
  LET begin     == NewLabel(ScopeBegin(ir))
      repeat(cond) ==
        Skipped(Jump(Body(Jump(cond, "jz", cond.value, 0), stmt.body), "jmp", 0, begin.next),
                Offset(cond))
  IN ScopeEnd(repeat(Condition(begin, stmt.cond)))

VisitDoWhile(ir, stmt) ==
  LET begin == NewLabel(ScopeBegin(ir))
      cond  == Condition(Body(begin, stmt.body), stmt.cond)
  IN ScopeEnd(Jump(cond, "jnz", cond.value, begin.next))

(* Each case is an `if' on a call of == that leaves the switch.            *)
VisitCase(acc, value, case) ==
  LET equal == << Id("^=="), CallNode(<< << RegisterNode(value) >>, case.value >>) >>
      leave(then, jz) ==
        [ir |-> ScopeEnd(Skipped(Jump(then, "jmp", 0, 0), jz)),
         jumps |-> Append(acc.jumps, Offset(then))]
      test(cond) == leave(Body(Jump(cond, "jz", cond.value, 0), case.body), Offset(cond))
  IN test(Condition(ScopeBegin(acc.ir), equal))

Cases(value, cases) ==
  LET case(acc, c) == VisitCase(acc, value.value, c)
  IN FoldLeft(case, [ir |-> value, jumps |-> << >>], cases)

EndSwitch(cases) ==
  LET leave(acc, offset) == Patch(acc, offset, cases.ir.next + 1)
  IN ScopeEnd(FoldLeft(leave, NewLabel(cases.ir), cases.jumps))

VisitSwitch(ir, stmt) ==
  EndSwitch(Cases(VisitExpr(Alloc(ScopeBegin(ir), builtin), stmt.value), stmt.cases))

(* ~Scope: the handlers of the block end, after the label they jump to.    *)
updateOnScopeFailExitLabels(ir) ==
  LET end == NewLabel(ir)
      close(acc, exit) ==
        Patch(ScopeEnd(Put(acc, [op |-> "onscopefail", lvid |-> exit.var, label |-> 0])),
              exit.offset, end.next)
  IN IF ir.exits = << >> THEN ir ELSE FoldLeft(close, end, Reverse(ir.exits))

VisitBlock(ir, stmts) ==
  LET inside == FoldLeft(Visit, [ScopeBegin(ir) EXCEPT !.exits = << >>], stmts)
  IN [ScopeEnd(updateOnScopeFailExitLabels(inside)) EXCEPT !.exits = ir.exits]

(* A handler of any error has no variable.                                 *)
ErrorVariable(ir, name, type) ==
  IF name = "" THEN ir
  ELSE LET var == Alloc(ir, any)
       IN Put(Follow(QualifierRef(var, var.value, TRUE), var.value, type),
              [op |-> "namealias", lvid |-> var.value, name |-> name, real |-> TRUE])

(* `skip' is the jump over the handler.                                    *)
EndHandler(done, lvid, skip) ==
  [Patch(NewLabel(Jump(done, "jmp", 0, 0)), skip, done.next + 1) EXCEPT
     !.exits = Append(@, [offset |-> Offset(done), var |-> lvid])]

(* It is registered after its own code.                                    *)
Handler(start, stmt, type, skip) ==
  LET lvid  == IF stmt.name = "" THEN 0 ELSE start.next + 1
      body  == VisitBlock(ErrorVariable(start, stmt.name, type), stmt.stmts)
      known == Put(body, [op |-> "onscopefail", lvid |-> lvid, label |-> start.next])
  IN EndHandler(IF lvid = 0 THEN known ELSE Put(known, [op |-> "unref", lvid |-> lvid]),
                lvid, skip)

(* The handler is skipped when nothing fails.  Its scope is closed at the  *)
(* end of the block.                                                       *)
SkippedHandler(typed, stmt) ==
  Handler(NewLabel(Jump(ScopeBegin(typed), "jmp", 0, 0)), stmt, typed.value, Offset(typed) + 1)

VisitOnFail(ir, stmt) ==
  SkippedHandler(IF stmt.name = "" THEN ir ELSE VisitDeclaredType(ir, stmt.class), stmt)

VisitStmt(ir, stmt) ==
  CASE stmt.s = "var"           -> VisitVar(ir, stmt)
    [] stmt.s = "expr"          -> ScopeEnd(VisitExpr(ScopeBegin(ir), stmt.expr))
    [] stmt.s = "return"        -> VisitReturn(ir, stmt)
    [] stmt.s = "raise"         -> VisitRaise(ir, stmt)
    [] stmt.s = "if"            -> VisitIf(ir, stmt)
    [] stmt.s = "while"         -> VisitWhile(ir, stmt)
    [] stmt.s = "do while"      -> VisitDoWhile(ir, stmt)
    [] stmt.s = "switch"        -> VisitSwitch(ir, stmt)
    [] stmt.s = "scope"         -> VisitBlock(ir, stmt.stmts)
    [] stmt.s = "on scope fail" -> VisitOnFail(ir, stmt)

Visit(ir, stmt) ==
  IF stmt.s = "value" THEN VisitNodes(ir, stmt.expr)
  ELSE With([ir EXCEPT !.last = 0], LAMBDA known : VisitStmt(known, stmt))

-----------------------------------------------------------------------------
(* Functions.                                                              *)

(* Register 1 is the result, then come the parameters, and as many         *)
(* registers to copy them.                                                 *)
Parameters(fn) ==
  LET start == [next |-> 1 + Len(fn.params), code |-> << >>, value |-> 0, last |-> 0,
                exits |-> << >>]
      clone(acc, param) == Alloc(acc, any)
  IN Put(FoldLeft(clone, start, fn.params), [op |-> "bodystart"])

Translated(ir) == [code |-> ir.code, stacksize |-> ir.next + 1]

VisitFunc(fn) == Translated(ScopeEnd(FoldLeft(Visit, Parameters(fn), fn.body)))

(* A default value of a member is a function of its own: `^fieldset' of    *)
(* the value.                                                              *)
DefaultInit(expr) ==
  << Do(<< IntrinsicNode("^fieldset", << expr, << TextNode >> >>) >>) >>
=============================================================================
