------------------------------ MODULE Producer ------------------------------
(***************************************************************************)
(* The translation of the body of a function from its syntax tree to IR    *)
(* (details/pass/c-ast2ir): which registers and labels are numbered how,   *)
(* where scopes of the IR begin and end, and where its jumps go.           *)
(*                                                                         *)
(* A visitor of the code is the sequence of what it emits and visits, and  *)
(* `todo' is what the visitors in progress still have to do, the innermost *)
(* first; an action takes its first step.  Where the code visits a child,  *)
(* the model chooses any child the grammar allows there.  Registers and    *)
(* labels come from the same counter, nextVarID, which each C++ Scope      *)
(* copies from its parent and gives back when it is destroyed.             *)
(*                                                                         *)
(* An instruction keeps the operands that number something.  Its `tag' is  *)
(* not in the code: it says which local variable of which visitor (named   *)
(* by the offset it started at) a label is in, and which label a jump is   *)
(* meant for.                                                              *)
(***************************************************************************)
EXTENDS Integers, Sequences, SequencesExt

CONSTANTS
  Handlers,   \* the kinds of `on scope fail' a source may use
  MaxNodes    \* bound: the number of compound nodes of the syntax tree

ASSUME ProducerAssumption ==
  /\ Handlers \subseteq {"typed", "any"}
  /\ MaxNodes \in Nat

VARIABLES
  ircode,     \* Context::ircode
  scopes,     \* the live Scope objects, the outermost first
  todo,       \* the steps left
  nodes,      \* the compound nodes visited
  stacksize   \* the operand of the opcode stacksize, 0 before it is known

vars == << ircode, scopes, todo, nodes, stacksize >>

------------------------------------------------------------------------------
(* Instructions, scopes and steps.                                         *)

Tag == Nat \X {"", "while", "else", "end", "start", "ignore", "var", "sc", "exit",
                "case 1", "case 2"}

NoTag == << 0, "" >>

Jumps == {"jmp", "jz", "jnz"}

(* A stackalloc of a builtin bool, which is never released, or of the rest. *)
Allocs == {"stackalloc", "stackalloc bool"}

Instr == [op : Jumps \cup Allocs \cup {"scope", "end", "raise", "ret", "label", "jzraise",
                                      "onscopefail"},
          lvid : Nat, label : Nat, tag : Tag]

Scope == [nextVarID : Nat, at : Nat, onScopeFailExitLabels : Seq(Nat)]

Step ==
  [do : {"emit"}, op : {"scope", "end", "raise", "ret"}, tag : {NoTag}]
  \cup [do : {"alloc", "alloc later"}, op : Allocs, tag : Tag]
  \cup [do : {"jump"}, op : Jumps, tag : Tag]
  \cup [do : {"register", "exit"}, op : Handlers, tag : Tag]
  \cup [do : {"label", "reserve", "jzraise", "enter", "leave", "stmt", "stmts", "expr", "finish"},
        op : {""}, tag : Tag]

Do(what) == [do |-> what, op |-> "", tag |-> NoTag]
Emit(op) == [do |-> "emit", op |-> op, tag |-> NoTag]
Label(at, name) == [do |-> "label", op |-> "", tag |-> << at, name >>]
Jump(op, at, name) == [do |-> "jump", op |-> op, tag |-> << at, name >>]
On(what, kind, at) == [do |-> what, op |-> kind, tag |-> << at, "start" >>]

ScopeBegin == Emit("scope")
ScopeEnd == Emit("end")
Alloc == [do |-> "alloc", op |-> "stackalloc", tag |-> NoTag]
AllocBool == [do |-> "alloc", op |-> "stackalloc bool", tag |-> NoTag]
AllocAt(what, at, name) == [do |-> what, op |-> "stackalloc", tag |-> << at, name >>]
Enter == Do("enter")
Leave == Do("leave")
Expr == Do("expr")
Stmt == Do("stmt")

(* A ScopeLocker around the steps of s.                                    *)
Locked(s) == << ScopeBegin >> \o s \o << ScopeEnd >>

------------------------------------------------------------------------------
(* Expressions: visitASTExpr opens a Scope of its own.                     *)

Identifier == << Enter, Alloc, Leave >>

CallNoParameter == << Enter, Alloc, Alloc, Alloc, Do("jzraise"), Leave >>

Called(parameters) ==
  << Enter, Alloc, Alloc, Alloc >> \o Locked(parameters) \o << Do("jzraise"), Leave >>

CallWithParameters == Called(<< Expr >>)

(* `and' and `or': the register below the label is read by the code the    *)
(* analyzer puts in the place of the jump.                                 *)
(* (Two slips first: the second parameter in the scope of the first one;   *)
(* the register not reserved.)                                             *)
ShortCircuitInOneScope(at) ==
  << Enter, Alloc, Alloc, Alloc, Alloc >>
    \o Locked(<< Expr, AllocAt("alloc later", at, "sc"), Jump("jz", at, "sc"), Expr,
                 Label(at, "sc"), Do("reserve") >>)
    \o << Alloc, Leave >>

ShortCircuitUnreserved(at) ==
  << Enter, Alloc, Alloc, Alloc, Alloc >>
    \o Locked(<< Expr, AllocAt("alloc later", at, "sc"), Jump("jz", at, "sc") >>
                \o Locked(<< Expr >>) \o << Label(at, "sc") >>)
    \o << Alloc, Leave >>

ShortCircuit(at) ==
  << Enter, Alloc, Alloc, Alloc, Alloc >>
    \o Locked(<< Expr, AllocAt("alloc later", at, "sc"), Jump("jz", at, "sc") >>
                \o Locked(<< Expr >>) \o << Label(at, "sc"), Do("reserve") >>)
    \o << Alloc, Leave >>

(* generateIfStmt and generateIfExpr: a clause is a statement or an        *)
(* expression.                                                             *)
If(at, condition, clause) ==
  << AllocBool >> \o Locked(condition) \o << Jump("jz", at, "end") >> \o Locked(clause)
    \o << Label(at, "end") >>

IfElse(at, clause) ==
  << AllocBool >> \o Locked(<< Expr >>) \o << Jump("jz", at, "else") >> \o Locked(clause)
    \o << Jump("jmp", at, "end"), Label(at, "else") >> \o Locked(clause)
    \o << Label(at, "end") >>

IfExpr(at) == << Enter, Alloc >> \o IfElse(at, << Expr >>) \o << Leave >>

------------------------------------------------------------------------------
(* Statements.                                                             *)

ExprStmt == Locked(<< Expr >>)

(* visitASTExprScope, and the same within the expression the parser wraps  *)
(* around a statement.                                                     *)
Block == Locked(<< Enter, Do("stmts"), Leave >>)

BlockStmt == Locked(<< Enter >> \o Block \o << Leave >>)

Var == << Alloc >> \o Locked(<< Expr >>)

Return == Locked(<< Expr, Alloc, Emit("ret") >>)

ReturnVoid == << Emit("ret") >>

Raise == Locked(<< Expr, Emit("raise") >>)

While(at) ==
  Locked(<< Label(at, "while"), AllocBool >> \o Locked(<< Expr >>)
           \o << Jump("jz", at, "end") >> \o Locked(<< Stmt >>)
           \o << Jump("jmp", at, "while"), Label(at, "end") >>)

DoWhile(at) ==
  Locked(<< Label(at, "while") >> \o Locked(<< Stmt >>)
           \o << AllocBool >> \o Locked(<< Expr >>) \o << Jump("jnz", at, "while") >>)

(* A switch of two cases: each is an `if' on the call of an operator, its  *)
(* `then' leaves the switch.                                               *)
(* (A slip first: the jump out of the switch is within the scope.)         *)
CaseLeavingInScope(at, name) ==
  Locked(<< AllocBool >> \o Locked(Called(<< Enter, Leave, Expr >>))
           \o << Jump("jz", at, name) >> \o Locked(<< Stmt, Jump("jmp", at, "end") >>)
           \o << Label(at, name) >>)

Case(at, name) ==
  Locked(<< AllocBool >> \o Locked(Called(<< Enter, Leave, Expr >>))
           \o << Jump("jz", at, name) >> \o Locked(<< Stmt >>)
           \o << Jump("jmp", at, "end"), Label(at, name) >>)

Switch(at) ==
  Locked(<< AllocBool, Expr >> \o Case(at, "case 1") \o Case(at, "case 2")
           \o << Label(at, "end") >>)

(* The handler of a type visits the type first; the error it receives has  *)
(* a register.  The scope opened here is closed by ~Scope.                 *)
(* (A slip first: the type is visited below the label.)                    *)
OnScopeFailLateType(at, kind) ==
  << ScopeBegin, Jump("jmp", at, "ignore"), Label(at, "start") >>
    \o (IF kind = "typed"
        THEN << Enter, Enter, Alloc, Leave, Leave, AllocAt("alloc", at, "var") >> ELSE << >>)
    \o Block
    \o << On("register", kind, at), On("exit", kind, at), Label(at, "ignore") >>

OnScopeFail(at, kind) ==
  (IF kind = "typed" THEN << Enter, Enter, Alloc, Leave, Leave >> ELSE << >>)
    \o << ScopeBegin, Jump("jmp", at, "ignore"), Label(at, "start") >>
    \o (IF kind = "typed" THEN << AllocAt("alloc", at, "var") >> ELSE << >>)
    \o Block
    \o << On("register", kind, at), On("exit", kind, at), Label(at, "ignore") >>

(* visitASTFunc, from the return type (%1) to the end of the blueprint.    *)
Func == << Alloc >> \o Block \o << Do("finish") >>

------------------------------------------------------------------------------
(* What visitASTStmt and visitASTExprContinuation choose between.  The     *)
(* leaves are what is left when MaxNodes is reached.                       *)

Statements(at) ==
  { BlockStmt, Var, Return, ReturnVoid, Raise, While(at), DoWhile(at), Switch(at),
    If(at, << Expr >>, << Stmt >>), IfElse(at, << Stmt >>) }
    \cup { OnScopeFail(at, kind) : kind \in Handlers }

Expressions(at) == { CallNoParameter, CallWithParameters, ShortCircuit(at), IfExpr(at) }

------------------------------------------------------------------------------
(* The state of the producer.                                              *)

Top == scopes[Len(scopes)]

(* Scope::nextvar and Scope::reserveLocalVariable.                         *)
nextvar == Top.nextVarID + 1
Took == scopes' = [scopes EXCEPT ![Len(scopes)].nextVarID = nextvar]

opcodeCount == Len(ircode)

Instruction(op, lvid, label, tag) ==
  [op |-> op, lvid |-> lvid, label |-> label, tag |-> tag]

Tagged(ops, tag) == {i \in DOMAIN ircode : ircode[i].op \in ops /\ ircode[i].tag = tag}

(* The operand of the instruction with this tag, 0 before it is emitted.   *)
LabelAt(tag) ==
  LET found == Tagged({"label"}, tag)
  IN  IF found = {} THEN 0 ELSE ircode[CHOOSE i \in found : TRUE].label

(* The register of the error a handler of this kind receives; a slip       *)
(* first, with the other mark of "no register", (uint32_t) -1.             *)
ErrorLvidOrMark(kind, at) ==
  LET found == Tagged(Allocs, << at, "var" >>)
  IN  IF kind = "any" \/ found = {} THEN -1 ELSE ircode[CHOOSE i \in found : TRUE].lvid

ErrorLvid(kind, at) ==
  LET found == Tagged(Allocs, << at, "var" >>)
  IN  IF kind = "any" \/ found = {} THEN 0 ELSE ircode[CHOOSE i \in found : TRUE].lvid

(* The jumps to this label, and the register of a short circuit, which     *)
(* were emitted before the label was known.                                *)
Patched(tag, label) ==
  [i \in DOMAIN ircode |->
     IF ircode[i].tag = tag
     THEN CASE ircode[i].op \in Jumps     -> [ircode[i] EXCEPT !.label = label]
            [] ircode[i].op \in Allocs    -> [ircode[i] EXCEPT !.lvid = label + 1]
            [] OTHER                       -> ircode[i]
     ELSE ircode[i]]

Init ==
  /\ ircode = << >>
  /\ scopes = << [nextVarID |-> 0, at |-> 0, onScopeFailExitLabels |-> << >>] >>
  /\ todo = Func
  /\ nodes = 0
  /\ stacksize = 0

------------------------------------------------------------------------------
(* One action per kind of step.                                            *)

AtStep(do) == todo # << >> /\ Head(todo).do = do

EmitPlain ==
  /\ AtStep("emit")
  /\ ircode' = Append(ircode, Instruction(Head(todo).op, 0, 0, NoTag))
  /\ todo' = Tail(todo)
  /\ UNCHANGED << scopes, nodes, stacksize >>

EmitAlloc ==
  /\ AtStep("alloc")
  /\ ircode' = Append(ircode, Instruction(Head(todo).op, nextvar, 0, Head(todo).tag))
  /\ Took
  /\ todo' = Tail(todo)
  /\ UNCHANGED << nodes, stacksize >>

(* The register of a short circuit: set when its label is known.           *)
EmitAllocLater ==
  /\ AtStep("alloc later")
  /\ ircode' = Append(ircode, Instruction(Head(todo).op, 0, 0, Head(todo).tag))
  /\ todo' = Tail(todo)
  /\ UNCHANGED << scopes, nodes, stacksize >>

Reserve ==
  /\ AtStep("reserve")
  /\ Took
  /\ todo' = Tail(todo)
  /\ UNCHANGED << ircode, nodes, stacksize >>

(* A slip: a label shares the number of the last register.                 *)
EmitLabelShared ==
  /\ AtStep("label")
  /\ LET tag == Head(todo).tag
     IN  ircode' = Append(Patched(tag, Top.nextVarID), Instruction("label", 0, Top.nextVarID, tag))
  /\ todo' = Tail(todo)
  /\ UNCHANGED << scopes, nodes, stacksize >>

EmitLabel ==
  /\ AtStep("label")
  /\ LET tag == Head(todo).tag
     IN  ircode' = Append(Patched(tag, nextvar), Instruction("label", 0, nextvar, tag))
  /\ Took
  /\ todo' = Tail(todo)
  /\ UNCHANGED << nodes, stacksize >>

EmitJump ==
  /\ AtStep("jump")
  /\ LET tag == Head(todo).tag
     IN  ircode' = Append(ircode, Instruction(Head(todo).op, 0, LabelAt(tag), tag))
  /\ todo' = Tail(todo)
  /\ UNCHANGED << scopes, nodes, stacksize >>

(* The analyzer puts the label right after what it makes of a jzraise.     *)
EmitJzraise ==
  /\ AtStep("jzraise")
  /\ ircode' = Append(ircode, Instruction("jzraise", 0, nextvar, NoTag))
  /\ Took
  /\ todo' = Tail(todo)
  /\ UNCHANGED << nodes, stacksize >>

(* Scope::Scope(Scope&).                                                   *)
EnterScope ==
  /\ AtStep("enter")
  /\ scopes' = Append(scopes, [nextVarID |-> Top.nextVarID, at |-> opcodeCount,
                               onScopeFailExitLabels |-> << >>])
  /\ todo' = Tail(todo)
  /\ UNCHANGED << ircode, nodes, stacksize >>

(* A slip: the parent goes on with its own counter.                        *)
KeepCounter == scopes' = Front(scopes)

GiveCounterBack ==
  scopes' = [Front(scopes) EXCEPT ![Len(scopes) - 1].nextVarID = Top.nextVarID]

(* The handlers unregistered, and the scopes of the IR they left open.     *)
Unregistered(vs) ==
  [i \in 1 .. 2 * Len(vs) |->
     IF i % 2 = 0 THEN Instruction("end", 0, 0, NoTag)
     ELSE Instruction("onscopefail", vs[(i + 1) \div 2], 0, NoTag)]

(* A slip: the first registered is the first unregistered.                 *)
ExitLabelsInOrder ==
  LET exit == << Top.at, "exit" >>
  IN  Append(Patched(exit, nextvar), Instruction("label", 0, nextvar, exit))
        \o Unregistered(Top.onScopeFailExitLabels)

updateOnScopeFailExitLabels ==
  LET exit == << Top.at, "exit" >>
  IN  Append(Patched(exit, nextvar), Instruction("label", 0, nextvar, exit))
        \o Unregistered(Reverse(Top.onScopeFailExitLabels))

(* Scope::~Scope: the exit label takes a number of the counter after it    *)
(* was given back.                                                         *)
LeaveScope ==
  /\ AtStep("leave")
  /\ Len(scopes) > 1
  /\ GiveCounterBack
  /\ ircode' = IF Top.onScopeFailExitLabels = << >> THEN ircode ELSE updateOnScopeFailExitLabels
  /\ todo' = Tail(todo)
  /\ UNCHANGED << nodes, stacksize >>

(* The handler is in force from here to the end of the enclosing Scope.    *)
RegisterHandler ==
  /\ AtStep("register")
  /\ LET start == Head(todo).tag
         var == ErrorLvid(Head(todo).op, start[1])
     IN  ircode' = Append(ircode, Instruction("onscopefail", var, LabelAt(start), start))
  /\ todo' = Tail(todo)
  /\ UNCHANGED << scopes, nodes, stacksize >>

(* The jump of the handler to the end of the enclosing Scope.              *)
ExitHandler ==
  /\ AtStep("exit")
  /\ LET var == ErrorLvid(Head(todo).op, Head(todo).tag[1])
     IN  scopes' = [scopes EXCEPT ![Len(scopes)].onScopeFailExitLabels = Append(@, var)]
  /\ ircode' = Append(ircode, Instruction("jmp", 0, 0, << Top.at, "exit" >>))
  /\ todo' = Tail(todo)
  /\ UNCHANGED << nodes, stacksize >>

(* A compound node, within the bound, or a leaf.                           *)
Visit(do, compounds, leaf) ==
  /\ AtStep(do)
  /\ \/ /\ nodes < MaxNodes
        /\ nodes' = nodes + 1
        /\ \E steps \in compounds : todo' = steps \o Tail(todo)
     \/ /\ nodes' = nodes
        /\ todo' = leaf \o Tail(todo)
  /\ UNCHANGED << ircode, scopes, stacksize >>

VisitStmt == Visit("stmt", Statements(opcodeCount), ExprStmt)
VisitExpr == Visit("expr", Expressions(opcodeCount), Identifier)

(* The children of a block: none is left, or one more statement.           *)
VisitStmts ==
  Visit("stmts", { s \o << Do("stmts") >> : s \in Statements(opcodeCount) \cup {ExprStmt} }, << >>)

(* The end of visitASTFunc.  Its Scope does not give its counter back.     *)
FinishFunc ==
  /\ AtStep("finish")
  /\ ircode' = Append(ircode, Instruction("end", 0, 0, NoTag))
  /\ stacksize' = Top.nextVarID + 1
  /\ todo' = Tail(todo)
  /\ UNCHANGED << scopes, nodes >>

(* The function is translated.                                             *)
Finished == todo = << >> /\ UNCHANGED vars

Next ==
  \/ EmitPlain \/ EmitAlloc \/ EmitAllocLater \/ Reserve
  \/ EmitLabel \/ EmitJump \/ EmitJzraise
  \/ EnterScope \/ LeaveScope \/ RegisterHandler \/ ExitHandler
  \/ VisitStmt \/ VisitExpr \/ VisitStmts
  \/ FinishFunc \/ Finished

Spec == Init /\ [][Next]_vars

------------------------------------------------------------------------------
(* Properties.                                                             *)

TypeOK ==
  /\ ircode \in Seq(Instr)
  /\ scopes \in Seq(Scope) \ {<< >>}
  /\ todo \in Seq(Step)
  /\ nodes \in 0 .. MaxNodes
  /\ stacksize \in Nat

(* Where the interpreter meets a label: a jzraise becomes a few opcodes    *)
(* that end with its label (details/semantic/opcode-jzraise.cpp).          *)
Labelled == {i \in DOMAIN ircode : ircode[i].op \in {"label", "jzraise"}}

(* "The labels are strictly ordered" (details/vm/thread.cpp:138), and the  *)
(* jz of a while gets its label late "to preserve strict ordering"         *)
(* (scope-while.cpp:40): a label is above all those before it.             *)
LabelsOrdered ==
  \A i, j \in Labelled : i < j => ircode[i].label < ircode[j].label

(* What is left of it when there are handlers: ~Scope gives its counter    *)
(* to the parent before the exit label takes one more, so that a label may *)
(* be there twice, but no label is below one before it.                    *)
LabelsNeverDecrease ==
  \A i, j \in Labelled : i < j => ircode[i].label <= ircode[j].label

(* upperLabelID when the interpreter reaches the instruction i.            *)
UpperLabelAt(i) ==
  LET before == {ircode[j].label : j \in {k \in Labelled : k < i}}
  IN  IF before = {} THEN 0 ELSE Max(before)

(* Where Executor::gotoLabel lands from the jump i.                        *)
Lands(i) ==
  LET same == {j \in Labelled : ircode[j].label = ircode[i].label}
      after == {j \in same : j > i}
      before == {j \in same : j < i}
  IN  IF ircode[i].label > UpperLabelAt(i)
      THEN IF after = {} THEN 0 ELSE Min(after)
      ELSE IF before = {} THEN 0 ELSE Max(before)

Targets(i) == Tagged({"label"}, ircode[i].tag)

Translated == stacksize # 0

(* Every jump of a function lands on the label it was emitted for: a jz    *)
(* "to the 'else' clause if false (or end)" (scope-if.cpp:29) finds the    *)
(* `else', not a label with the same number on the way.                    *)
JumpsAsMeant ==
  Translated =>
    \A i \in DOMAIN ircode : ircode[i].op \in Jumps => Lands(i) \in Targets(i)

(* A handler's own jumps skip the register of its error and leave scopes,  *)
(* and one that is not in braces begins a scope of the IR that another     *)
(* statement ends: three properties are those of the other functions.      *)
WithoutHandlers == \A i \in DOMAIN ircode : ircode[i].op # "onscopefail"

(* In a function without handlers, every jump lands on the label it was    *)
(* emitted for, through nested loops, switches, conditionals and short     *)
(* circuits.  With handlers it may not: see the run producer_jumps.        *)
MeantWithoutHandlers == WithoutHandlers => JumpsAsMeant

(* The scopes of the IR open before each instruction, by where they begin. *)
OpenScopes ==
  LET open[i \in 0 .. Len(ircode)] ==
        IF i = 0 THEN << >>
        ELSE CASE ircode[i].op = "scope" -> Append(open[i - 1], i)
               [] ircode[i].op = "end"   -> Front(open[i - 1])
               [] OTHER                  -> open[i - 1]
  IN  open

(* A jump never enters a scope of the IR, and leaves one (the jump of a    *)
(* `case' does) only if no register of it may hold an object: the analyzer *)
(* releases the variables of a scope at its end, walks the code in order   *)
(* and never follows a jump, so that an object would not be released.      *)
NoObjectLeftBehind ==
  Translated /\ WithoutHandlers =>
    LET open == OpenScopes
    IN  \A i \in DOMAIN ircode : ircode[i].op \in Jumps =>
          \A t \in Targets(i) :
            /\ IsPrefix(open[t], open[i])
            /\ \A j \in 1 .. i :
                 (ircode[j].op = "stackalloc" /\ IsPrefix(open[j], open[i])) =>
                   IsPrefix(open[j], open[t])

(* A jump never skips the declaration of a register of a scope that is     *)
(* still open where it lands: the end of that scope would release it.      *)
(* This is why the parameters of a short circuit have scopes of their own. *)
NoDeclarationSkipped ==
  Translated /\ WithoutHandlers =>
    LET open == OpenScopes
    IN  \A i \in DOMAIN ircode : ircode[i].op \in Jumps =>
          \A t \in Targets(i) : \A j \in i .. t :
            ircode[j].op \in Allocs => ~ IsPrefix(open[j], open[t])

(* The handlers in force, as the analyzer reads them in the code.          *)
Handled(handlers, x) ==
  CASE x.op # "onscopefail" -> handlers
    [] x.op = "onscopefail" /\ x.label # 0 -> Append(handlers, x.lvid)
    [] OTHER -> IF handlers # << >> /\ Last(handlers) = x.lvid THEN Front(handlers)
                ELSE Append(handlers, -1)

HandlersIn(code) ==
  LET force[i \in 0 .. Len(code)] ==
        IF i = 0 THEN << >> ELSE Handled(force[i - 1], code[i])
  IN  force[Len(code)]

(* They are those of the blocks being translated, in order: a handler is   *)
(* not in force in its own body, the last registered is the first left (or *)
(* the analyzer finds another one at the back of its vector, opcode-       *)
(* onscopefail.cpp:52), and none is left when its block is.  A handler may *)
(* be missing between its registration and the jump that ends it.          *)
HandlersMirrored ==
  (todo = << >> \/ Head(todo).do # "exit") =>
    HandlersIn(ircode) = FlattenSeq([i \in DOMAIN scopes |-> scopes[i].onScopeFailExitLabels])

Registers == {i \in DOMAIN ircode : ircode[i].op \in Allocs}

(* No two declarations of a function share a register, whatever the scopes *)
(* they are in.                                                            *)
RegistersUnique ==
  Translated => \A i, j \in Registers : ircode[i].lvid = ircode[j].lvid => i = j

(* The registers other passes compute from a label are declared for that:  *)
(* the interpreter puts the error of a handler in label + 1                *)
(* (thread.cpp:655), and the analyzer uses label + 1 and label + 2 for a   *)
(* short circuit (generateShortCircuitInstrs).                             *)
SlotsReserved ==
  Translated =>
    \A i \in DOMAIN ircode :
      /\ (ircode[i].op = "onscopefail" /\ ircode[i].lvid # 0 /\ ircode[i].label # 0) =>
           ircode[i].lvid = ircode[i].label + 1
      /\ (ircode[i].op = "label" /\ ircode[i].tag[2] = "sc") =>
           /\ \E j \in Registers : j < i /\ ircode[j].lvid = ircode[i].label + 1
           /\ \E j \in Registers : j > i /\ ircode[j].lvid = ircode[i].label + 2
==============================================================================
