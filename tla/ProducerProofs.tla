--------------------------- MODULE ProducerProofs ---------------------------
(***************************************************************************)
(* Proofs about Producer for syntax trees of any size: the labels of a     *)
(* function never decrease, and are strictly ordered if no handler is      *)
(* used, which is what ExecutorProofs!LabelSafety asks of a function.  The *)
(* last parts are about operators: the handlers read in a code, the        *)
(* concatenation of a sequence of sequences, and the scopes the jumps of a *)
(* sequence of marks leave or enter.                                       *)
(***************************************************************************)
EXTENDS Producer, TLAPS, SequenceTheorems, WellFoundedInduction

------------------------------------------------------------------------------
(* Every visitor is a sequence of steps.                                   *)

Steps == Seq(Step)

LEMMA ConcatSteps ==
  ASSUME NEW s \in Steps, NEW t \in Steps
  PROVE  s \o t \in Steps
BY DEF Steps

LEMMA FewSteps ==
  ASSUME NEW a \in Step, NEW b \in Step, NEW c \in Step
  PROVE  << a >> \in Steps /\ << a, b >> \in Steps /\ << a, b, c >> \in Steps
BY DEF Steps

(* The steps visitors are made of.                                         *)
LEMMA OneStep ==
  /\ Alloc \in Step /\ AllocBool \in Step /\ Enter \in Step /\ Leave \in Step
  /\ Expr \in Step /\ Stmt \in Step /\ ScopeBegin \in Step /\ ScopeEnd \in Step
  /\ Do("jzraise") \in Step /\ Do("reserve") \in Step /\ Do("stmts") \in Step
  /\ Do("finish") \in Step /\ Emit("ret") \in Step /\ Emit("raise") \in Step
BY DEF Alloc, AllocBool, Enter, Leave, Expr, Stmt, ScopeBegin, ScopeEnd, Do, Emit, Step,
       NoTag, Tag, Allocs

LEMMA LockedSteps ==
  ASSUME NEW s \in Steps
  PROVE  Locked(s) \in Steps
<1>1. << ScopeBegin >> \in Steps /\ << ScopeEnd >> \in Steps
  BY OneStep, FewSteps
<1>. QED  BY <1>1, ConcatSteps DEF Locked

Names == {"", "while", "else", "end", "start", "ignore", "var", "sc", "exit",
          "case 1", "case 2"}

LEMMA TaggedStep ==
  ASSUME NEW at \in Nat, NEW name \in Names
  PROVE  /\ Label(at, name) \in Step
         /\ Jump("jmp", at, name) \in Step
         /\ Jump("jz", at, name) \in Step
         /\ Jump("jnz", at, name) \in Step
         /\ AllocAt("alloc", at, name) \in Step
         /\ AllocAt("alloc later", at, name) \in Step
BY DEF Label, Jump, AllocAt, Step, Tag, Names, Allocs, Jumps

LEMMA HandlerStep ==
  ASSUME NEW at \in Nat, NEW kind \in Handlers
  PROVE  On("register", kind, at) \in Step /\ On("exit", kind, at) \in Step
BY DEF On, Step, Tag

------------------------------------------------------------------------------
LEMMA ExpressionSteps ==
  ASSUME NEW at \in Nat
  PROVE  /\ Identifier \in Steps
         /\ Expressions(at) \subseteq Steps
         /\ \A s \in Steps : Called(s) \in Steps
         /\ \A s \in Steps : IfElse(at, s) \in Steps
         /\ \A s, t \in Steps : If(at, s, t) \in Steps
<1>. USE OneStep
<1>1. Identifier \in Steps
  BY DEF Identifier, Steps
<1>2. CallNoParameter \in Steps
  BY DEF CallNoParameter, Steps
<1>3. ASSUME NEW s \in Steps PROVE Called(s) \in Steps
  <2>1. /\ << Enter, Alloc, Alloc, Alloc >> \in Steps
        /\ << Do("jzraise"), Leave >> \in Steps
    BY DEF Steps
  <2>. QED  BY <2>1, LockedSteps, ConcatSteps DEF Called
<1>4. << Expr >> \in Steps
  BY DEF Steps
<1>5. CallWithParameters \in Steps
  BY <1>3, <1>4 DEF CallWithParameters
<1>6. ShortCircuit(at) \in Steps
  <2>1. /\ AllocAt("alloc later", at, "sc") \in Step
        /\ Jump("jz", at, "sc") \in Step
        /\ Label(at, "sc") \in Step
    BY TaggedStep DEF Names
  <2>2. /\ << Enter, Alloc, Alloc, Alloc, Alloc >> \in Steps
        /\ << Expr, AllocAt("alloc later", at, "sc"), Jump("jz", at, "sc") >> \in Steps
        /\ << Label(at, "sc"), Do("reserve") >> \in Steps
        /\ << Alloc, Leave >> \in Steps
    <3>1. << Enter, Alloc, Alloc, Alloc, Alloc >> \in Steps
      BY DEF Steps
    <3>. QED  BY <2>1, <3>1, FewSteps
  <2>. QED  BY <1>4, <2>2, LockedSteps, ConcatSteps DEF ShortCircuit
<1>7. ASSUME NEW s \in Steps PROVE IfElse(at, s) \in Steps
  <2>1. /\ Jump("jz", at, "else") \in Step /\ Jump("jmp", at, "end") \in Step
        /\ Label(at, "else") \in Step /\ Label(at, "end") \in Step
    BY TaggedStep DEF Names
  <2>2. /\ << AllocBool >> \in Steps
        /\ << Jump("jz", at, "else") >> \in Steps
        /\ << Jump("jmp", at, "end"), Label(at, "else") >> \in Steps
        /\ << Label(at, "end") >> \in Steps
    BY <2>1, FewSteps
  <2>. QED  BY <2>2, <1>4, LockedSteps, ConcatSteps DEF IfElse
<1>8. ASSUME NEW s \in Steps, NEW t \in Steps PROVE If(at, s, t) \in Steps
  <2>1. Jump("jz", at, "end") \in Step /\ Label(at, "end") \in Step
    BY TaggedStep DEF Names
  <2>2. /\ << AllocBool >> \in Steps
        /\ << Jump("jz", at, "end") >> \in Steps
        /\ << Label(at, "end") >> \in Steps
    BY <2>1, FewSteps
  <2>. QED  BY <2>2, LockedSteps, ConcatSteps DEF If
<1>9. IfExpr(at) \in Steps
  <2>1. << Enter, Alloc >> \in Steps /\ << Leave >> \in Steps
    BY DEF Steps
  <2>. QED  BY <2>1, <1>4, <1>7, ConcatSteps DEF IfExpr
<1>. QED  BY <1>1, <1>2, <1>3, <1>5, <1>6, <1>7, <1>8, <1>9 DEF Expressions

LEMMA BlockSteps == Block \in Steps /\ BlockStmt \in Steps /\ ExprStmt \in Steps
<1>. USE OneStep
<1>1. /\ << Enter, Do("stmts"), Leave >> \in Steps /\ << Enter >> \in Steps
      /\ << Leave >> \in Steps /\ << Expr >> \in Steps
  BY DEF Steps
<1>. QED  BY <1>1, LockedSteps, ConcatSteps DEF Block, BlockStmt, ExprStmt

LEMMA LoopSteps ==
  ASSUME NEW at \in Nat
  PROVE  While(at) \in Steps /\ DoWhile(at) \in Steps
<1>1. << Expr >> \in Steps /\ << Stmt >> \in Steps /\ << AllocBool >> \in Steps
  BY OneStep, FewSteps
<1>2. /\ Label(at, "while") \in Step /\ Label(at, "end") \in Step
      /\ Jump("jz", at, "end") \in Step /\ Jump("jnz", at, "while") \in Step
      /\ Jump("jmp", at, "while") \in Step
  BY TaggedStep DEF Names
<1>3. /\ << Label(at, "while"), AllocBool >> \in Steps
      /\ << Label(at, "while") >> \in Steps
      /\ << Jump("jz", at, "end") >> \in Steps
      /\ << Jump("jnz", at, "while") >> \in Steps
      /\ << Jump("jmp", at, "while"), Label(at, "end") >> \in Steps
  BY <1>2, OneStep, FewSteps
<1>. QED  BY <1>1, <1>3, LockedSteps, ConcatSteps DEF While, DoWhile

LEMMA SwitchSteps ==
  ASSUME NEW at \in Nat
  PROVE  Switch(at) \in Steps
<1>1. Label(at, "end") \in Step /\ Jump("jmp", at, "end") \in Step
  BY TaggedStep DEF Names
<1>2. /\ << AllocBool >> \in Steps /\ << AllocBool, Expr >> \in Steps /\ << Stmt >> \in Steps
      /\ << Enter, Leave, Expr >> \in Steps
      /\ << Label(at, "end") >> \in Steps
  BY <1>1, OneStep, FewSteps
<1>3. ASSUME NEW name \in {"case 1", "case 2"} PROVE Case(at, name) \in Steps
  <2>1. Jump("jz", at, name) \in Step /\ Label(at, name) \in Step
    BY TaggedStep DEF Names
  <2>2. /\ << Jump("jz", at, name) >> \in Steps
        /\ << Jump("jmp", at, "end"), Label(at, name) >> \in Steps
    BY <1>1, <2>1, FewSteps
  <2>. QED  BY <1>2, <2>2, ExpressionSteps, LockedSteps, ConcatSteps DEF Case
<1>. QED  BY <1>2, <1>3, LockedSteps, ConcatSteps DEF Switch

LEMMA HandlerSteps ==
  ASSUME NEW at \in Nat, NEW kind \in Handlers
  PROVE  OnScopeFail(at, kind) \in Steps
<1>. USE OneStep
<1>1. /\ Jump("jmp", at, "ignore") \in Step /\ Label(at, "start") \in Step
      /\ AllocAt("alloc", at, "var") \in Step /\ Label(at, "ignore") \in Step
  BY TaggedStep DEF Names
<1>2. /\ << Enter, Enter, Alloc, Leave, Leave >> \in Steps /\ << >> \in Steps
      /\ << AllocAt("alloc", at, "var") >> \in Steps
  BY <1>1 DEF Steps
<1>3. /\ << ScopeBegin, Jump("jmp", at, "ignore"), Label(at, "start") >> \in Steps
      /\ << On("register", kind, at), On("exit", kind, at), Label(at, "ignore") >> \in Steps
  BY <1>1, HandlerStep, FewSteps
<1>. QED  BY <1>2, <1>3, BlockSteps, ConcatSteps DEF OnScopeFail

LEMMA StatementSteps ==
  ASSUME NEW at \in Nat
  PROVE  Statements(at) \subseteq Steps
<1>. USE OneStep
<1>1. /\ << Alloc >> \in Steps /\ << Expr >> \in Steps /\ << Stmt >> \in Steps
      /\ << Expr, Alloc, Emit("ret") >> \in Steps /\ << Expr, Emit("raise") >> \in Steps
      /\ << Emit("ret") >> \in Steps
  BY DEF Steps
<1>2. Var \in Steps /\ Return \in Steps /\ ReturnVoid \in Steps /\ Raise \in Steps
  BY <1>1, LockedSteps, ConcatSteps DEF Var, Return, ReturnVoid, Raise
<1>3. If(at, << Expr >>, << Stmt >>) \in Steps /\ IfElse(at, << Stmt >>) \in Steps
  BY <1>1, ExpressionSteps
<1>. QED
  BY <1>2, <1>3, BlockSteps, LoopSteps, SwitchSteps, HandlerSteps DEF Statements

------------------------------------------------------------------------------
(* The order of the labels.  With handlers a label may be there twice.     *)

Slack == IF Handlers = {} THEN 0 ELSE 1

IsLabel(x) == x.op \in {"label", "jzraise"}

(* The labels of `code' are in order, and not above the counter n, or by   *)
(* one when ~Scope has given the counter back before an exit label.        *)
Ordered(code, n) ==
  /\ \A i \in DOMAIN code : IsLabel(code[i]) => code[i].label <= n + Slack
  /\ \A i, j \in DOMAIN code :
       (IsLabel(code[i]) /\ IsLabel(code[j]) /\ i < j) => code[i].label + 1 <= code[j].label + Slack

LEMMA SlackIs == Slack \in {0, 1}
BY DEF Slack

LEMMA LabelNat ==
  ASSUME NEW code \in Seq(Instr), NEW i \in DOMAIN code
  PROVE  code[i] \in Instr /\ code[i].label \in Nat
<1>1. code[i] \in Instr
  OBVIOUS
<1>2. \A x \in Instr : x.label \in Nat
  BY DEF Instr
<1>. QED  BY <1>1, <1>2

LEMMA OrderedHigher ==
  ASSUME NEW code \in Seq(Instr), NEW n \in Nat, NEW m \in Nat, n <= m, Ordered(code, n)
  PROVE  Ordered(code, m)
<1>1. \A i \in DOMAIN code : code[i].label \in Nat
  BY LabelNat
<1>. QED  BY <1>1, SlackIs DEF Ordered

LEMMA AddOther ==
  ASSUME NEW code \in Seq(Instr), NEW n \in Nat, Ordered(code, n),
         NEW s \in Seq(Instr), \A i \in DOMAIN s : ~ IsLabel(s[i])
  PROVE  code \o s \in Seq(Instr) /\ Ordered(code \o s, n)
<1>1. code \o s \in Seq(Instr)
  OBVIOUS
<1>2. ASSUME NEW i \in DOMAIN (code \o s), IsLabel((code \o s)[i])
      PROVE  i \in DOMAIN code /\ (code \o s)[i] = code[i]
  BY <1>2
<1>. HIDE DEF IsLabel
<1>3. \A i \in DOMAIN (code \o s) :
        IsLabel((code \o s)[i]) => i \in DOMAIN code /\ (code \o s)[i] = code[i]
  BY <1>2
<1>. QED  BY <1>1, <1>3 DEF Ordered

LEMMA AddOne ==
  ASSUME NEW code \in Seq(Instr), NEW n \in Nat, Ordered(code, n),
         NEW x \in Instr, ~ IsLabel(x)
  PROVE  Append(code, x) \in Seq(Instr) /\ Ordered(Append(code, x), n)
<1>1. << x >> \in Seq(Instr) /\ \A i \in DOMAIN << x >> : ~ IsLabel(<< x >>[i])
  OBVIOUS
<1>2. Append(code, x) = code \o << x >>
  OBVIOUS
<1>. QED  BY <1>1, <1>2, AddOther

(* A label takes the next number; the counter follows, except for the exit *)
(* label of handlers.                                                      *)
LEMMA AddLabel ==
  ASSUME NEW code \in Seq(Instr), NEW n \in Nat, Ordered(code, n),
         NEW x \in Instr, IsLabel(x), x.label = n + 1,
         NEW m \in Nat, m = n + 1 \/ (m = n /\ Slack = 1)
  PROVE  Append(code, x) \in Seq(Instr) /\ Ordered(Append(code, x), m)
<1>. DEFINE c == Append(code, x)
<1>1. c \in Seq(Instr) /\ DOMAIN c = 1 .. Len(code) + 1
  OBVIOUS
<1>2. /\ \A i \in DOMAIN code : code[i].label \in Nat /\ c[i] = code[i]
      /\ c[Len(code) + 1] = x
  BY LabelNat
<1>3. DOMAIN code = 1 .. Len(code) /\ Len(code) \in Nat
  OBVIOUS
<1>. HIDE DEF c
<1>4. ASSUME NEW i \in DOMAIN c, IsLabel(c[i])
      PROVE  c[i].label <= m + Slack
  <2>1. CASE i = Len(code) + 1
    BY <1>2, <2>1, SlackIs
  <2>2. CASE i \in DOMAIN code
    BY <1>2, <1>4, <2>2, SlackIs DEF Ordered
  <2>. QED  BY <1>1, <1>3, <2>1, <2>2
<1>5. ASSUME NEW i \in DOMAIN c, NEW j \in DOMAIN c, IsLabel(c[i]), IsLabel(c[j]), i < j
      PROVE  c[i].label + 1 <= c[j].label + Slack
  <2>1. i \in DOMAIN code
    BY <1>1, <1>3, <1>5
  <2>2. CASE j = Len(code) + 1
    BY <1>2, <1>5, <2>1, <2>2, SlackIs DEF Ordered
  <2>3. CASE j \in DOMAIN code
    BY <1>2, <1>5, <2>1, <2>3 DEF Ordered
  <2>. QED  BY <1>1, <1>3, <2>2, <2>3
<1>. QED  BY <1>1, <1>4, <1>5 DEF Ordered, c

(* Patching a jump or a register leaves the labels alone.                  *)
LEMMA PatchedOrdered ==
  ASSUME ircode \in Seq(Instr), NEW n \in Nat, Ordered(ircode, n),
         NEW tag, NEW label \in Nat
  PROVE  Patched(tag, label) \in Seq(Instr) /\ Ordered(Patched(tag, label), n)
<1>. DEFINE p == Patched(tag, label)
<1>1. DOMAIN p = DOMAIN ircode /\ DOMAIN ircode = 1 .. Len(ircode) /\ Len(ircode) \in Nat
  BY DEF Patched
<1>2. ASSUME NEW i \in DOMAIN ircode
      PROVE  /\ p[i] \in Instr
             /\ IsLabel(p[i]) => IsLabel(ircode[i]) /\ p[i].label = ircode[i].label
  <2>1. ircode[i] \in Instr /\ label + 1 \in Nat
    BY <1>2
  <2>2. \/ p[i] = ircode[i]
        \/ ircode[i].op \in Jumps /\ p[i] = [ircode[i] EXCEPT !.label = label]
        \/ ircode[i].op \in Allocs /\ p[i] = [ircode[i] EXCEPT !.lvid = label + 1]
    BY <1>2 DEF Patched
  <2>. HIDE DEF p
  <2>3. CASE p[i] = ircode[i]
    BY <2>1, <2>3
  <2>4. CASE ircode[i].op \in Jumps /\ p[i] = [ircode[i] EXCEPT !.label = label]
    BY <2>1, <2>4 DEF Instr, IsLabel, Jumps
  <2>5. CASE ircode[i].op \in Allocs /\ p[i] = [ircode[i] EXCEPT !.lvid = label + 1]
    BY <2>1, <2>5 DEF Instr, IsLabel, Allocs
  <2>. QED  BY <2>2, <2>3, <2>4, <2>5
<1>3. p \in Seq(Instr)
  <2>1. p = [i \in 1 .. Len(ircode) |-> p[i]]
    BY <1>1 DEF Patched
  <2>. QED  BY <1>1, <1>2, <2>1
<1>. HIDE DEF p
<1>4. Ordered(p, n)
  BY <1>1, <1>2 DEF Ordered
<1>. QED  BY <1>3, <1>4 DEF p

------------------------------------------------------------------------------
(* The inductive invariant.                                                *)

NoHandler ==
  Handlers = {} => \A k \in DOMAIN scopes : scopes[k].onScopeFailExitLabels = << >>

IInv == TypeOK /\ Ordered(ircode, Top.nextVarID) /\ NoHandler

LEMMA TopScope ==
  ASSUME TypeOK
  PROVE  /\ Len(scopes) \in Nat \ {0} /\ DOMAIN scopes = 1 .. Len(scopes)
         /\ Top \in Scope /\ Top.nextVarID \in Nat /\ Top.at \in Nat
         /\ Top.onScopeFailExitLabels \in Seq(Nat)
         /\ nextvar = Top.nextVarID + 1 /\ nextvar \in Nat
<1>1. scopes \in Seq(Scope) /\ scopes # << >>
  BY DEF TypeOK
<1>2. Len(scopes) \in Nat \ {0} /\ DOMAIN scopes = 1 .. Len(scopes) /\ Top \in Scope
  BY <1>1 DEF Top
<1>. QED  BY <1>2 DEF Scope, nextvar

LEMMA TookScopes ==
  ASSUME TypeOK, NoHandler, Took
  PROVE  scopes' \in Seq(Scope) \ {<< >>} /\ Top'.nextVarID = nextvar /\ NoHandler'
<1>1. scopes \in Seq(Scope) /\ scopes # << >>
  BY DEF TypeOK
<1>2. scopes' = [scopes EXCEPT ![Len(scopes)] = [Top EXCEPT !.nextVarID = nextvar]]
  BY DEF Took, Top
<1>3. [Top EXCEPT !.nextVarID = nextvar] \in Scope
  BY TopScope DEF Scope
<1>4. scopes' \in Seq(Scope) /\ Len(scopes') = Len(scopes) /\ scopes' # << >>
  BY <1>1, <1>2, <1>3, TopScope
<1>5. Top' = [Top EXCEPT !.nextVarID = nextvar]
  BY <1>1, <1>2, <1>4, TopScope DEF Top
<1>6. Top'.nextVarID = nextvar
  BY <1>5, TopScope DEF Scope
<1>7. ASSUME NEW k \in DOMAIN scopes'
      PROVE  scopes'[k].onScopeFailExitLabels = scopes[k].onScopeFailExitLabels
  BY <1>1, <1>2, TopScope DEF Scope, Top
<1>8. DOMAIN scopes' = DOMAIN scopes
  BY <1>2
<1>. QED  BY <1>4, <1>6, <1>7, <1>8 DEF NoHandler

LEMMA HeadStep ==
  ASSUME TypeOK, NEW do, AtStep(do)
  PROVE  Head(todo) \in Step /\ Head(todo).do = do /\ Tail(todo) \in Seq(Step)
BY DEF TypeOK, AtStep

(* What a step may carry.                                                  *)
LEMMA StepKinds ==
  ASSUME NEW s \in Step
  PROVE  /\ s.tag \in Tag
         /\ s.do = "emit" => s.op \in {"scope", "end", "raise", "ret"}
         /\ s.do \in {"alloc", "alloc later"} => s.op \in Allocs
         /\ s.do = "jump" => s.op \in Jumps
         /\ s.do \in {"register", "exit"} => s.op \in Handlers
<1>1. NoTag \in Tag
  BY DEF NoTag, Tag
<1>2. \/ s \in [do : {"emit"}, op : {"scope", "end", "raise", "ret"}, tag : {NoTag}]
      \/ s \in [do : {"alloc", "alloc later"}, op : Allocs, tag : Tag]
      \/ s \in [do : {"jump"}, op : Jumps, tag : Tag]
      \/ s \in [do : {"register", "exit"}, op : Handlers, tag : Tag]
      \/ s \in [do : {"label", "reserve", "jzraise", "enter", "leave", "stmt", "stmts",
                      "expr", "finish"},
               op : {""}, tag : Tag]
  BY DEF Step
<1>. QED  BY <1>1, <1>2

LEMMA InstructionType ==
  ASSUME NEW op \in Jumps \cup Allocs \cup {"scope", "end", "raise", "ret", "label", "jzraise",
                                         "onscopefail"},
         NEW lvid \in Nat, NEW label \in Nat, NEW tag \in Tag
  PROVE  /\ Instruction(op, lvid, label, tag) \in Instr
         /\ Instruction(op, lvid, label, tag).label = label
         /\ IsLabel(Instruction(op, lvid, label, tag)) <=> op \in {"label", "jzraise"}
BY DEF Instruction, Instr, IsLabel

LEMMA LabelType ==
  ASSUME NEW op \in {"label", "jzraise"}, NEW label \in Nat, NEW tag \in Tag
  PROVE  /\ Instruction(op, 0, label, tag) \in Instr
         /\ IsLabel(Instruction(op, 0, label, tag))
         /\ Instruction(op, 0, label, tag).label = label
BY DEF Instruction, Instr, IsLabel

LEMMA OtherType ==
  ASSUME NEW op \in {"end", "onscopefail"}, NEW lvid \in Nat, NEW label \in Nat, NEW tag \in Tag
  PROVE  /\ Instruction(op, lvid, label, tag) \in Instr
         /\ ~ IsLabel(Instruction(op, lvid, label, tag))
BY DEF Instruction, Instr, IsLabel

LEMMA NoTagType == NoTag \in Tag
BY DEF NoTag, Tag

LEMMA OperandsKnown ==
  ASSUME TypeOK, NEW tag, NEW kind, NEW at
  PROVE  LabelAt(tag) \in Nat /\ ErrorLvid(kind, at) \in Nat
<1>1. ASSUME NEW i \in DOMAIN ircode PROVE ircode[i].label \in Nat /\ ircode[i].lvid \in Nat
  <2>1. ircode[i] \in Instr
    BY <1>1 DEF TypeOK
  <2>. QED  BY <2>1 DEF Instr
<1>2. ASSUME NEW S, S \subseteq DOMAIN ircode, S # {}
      PROVE  (CHOOSE i \in S : TRUE) \in DOMAIN ircode
  BY <1>2
<1>3. \A ops, t : Tagged(ops, t) \subseteq DOMAIN ircode
  BY DEF Tagged
<1>4. LabelAt(tag) \in Nat
  <2>1. CASE Tagged({"label"}, tag) = {}
    BY <2>1 DEF LabelAt
  <2>2. CASE Tagged({"label"}, tag) # {}
    BY <1>1, <1>2, <1>3, <2>2 DEF LabelAt
  <2>. QED  BY <2>1, <2>2
<1>5. ErrorLvid(kind, at) \in Nat
  <2>1. CASE kind = "any" \/ Tagged(Allocs, << at, "var" >>) = {}
    BY <2>1 DEF ErrorLvid
  <2>2. CASE ~ (kind = "any" \/ Tagged(Allocs, << at, "var" >>) = {})
    BY <1>1, <1>2, <1>3, <2>2 DEF ErrorLvid
  <2>. QED  BY <2>1, <2>2
<1>. QED  BY <1>4, <1>5

------------------------------------------------------------------------------
(* Every action keeps the invariant.                                       *)

LEMMA InitInv == Init => IInv
<1>. SUFFICES ASSUME Init PROVE IInv
  OBVIOUS
<1>1. Func \in Seq(Step)
  <2>1. << Alloc >> \in Steps /\ << Do("finish") >> \in Steps
    BY OneStep, FewSteps
  <2>. QED  BY <2>1, BlockSteps, ConcatSteps DEF Func, Steps
<1>2. scopes \in Seq(Scope) \ {<< >>} /\ Len(scopes) = 1
      /\ scopes[1] = [nextVarID |-> 0, at |-> 0, onScopeFailExitLabels |-> << >>]
  BY DEF Init, Scope
<1>3. TypeOK
  BY <1>1, <1>2, ProducerAssumption DEF TypeOK, Init
<1>4. Ordered(ircode, Top.nextVarID)
  BY DEF Ordered, Init
<1>5. NoHandler
  BY <1>2 DEF NoHandler
<1>. QED  BY <1>3, <1>4, <1>5 DEF IInv

(* A step that adds at most an instruction which is not a label, and       *)
(* leaves the scopes alone.                                                *)
LEMMA PlainInv ==
  ASSUME IInv, UNCHANGED << scopes, nodes, stacksize >>, todo' \in Seq(Step),
         \/ ircode' = ircode
         \/ \E x \in Instr : ~ IsLabel(x) /\ ircode' = Append(ircode, x)
  PROVE  IInv'
<1>1. Top' = Top /\ Top.nextVarID \in Nat /\ ircode \in Seq(Instr)
      /\ Ordered(ircode, Top.nextVarID)
  BY TopScope DEF IInv, TypeOK, Top
<1>2. ircode' \in Seq(Instr) /\ Ordered(ircode', Top.nextVarID)
  BY <1>1, AddOne
<1>3. TypeOK'
  BY <1>2 DEF IInv, TypeOK
<1>4. NoHandler'
  BY DEF IInv, NoHandler
<1>5. Ordered(ircode, Top.nextVarID)'
  BY <1>1, <1>2 DEF Ordered
<1>. QED  BY <1>3, <1>4, <1>5 DEF IInv

(* A step that takes a number, and may add an instruction that is not a    *)
(* label, or a label of that number.                                       *)
LEMMA TookInv ==
  ASSUME IInv, Took, UNCHANGED << nodes, stacksize >>, todo' \in Seq(Step),
         ircode' \in Seq(Instr), Ordered(ircode', nextvar)
  PROVE  IInv'
<1>1. scopes' \in Seq(Scope) \ {<< >>} /\ Top'.nextVarID = nextvar /\ NoHandler'
  BY TookScopes DEF IInv
<1>2. TypeOK'
  BY <1>1 DEF IInv, TypeOK
<1>3. Ordered(ircode, Top.nextVarID)'
  BY <1>1 DEF Ordered
<1>. QED  BY <1>1, <1>2, <1>3 DEF IInv

LEMMA EmitPlainInv == IInv /\ EmitPlain => IInv'
<1>. SUFFICES ASSUME IInv, EmitPlain PROVE IInv'
  OBVIOUS
<1>1. Head(todo) \in Step /\ Head(todo).do = "emit" /\ Tail(todo) \in Seq(Step)
  BY HeadStep DEF IInv, EmitPlain
<1>2. Head(todo).op \in {"scope", "end", "raise", "ret"}
  BY <1>1, StepKinds
<1>3. Instruction(Head(todo).op, 0, 0, NoTag) \in Instr
      /\ ~ IsLabel(Instruction(Head(todo).op, 0, 0, NoTag))
  BY <1>2, InstructionType, NoTagType
<1>. QED  BY <1>1, <1>3, PlainInv DEF EmitPlain

LEMMA EmitAllocInv == IInv /\ EmitAlloc => IInv'
<1>. SUFFICES ASSUME IInv, EmitAlloc PROVE IInv'
  OBVIOUS
<1>1. Head(todo) \in Step /\ Head(todo).do = "alloc" /\ Tail(todo) \in Seq(Step)
  BY HeadStep DEF IInv, EmitAlloc
<1>2. Head(todo).op \in Allocs /\ Head(todo).tag \in Tag
  BY <1>1, StepKinds
<1>3. nextvar = Top.nextVarID + 1 /\ nextvar \in Nat /\ Top.nextVarID \in Nat
  BY TopScope DEF IInv
<1>. DEFINE x == Instruction(Head(todo).op, nextvar, 0, Head(todo).tag)
<1>4. Head(todo).op \notin {"label", "jzraise"}
  BY <1>2 DEF Allocs
<1>5. x \in Instr /\ ~ IsLabel(x)
  BY <1>2, <1>3, <1>4, InstructionType
<1>6. ircode \in Seq(Instr) /\ Ordered(ircode, nextvar)
  BY <1>3, OrderedHigher DEF IInv, TypeOK
<1>7. ircode' = Append(ircode, x) /\ todo' = Tail(todo) /\ Took
      /\ UNCHANGED << nodes, stacksize >>
  BY DEF EmitAlloc
<1>. HIDE DEF x
<1>8. ircode' \in Seq(Instr) /\ Ordered(ircode', nextvar)
  BY <1>3, <1>5, <1>6, <1>7, AddOne
<1>. QED  BY <1>1, <1>7, <1>8, TookInv

LEMMA EmitAllocLaterInv == IInv /\ EmitAllocLater => IInv'
<1>. SUFFICES ASSUME IInv, EmitAllocLater PROVE IInv'
  OBVIOUS
<1>1. Head(todo) \in Step /\ Head(todo).do = "alloc later" /\ Tail(todo) \in Seq(Step)
  BY HeadStep DEF IInv, EmitAllocLater
<1>2. Head(todo).op \in Allocs /\ Head(todo).tag \in Tag
  BY <1>1, StepKinds
<1>3. Head(todo).op \notin {"label", "jzraise"}
  BY <1>2 DEF Allocs
<1>4. Instruction(Head(todo).op, 0, 0, Head(todo).tag) \in Instr
      /\ ~ IsLabel(Instruction(Head(todo).op, 0, 0, Head(todo).tag))
  BY <1>2, <1>3, InstructionType
<1>. QED  BY <1>1, <1>4, PlainInv DEF EmitAllocLater

LEMMA ReserveInv == IInv /\ Reserve => IInv'
<1>. SUFFICES ASSUME IInv, Reserve PROVE IInv'
  OBVIOUS
<1>1. Tail(todo) \in Seq(Step)
  BY HeadStep DEF IInv, Reserve
<1>2. ircode \in Seq(Instr) /\ Ordered(ircode, nextvar)
  BY TopScope, OrderedHigher DEF IInv, TypeOK
<1>. QED  BY <1>1, <1>2, TookInv DEF Reserve

LEMMA EmitLabelInv == IInv /\ EmitLabel => IInv'
<1>. SUFFICES ASSUME IInv, EmitLabel PROVE IInv'
  OBVIOUS
<1>. DEFINE tag == Head(todo).tag
            x == Instruction("label", 0, nextvar, tag)
<1>1. Tail(todo) \in Seq(Step) /\ tag \in Tag
  BY HeadStep, StepKinds DEF IInv, EmitLabel
<1>2. nextvar = Top.nextVarID + 1 /\ nextvar \in Nat /\ Top.nextVarID \in Nat
  BY TopScope DEF IInv
<1>3. x \in Instr /\ IsLabel(x) /\ x.label = nextvar
  BY <1>1, <1>2, LabelType
<1>4. Patched(tag, nextvar) \in Seq(Instr) /\ Ordered(Patched(tag, nextvar), Top.nextVarID)
  BY <1>2, PatchedOrdered DEF IInv, TypeOK
<1>5. ircode' = Append(Patched(tag, nextvar), x) /\ todo' = Tail(todo) /\ Took
      /\ UNCHANGED << nodes, stacksize >>
  BY DEF EmitLabel
<1>. HIDE DEF x, tag
<1>6. ircode' \in Seq(Instr) /\ Ordered(ircode', nextvar)
  BY <1>2, <1>3, <1>4, <1>5, AddLabel
<1>. QED  BY <1>1, <1>5, <1>6, TookInv

LEMMA EmitJumpInv == IInv /\ EmitJump => IInv'
<1>. SUFFICES ASSUME IInv, EmitJump PROVE IInv'
  OBVIOUS
<1>. DEFINE tag == Head(todo).tag
            x == Instruction(Head(todo).op, 0, LabelAt(tag), tag)
<1>1. Head(todo) \in Step /\ Head(todo).do = "jump" /\ Tail(todo) \in Seq(Step)
  BY HeadStep DEF IInv, EmitJump
<1>2. Head(todo).op \in Jumps /\ tag \in Tag
  BY <1>1, StepKinds
<1>3. Head(todo).op \notin {"label", "jzraise"}
  BY <1>2 DEF Jumps
<1>4. LabelAt(tag) \in Nat
  BY OperandsKnown DEF IInv
<1>5. x \in Instr /\ ~ IsLabel(x)
  BY <1>2, <1>3, <1>4, InstructionType
<1>6. ircode' = Append(ircode, x) /\ todo' = Tail(todo) /\ UNCHANGED << scopes, nodes, stacksize >>
  BY DEF EmitJump
<1>. HIDE DEF x, tag
<1>. QED  BY <1>1, <1>5, <1>6, PlainInv

LEMMA EmitJzraiseInv == IInv /\ EmitJzraise => IInv'
<1>. SUFFICES ASSUME IInv, EmitJzraise PROVE IInv'
  OBVIOUS
<1>. DEFINE x == Instruction("jzraise", 0, nextvar, NoTag)
<1>1. Tail(todo) \in Seq(Step)
  BY HeadStep DEF IInv, EmitJzraise
<1>2. nextvar = Top.nextVarID + 1 /\ nextvar \in Nat /\ Top.nextVarID \in Nat
  BY TopScope DEF IInv
<1>3. x \in Instr /\ IsLabel(x) /\ x.label = nextvar
  BY <1>2, LabelType, NoTagType
<1>4. ircode' = Append(ircode, x) /\ todo' = Tail(todo) /\ Took /\ UNCHANGED << nodes, stacksize >>
  BY DEF EmitJzraise
<1>5. ircode \in Seq(Instr) /\ Ordered(ircode, Top.nextVarID)
  BY DEF IInv, TypeOK
<1>. HIDE DEF x
<1>6. ircode' \in Seq(Instr) /\ Ordered(ircode', nextvar)
  BY <1>2, <1>3, <1>4, <1>5, AddLabel
<1>. QED  BY <1>1, <1>4, <1>6, TookInv

LEMMA EnterScopeInv == IInv /\ EnterScope => IInv'
<1>. SUFFICES ASSUME IInv, EnterScope PROVE IInv'
  OBVIOUS
<1>. DEFINE new == [nextVarID |-> Top.nextVarID, at |-> opcodeCount,
                    onScopeFailExitLabels |-> << >>]
<1>1. Tail(todo) \in Seq(Step)
  BY HeadStep DEF IInv, EnterScope
<1>2. ircode \in Seq(Instr) /\ Ordered(ircode, Top.nextVarID) /\ scopes \in Seq(Scope)
  BY DEF IInv, TypeOK
<1>3. new \in Scope
  BY <1>2, TopScope DEF Scope, opcodeCount, IInv
<1>4. scopes' = Append(scopes, new) /\ ircode' = ircode /\ todo' = Tail(todo)
      /\ UNCHANGED << nodes, stacksize >>
  BY DEF EnterScope
<1>5. new.nextVarID = Top.nextVarID /\ new.onScopeFailExitLabels = << >>
  OBVIOUS
<1>. HIDE DEF new
<1>6. scopes' \in Seq(Scope) \ {<< >>} /\ Top' = new
  BY <1>2, <1>3, <1>4 DEF Top
<1>7. TypeOK'
  BY <1>1, <1>4, <1>6 DEF IInv, TypeOK
<1>8. Ordered(ircode, Top.nextVarID)'
  BY <1>2, <1>4, <1>5, <1>6 DEF Ordered
<1>9. NoHandler'
  <2>. SUFFICES ASSUME Handlers = {}, NEW k \in DOMAIN scopes'
                PROVE  scopes'[k].onScopeFailExitLabels = << >>
    BY <1>4 DEF NoHandler
  <2>1. (k \in DOMAIN scopes /\ scopes'[k] = scopes[k]) \/ scopes'[k] = new
    BY <1>2, <1>3, <1>4
  <2>. QED  BY <1>5, <2>1 DEF IInv, NoHandler
<1>. QED  BY <1>7, <1>8, <1>9 DEF IInv

(* ~Scope gives the counter to the parent.                                 *)
LEMMA LeftScopes ==
  ASSUME IInv, LeaveScope
  PROVE  scopes' \in Seq(Scope) \ {<< >>} /\ Top'.nextVarID = Top.nextVarID /\ NoHandler'
<1>. DEFINE n == Len(scopes) - 1
            parent == [scopes[n] EXCEPT !.nextVarID = Top.nextVarID]
<1>1. scopes \in Seq(Scope) /\ Len(scopes) > 1 /\ n \in Nat /\ n > 0
      /\ DOMAIN scopes = 1 .. Len(scopes) /\ Top.nextVarID \in Nat
  BY TopScope DEF IInv, TypeOK, LeaveScope
<1>2. Front(scopes) \in Seq(Scope) /\ Len(Front(scopes)) = n
      /\ \A k \in 1 .. n : Front(scopes)[k] = scopes[k]
  BY <1>1 DEF Front
<1>3. scopes[n] \in Scope
  BY <1>1
<1>4. parent \in Scope /\ parent.nextVarID = Top.nextVarID
      /\ parent.onScopeFailExitLabels = scopes[n].onScopeFailExitLabels
  BY <1>1, <1>3 DEF Scope
<1>5. scopes' = [Front(scopes) EXCEPT ![n] = parent]
  <2>1. scopes' = [Front(scopes) EXCEPT ![n] = [Front(scopes)[n] EXCEPT !.nextVarID = Top.nextVarID]]
    BY DEF LeaveScope, GiveCounterBack
  <2>2. n \in 1 .. n
    BY <1>1
  <2>3. Front(scopes)[n] = scopes[n]
    BY <1>2, <2>2
  <2>. QED  BY <2>1, <2>3
<1>. HIDE DEF parent, n
<1>6. scopes' \in Seq(Scope) /\ Len(scopes') = n /\ scopes'[n] = parent
      /\ \A k \in 1 .. n : k # n => scopes'[k] = scopes[k]
  BY <1>1, <1>2, <1>4, <1>5
<1>7. scopes' # << >> /\ Top' = parent
  BY <1>1, <1>6 DEF Top
<1>8. NoHandler'
  <2>. SUFFICES ASSUME Handlers = {}, NEW k \in DOMAIN scopes'
                PROVE  scopes'[k].onScopeFailExitLabels = << >>
    BY DEF NoHandler
  <2>1. k \in 1 .. n /\ k \in DOMAIN scopes
    <3>1. DOMAIN scopes' = 1 .. n
      BY <1>6
    <3>2. n \in Nat /\ n < Len(scopes) /\ Len(scopes) \in Nat
      BY <1>1 DEF n
    <3>. QED  BY <1>1, <3>1, <3>2
  <2>2. scopes'[k].onScopeFailExitLabels = scopes[k].onScopeFailExitLabels
    BY <1>4, <1>6, <2>1
  <2>. QED  BY <2>1, <2>2 DEF IInv, NoHandler
<1>. QED  BY <1>4, <1>6, <1>7, <1>8

LEMMA LeaveScopeInv == IInv /\ LeaveScope => IInv'
<1>. SUFFICES ASSUME IInv, LeaveScope PROVE IInv'
  OBVIOUS
<1>. DEFINE exit == << Top.at, "exit" >>
            vs == Reverse(Top.onScopeFailExitLabels)
            x == Instruction("label", 0, nextvar, exit)
            tail == [i \in 1 .. 2 * Len(vs) |->
                       IF i % 2 = 0 THEN Instruction("end", 0, 0, NoTag)
                       ELSE Instruction("onscopefail", vs[(i + 1) \div 2], 0, NoTag)]
            labelled == Append(Patched(exit, nextvar), x)
<1>1. /\ Tail(todo) \in Seq(Step) /\ todo' = Tail(todo) /\ UNCHANGED << nodes, stacksize >>
      /\ ircode \in Seq(Instr) /\ Ordered(ircode, Top.nextVarID)
  BY HeadStep DEF IInv, TypeOK, LeaveScope
<1>2. scopes' \in Seq(Scope) \ {<< >>} /\ Top'.nextVarID = Top.nextVarID /\ NoHandler'
  BY LeftScopes
<1>3. /\ nextvar = Top.nextVarID + 1 /\ nextvar \in Nat /\ Top.nextVarID \in Nat /\ Top.at \in Nat
      /\ Top.onScopeFailExitLabels \in Seq(Nat)
      /\ Len(scopes) \in DOMAIN scopes
  BY TopScope DEF IInv
<1>4. IF Top.onScopeFailExitLabels = << >> THEN ircode' = ircode
      ELSE ircode' = labelled \o tail
  BY DEF LeaveScope, updateOnScopeFailExitLabels, Unregistered
<1>5. ircode' \in Seq(Instr) /\ Ordered(ircode', Top.nextVarID)
  <2>1. CASE Top.onScopeFailExitLabels = << >>
    BY <1>1, <1>4, <2>1
  <2>2. CASE Top.onScopeFailExitLabels # << >>
    <3>1. Slack = 1
      BY <1>3, <2>2 DEF IInv, NoHandler, Slack, Top
    <3>2. exit \in Tag
      BY <1>3 DEF Tag
    <3>3. x \in Instr /\ IsLabel(x) /\ x.label = nextvar
      BY <1>3, <3>2, LabelType
    <3>4. Patched(exit, nextvar) \in Seq(Instr)
          /\ Ordered(Patched(exit, nextvar), Top.nextVarID)
      BY <1>1, <1>3, PatchedOrdered
    <3>5. labelled \in Seq(Instr) /\ Ordered(labelled, Top.nextVarID)
      <4>. HIDE DEF x, exit
      <4>. QED  BY <1>3, <3>1, <3>3, <3>4, AddLabel
    <3>6. vs \in Seq(Nat) /\ Len(vs) \in Nat
      BY <1>3 DEF Reverse
    <3>7. ASSUME NEW i \in 1 .. 2 * Len(vs)
          PROVE  tail[i] \in Instr /\ ~ IsLabel(tail[i])
      <4>1. Instruction("end", 0, 0, NoTag) \in Instr
            /\ ~ IsLabel(Instruction("end", 0, 0, NoTag))
        BY NoTagType, OtherType
      <4>2. ASSUME i % 2 # 0
            PROVE  /\ Instruction("onscopefail", vs[(i + 1) \div 2], 0, NoTag) \in Instr
                   /\ ~ IsLabel(Instruction("onscopefail", vs[(i + 1) \div 2], 0, NoTag))
        <5>1. (i + 1) \div 2 \in 1 .. Len(vs)
          BY <3>6, <3>7, <4>2
        <5>2. vs[(i + 1) \div 2] \in Nat
          <6>. HIDE DEF vs
          <6>. QED  BY <3>6, <5>1
        <5>. QED  BY <5>2, NoTagType, OtherType
      <4>. HIDE DEF vs
      <4>. QED  BY <4>1, <4>2
    <3>8. tail \in Seq(Instr) /\ DOMAIN tail = 1 .. 2 * Len(vs)
      <4>. HIDE DEF vs
      <4>. QED  BY <3>6, <3>7
    <3>. HIDE DEF tail, labelled, vs
    <3>. QED  BY <1>3, <1>4, <2>2, <3>5, <3>7, <3>8, AddOther
  <2>. QED  BY <2>1, <2>2
<1>6. TypeOK'
  BY <1>1, <1>2, <1>5 DEF IInv, TypeOK
<1>7. Ordered(ircode, Top.nextVarID)'
  BY <1>2, <1>5 DEF Ordered
<1>. QED  BY <1>2, <1>6, <1>7 DEF IInv

LEMMA RegisterHandlerInv == IInv /\ RegisterHandler => IInv'
<1>. SUFFICES ASSUME IInv, RegisterHandler PROVE IInv'
  OBVIOUS
<1>. DEFINE start == Head(todo).tag
            var == ErrorLvid(Head(todo).op, start[1])
            x == Instruction("onscopefail", var, LabelAt(start), start)
<1>1. Tail(todo) \in Seq(Step) /\ start \in Tag
  BY HeadStep, StepKinds DEF IInv, RegisterHandler
<1>2. LabelAt(start) \in Nat /\ var \in Nat
  BY OperandsKnown DEF IInv
<1>3. x \in Instr /\ ~ IsLabel(x)
  <2>. HIDE DEF var, start
  <2>. QED  BY <1>1, <1>2, OtherType
<1>4. ircode' = Append(ircode, x) /\ todo' = Tail(todo) /\ UNCHANGED << scopes, nodes, stacksize >>
  BY DEF RegisterHandler
<1>. HIDE DEF x
<1>. QED  BY <1>1, <1>3, <1>4, PlainInv

LEMMA ExitHandlerInv == IInv /\ ExitHandler => IInv'
<1>. SUFFICES ASSUME IInv, ExitHandler PROVE IInv'
  OBVIOUS
<1>. DEFINE var == ErrorLvid(Head(todo).op, Head(todo).tag[1])
            x == Instruction("jmp", 0, 0, << Top.at, "exit" >>)
            exits == Append(Top.onScopeFailExitLabels, var)
            n == Len(scopes)
<1>1. /\ Head(todo) \in Step /\ Head(todo).do = "exit" /\ Tail(todo) \in Seq(Step)
      /\ todo' = Tail(todo) /\ UNCHANGED << nodes, stacksize >>
      /\ ircode' = Append(ircode, x)
  BY HeadStep DEF IInv, ExitHandler
<1>2. Handlers # {}
  BY <1>1, StepKinds
<1>3. var \in Nat
  BY OperandsKnown DEF IInv
<1>4. /\ scopes \in Seq(Scope) /\ n \in Nat \ {0} /\ Top \in Scope /\ Top.nextVarID \in Nat
      /\ Top.at \in Nat /\ Top.onScopeFailExitLabels \in Seq(Nat)
  BY TopScope DEF IInv, TypeOK
<1>5. scopes' = [scopes EXCEPT ![n] = [Top EXCEPT !.onScopeFailExitLabels = exits]]
  BY <1>4 DEF ExitHandler, Top
<1>6. x \in Instr /\ ~ IsLabel(x)
  <2>1. << Top.at, "exit" >> \in Tag
    BY <1>4 DEF Tag
  <2>. QED  BY <2>1, InstructionType DEF Jumps
<1>. HIDE DEF x, var
<1>7. exits \in Seq(Nat)
  BY <1>3, <1>4
<1>. HIDE DEF exits
<1>8. /\ [Top EXCEPT !.onScopeFailExitLabels = exits] \in Scope
      /\ [Top EXCEPT !.onScopeFailExitLabels = exits].nextVarID = Top.nextVarID
  BY <1>4, <1>7 DEF Scope
<1>9. scopes' \in Seq(Scope) \ {<< >>} /\ Top'.nextVarID = Top.nextVarID
  BY <1>4, <1>5, <1>8 DEF Top
<1>10. ircode' \in Seq(Instr) /\ Ordered(ircode', Top.nextVarID)
  BY <1>1, <1>4, <1>6, AddOne DEF IInv, TypeOK
<1>11. TypeOK'
  BY <1>1, <1>9, <1>10 DEF IInv, TypeOK
<1>12. Ordered(ircode, Top.nextVarID)'
  BY <1>9, <1>10 DEF Ordered
<1>. QED  BY <1>2, <1>11, <1>12 DEF IInv, NoHandler

(* A child is visited: what it does comes first.                           *)
LEMMA VisitInv ==
  ASSUME IInv, NEW do, NEW compounds, NEW leaf \in Steps, compounds \subseteq Steps,
         Visit(do, compounds, leaf)
  PROVE  IInv'
<1>1. Tail(todo) \in Steps /\ UNCHANGED << ircode, scopes, stacksize >>
  BY HeadStep DEF IInv, Visit, Steps
<1>2. todo' \in Steps
  BY <1>1, ConcatSteps DEF Visit
<1>3. nodes' \in 0 .. MaxNodes
  BY ProducerAssumption DEF IInv, TypeOK, Visit
<1>4. TypeOK'
  BY <1>1, <1>2, <1>3 DEF IInv, TypeOK, Steps
<1>. QED  BY <1>1, <1>4 DEF IInv, Ordered, NoHandler, Top

LEMMA VisitsInv == IInv /\ (VisitStmt \/ VisitExpr \/ VisitStmts) => IInv'
<1>. SUFFICES ASSUME IInv, VisitStmt \/ VisitExpr \/ VisitStmts PROVE IInv'
  OBVIOUS
<1>1. opcodeCount \in Nat
  BY DEF IInv, TypeOK, opcodeCount
<1>2. Statements(opcodeCount) \subseteq Steps /\ Expressions(opcodeCount) \subseteq Steps
  BY <1>1, StatementSteps, ExpressionSteps
<1>3. Identifier \in Steps /\ ExprStmt \in Steps /\ << >> \in Steps
  BY <1>1, ExpressionSteps, BlockSteps DEF Steps
<1>4. { s \o << Do("stmts") >> : s \in Statements(opcodeCount) \cup {ExprStmt} } \subseteq Steps
  <2>1. << Do("stmts") >> \in Steps
    BY OneStep, FewSteps
  <2>. QED  BY <1>2, <1>3, <2>1, ConcatSteps
<1>5. CASE VisitStmt
  BY <1>2, <1>3, <1>5, VisitInv DEF VisitStmt
<1>6. CASE VisitExpr
  BY <1>2, <1>3, <1>6, VisitInv DEF VisitExpr
<1>7. CASE VisitStmts
  BY <1>3, <1>4, <1>7, VisitInv DEF VisitStmts
<1>. QED  BY <1>5, <1>6, <1>7

LEMMA FinishFuncInv == IInv /\ FinishFunc => IInv'
<1>. SUFFICES ASSUME IInv, FinishFunc PROVE IInv'
  OBVIOUS
<1>. DEFINE x == Instruction("end", 0, 0, NoTag)
<1>1. /\ Tail(todo) \in Seq(Step) /\ todo' = Tail(todo) /\ UNCHANGED << scopes, nodes >>
      /\ ircode' = Append(ircode, x) /\ stacksize' = Top.nextVarID + 1
  BY HeadStep DEF IInv, FinishFunc
<1>2. x \in Instr /\ ~ IsLabel(x)
  BY NoTagType, InstructionType
<1>. HIDE DEF x
<1>3. Top' = Top /\ Top.nextVarID \in Nat
  BY <1>1, TopScope DEF IInv, Top
<1>4. ircode' \in Seq(Instr) /\ Ordered(ircode', Top.nextVarID)
  BY <1>1, <1>2, <1>3, AddOne DEF IInv, TypeOK
<1>5. TypeOK'
  BY <1>1, <1>3, <1>4 DEF IInv, TypeOK
<1>6. Ordered(ircode, Top.nextVarID)'
  BY <1>3, <1>4 DEF Ordered
<1>. QED  BY <1>1, <1>5, <1>6 DEF IInv, NoHandler

LEMMA StepInv == IInv /\ [Next]_vars => IInv'
<1>1. IInv /\ UNCHANGED vars => IInv'
  BY DEF IInv, TypeOK, Ordered, NoHandler, Top, vars
<1>. QED
  BY <1>1, EmitPlainInv, EmitAllocInv, EmitAllocLaterInv, ReserveInv, EmitLabelInv,
     EmitJumpInv, EmitJzraiseInv, EnterScopeInv, LeaveScopeInv, RegisterHandlerInv,
     ExitHandlerInv, VisitsInv, FinishFuncInv
  DEF Next, Finished

LEMMA Inductive == Spec => []IInv
BY InitInv, StepInv, PTL DEF Spec

------------------------------------------------------------------------------
(* What it gives.                                                          *)

(* The code, the live Scope objects and the steps left are well formed     *)
(* while any function is translated: an outermost Scope is always there,   *)
(* whatever the visitors open and destroy, and every operand is a number.  *)
THEOREM ProducerTypes == Spec => []TypeOK
<1>1. IInv => TypeOK
  BY DEF IInv
<1>. QED  BY <1>1, Inductive, PTL

(* Whatever the syntax tree and its handlers, no label of a function is    *)
(* below one that comes before it.                                         *)
THEOREM LabelOrder == Spec => []LabelsNeverDecrease
<1>1. IInv => LabelsNeverDecrease
  <2>. SUFFICES ASSUME IInv, NEW i \in Labelled, NEW j \in Labelled, i < j
                PROVE  ircode[i].label <= ircode[j].label
    BY DEF LabelsNeverDecrease
  <2>1. i \in DOMAIN ircode /\ j \in DOMAIN ircode /\ IsLabel(ircode[i]) /\ IsLabel(ircode[j])
    BY DEF Labelled, IsLabel
  <2>2. ircode[i].label \in Nat /\ ircode[j].label \in Nat
    BY <2>1, LabelNat DEF IInv, TypeOK
  <2>. QED  BY <2>1, <2>2, SlackIs DEF IInv, Ordered
<1>. QED  BY <1>1, Inductive, PTL

(* The labels of a function that has no handler are strictly ordered, as   *)
(* the interpreter assumes when it skips code to look for one.             *)
THEOREM StrictLabelOrder ==
  ASSUME Handlers = {}
  PROVE  Spec => []LabelsOrdered
<1>1. IInv => LabelsOrdered
  <2>. SUFFICES ASSUME IInv, NEW i \in Labelled, NEW j \in Labelled, i < j
                PROVE  ircode[i].label < ircode[j].label
    BY DEF LabelsOrdered
  <2>1. i \in DOMAIN ircode /\ j \in DOMAIN ircode /\ IsLabel(ircode[i]) /\ IsLabel(ircode[j])
    BY DEF Labelled, IsLabel
  <2>2. ircode[i].label \in Nat /\ ircode[j].label \in Nat
    BY <2>1, LabelNat DEF IInv, TypeOK
  <2>. QED  BY <2>1, <2>2 DEF IInv, Ordered, Slack
<1>. QED  BY <1>1, Inductive, PTL

------------------------------------------------------------------------------
(* The handlers in force, as HandlersIn computes them, and the lists of    *)
(* sequences FlattenSeq makes one of.  Both are recursive functions: what  *)
(* they do of one element more is shown with sets of naturals that have a  *)
(* least element, from the well-foundedness of <.                          *)

LEMMA Least ==
  ASSUME NEW S, S \subseteq Nat, S # {}
  PROVE  \E m \in S : \A k \in S : m <= k
<1>. DEFINE R == OpToRel(<, Nat)
<1>1. IsWellFoundedOn(R, Nat)
  BY NatLessThanWellFounded
<1>2. \A x, y \in Nat : << y, x >> \in R <=> y < x
  BY DEF OpToRel
<1>. HIDE DEF R
<1>3. PICK x \in S : \A y \in S : ~ << y, x >> \in R
  BY <1>1, WFMin
<1>4. ASSUME NEW y \in S PROVE x <= y
  <2>1. x \in Nat /\ y \in Nat /\ ~ (y < x)
    BY <1>2, <1>3
  <2>. QED  BY <2>1
<1>. QED  BY <1>4

LEMMA Induct ==
  ASSUME NEW S, 0 \in S, \A n \in Nat : n \in S => n + 1 \in S
  PROVE  Nat \subseteq S
<1>. DEFINE T == {n \in Nat : n \notin S}
<1>. SUFFICES ASSUME T # {} PROVE FALSE
  OBVIOUS
<1>1. PICK m \in T : \A k \in T : m <= k
  BY Least
<1>2. m \in Nat /\ m # 0 /\ m \notin S
  OBVIOUS
<1>3. m - 1 \in Nat /\ ~ (m <= m - 1) /\ (m - 1) + 1 = m
  BY <1>2
<1>4. m - 1 \in S
  BY <1>1, <1>3
<1>. QED  BY <1>2, <1>3, <1>4

(* The handlers the analyzer has in force after each instruction: f is     *)
(* what the recursive function in HandlersIn computes.                     *)
Reads(f, code, n) ==
  f = [i \in 0 .. n |-> IF i = 0 THEN << >> ELSE Handled(f[i - 1], code[i])]

LEMMA ReadsAt ==
  ASSUME NEW f, NEW code, NEW n \in Nat, Reads(f, code, n)
  PROVE  /\ DOMAIN f = 0 .. n /\ f[0] = << >>
         /\ \A i \in Nat : i < n => f[i + 1] = Handled(f[i], code[i + 1])
<1>1. 0 \in 0 .. n
  OBVIOUS
<1>2. f[0] = << >>
  BY <1>1 DEF Reads
<1>3. ASSUME NEW i \in Nat, i < n PROVE f[i + 1] = Handled(f[i], code[i + 1])
  <2>1. i + 1 \in 0 .. n /\ i + 1 # 0 /\ (i + 1) - 1 = i
    BY <1>3
  <2>2. f[i + 1] = IF i + 1 = 0 THEN << >> ELSE Handled(f[(i + 1) - 1], code[i + 1])
    BY <2>1 DEF Reads
  <2>. QED  BY <2>1, <2>2
<1>4. DOMAIN f = 0 .. n
  BY DEF Reads
<1>. QED  BY <1>2, <1>3, <1>4

LEMMA ReadsExists ==
  ASSUME NEW code, NEW n \in Nat
  PROVE  \E f : Reads(f, code, n)
<1>. DEFINE S == {m \in Nat : \E f : Reads(f, code, m)}
<1>1. 0 \in S
  <2>. DEFINE f == [i \in 0 .. 0 |-> << >>]
  <2>1. Reads(f, code, 0)
    <3>1. \A i \in 0 .. 0 : i = 0
      OBVIOUS
    <3>2. f = [i \in 0 .. 0 |-> IF i = 0 THEN << >> ELSE Handled(f[i - 1], code[i])]
      BY <3>1
    <3>. QED  BY <3>2 DEF Reads
  <2>. QED  BY <2>1
<1>2. ASSUME NEW m \in Nat, m \in S PROVE m + 1 \in S
  <2>1. PICK f : Reads(f, code, m)
    BY <1>2
  <2>. DEFINE g == [i \in 0 .. m + 1 |-> IF i <= m THEN f[i] ELSE Handled(f[m], code[m + 1])]
              e(i) == IF i = 0 THEN << >> ELSE Handled(g[i - 1], code[i])
  <2>2. f[0] = << >> /\ \A i \in Nat : i < m => f[i + 1] = Handled(f[i], code[i + 1])
    BY <2>1, ReadsAt
  <2>3. ASSUME NEW i \in 0 .. m + 1 PROVE g[i] = e(i)
    <3>1. CASE i = 0
      BY <2>2, <3>1
    <3>2. CASE i # 0 /\ i <= m
      <4>1. i - 1 \in Nat /\ i - 1 < m /\ (i - 1) + 1 = i /\ i - 1 \in 0 .. m + 1 /\ i - 1 <= m
        BY <3>2
      <4>2. f[i] = Handled(f[i - 1], code[i])
        BY <2>2, <4>1
      <4>3. g[i] = f[i] /\ g[i - 1] = f[i - 1]
        BY <3>2, <4>1
      <4>. QED  BY <3>2, <4>2, <4>3
    <3>3. CASE i = m + 1
      <4>1. m \in 0 .. m + 1 /\ m <= m /\ ~ (i <= m) /\ i # 0 /\ i - 1 = m
        BY <3>3
      <4>2. g[m] = f[m] /\ g[i] = Handled(f[m], code[m + 1])
        BY <4>1
      <4>. QED  BY <3>3, <4>1, <4>2
    <3>4. i = 0 \/ (i # 0 /\ i <= m) \/ i = m + 1
      OBVIOUS
    <3>. QED  BY <3>1, <3>2, <3>3, <3>4
  <2>4. g = [i \in 0 .. m + 1 |-> g[i]]
    OBVIOUS
  <2>5. g = [i \in 0 .. m + 1 |-> e(i)]
    <3>. HIDE DEF g
    <3>. QED  BY <2>3, <2>4
  <2>6. Reads(g, code, m + 1)
    <3>. HIDE DEF g
    <3>. QED  BY <2>5 DEF Reads
  <2>7. m + 1 \in Nat
    OBVIOUS
  <2>. QED  BY <2>6, <2>7
<1>. HIDE DEF S
<1>3. n \in S
  BY <1>1, <1>2, Induct
<1>. QED  BY <1>3 DEF S

(* The analyzer does the same of the first k instructions of both.         *)
Alike(c, d, k) == \A i \in 1 .. k : \A h : Handled(h, c[i]) = Handled(h, d[i])

LEMMA ReadsAgree ==
  ASSUME NEW c, NEW d, NEW m \in Nat, NEW n \in Nat, NEW k \in Nat, k <= m, k <= n,
         NEW f, Reads(f, c, m), NEW g, Reads(g, d, n), Alike(c, d, k)
  PROVE  f[k] = g[k]
<1>. DEFINE S == {i \in Nat : i <= k => f[i] = g[i]}
<1>1. /\ f[0] = << >> /\ g[0] = << >>
      /\ \A i \in Nat : i < m => f[i + 1] = Handled(f[i], c[i + 1])
      /\ \A i \in Nat : i < n => g[i + 1] = Handled(g[i], d[i + 1])
  BY ReadsAt
<1>2. 0 \in S
  BY <1>1
<1>3. ASSUME NEW i \in Nat, i \in S PROVE i + 1 \in S
  <2>. SUFFICES ASSUME i + 1 <= k PROVE f[i + 1] = g[i + 1]
    OBVIOUS
  <2>1. i <= k /\ i < m /\ i < n /\ i + 1 \in 1 .. k
    OBVIOUS
  <2>2. f[i] = g[i]
    BY <1>3, <2>1
  <2>3. Handled(f[i], c[i + 1]) = Handled(f[i], d[i + 1])
    BY <2>1 DEF Alike
  <2>. QED  BY <1>1, <2>1, <2>2, <2>3
<1>. HIDE DEF S
<1>4. k \in S
  BY <1>2, <1>3, Induct
<1>. QED  BY <1>4 DEF S

LEMMA HandlersInReads ==
  ASSUME NEW code, Len(code) \in Nat
  PROVE  \E f : Reads(f, code, Len(code)) /\ HandlersIn(code) = f[Len(code)]
<1>. DEFINE n == Len(code)
            h == CHOOSE f : f = [i \in 0 .. n |-> IF i = 0 THEN << >> ELSE Handled(f[i - 1], code[i])]
<1>1. \E f : Reads(f, code, n)
  BY ReadsExists
<1>2. \E f : f = [i \in 0 .. n |-> IF i = 0 THEN << >> ELSE Handled(f[i - 1], code[i])]
  BY <1>1 DEF Reads
<1>3. h = [i \in 0 .. n |-> IF i = 0 THEN << >> ELSE Handled(h[i - 1], code[i])]
  BY <1>2
<1>4. HandlersIn(code) = h[n]
  BY DEF HandlersIn
<1>5. Reads(h, code, n)
  <2>. HIDE DEF h
  <2>. QED  BY <1>3 DEF Reads
<1>. QED  BY <1>4, <1>5

(* An instruction more, and only the handlers it is about.                 *)
LEMMA ReadOne ==
  ASSUME NEW code \in Seq(Instr), NEW x
  PROVE  HandlersIn(Append(code, x)) = Handled(HandlersIn(code), x)
<1>. DEFINE d == Append(code, x)
            n == Len(code)
<1>1. n \in Nat /\ Len(d) = n + 1 /\ d[n + 1] = x /\ \A i \in 1 .. n : d[i] = code[i]
  OBVIOUS
<1>2. n + 1 \in Nat
  BY <1>1
<1>3. PICK f : Reads(f, code, n) /\ HandlersIn(code) = f[n]
  BY <1>1, HandlersInReads
<1>. HIDE DEF d
<1>4. PICK g : Reads(g, d, n + 1) /\ HandlersIn(d) = g[n + 1]
  BY <1>1, <1>2, HandlersInReads
<1>5. Alike(code, d, n)
  BY <1>1 DEF Alike
<1>. HIDE DEF n
<1>6. n <= n /\ n <= n + 1 /\ n < n + 1
  BY <1>1
<1>7. g[n] = f[n]
  BY <1>1, <1>2, <1>3, <1>4, <1>5, <1>6, ReadsAgree
<1>8. g[n + 1] = Handled(g[n], d[n + 1])
  BY <1>1, <1>2, <1>4, <1>6, ReadsAt
<1>9. HandlersIn(d) = Handled(HandlersIn(code), x)
  BY <1>1, <1>3, <1>4, <1>7, <1>8
<1>. QED  BY <1>9 DEF d

(* The analyzer only looks at what registers or leaves a handler.          *)
LEMMA ReadSame ==
  ASSUME NEW c \in Seq(Instr), NEW d \in Seq(Instr), Len(c) = Len(d),
         \A i \in DOMAIN c : /\ c[i].op = d[i].op
                             /\ c[i].op = "onscopefail" =>
                                  c[i].lvid = d[i].lvid /\ c[i].label = d[i].label
  PROVE  HandlersIn(c) = HandlersIn(d)
<1>1. Len(c) \in Nat /\ DOMAIN c = 1 .. Len(c)
  OBVIOUS
<1>2. PICK f : Reads(f, c, Len(c)) /\ HandlersIn(c) = f[Len(c)]
  BY <1>1, HandlersInReads
<1>3. PICK g : Reads(g, d, Len(c)) /\ HandlersIn(d) = g[Len(c)]
  BY <1>1, HandlersInReads
<1>4. ASSUME NEW i \in 1 .. Len(c), NEW h PROVE Handled(h, c[i]) = Handled(h, d[i])
  BY <1>1 DEF Handled
<1>. DEFINE n == Len(c)
<1>5. Alike(c, d, n)
  BY <1>4 DEF Alike
<1>6. n \in Nat /\ Reads(f, c, n) /\ Reads(g, d, n)
  BY <1>1, <1>2, <1>3
<1>. HIDE DEF n
<1>7. n <= n
  BY <1>6
<1>8. f[n] = g[n]
  BY <1>5, <1>6, <1>7, ReadsAgree
<1>. QED  BY <1>2, <1>3, <1>8 DEF n

LEMMA Shortened ==
  ASSUME NEW e \in Seq(Nat), NEW m \in Nat, m <= Len(e)
  PROVE  /\ SubSeq(e, 1, m) \in Seq(Nat) /\ Len(SubSeq(e, 1, m)) = m
         /\ \A i \in 1 .. m : SubSeq(e, 1, m)[i] = e[i]
OBVIOUS

LEMMA FrontConcat ==
  ASSUME NEW b \in Seq(Nat), NEW t \in Seq(Nat), NEW z \in Seq(Nat),
         Len(t) >= 1, Len(z) = Len(t) - 1, \A i \in 1 .. Len(z) : z[i] = t[i]
  PROVE  /\ b \o t \in Seq(Nat) /\ b \o t # << >>
         /\ Last(b \o t) = t[Len(t)] /\ Front(b \o t) = b \o z
<1>. DEFINE h == b \o t
            m == Len(b) + Len(z)
            f == SubSeq(h, 1, m)
            w == b \o z
<1>1. /\ Len(b) \in Nat /\ Len(t) \in Nat /\ Len(z) \in Nat /\ m \in Nat
      /\ h \in Seq(Nat) /\ Len(h) = Len(b) + Len(t)
      /\ \A i \in 1 .. Len(b) : h[i] = b[i]
      /\ \A i \in 1 .. Len(t) : h[Len(b) + i] = t[i]
  OBVIOUS
<1>2. /\ w \in Seq(Nat) /\ Len(w) = m
      /\ \A i \in 1 .. Len(b) : w[i] = b[i]
      /\ \A i \in 1 .. Len(z) : w[Len(b) + i] = z[i]
  <2>1. w \in Seq(Nat) /\ Len(w) = m
    BY ConcatProperties
  <2>. QED  BY <2>1, SMTT(30)
<1>. HIDE DEF h, w
<1>3. m <= Len(h) /\ Len(h) - 1 = m
  BY <1>1
<1>. HIDE DEF m
<1>4. f \in Seq(Nat) /\ Len(f) = m /\ \A i \in 1 .. m : f[i] = h[i]
  BY <1>1, <1>3, Shortened
<1>. HIDE DEF f
<1>5. ASSUME NEW i \in 1 .. m PROVE f[i] = w[i]
  <2>1. CASE i <= Len(b)
    BY <1>1, <1>2, <1>4, <2>1
  <2>2. CASE i > Len(b)
    <3>. DEFINE j == i - Len(b)
    <3>1. i \in Nat /\ i <= Len(b) + Len(z)
      BY <1>1 DEF m
    <3>2. j \in 1 .. Len(z) /\ j \in 1 .. Len(t) /\ Len(b) + j = i
      <4>. DEFINE B == Len(b)
                  Z == Len(z)
                  T == Len(t)
      <4>1. B \in Nat /\ Z \in Nat /\ T \in Nat /\ Z = T - 1 /\ i \in Nat /\ i <= B + Z /\ i > B
        BY <1>1, <2>2, <3>1
      <4>. HIDE DEF B, Z, T
      <4>2. i - B \in 1 .. Z /\ i - B \in 1 .. T /\ B + (i - B) = i
        BY <4>1
      <4>. QED  BY <4>2 DEF B, Z, T
    <3>. HIDE DEF j
    <3>3. h[i] = t[j] /\ w[i] = z[j] /\ z[j] = t[j]
      BY <1>1, <1>2, <3>2
    <3>. QED  BY <1>4, <3>3
  <2>. QED  BY <1>1, <2>1, <2>2
<1>6. f = w
  BY <1>1, <1>2, <1>4, <1>5, SeqEqual
<1>7. Last(h) = t[Len(t)]
  <2>1. Len(t) \in 1 .. Len(t)
    BY <1>1
  <2>. QED  BY <1>1, <2>1 DEF Last
<1>8. Front(h) = w
  BY <1>3, <1>6 DEF Front, f
<1>9. h # << >>
  BY <1>1
<1>. QED  BY <1>1, <1>7, <1>8, <1>9 DEF h, w

(* The handlers of e, unregistered from the last to the first, are no      *)
(* longer in force, and those before them still are.                       *)
LEMMA ReadLeft ==
  ASSUME NEW code \in Seq(Instr), NEW base \in Seq(Nat), NEW e \in Seq(Nat),
         HandlersIn(code) = base \o e
  PROVE  HandlersIn(code \o Unregistered(Reverse(e))) = base
<1>. DEFINE n == Len(e)
            l == Len(code)
            u == Unregistered(Reverse(e))
            d == code \o u
<1>1. n \in Nat /\ l \in Nat
  OBVIOUS
<1>2. Len(Reverse(e)) = n /\ \A k \in 1 .. n : Reverse(e)[k] = e[(n - k) + 1]
  BY <1>1 DEF Reverse
<1>3. /\ u = [i \in 1 .. 2 * n |->
                IF i % 2 = 0 THEN Instruction("end", 0, 0, NoTag)
                ELSE Instruction("onscopefail", Reverse(e)[(i + 1) \div 2], 0, NoTag)]
  BY <1>2 DEF Unregistered
<1>. HIDE DEF u
<1>4. ASSUME NEW k \in Nat, k < n
      PROVE  /\ 2 * k + 1 \in 1 .. 2 * n /\ 2 * k + 2 \in 1 .. 2 * n
             /\ (2 * k + 1) % 2 # 0 /\ (2 * k + 2) % 2 = 0
             /\ ((2 * k + 1) + 1) \div 2 = k + 1
  BY <1>1, <1>4
<1>5. ASSUME NEW k \in Nat, k < n
      PROVE  /\ u[2 * k + 1] = Instruction("onscopefail", e[n - k], 0, NoTag)
             /\ u[2 * k + 2] = Instruction("end", 0, 0, NoTag)
  <2>1. k + 1 \in 1 .. n /\ (n - (k + 1)) + 1 = n - k
    BY <1>1, <1>5
  <2>2. Reverse(e)[k + 1] = e[n - k]
    BY <1>2, <2>1
  <2>. QED  BY <1>3, <1>4, <1>5, <2>2
<1>6. u = [i \in 1 .. 2 * n |-> u[i]] /\ 2 * n \in Nat
  BY <1>1, <1>3
<1>7. /\ Len(d) = l + 2 * n /\ l + 2 * n \in Nat
      /\ \A i \in 1 .. l : d[i] = code[i]
      /\ \A i \in 1 .. 2 * n : d[l + i] = u[i]
  <2>. DEFINE w == 2 * n
  <2>1. w \in Nat /\ u = [i \in 1 .. w |-> u[i]]
    BY <1>6
  <2>. HIDE DEF w
  <2>. DEFINE R == {u[i] : i \in 1 .. w}
  <2>2. u \in Seq(R) /\ Len(u) = w
    <3>1. \A i \in 1 .. w : u[i] \in R
      OBVIOUS
    <3>. HIDE DEF R
    <3>2. u \in [1 .. w -> R]
      BY <2>1, <3>1
    <3>. QED  BY <2>1, <3>2
  <2>3. /\ Len(d) = l + w /\ l + w \in Nat
        /\ \A i \in 1 .. l : d[i] = code[i]
        /\ \A i \in 1 .. w : d[l + i] = u[i]
    BY <1>1, <2>1, <2>2
  <2>. QED  BY <2>3 DEF w
<1>. HIDE DEF d
<1>8. PICK f : Reads(f, code, l) /\ HandlersIn(code) = f[l]
  BY <1>1, HandlersInReads
<1>9. PICK g : Reads(g, d, l + 2 * n) /\ HandlersIn(d) = g[l + 2 * n]
  BY <1>7, HandlersInReads
<1>10. g[l] = base \o e
  <2>1. Alike(code, d, l)
    BY <1>7 DEF Alike
  <2>. HIDE DEF n, l
  <2>2. l <= l /\ l <= l + 2 * n
    BY <1>1
  <2>3. g[l] = f[l]
    BY <1>1, <1>7, <1>8, <1>9, <2>1, <2>2, ReadsAgree
  <2>. QED  BY <1>8, <2>3
<1>. DEFINE S == {k \in Nat : k <= n => g[l + 2 * k] = base \o SubSeq(e, 1, n - k)}
<1>11. 0 \in S
  <2>1. SubSeq(e, 1, n - 0) = e /\ l + 2 * 0 = l
    OBVIOUS
  <2>. HIDE DEF n, l
  <2>. QED  BY <1>10, <2>1
<1>12. ASSUME NEW k \in Nat, k \in S PROVE k + 1 \in S
  <2>. SUFFICES ASSUME k < n PROVE g[l + 2 * (k + 1)] = base \o SubSeq(e, 1, n - (k + 1))
    <3>1. k + 1 \in Nat /\ (k + 1 <= n => k < n)
      BY <1>1
    <3>. QED  BY <3>1
  <2>. DEFINE h == base \o SubSeq(e, 1, n - k)
              j == l + 2 * k
  <2>1. g[j] = h
    <3>1. k <= n
      BY <1>1
    <3>. QED  BY <1>12, <3>1
  <2>2. /\ j \in Nat /\ j < l + 2 * n /\ j + 1 < l + 2 * n /\ j + 1 \in Nat
        /\ l + 2 * (k + 1) = (j + 1) + 1 /\ j + 1 = l + (2 * k + 1) /\ (j + 1) + 1 = l + (2 * k + 2)
    BY <1>1
  <2>3. d[j + 1] = Instruction("onscopefail", e[n - k], 0, NoTag)
    BY <1>4, <1>5, <1>7, <2>2
  <2>4. d[(j + 1) + 1] = Instruction("end", 0, 0, NoTag)
    BY <1>4, <1>5, <1>7, <2>2, ZenonT(30)
  <2>5. /\ SubSeq(e, 1, n - k) \in Seq(Nat) /\ Len(SubSeq(e, 1, n - k)) = n - k
        /\ SubSeq(e, 1, n - k)[n - k] = e[n - k]
        /\ n - k >= 1 /\ n - k \in Nat
    <3>. DEFINE q == n - k
    <3>1. q \in Nat /\ 1 <= q /\ q <= Len(e)
      BY <1>1
    <3>. HIDE DEF q
    <3>2. SubSeq(e, 1, q) \in Seq(Nat) /\ Len(SubSeq(e, 1, q)) = q /\ SubSeq(e, 1, q)[q] = e[q]
      BY <3>1
    <3>. QED  BY <3>1, <3>2 DEF q
  <2>. DEFINE q == n - k
              t == SubSeq(e, 1, q)
              z == SubSeq(e, 1, q - 1)
  <2>6. /\ h # << >> /\ Last(h) = e[q] /\ Front(h) = base \o z
    <3>1. /\ q \in Nat /\ q - 1 \in Nat /\ q <= Len(e) /\ q - 1 <= Len(e)
          /\ q >= 1 /\ q \in 1 .. q /\ \A i \in 1 .. q - 1 : i \in 1 .. q
      BY <1>1
    <3>. HIDE DEF q
    <3>2. /\ t \in Seq(Nat) /\ Len(t) = q /\ \A i \in 1 .. q : t[i] = e[i]
          /\ z \in Seq(Nat) /\ Len(z) = q - 1 /\ \A i \in 1 .. q - 1 : z[i] = e[i]
      BY <3>1, Shortened
    <3>. HIDE DEF t, z
    <3>3. Len(t) >= 1 /\ Len(z) = Len(t) - 1 /\ \A i \in 1 .. Len(z) : z[i] = t[i]
      <4>1. \A i \in 1 .. q - 1 : z[i] = t[i]
        BY <3>1, <3>2
      <4>. QED  BY <3>1, <3>2, <4>1
    <3>4. /\ base \o t # << >> /\ Last(base \o t) = t[Len(t)] /\ Front(base \o t) = base \o z
      BY <3>2, <3>3, FrontConcat
    <3>. QED  BY <3>1, <3>2, <3>4 DEF q, t
  <2>7. base \o z = base \o SubSeq(e, 1, n - (k + 1))
    <3>1. q - 1 = n - (k + 1)
      BY <1>1
    <3>. QED  BY <3>1
  <2>. HIDE DEF h, q, t, z, n, l, j
  <2>8. g[j + 1] = Handled(h, d[j + 1]) /\ g[(j + 1) + 1] = Handled(g[j + 1], d[(j + 1) + 1])
    <3>1. l + 2 * n \in Nat /\ Reads(g, d, l + 2 * n)
      BY <1>7, <1>9
    <3>2. \A i \in Nat : i < l + 2 * n => g[i + 1] = Handled(g[i], d[i + 1])
      BY <3>1, ReadsAt
    <3>. QED  BY <2>1, <2>2, <3>2
  <2>9. g[j + 1] = Front(h)
    BY <2>3, <2>6, <2>8 DEF Handled, Instruction, q
  <2>10. g[(j + 1) + 1] = g[j + 1]
    BY <2>4, <2>8 DEF Handled, Instruction
  <2>. QED  BY <2>2, <2>6, <2>7, <2>9, <2>10
<1>. HIDE DEF S
<1>13. n \in S
  BY <1>1, <1>11, <1>12, Induct
<1>14. g[l + 2 * n] = base \o SubSeq(e, 1, n - n)
  BY <1>1, <1>13 DEF S
<1>15. base \o SubSeq(e, 1, n - n) = base
  <2>1. SubSeq(e, 1, n - n) = << >>
    BY <1>1
  <2>. QED  BY <2>1
<1>. QED  BY <1>9, <1>14, <1>15 DEF d, u

------------------------------------------------------------------------------
(* The handlers of the live scopes, from the outermost.                    *)
Exits(s) == [i \in DOMAIN s |-> s[i].onScopeFailExitLabels]

(* f is what the recursive function in FlattenSeq computes.                *)
Flattens(f, e, n) ==
  f = [i \in 1 .. n |-> IF i = 1 THEN e[i] ELSE f[i - 1] \o e[i]]

LEMMA FlattensExists ==
  ASSUME NEW e, NEW n \in Nat
  PROVE  \E f : Flattens(f, e, n)
<1>. DEFINE S == {m \in Nat : \E f : Flattens(f, e, m)}
<1>1. 0 \in S
  <2>. DEFINE f == [i \in 1 .. 0 |-> << >>]
  <2>1. f = [i \in 1 .. 0 |-> IF i = 1 THEN e[i] ELSE f[i - 1] \o e[i]]
    OBVIOUS
  <2>2. Flattens(f, e, 0)
    BY <2>1 DEF Flattens
  <2>. QED  BY <2>2
<1>2. ASSUME NEW m \in Nat, m \in S PROVE m + 1 \in S
  <2>1. PICK f : Flattens(f, e, m)
    BY <1>2
  <2>. DEFINE g == [i \in 1 .. m + 1 |->
                      IF i <= m THEN f[i] ELSE IF i = 1 THEN e[i] ELSE f[m] \o e[m + 1]]
              v(i) == IF i = 1 THEN e[i] ELSE g[i - 1] \o e[i]
  <2>2. \A i \in 1 .. m : f[i] = IF i = 1 THEN e[i] ELSE f[i - 1] \o e[i]
    BY <2>1 DEF Flattens
  <2>3. ASSUME NEW i \in 1 .. m + 1 PROVE g[i] = v(i)
    <3>1. CASE i = 1
      <4>1. g[1] = e[1]
        <5>1. CASE m = 0
          BY <5>1
        <5>2. CASE m # 0
          <6>1. 1 \in 1 .. m /\ 1 \in 1 .. m + 1 /\ 1 <= m
            BY <5>2
          <6>2. f[1] = e[1]
            BY <2>2, <6>1
          <6>. QED  BY <6>1, <6>2
        <5>. QED  BY <5>1, <5>2
      <4>. QED  BY <3>1, <4>1
    <3>2. CASE i # 1 /\ i <= m
      <4>1. i \in 1 .. m /\ i - 1 \in 1 .. m + 1 /\ i - 1 <= m
        BY <3>2
      <4>2. f[i] = f[i - 1] \o e[i]
        BY <2>2, <3>2, <4>1
      <4>3. g[i] = f[i] /\ g[i - 1] = f[i - 1]
        BY <3>2, <4>1
      <4>. QED  BY <3>2, <4>2, <4>3
    <3>3. CASE i # 1 /\ i = m + 1
      <4>1. m \in 1 .. m + 1 /\ m <= m /\ ~ (i <= m) /\ i - 1 = m
        BY <3>3
      <4>2. g[m] = f[m] /\ g[i] = f[m] \o e[m + 1]
        BY <3>3, <4>1
      <4>. QED  BY <3>3, <4>1, <4>2
    <3>4. i = 1 \/ (i # 1 /\ i <= m) \/ (i # 1 /\ i = m + 1)
      OBVIOUS
    <3>. QED  BY <3>1, <3>2, <3>3, <3>4
  <2>4. g = [i \in 1 .. m + 1 |-> g[i]]
    OBVIOUS
  <2>5. g = [i \in 1 .. m + 1 |-> v(i)]
    <3>. HIDE DEF g
    <3>. QED  BY <2>3, <2>4
  <2>6. Flattens(g, e, m + 1)
    <3>. HIDE DEF g
    <3>. QED  BY <2>5 DEF Flattens
  <2>7. m + 1 \in Nat
    OBVIOUS
  <2>. QED  BY <2>6, <2>7
<1>. HIDE DEF S
<1>3. n \in S
  BY <1>1, <1>2, Induct
<1>. QED  BY <1>3 DEF S

LEMMA FlattenIs ==
  ASSUME NEW e, Len(e) \in Nat, Len(e) # 0
  PROVE  \E f : Flattens(f, e, Len(e)) /\ FlattenSeq(e) = f[Len(e)]
<1>. DEFINE n == Len(e)
            h == CHOOSE f : f = [i \in 1 .. n |-> IF i = 1 THEN e[i] ELSE f[i - 1] \o e[i]]
<1>1. \E f : Flattens(f, e, n)
  BY FlattensExists
<1>2. \E f : f = [i \in 1 .. n |-> IF i = 1 THEN e[i] ELSE f[i - 1] \o e[i]]
  BY <1>1 DEF Flattens
<1>3. h = [i \in 1 .. n |-> IF i = 1 THEN e[i] ELSE h[i - 1] \o e[i]]
  BY <1>2
<1>4. FlattenSeq(e) = h[n]
  BY DEF FlattenSeq
<1>5. Flattens(h, e, n)
  <2>. HIDE DEF h
  <2>. QED  BY <1>3 DEF Flattens
<1>. QED  BY <1>4, <1>5

LEMMA FlattenAgree ==
  ASSUME NEW c, NEW d, NEW m \in Nat, NEW n \in Nat, NEW k \in Nat, 1 <= k, k <= m, k <= n,
         NEW f, Flattens(f, c, m), NEW g, Flattens(g, d, n), \A i \in 1 .. k : c[i] = d[i]
  PROVE  f[k] = g[k]
<1>. DEFINE S == {i \in Nat : 1 <= i /\ i <= k => f[i] = g[i]}
<1>1. /\ \A i \in 1 .. m : f[i] = IF i = 1 THEN c[i] ELSE f[i - 1] \o c[i]
      /\ \A i \in 1 .. n : g[i] = IF i = 1 THEN d[i] ELSE g[i - 1] \o d[i]
  BY DEF Flattens
<1>2. 0 \in S
  OBVIOUS
<1>3. ASSUME NEW i \in Nat, i \in S PROVE i + 1 \in S
  <2>. SUFFICES ASSUME i + 1 <= k PROVE f[i + 1] = g[i + 1]
    OBVIOUS
  <2>1. /\ i + 1 \in 1 .. m /\ i + 1 \in 1 .. n /\ i + 1 \in 1 .. k /\ (i + 1) - 1 = i
        /\ i # 0 => i + 1 # 1
    OBVIOUS
  <2>2. CASE i = 0
    BY <1>1, <2>1, <2>2
  <2>3. CASE i # 0
    <3>1. f[i] = g[i]
      BY <1>3, <2>3
    <3>2. f[i + 1] = f[i] \o c[i + 1] /\ g[i + 1] = g[i] \o d[i + 1] /\ c[i + 1] = d[i + 1]
      BY <1>1, <2>1, <2>3
    <3>. QED  BY <3>1, <3>2
  <2>. QED  BY <2>2, <2>3
<1>. HIDE DEF S
<1>4. k \in S
  BY <1>2, <1>3, Induct
<1>. QED  BY <1>4 DEF S

LEMMA FlattenOne ==
  ASSUME NEW e \in Seq(Seq(Nat)), NEW x \in Seq(Nat)
  PROVE  FlattenSeq(Append(e, x)) = FlattenSeq(e) \o x
<1>. DEFINE d == Append(e, x)
            n == Len(e)
<1>1. n \in Nat /\ n + 1 \in Nat /\ Len(d) = n + 1 /\ d[n + 1] = x
      /\ \A i \in 1 .. n : d[i] = e[i]
  OBVIOUS
<1>. HIDE DEF d
<1>2. PICK g : Flattens(g, d, n + 1) /\ FlattenSeq(d) = g[n + 1]
  BY <1>1, FlattenIs
<1>3. n + 1 \in 1 .. n + 1 /\ (n + 1) - 1 = n
  BY <1>1
<1>4. g[n + 1] = IF n + 1 = 1 THEN d[n + 1] ELSE g[(n + 1) - 1] \o d[n + 1]
  BY <1>2, <1>3 DEF Flattens
<1>5. CASE n = 0
  <2>1. FlattenSeq(e) = << >>
    BY <1>5 DEF FlattenSeq
  <2>2. g[n + 1] = x
    BY <1>1, <1>4, <1>5
  <2>3. << >> \o x = x
    OBVIOUS
  <2>. QED  BY <1>2, <2>1, <2>2, <2>3 DEF d
<1>6. CASE n # 0
  <2>1. PICK f : Flattens(f, e, n) /\ FlattenSeq(e) = f[n]
    BY <1>1, <1>6, FlattenIs
  <2>. HIDE DEF n
  <2>2. 1 <= n /\ n <= n /\ n <= n + 1 /\ \A i \in 1 .. n : e[i] = d[i]
    BY <1>1, <1>6
  <2>3. f[n] = g[n]
    BY <1>1, <1>2, <2>1, <2>2, FlattenAgree
  <2>4. g[n + 1] = g[n] \o x
    BY <1>1, <1>3, <1>4, <1>6
  <2>5. FlattenSeq(d) = FlattenSeq(e) \o x
    BY <1>2, <2>1, <2>3, <2>4
  <2>. QED  BY <2>5 DEF d
<1>. QED  BY <1>5, <1>6

LEMMA FlattenType ==
  ASSUME NEW e \in Seq(Seq(Nat))
  PROVE  FlattenSeq(e) \in Seq(Nat)
<1>. DEFINE n == Len(e)
<1>1. n \in Nat /\ \A i \in 1 .. n : e[i] \in Seq(Nat)
  OBVIOUS
<1>2. CASE n = 0
  <2>1. FlattenSeq(e) = e /\ e = << >>
    BY <1>2 DEF FlattenSeq
  <2>. QED  BY <2>1
<1>3. CASE n # 0
  <2>1. PICK f : Flattens(f, e, n) /\ FlattenSeq(e) = f[n]
    BY <1>1, <1>3, FlattenIs
  <2>2. \A i \in 1 .. n : f[i] = IF i = 1 THEN e[i] ELSE f[i - 1] \o e[i]
    BY <2>1 DEF Flattens
  <2>. HIDE DEF n
  <2>. DEFINE S == {i \in Nat : 1 <= i /\ i <= n => f[i] \in Seq(Nat)}
  <2>3. 0 \in S
    OBVIOUS
  <2>4. ASSUME NEW i \in Nat, i \in S PROVE i + 1 \in S
    <3>. SUFFICES ASSUME i + 1 <= n PROVE f[i + 1] \in Seq(Nat)
      OBVIOUS
    <3>1. i + 1 \in 1 .. n /\ (i + 1) - 1 = i /\ (i # 0 => i + 1 # 1)
      BY <1>1
    <3>2. CASE i = 0
      BY <1>1, <2>2, <3>1, <3>2
    <3>3. CASE i # 0
      <4>1. f[i] \in Seq(Nat) /\ e[i + 1] \in Seq(Nat)
        BY <1>1, <2>4, <3>1, <3>3
      <4>2. f[i + 1] = f[i] \o e[i + 1]
        BY <2>2, <3>1, <3>3
      <4>. QED  BY <4>1, <4>2
    <3>. QED  BY <3>2, <3>3
  <2>. HIDE DEF S
  <2>5. n \in S
    BY <1>1, <2>3, <2>4, Induct
  <2>. QED  BY <1>1, <1>3, <2>1, <2>5 DEF S
<1>. QED  BY <1>2, <1>3

------------------------------------------------------------------------------
(* Scopes and jumps of a sequence of marks, and what putting another in    *)
(* the place of one of its marks does to them.                             *)

(* What an instruction, or a step to come, does to the scopes of the IR:   *)
(* its opcode, and the tag of a jump or of a label.  A "hole" stands for   *)
(* what a visit may emit there.                                            *)
Mark(op, tag) == [op |-> op, tag |-> IF op \in Jumps \cup {"label"} THEN tag ELSE NoTag]

Objects == {"stackalloc", "hole"}
Declared == Allocs \cup {"hole"}

(* The number of scopes open after each of the n marks of w.               *)
Depth(w, n, d) ==
  /\ d \in [0 .. n -> Nat]
  /\ d[0] = 0
  /\ \A i \in 1 .. n :
       /\ w[i].op = "scope" => d[i] = d[i - 1] + 1
       /\ w[i].op = "end" => d[i] = d[i - 1] - 1
       /\ w[i].op \notin {"scope", "end"} => d[i] = d[i - 1]

(* The scope of a is still open at b, or was already: none between them is *)
(* outside of it.                                                          *)
Stays(d, a, b) == \A k \in (a .. b) \cup (b .. a) : d[a] <= d[k]

(* No jump enters a scope, leaves an object behind or skips a declaration. *)
Jumping(w, n, d) ==
  \A i, t \in 1 .. n :
    w[i].op \in Jumps /\ w[t].op = "label" /\ w[t].tag = w[i].tag =>
      /\ Stays(d, t, i)
      /\ \A j \in 1 .. i : w[j].op \in Objects /\ Stays(d, j, i) => Stays(d, j, t)
      /\ \A j \in i .. t : w[j].op \in Declared => ~ Stays(d, j, t)

(* Nothing is declared outside of the scopes of w.                         *)
Quiet(w, n, d) == \A i \in 1 .. n : w[i].op \in Declared => d[i] # 0

(* No object is left by the jumps of w with these tags, wherever they go.  *)
Clean(w, n, d, out) ==
  \A i \in 1 .. n : w[i].op \in Jumps /\ w[i].tag \in out =>
    \A j \in 1 .. i : w[j].op \in Objects => ~ Stays(d, j, i)

Tidy(w, n, quiet, out) ==
  \E d : /\ Depth(w, n, d) /\ d[n] = 0 /\ Jumping(w, n, d)
         /\ quiet => Quiet(w, n, d)
         /\ Clean(w, n, d, out)

(* The marks of v in the place of the mark p of w.                         *)
Put(w, n, p, v, l, u) ==
  /\ \A k \in 1 .. n : k < p => u[k] = w[k]
  /\ \A k \in 1 .. l : u[p - 1 + k] = v[k]
  /\ \A k \in 1 .. n : k > p => u[k - 1 + l] = w[k]

(* The labels of v are no other's, and its jumps either have theirs in v,  *)
(* or go where the mark p of w did.                                        *)
Apart(w, n, p, v, l) ==
  \A i \in 1 .. l :
    v[i].op \in Jumps \cup {"label"} =>
      \/ v[i].op \in Jumps /\ w[p].op \in Jumps /\ v[i].tag = w[p].tag
      \/ \A j \in 1 .. n : (j # p /\ w[j].op \in Jumps \cup {"label"}) => w[j].tag # v[i].tag

(* The mark of w in the place of which the mark k of u is.                 *)
Old(k, p, l) == IF k < p THEN k ELSE IF k < p + l THEN p ELSE k - l + 1

(* The depths before and after v is put at p.                              *)
Deeper(n, d, p, l, dv, e) ==
  e = [k \in 0 .. n - 1 + l |->
         IF k < p THEN d[k] ELSE IF k < p + l THEN d[p - 1] + dv[k - p + 1] ELSE d[k - l + 1]]

(* What is the same of all the lemmas below.                               *)
Placed(w, n, p, v, l, u, d, dv, e) ==
  /\ n \in Nat /\ l \in Nat /\ p \in 1 .. n
  /\ w[p].op \notin {"scope", "end"}
  /\ Depth(w, n, d) /\ d[n] = 0 /\ Depth(v, l, dv) /\ dv[l] = 0
  /\ Put(w, n, p, v, l, u) /\ Deeper(n, d, p, l, dv, e)

LEMMA PlacedDepths ==
  ASSUME NEW w, NEW n, NEW p, NEW v, NEW l, NEW u, NEW d, NEW dv, NEW e,
         Placed(w, n, p, v, l, u, d, dv, e)
  PROVE  /\ e \in [0 .. n - 1 + l -> Nat]
         /\ d[p] = d[p - 1] /\ \A k \in 0 .. n : d[k] \in Nat
         /\ \A k \in 0 .. l : dv[k] \in Nat
         /\ \A k \in 0 .. n : k < p => e[k] = d[k]
         /\ \A k \in 0 .. l : e[p - 1 + k] = d[p] + dv[k]
         /\ \A k \in 0 .. n : k >= p => e[k - 1 + l] = d[k]
<1>1. /\ n \in Nat /\ l \in Nat /\ p \in Nat /\ 1 <= p /\ p <= n
      /\ d \in [0 .. n -> Nat] /\ dv \in [0 .. l -> Nat] /\ dv[0] = 0 /\ dv[l] = 0 /\ d[p] = d[p - 1]
  BY DEF Placed, Depth
<1>2. /\ \A k \in 0 .. n : d[k] \in Nat
      /\ \A k \in 0 .. l : dv[k] \in Nat
      /\ p \in 0 .. n /\ p - 1 \in 0 .. n
  BY <1>1
<1>3. \A k \in 0 .. n - 1 + l :
        e[k] = IF k < p THEN d[k]
               ELSE IF k < p + l THEN d[p - 1] + dv[k - p + 1] ELSE d[k - l + 1]
  BY DEF Placed, Deeper
<1>4. DOMAIN e = 0 .. n - 1 + l /\ e = [k \in 0 .. n - 1 + l |-> e[k]]
  BY DEF Placed, Deeper
<1>5. ASSUME NEW k \in 0 .. n, k < p PROVE e[k] = d[k]
  <2>1. k \in 0 .. n - 1 + l
    BY <1>1, <1>5
  <2>. QED  BY <1>3, <1>5, <2>1
<1>6. ASSUME NEW k \in 0 .. l PROVE e[p - 1 + k] = d[p] + dv[k]
  <2>1. p - 1 + k \in 0 .. n - 1 + l
    BY <1>1
  <2>2. CASE k = 0
    BY <1>1, <1>2, <1>3, <2>1, <2>2
  <2>3. CASE k # 0
    <3>1. ~ (p - 1 + k < p) /\ p - 1 + k < p + l /\ (p - 1 + k) - p + 1 = k
      BY <1>1, <2>3
    <3>. QED  BY <1>1, <1>3, <2>1, <3>1
  <2>. QED  BY <2>2, <2>3
<1>7. ASSUME NEW k \in 0 .. n, k >= p PROVE e[k - 1 + l] = d[k]
  <2>1. CASE k = p
    <3>1. l \in 0 .. l /\ k - 1 + l = p - 1 + l
      BY <1>1, <2>1
    <3>. QED  BY <1>1, <1>2, <1>6, <2>1, <3>1
  <2>2. CASE k > p
    <3>1. /\ k - 1 + l \in 0 .. n - 1 + l /\ ~ (k - 1 + l < p) /\ ~ (k - 1 + l < p + l)
          /\ (k - 1 + l) - l + 1 = k
      BY <1>1, <2>2
    <3>. QED  BY <1>3, <3>1
  <2>. QED  BY <1>1, <1>7, <2>1, <2>2
<1>8. ASSUME NEW k \in 0 .. n - 1 + l PROVE e[k] \in Nat
  <2>1. CASE k < p
    <3>1. k \in 0 .. n
      BY <1>1, <2>1
    <3>. QED  BY <1>2, <1>3, <2>1, <3>1
  <2>2. CASE k >= p /\ k < p + l
    <3>1. k - p + 1 \in 0 .. l
      BY <1>1, <2>2
    <3>. QED  BY <1>1, <1>2, <1>3, <2>2, <3>1
  <2>3. CASE k >= p + l
    <3>1. k - l + 1 \in 0 .. n /\ ~ (k < p)
      BY <1>1, <2>3
    <3>. QED  BY <1>1, <1>2, <1>3, <2>3, <3>1
  <2>. QED  BY <1>1, <2>1, <2>2, <2>3
<1>9. e \in [0 .. n - 1 + l -> Nat]
  BY <1>4, <1>8
<1>. QED  BY <1>1, <1>2, <1>5, <1>6, <1>7, <1>9

(* Where the marks of u come from.                                         *)
LEMMA PlacedMarks ==
  ASSUME NEW w, NEW n, NEW p, NEW v, NEW l, NEW u, NEW d, NEW dv, NEW e,
         Placed(w, n, p, v, l, u, d, dv, e), NEW k \in 1 .. n - 1 + l
  PROVE  /\ Old(k, p, l) \in 1 .. n /\ d[Old(k, p, l)] <= e[k]
         /\ \/ /\ k < p /\ Old(k, p, l) = k /\ u[k] = w[k] /\ e[k] = d[k]
            \/ /\ k >= p /\ k < p + l /\ Old(k, p, l) = p
               /\ k - p + 1 \in 1 .. l /\ u[k] = v[k - p + 1] /\ e[k] = d[p] + dv[k - p + 1]
            \/ /\ k >= p + l /\ Old(k, p, l) = k - l + 1 /\ Old(k, p, l) > p
               /\ u[k] = w[Old(k, p, l)] /\ e[k] = d[Old(k, p, l)]
<1>1. /\ n \in Nat /\ l \in Nat /\ p \in Nat /\ 1 <= p /\ p <= n /\ Put(w, n, p, v, l, u)
      /\ k \in Nat /\ 1 <= k /\ k <= n - 1 + l
  BY DEF Placed
<1>2. /\ \A j \in 0 .. n : d[j] \in Nat
      /\ \A j \in 0 .. l : dv[j] \in Nat
      /\ \A j \in 0 .. n : j < p => e[j] = d[j]
      /\ \A j \in 0 .. l : e[p - 1 + j] = d[p] + dv[j]
      /\ \A j \in 0 .. n : j >= p => e[j - 1 + l] = d[j]
  BY PlacedDepths
<1>3. CASE k < p
  <2>1. Old(k, p, l) = k /\ k \in 1 .. n /\ k \in 0 .. n
    BY <1>1, <1>3 DEF Old
  <2>2. u[k] = w[k] /\ e[k] = d[k]
    BY <1>1, <1>2, <1>3, <2>1 DEF Put
  <2>. QED  BY <1>2, <1>3, <2>1, <2>2
<1>4. CASE k >= p /\ k < p + l
  <2>. DEFINE j == k - p + 1
  <2>1. Old(k, p, l) = p /\ j \in 1 .. l /\ j \in 0 .. l /\ k = p - 1 + j /\ p \in 1 .. n /\ p \in 0 .. n
    BY <1>1, <1>4 DEF Old
  <2>2. u[k] = v[j] /\ e[k] = d[p] + dv[j]
    <3>1. u[p - 1 + j] = v[j] /\ e[p - 1 + j] = d[p] + dv[j]
      BY <1>1, <1>2, <2>1 DEF Put
    <3>. QED  BY <2>1, <3>1
  <2>3. d[p] \in Nat /\ dv[j] \in Nat
    BY <1>2, <2>1
  <2>. QED  BY <1>4, <2>1, <2>2, <2>3
<1>5. CASE k >= p + l
  <2>. DEFINE j == k - l + 1
  <2>1. Old(k, p, l) = j /\ j \in 1 .. n /\ j \in 0 .. n /\ j > p /\ k = j - 1 + l
    BY <1>1, <1>5 DEF Old
  <2>2. u[k] = w[j] /\ e[k] = d[j]
    <3>1. u[j - 1 + l] = w[j] /\ e[j - 1 + l] = d[j]
      BY <1>1, <1>2, <2>1 DEF Put
    <3>. QED  BY <2>1, <3>1
  <2>. QED  BY <1>2, <1>5, <2>1, <2>2
<1>. QED  BY <1>1, <1>3, <1>4, <1>5

LEMMA PlacedDepth ==
  ASSUME NEW w, NEW n, NEW p, NEW v, NEW l, NEW u, NEW d, NEW dv, NEW e,
         Placed(w, n, p, v, l, u, d, dv, e)
  PROVE  Depth(u, n - 1 + l, e) /\ e[n - 1 + l] = 0
<1>1. /\ n \in Nat /\ l \in Nat /\ p \in Nat /\ 1 <= p /\ p <= n
      /\ Depth(w, n, d) /\ Depth(v, l, dv) /\ d[n] = 0 /\ d[0] = 0
  BY DEF Placed, Depth
<1>2. /\ e \in [0 .. n - 1 + l -> Nat]
      /\ d[p] = d[p - 1] /\ \A k \in 0 .. n : d[k] \in Nat
      /\ \A k \in 0 .. l : dv[k] \in Nat
      /\ \A k \in 0 .. n : k < p => e[k] = d[k]
      /\ \A k \in 0 .. l : e[p - 1 + k] = d[p] + dv[k]
      /\ \A k \in 0 .. n : k >= p => e[k - 1 + l] = d[k]
  BY PlacedDepths
<1>3. e[0] = 0 /\ e[n - 1 + l] = 0
  <2>1. 0 \in 0 .. n /\ 0 < p /\ n \in 0 .. n /\ n >= p
    BY <1>1
  <2>. QED  BY <1>1, <1>2, <2>1
<1>4. ASSUME NEW k \in 1 .. n - 1 + l
      PROVE  /\ u[k].op = "scope" => e[k] = e[k - 1] + 1
             /\ u[k].op = "end" => e[k] = e[k - 1] - 1
             /\ u[k].op \notin {"scope", "end"} => e[k] = e[k - 1]
  <2>1. CASE k < p
    <3>1. k \in 0 .. n /\ k - 1 \in 0 .. n /\ k - 1 < p /\ k \in 1 .. n
      BY <1>1, <2>1
    <3>2. u[k] = w[k] /\ e[k] = d[k] /\ e[k - 1] = d[k - 1]
      BY <1>2, <2>1, <3>1 DEF Placed, Put
    <3>3. /\ w[k].op = "scope" => d[k] = d[k - 1] + 1
          /\ w[k].op = "end" => d[k] = d[k - 1] - 1
          /\ w[k].op \notin {"scope", "end"} => d[k] = d[k - 1]
      BY <1>1, <3>1 DEF Depth
    <3>. QED  BY <3>2, <3>3
  <2>2. CASE k >= p /\ k < p + l
    <3>. DEFINE j == k - p + 1
    <3>1. j \in 1 .. l /\ j \in 0 .. l /\ j - 1 \in 0 .. l /\ k = p - 1 + j /\ k - 1 = p - 1 + (j - 1)
      BY <1>1, <2>2
    <3>2. u[k] = v[j] /\ e[k] = d[p] + dv[j] /\ e[k - 1] = d[p] + dv[j - 1]
      <4>1. u[p - 1 + j] = v[j] /\ e[p - 1 + j] = d[p] + dv[j]
            /\ e[p - 1 + (j - 1)] = d[p] + dv[j - 1]
        BY <1>2, <3>1 DEF Placed, Put
      <4>. QED  BY <3>1, <4>1
    <3>3. d[p] \in Nat /\ dv[j] \in Nat /\ dv[j - 1] \in Nat
      BY <1>1, <1>2, <3>1
    <3>4. /\ v[j].op = "scope" => dv[j] = dv[j - 1] + 1
          /\ v[j].op = "end" => dv[j] = dv[j - 1] - 1
          /\ v[j].op \notin {"scope", "end"} => dv[j] = dv[j - 1]
      BY <1>1, <3>1 DEF Depth
    <3>. HIDE DEF j
    <3>. QED  BY <3>2, <3>3, <3>4
  <2>3. CASE k >= p + l
    <3>. DEFINE j == k - l + 1
    <3>1. /\ j \in 1 .. n /\ j \in 0 .. n /\ j - 1 \in 0 .. n /\ j > p /\ j - 1 >= p
          /\ k = j - 1 + l /\ k - 1 = (j - 1) - 1 + l
      BY <1>1, <2>3
    <3>2. u[k] = w[j] /\ e[k] = d[j] /\ e[k - 1] = d[j - 1]
      <4>1. u[j - 1 + l] = w[j]
        BY <3>1 DEF Placed, Put
      <4>2. \A h \in 0 .. n : h >= p => e[h - 1 + l] = d[h]
        BY <1>2
      <4>3. e[j - 1 + l] = d[j] /\ e[(j - 1) - 1 + l] = d[j - 1]
        <5>. HIDE DEF j
        <5>. QED  BY <1>1, <3>1, <4>2
      <4>. QED  BY <3>1, <4>1, <4>3
    <3>4. /\ w[j].op = "scope" => d[j] = d[j - 1] + 1
          /\ w[j].op = "end" => d[j] = d[j - 1] - 1
          /\ w[j].op \notin {"scope", "end"} => d[j] = d[j - 1]
      BY <1>1, <3>1 DEF Depth
    <3>. HIDE DEF j
    <3>. QED  BY <3>2, <3>4
  <2>. QED  BY <1>1, <2>1, <2>2, <2>3
<1>. QED  BY <1>2, <1>3, <1>4 DEF Depth

LEMMA OldOrder ==
  ASSUME NEW p \in Nat, NEW l \in Nat, NEW j \in Nat, NEW k \in Nat, j <= k
  PROVE  Old(j, p, l) <= Old(k, p, l)
BY DEF Old

(* Between two marks of u are those between the ones they come from.       *)
LEMMA PlacedStays ==
  ASSUME NEW w, NEW n, NEW p, NEW v, NEW l, NEW u, NEW d, NEW dv, NEW e,
         Placed(w, n, p, v, l, u, d, dv, e),
         NEW a \in 1 .. n - 1 + l, NEW b \in 1 .. n - 1 + l, e[a] = d[Old(a, p, l)]
  PROVE  Stays(e, a, b) <=> Stays(d, Old(a, p, l), Old(b, p, l))
<1>1. /\ n \in Nat /\ l \in Nat /\ p \in Nat /\ 1 <= p /\ p <= n
      /\ a \in Nat /\ b \in Nat
  BY DEF Placed
<1>2. /\ d[p] = d[p - 1] /\ \A k \in 0 .. n : d[k] \in Nat
      /\ e \in [0 .. n - 1 + l -> Nat]
      /\ \A k \in 0 .. n : k < p => e[k] = d[k]
      /\ \A k \in 0 .. n : k >= p => e[k - 1 + l] = d[k]
  BY PlacedDepths
<1>. DEFINE oa == Old(a, p, l)
            ob == Old(b, p, l)
<1>3. oa \in 1 .. n /\ ob \in 1 .. n /\ d[oa] \in Nat
  <2>1. oa \in 1 .. n /\ ob \in 1 .. n
    BY PlacedMarks
  <2>. HIDE DEF oa, ob
  <2>2. oa \in 0 .. n
    BY <1>1, <2>1
  <2>. QED  BY <1>2, <2>1, <2>2
<1>4. ASSUME Stays(d, oa, ob) PROVE Stays(e, a, b)
  <2>. SUFFICES ASSUME NEW k \in (a .. b) \cup (b .. a) PROVE e[a] <= e[k]
    BY DEF Stays
  <2>1. k \in 1 .. n - 1 + l /\ k \in Nat
    BY <1>1
  <2>2. Old(k, p, l) \in 1 .. n /\ d[Old(k, p, l)] <= e[k]
    BY <2>1, PlacedMarks
  <2>3. (a <= k /\ k <= b) \/ (b <= k /\ k <= a)
    BY <1>1
  <2>4. Old(k, p, l) \in (oa .. ob) \cup (ob .. oa)
    <3>1. (oa <= Old(k, p, l) /\ Old(k, p, l) <= ob) \/ (ob <= Old(k, p, l) /\ Old(k, p, l) <= oa)
      BY <1>1, <2>1, <2>3, OldOrder
    <3>. HIDE DEF oa, ob
    <3>. QED  BY <1>1, <1>3, <2>2, <3>1
  <2>5. d[oa] <= d[Old(k, p, l)]
    BY <1>4, <2>4 DEF Stays
  <2>6. d[Old(k, p, l)] \in Nat /\ e[k] \in Nat
    BY <1>1, <1>2, <2>1, <2>2
  <2>. HIDE DEF oa
  <2>7. e[a] = d[oa]
    BY DEF oa
  <2>. QED  BY <1>3, <2>2, <2>5, <2>6, <2>7
<1>5. ASSUME Stays(e, a, b) PROVE Stays(d, oa, ob)
  <2>. SUFFICES ASSUME NEW k \in (oa .. ob) \cup (ob .. oa) PROVE d[oa] <= d[k]
    BY DEF Stays
  <2>0. k \in Nat /\ k \in 0 .. n /\ ((oa <= k /\ k <= ob) \/ (ob <= k /\ k <= oa))
    <3>. HIDE DEF oa, ob
    <3>. QED  BY <1>1, <1>3
  <2>1. CASE k < p
    <3>1. k \in (a .. b) \cup (b .. a)
      BY <1>1, <2>0, <2>1 DEF Old
    <3>2. e[k] = d[k]
      BY <1>2, <2>0, <2>1
    <3>. QED  BY <1>5, <3>1, <3>2 DEF Stays
  <2>2. CASE k > p
    <3>1. k - 1 + l \in (a .. b) \cup (b .. a)
      BY <1>1, <2>0, <2>2 DEF Old
    <3>2. e[k - 1 + l] = d[k]
      BY <1>1, <1>2, <2>0, <2>2
    <3>. QED  BY <1>5, <3>1, <3>2 DEF Stays
  <2>3. CASE k = p
    <3>1. CASE oa = p
      BY <1>1, <1>3, <2>3, <3>1
    <3>2. CASE a < p /\ b >= p
      <4>1. p - 1 \in (a .. b) \cup (b .. a) /\ p - 1 \in 0 .. n /\ p - 1 < p
        BY <1>1, <3>2
      <4>2. e[p - 1] = d[p]
        BY <1>2, <4>1
      <4>. QED  BY <1>5, <2>3, <4>1, <4>2 DEF Stays
    <3>3. CASE b < p /\ a >= p
      <4>1. p - 1 \in (a .. b) \cup (b .. a) /\ p - 1 \in 0 .. n /\ p - 1 < p
        BY <1>1, <3>3
      <4>2. e[p - 1] = d[p]
        BY <1>2, <4>1
      <4>. QED  BY <1>5, <2>3, <4>1, <4>2 DEF Stays
    <3>4. CASE b >= p /\ b < p + l /\ a >= p + l
      <4>1. p - 1 + l \in (a .. b) \cup (b .. a) /\ p \in 0 .. n /\ p >= p
        BY <1>1, <3>4
      <4>2. e[p - 1 + l] = d[p]
        BY <1>2, <4>1
      <4>. QED  BY <1>5, <2>3, <4>1, <4>2 DEF Stays
    <3>. QED  BY <1>1, <2>0, <2>3, <3>1, <3>2, <3>3, <3>4 DEF Old
  <2>. QED  BY <1>1, <2>0, <2>1, <2>2, <2>3
<1>. QED  BY <1>4, <1>5

(* What is declared in v and still open after it, or before, is declared   *)
(* outside of the scopes of v.                                             *)
LEMMA PlacedOuter ==
  ASSUME NEW w, NEW n, NEW p, NEW v, NEW l, NEW u, NEW d, NEW dv, NEW e,
         Placed(w, n, p, v, l, u, d, dv, e),
         NEW a \in 1 .. n - 1 + l, NEW b \in 1 .. n - 1 + l,
         a >= p, a < p + l, b < p \/ b >= p + l, Stays(e, a, b)
  PROVE  e[a] = d[p] /\ dv[a - p + 1] = 0
<1>1. /\ n \in Nat /\ l \in Nat /\ p \in Nat /\ 1 <= p /\ p <= n
      /\ a \in Nat /\ b \in Nat
  BY DEF Placed
<1>2. /\ d[p] = d[p - 1] /\ \A k \in 0 .. n : d[k] \in Nat
      /\ \A k \in 0 .. l : dv[k] \in Nat
      /\ e \in [0 .. n - 1 + l -> Nat]
      /\ \A k \in 0 .. n : k < p => e[k] = d[k]
      /\ \A k \in 0 .. n : k >= p => e[k - 1 + l] = d[k]
  BY PlacedDepths
<1>3. a - p + 1 \in 0 .. l /\ e[a] = d[p] + dv[a - p + 1]
  <2>1. e[a] = d[p] + dv[a - p + 1]
    BY <1>1, PlacedMarks
  <2>. QED  BY <1>1, <2>1
<1>4. d[p] \in Nat /\ dv[a - p + 1] \in Nat
  BY <1>1, <1>2, <1>3
<1>5. e[a] <= d[p]
  <2>1. CASE b < p
    <3>1. p - 1 \in (a .. b) \cup (b .. a) /\ p - 1 \in 0 .. n /\ p - 1 < p
      BY <1>1, <2>1
    <3>2. e[p - 1] = d[p]
      BY <1>2, <3>1
    <3>. QED  BY <3>1, <3>2 DEF Stays
  <2>2. CASE b >= p + l
    <3>1. p - 1 + l \in (a .. b) \cup (b .. a) /\ p \in 0 .. n /\ p >= p
      BY <1>1, <2>2
    <3>2. e[p - 1 + l] = d[p]
      BY <1>2, <3>1
    <3>. QED  BY <3>1, <3>2 DEF Stays
  <2>. QED  BY <2>1, <2>2
<1>. QED  BY <1>3, <1>4, <1>5

(* Between two marks of v.                                                 *)
LEMMA PlacedInner ==
  ASSUME NEW w, NEW n, NEW p, NEW v, NEW l, NEW u, NEW d, NEW dv, NEW e,
         Placed(w, n, p, v, l, u, d, dv, e), NEW a \in 1 .. l, NEW b \in 1 .. l
  PROVE  Stays(e, p - 1 + a, p - 1 + b) <=> Stays(dv, a, b)
<1>1. /\ n \in Nat /\ l \in Nat /\ p \in Nat /\ 1 <= p /\ p <= n
      /\ a \in Nat /\ b \in Nat
  BY DEF Placed
<1>2. /\ \A k \in 0 .. l : dv[k] \in Nat
      /\ \A k \in 0 .. l : e[p - 1 + k] = d[p] + dv[k]
      /\ d[p] \in Nat
  <2>1. p \in 0 .. n
    BY <1>1
  <2>2. /\ \A k \in 0 .. n : d[k] \in Nat
        /\ \A k \in 0 .. l : dv[k] \in Nat
        /\ \A k \in 0 .. l : e[p - 1 + k] = d[p] + dv[k]
    BY PlacedDepths
  <2>. QED  BY <2>1, <2>2
<1>3. ASSUME Stays(dv, a, b) PROVE Stays(e, p - 1 + a, p - 1 + b)
  <2>. SUFFICES ASSUME NEW k \in ((p - 1 + a) .. (p - 1 + b)) \cup ((p - 1 + b) .. (p - 1 + a))
                PROVE  e[p - 1 + a] <= e[k]
    BY DEF Stays
  <2>1. /\ k - p + 1 \in (a .. b) \cup (b .. a) /\ k - p + 1 \in 0 .. l /\ a \in 0 .. l
        /\ k = p - 1 + (k - p + 1)
    BY <1>1
  <2>2. dv[a] <= dv[k - p + 1]
    BY <1>3, <2>1 DEF Stays
  <2>3. e[p - 1 + a] = d[p] + dv[a] /\ e[k] = d[p] + dv[k - p + 1]
    BY <1>2, <2>1
  <2>4. dv[a] \in Nat /\ dv[k - p + 1] \in Nat
    BY <1>2, <2>1
  <2>. QED  BY <1>2, <2>2, <2>3, <2>4
<1>4. ASSUME Stays(e, p - 1 + a, p - 1 + b) PROVE Stays(dv, a, b)
  <2>. SUFFICES ASSUME NEW k \in (a .. b) \cup (b .. a) PROVE dv[a] <= dv[k]
    BY DEF Stays
  <2>1. /\ p - 1 + k \in ((p - 1 + a) .. (p - 1 + b)) \cup ((p - 1 + b) .. (p - 1 + a))
        /\ k \in 0 .. l /\ a \in 0 .. l
    BY <1>1
  <2>2. e[p - 1 + a] <= e[p - 1 + k]
    BY <1>4, <2>1 DEF Stays
  <2>3. e[p - 1 + a] = d[p] + dv[a] /\ e[p - 1 + k] = d[p] + dv[k]
    BY <1>2, <2>1
  <2>4. dv[a] \in Nat /\ dv[k] \in Nat
    BY <1>2, <2>1
  <2>. QED  BY <1>2, <2>2, <2>3, <2>4
<1>. QED  BY <1>3, <1>4

(* A mark of u with a tag is in v, or w has it too.                        *)
LEMMA PlacedJumping ==
  ASSUME NEW w, NEW n, NEW p, NEW v, NEW l, NEW u, NEW d, NEW dv, NEW e,
         Placed(w, n, p, v, l, u, d, dv, e), Apart(w, n, p, v, l),
         Jumping(w, n, d), Jumping(v, l, dv),
         w[p].op # "hole" => Quiet(v, l, dv),
         NEW out, Clean(v, l, dv, out), w[p].op \in Jumps => w[p].tag \in out,
         w[p].op \notin Allocs \cup {"label"}
  PROVE  Jumping(u, n - 1 + l, e)
<1>. DEFINE m == n - 1 + l
            O(k) == Old(k, p, l)
            In(k) == k >= p /\ k < p + l
<1>1. /\ n \in Nat /\ l \in Nat /\ p \in Nat /\ 1 <= p /\ p <= n /\ p \in 1 .. n
  BY DEF Placed
<1>2. ASSUME NEW k \in 1 .. m
      PROVE  /\ O(k) \in 1 .. n /\ k \in Nat
             /\ ~ In(k) => O(k) # p /\ u[k] = w[O(k)] /\ e[k] = d[O(k)] /\ (k < p \/ k >= p + l)
             /\ In(k) => /\ O(k) = p /\ k - p + 1 \in 1 .. l /\ u[k] = v[k - p + 1]
                         /\ k = p - 1 + (k - p + 1)
  <2>1. k \in Nat
    BY <1>1
  <2>2. /\ Old(k, p, l) \in 1 .. n
        /\ \/ /\ k < p /\ Old(k, p, l) = k /\ u[k] = w[k] /\ e[k] = d[k]
           \/ /\ k >= p /\ k < p + l /\ Old(k, p, l) = p
              /\ k - p + 1 \in 1 .. l /\ u[k] = v[k - p + 1]
           \/ /\ k >= p + l /\ Old(k, p, l) = k - l + 1 /\ Old(k, p, l) > p
              /\ u[k] = w[Old(k, p, l)] /\ e[k] = d[Old(k, p, l)]
    BY PlacedMarks
  <2>. QED  BY <1>1, <2>1, <2>2
<1>3. ASSUME NEW a \in 1 .. m, NEW b \in 1 .. m, e[a] = d[O(a)]
      PROVE  Stays(e, a, b) <=> Stays(d, O(a), O(b))
  BY <1>3, PlacedStays
<1>4. ASSUME NEW a \in 1 .. m, NEW b \in 1 .. m, In(a), ~ In(b), Stays(e, a, b)
      PROVE  e[a] = d[O(a)] /\ dv[a - p + 1] = 0
  <2>1. b < p \/ b >= p + l
    BY <1>2, <1>4
  <2>2. e[a] = d[p] /\ dv[a - p + 1] = 0
    BY <1>4, <2>1, PlacedOuter
  <2>. QED  BY <1>2, <1>4, <2>2
<1>5. ASSUME NEW a \in 1 .. m, NEW b \in 1 .. m, In(a), In(b)
      PROVE  Stays(e, a, b) <=> Stays(dv, a - p + 1, b - p + 1)
  <2>. DEFINE x == a - p + 1
              y == b - p + 1
  <2>1. x \in 1 .. l /\ y \in 1 .. l /\ a = p - 1 + x /\ b = p - 1 + y
    BY <1>2, <1>5
  <2>. HIDE DEF x, y
  <2>2. Stays(e, p - 1 + x, p - 1 + y) <=> Stays(dv, x, y)
    BY <2>1, PlacedInner
  <2>3. Stays(e, a, b) <=> Stays(dv, x, y)
    BY <2>1, <2>2
  <2>. QED  BY <2>3 DEF x, y
<1>6. ASSUME NEW j \in 1 .. m, NEW k \in 1 .. m, j <= k PROVE O(j) <= O(k)
  BY <1>1, <1>2, <1>6, OldOrder
<1>. HIDE DEF O
<1>7. ASSUME NEW i \in 1 .. m, NEW t \in 1 .. m,
             u[i].op \in Jumps, u[t].op = "label", u[t].tag = u[i].tag
      PROVE  /\ Stays(e, t, i)
             /\ \A j \in 1 .. i : u[j].op \in Objects /\ Stays(e, j, i) => Stays(e, j, t)
             /\ \A j \in i .. t : u[j].op \in Declared => ~ Stays(e, j, t)
  <2>0. i \in Nat /\ t \in Nat /\ m \in Nat
    BY <1>1, <1>2
  <2>1. CASE In(i) /\ In(t)
    <3>. DEFINE x == i - p + 1
                y == t - p + 1
    <3>1. x \in 1 .. l /\ y \in 1 .. l /\ v[x] = u[i] /\ v[y] = u[t]
      BY <1>2, <2>1
    <3>2. /\ Stays(dv, y, x)
          /\ \A j \in 1 .. x : v[j].op \in Objects /\ Stays(dv, j, x) => Stays(dv, j, y)
          /\ \A j \in x .. y : v[j].op \in Declared => ~ Stays(dv, j, y)
      <4>. HIDE DEF x, y
      <4>. QED  BY <1>7, <3>1 DEF Jumping
    <3>3. Stays(e, t, i)
      BY <1>5, <2>1, <3>2
    <3>4. ASSUME NEW j \in 1 .. i, u[j].op \in Objects, Stays(e, j, i) PROVE Stays(e, j, t)
      <4>0. j \in 1 .. m /\ j \in Nat
        BY <2>0
      <4>1. CASE In(j)
        <5>1. j - p + 1 \in 1 .. x /\ v[j - p + 1] = u[j] /\ Stays(dv, j - p + 1, x)
          BY <1>1, <1>2, <1>5, <2>1, <3>4, <4>0, <4>1
        <5>. QED  BY <1>5, <2>1, <3>2, <3>4, <4>0, <4>1, <5>1
      <4>2. CASE ~ In(j)
        <5>1. e[j] = d[O(j)] /\ O(i) = p /\ O(t) = p
          BY <1>2, <2>1, <4>0, <4>2
        <5>. QED  BY <1>3, <3>4, <4>0, <5>1
      <4>. QED  BY <4>1, <4>2
    <3>5. ASSUME NEW j \in i .. t, u[j].op \in Declared PROVE ~ Stays(e, j, t)
      <4>1. j \in 1 .. m /\ In(j)
        BY <1>1, <2>0, <2>1
      <4>2. j - p + 1 \in x .. y /\ v[j - p + 1] = u[j]
        BY <1>1, <1>2, <2>0, <2>1, <4>1
      <4>. QED  BY <1>5, <2>1, <3>2, <3>5, <4>1, <4>2
    <3>. QED  BY <3>3, <3>4, <3>5
  <2>2. CASE ~ (In(i) /\ In(t))
    <3>1. ~ In(t) /\ w[O(t)] = u[t] /\ O(t) \in 1 .. n /\ O(t) # p
      <4>1. CASE In(t)
        <5>1. /\ t - p + 1 \in 1 .. l /\ v[t - p + 1] = u[t]
              /\ O(i) \in 1 .. n /\ O(i) # p /\ w[O(i)] = u[i]
          BY <1>2, <2>2, <4>1
        <5>2. "label" \notin Jumps
          BY DEF Jumps
        <5>. QED  BY <1>7, <5>1, <5>2 DEF Apart
      <4>. QED  BY <1>2, <4>1
    <3>2. /\ O(i) \in 1 .. n /\ w[O(i)].op \in Jumps /\ w[O(i)].tag = u[i].tag
      <4>1. CASE In(i)
        <5>1. i - p + 1 \in 1 .. l /\ v[i - p + 1] = u[i] /\ O(i) = p
          BY <1>2, <4>1
        <5>2. w[O(t)].op = "label" /\ w[O(t)].tag = v[i - p + 1].tag
          BY <1>7, <3>1, <5>1
        <5>. QED  BY <1>1, <1>7, <3>1, <5>1, <5>2 DEF Apart
      <4>2. CASE ~ In(i)
        BY <1>2, <1>7, <4>2
      <4>. QED  BY <4>1, <4>2
    <3>3. /\ Stays(d, O(t), O(i))
          /\ \A j \in 1 .. O(i) : w[j].op \in Objects /\ Stays(d, j, O(i)) => Stays(d, j, O(t))
          /\ \A j \in O(i) .. O(t) : w[j].op \in Declared => ~ Stays(d, j, O(t))
      BY <1>7, <3>1, <3>2 DEF Jumping
    <3>4. Stays(e, t, i)
      <4>1. e[t] = d[O(t)]
        BY <1>2, <3>1
      <4>. QED  BY <1>3, <3>3, <4>1
    <3>5. ASSUME NEW j \in 1 .. i, u[j].op \in Objects, Stays(e, j, i) PROVE Stays(e, j, t)
      <4>0. j \in 1 .. m /\ j \in Nat /\ O(j) \in 1 .. n /\ O(j) <= O(i)
        BY <1>2, <1>6, <2>0
      <4>9. O(j) \in 1 .. O(i)
        BY <1>1, <3>2, <4>0
      <4>1. CASE ~ In(j)
        <5>1. e[j] = d[O(j)] /\ w[O(j)] = u[j]
          BY <1>2, <4>0, <4>1
        <5>. QED  BY <1>3, <3>3, <3>5, <4>0, <4>9, <5>1
      <4>2. CASE In(j) /\ In(i)
        <5>1. /\ i - p + 1 \in 1 .. l /\ v[i - p + 1] = u[i] /\ O(i) = p
              /\ j - p + 1 \in 1 .. i - p + 1 /\ v[j - p + 1] = u[j]
          BY <1>1, <1>2, <2>0, <4>0, <4>2
        <5>2. v[i - p + 1].op \in Jumps /\ v[i - p + 1].tag \in out
          BY <1>7, <3>2, <5>1
        <5>3. Stays(dv, j - p + 1, i - p + 1)
          BY <1>5, <3>5, <4>0, <4>2
        <5>. QED  BY <3>5, <5>1, <5>2, <5>3 DEF Clean
      <4>3. CASE In(j) /\ ~ In(i)
        <5>1. e[j] = d[O(j)] /\ dv[j - p + 1] = 0 /\ O(j) = p
              /\ j - p + 1 \in 1 .. l /\ v[j - p + 1] = u[j]
          BY <1>2, <1>4, <3>5, <4>0, <4>3
        <5>2. w[p].op = "hole"
          BY <3>5, <5>1 DEF Quiet, Declared, Objects, Allocs
        <5>3. Stays(d, O(j), O(t))
          BY <1>3, <3>3, <3>5, <4>0, <4>9, <5>1, <5>2 DEF Objects
        <5>. QED  BY <1>3, <4>0, <5>1, <5>3
      <4>. QED  BY <4>1, <4>2, <4>3
    <3>6. ASSUME NEW j \in i .. t, u[j].op \in Declared, Stays(e, j, t) PROVE FALSE
      <4>0. j \in 1 .. m /\ j \in Nat /\ O(j) \in 1 .. n /\ O(i) <= O(j) /\ O(j) <= O(t)
        <5>1. j \in 1 .. m /\ j \in Nat /\ i <= j /\ j <= t
          BY <2>0
        <5>. QED  BY <1>2, <1>6, <5>1
      <4>9. O(j) \in O(i) .. O(t)
        BY <1>1, <3>1, <3>2, <4>0
      <4>1. CASE ~ In(j)
        <5>1. e[j] = d[O(j)] /\ w[O(j)] = u[j]
          BY <1>2, <4>0, <4>1
        <5>. QED  BY <1>3, <3>3, <3>6, <4>0, <4>9, <5>1
      <4>2. CASE In(j)
        <5>1. e[j] = d[O(j)] /\ dv[j - p + 1] = 0 /\ O(j) = p
              /\ j - p + 1 \in 1 .. l /\ v[j - p + 1] = u[j]
          BY <1>2, <1>4, <3>1, <3>6, <4>0, <4>2
        <5>2. w[p].op = "hole"
          BY <3>6, <5>1 DEF Quiet
        <5>3. ~ Stays(d, O(j), O(t))
          BY <3>3, <4>9, <5>1, <5>2 DEF Declared
        <5>. QED  BY <1>3, <3>6, <4>0, <5>1, <5>3
      <4>. QED  BY <4>1, <4>2
    <3>. QED  BY <3>4, <3>5, <3>6
  <2>. QED  BY <2>1, <2>2
<1>. QED  BY <1>7 DEF Jumping

LEMMA PlacedQuiet ==
  ASSUME NEW w, NEW n, NEW p, NEW v, NEW l, NEW u, NEW d, NEW dv, NEW e,
         Placed(w, n, p, v, l, u, d, dv, e),
         Quiet(w, n, d), w[p].op # "hole" => Quiet(v, l, dv)
  PROVE  Quiet(u, n - 1 + l, e)
<1>. SUFFICES ASSUME NEW k \in 1 .. n - 1 + l, u[k].op \in Declared PROVE e[k] # 0
  BY DEF Quiet
<1>1. /\ n \in Nat /\ l \in Nat /\ p \in Nat /\ 1 <= p /\ p <= n /\ k \in Nat
  BY DEF Placed
<1>2. /\ \A j \in 0 .. n : d[j] \in Nat
      /\ \A j \in 0 .. l : dv[j] \in Nat
  BY PlacedDepths
<1>3. CASE (k < p \/ k >= p + l) /\ u[k] = w[Old(k, p, l)] /\ e[k] = d[Old(k, p, l)]
           /\ Old(k, p, l) \in 1 .. n
  BY <1>3 DEF Quiet
<1>4. CASE k - p + 1 \in 1 .. l /\ u[k] = v[k - p + 1] /\ e[k] = d[p] + dv[k - p + 1]
  <2>1. d[p] \in Nat /\ dv[k - p + 1] \in Nat
    BY <1>1, <1>2, <1>4
  <2>2. CASE w[p].op = "hole"
    <3>1. d[p] # 0
      BY <1>1, <2>2 DEF Quiet, Declared
    <3>. QED  BY <1>4, <2>1, <3>1
  <2>3. CASE w[p].op # "hole"
    <3>1. dv[k - p + 1] # 0
      BY <1>4, <2>3 DEF Quiet
    <3>. QED  BY <1>4, <2>1, <3>1
  <2>. QED  BY <2>2, <2>3
<1>. QED  BY <1>3, <1>4, PlacedMarks

(* The jumps that leave w leave no object, those of v do not leave it.     *)
LEMMA PlacedClean ==
  ASSUME NEW w, NEW n, NEW p, NEW v, NEW l, NEW u, NEW d, NEW dv, NEW e,
         Placed(w, n, p, v, l, u, d, dv, e),
         w[p].op # "hole" => Quiet(v, l, dv),
         NEW out, Clean(w, n, d, out),
         \A i \in 1 .. l : v[i].op \in Jumps => v[i].tag \notin out
  PROVE  Clean(u, n - 1 + l, e, out)
<1>. DEFINE m == n - 1 + l
<1>1. /\ n \in Nat /\ l \in Nat /\ p \in Nat /\ 1 <= p /\ p <= n /\ p \in 1 .. n
  BY DEF Placed
<1>. SUFFICES ASSUME NEW i \in 1 .. m, u[i].op \in Jumps, u[i].tag \in out,
                     NEW j \in 1 .. i, u[j].op \in Objects, Stays(e, j, i)
              PROVE  FALSE
  BY DEF Clean
<1>2. i \in Nat /\ j \in Nat /\ j \in 1 .. m /\ j <= i
  BY <1>1
<1>3. /\ (i < p \/ i >= p + l) /\ u[i] = w[Old(i, p, l)] /\ Old(i, p, l) \in 1 .. n
  BY PlacedMarks
<1>4. Old(j, p, l) <= Old(i, p, l) /\ Old(j, p, l) \in 1 .. n
  BY <1>1, <1>2, OldOrder, PlacedMarks
<1>5. Old(j, p, l) \in 1 .. Old(i, p, l)
  BY <1>1, <1>3, <1>4
<1>6. CASE u[j] = w[Old(j, p, l)] /\ e[j] = d[Old(j, p, l)]
  <2>1. Stays(d, Old(j, p, l), Old(i, p, l))
    BY <1>2, <1>6, PlacedStays
  <2>. QED  BY <1>3, <1>5, <1>6, <2>1 DEF Clean
<1>7. CASE /\ j >= p /\ j < p + l /\ Old(j, p, l) = p
           /\ j - p + 1 \in 1 .. l /\ u[j] = v[j - p + 1]
  <2>1. e[j] = d[p] /\ dv[j - p + 1] = 0
    BY <1>2, <1>3, <1>7, PlacedOuter
  <2>2. w[p].op = "hole"
    BY <1>7, <2>1 DEF Quiet, Declared, Objects, Allocs
  <2>3. Stays(d, Old(j, p, l), Old(i, p, l))
    BY <1>2, <1>7, <2>1, PlacedStays
  <2>. QED  BY <1>3, <1>5, <1>7, <2>2, <2>3 DEF Clean, Objects
<1>. QED  BY <1>2, <1>6, <1>7, PlacedMarks

(* The jumps of v leave it, and w has no other and no object.              *)
LEMMA PlacedCleanAlone ==
  ASSUME NEW w, NEW n, NEW p, NEW v, NEW l, NEW u, NEW d, NEW dv, NEW e,
         Placed(w, n, p, v, l, u, d, dv, e), NEW out, Clean(v, l, dv, out),
         \A k \in 1 .. n : k # p => w[k].op \notin Objects \cup Jumps
  PROVE  Clean(u, n - 1 + l, e, out)
<1>. DEFINE m == n - 1 + l
<1>1. /\ n \in Nat /\ l \in Nat /\ p \in Nat /\ 1 <= p /\ p <= n /\ p \in 1 .. n
  BY DEF Placed
<1>. SUFFICES ASSUME NEW i \in 1 .. m, u[i].op \in Jumps, u[i].tag \in out,
                     NEW j \in 1 .. i, u[j].op \in Objects, Stays(e, j, i)
              PROVE  FALSE
  BY DEF Clean
<1>2. i \in Nat /\ j \in Nat /\ j \in 1 .. m /\ j <= i
  BY <1>1
<1>. DEFINE x == i - p + 1
            y == j - p + 1
<1>3. x \in 1 .. l /\ u[i] = v[x]
  BY PlacedMarks
<1>4. y \in 1 .. l /\ u[j] = v[y]
  BY <1>2, PlacedMarks
<1>5. y \in 1 .. x /\ i = p - 1 + x /\ j = p - 1 + y
  BY <1>1, <1>2, <1>3, <1>4
<1>. HIDE DEF x, y
<1>6. Stays(dv, y, x)
  BY <1>3, <1>4, <1>5, PlacedInner
<1>. QED  BY <1>3, <1>4, <1>5, <1>6 DEF Clean

(* The marks of v in the place of one of w: a hole, or, if v declares      *)
(* nothing outside of its scopes, a jump or a mark without meaning.        *)
LEMMA Replaced ==
  ASSUME NEW n \in Nat, NEW l \in Nat, NEW p \in 1 .. n, NEW w, NEW v, NEW u,
         NEW quiet \in BOOLEAN, NEW quiet2 \in BOOLEAN, NEW out, NEW out2,
         Put(w, n, p, v, l, u), Apart(w, n, p, v, l),
         Tidy(w, n, quiet, out), Tidy(v, l, quiet2, out2),
         w[p].op \notin Allocs \cup {"label", "scope", "end"},
         w[p].op # "hole" => quiet2,
         w[p].op \in Jumps => w[p].tag \in out2,
         \/ \A i \in 1 .. l : v[i].op \in Jumps => v[i].tag \notin out
         \/ out = out2 /\ \A k \in 1 .. n : k # p => w[k].op \notin Objects \cup Jumps
  PROVE  Tidy(u, n - 1 + l, quiet, out)
<1>1. PICK d : /\ Depth(w, n, d) /\ d[n] = 0 /\ Jumping(w, n, d)
               /\ quiet => Quiet(w, n, d)
               /\ Clean(w, n, d, out)
  BY DEF Tidy
<1>2. PICK dv : /\ Depth(v, l, dv) /\ dv[l] = 0 /\ Jumping(v, l, dv)
                /\ quiet2 => Quiet(v, l, dv)
                /\ Clean(v, l, dv, out2)
  BY DEF Tidy
<1>. DEFINE e == [k \in 0 .. n - 1 + l |->
                    IF k < p THEN d[k]
                    ELSE IF k < p + l THEN d[p - 1] + dv[k - p + 1] ELSE d[k - l + 1]]
<1>3. Placed(w, n, p, v, l, u, d, dv, e)
  BY <1>1, <1>2 DEF Placed, Deeper
<1>. HIDE DEF e
<1>4. Depth(u, n - 1 + l, e) /\ e[n - 1 + l] = 0
  BY <1>3, PlacedDepth
<1>5. Jumping(u, n - 1 + l, e)
  <2>1. w[p].op # "hole" => Quiet(v, l, dv)
    BY <1>2
  <2>. QED  BY <1>1, <1>2, <1>3, <2>1, PlacedJumping
<1>6. quiet => Quiet(u, n - 1 + l, e)
  BY <1>1, <1>2, <1>3, PlacedQuiet
<1>7. Clean(u, n - 1 + l, e, out)
  BY <1>1, <1>2, <1>3, PlacedClean, PlacedCleanAlone
<1>. QED  BY <1>4, <1>5, <1>6, <1>7 DEF Tidy
==============================================================================
