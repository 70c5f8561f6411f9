--------------------------- MODULE ExecutorProofs ---------------------------
(***************************************************************************)
(* What holds of the interpreter for every set of programs whose labels    *)
(* are strictly ordered: its state keeps its type, the labels already      *)
(* passed are those up to upperLabelID in every function under way, and    *)
(* therefore no jump fails.                                                *)
(***************************************************************************)
EXTENDS Executor, SequenceTheorems, TLAPS

Code(f) == prog.func[f].code

HasLabel(instrs, label) == \E q \in Labels(instrs) : instrs[q].label = label

(* The suspended activations: the instruction that called is no label, and *)
(* the window of labels is right around it.                                *)
Suspended ==
  {a \in Activation :
     /\ a.then.kind # "entry" => a.cursor \in 1 .. Len(Code(a.ircode))
     /\ a.cursor \notin Labels(Code(a.ircode))
     /\ a.then.kind = "handle" => HasLabel(Code(a.ircode), a.then.label)
     /\ Window(Code(a.ircode), a.cursor, a.upperLabelID)}

(* The first call is entrypoint's.                                         *)
Bottom == saved # << >> => saved[1].then.kind = "entry"

OnlyEntry == \A i \in 2 .. Len(saved) : saved[i].then.kind # "entry"

Control ==
  /\ prog \in Programs
  /\ status \in {"running", "done"} \cup (Exceptions \ {"InvalidLabel"})
  /\ ircode \in DOMAIN prog.func
  /\ cursor \in 1 .. Len(code) + 1
  /\ upperLabelID \in Nat
  /\ saved \in Seq(Suspended)
  /\ Bottom
  /\ OnlyEntry
  /\ status = "running" => saved # << >>
  /\ status = "running" /\ cursor <= Len(code) => Window(code, cursor, upperLabelID)

AnyFrame == [0 .. 1 -> Val] \cup UNION {Frame(f) : f \in DOMAIN prog.func}

Frames ==
  /\ pile \in Seq(AnyFrame)
  /\ Len(pile) = Len(saved) + 1
  /\ pile[1] \in [0 .. 1 -> Val]
  /\ \A i \in 2 .. Len(pile) : pile[i] \in Frame(FunctionOf(i))

Object == [refs : 0 .. RefModulus - 1, class : Nat, field : Val]

Data ==
  /\ retval \in Val
  /\ parameters \in Seq(Val)
  /\ heap \in [DOMAIN heap -> Object]
  /\ DOMAIN heap \subseteq Obj
  /\ raisedError \in Val
  /\ raisedErrorAtomid \in Nat
  /\ raisedError # null => raisedErrorAtomid \in DOMAIN prog.dtor
  /\ unwindRaisedError \in BOOLEAN

IInv == Control /\ Frames /\ Data

-----------------------------------------------------------------------------
(* Programs.                                                               *)

LEMMA FunctionFacts ==
  ASSUME NEW p \in Programs, NEW f \in DOMAIN p.func
  PROVE  /\ IsFunction(p.func[f], DOMAIN p.func)
         /\ WellLabelled(p.func[f])
BY ExecutorAssumption DEF IsProgram

(* A label is an instruction with a positive id.                           *)
LEMMA LabelFacts ==
  ASSUME NEW p \in Programs, NEW f \in DOMAIN p.func, NEW q \in Labels(p.func[f].code)
  PROVE  /\ p.func[f].code \in Seq([op : Op, lvid : 0 .. p.func[f].framesize - 1, arg : Nat,
                      func : DOMAIN p.func \cup {NoFunc}, label : Nat, atomid : Nat])
         /\ Len(p.func[f].code) \in Nat
         /\ q \in 1 .. Len(p.func[f].code)
         /\ p.func[f].code[q].label \in Nat \ {0}
<1>1. IsFunction(p.func[f], DOMAIN p.func) /\ WellLabelled(p.func[f])
  BY FunctionFacts
<1>2. p.func[f].code \in Seq([op : Op, lvid : 0 .. p.func[f].framesize - 1, arg : Nat,
                      func : DOMAIN p.func \cup {NoFunc}, label : Nat, atomid : Nat])
  BY <1>1 DEF IsFunction
<1>3. q \in 1 .. Len(p.func[f].code) /\ Len(p.func[f].code) \in Nat
  BY <1>2, LenProperties DEF Labels
<1>4. p.func[f].code[q] \in
        [op : Op, lvid : 0 .. p.func[f].framesize - 1, arg : Nat,
         func : DOMAIN p.func \cup {NoFunc}, label : Nat, atomid : Nat]
  BY <1>2, <1>3, ElementOfSeq
<1>5. p.func[f].code[q].label \in Nat
  BY <1>4
<1>6. p.func[f].code[q].label > 0
  BY <1>1 DEF WellLabelled
<1>7. p.func[f].code[q].label \in Nat \ {0}
  BY <1>5, <1>6
<1> QED
  BY <1>2, <1>3, <1>7

(* gotoLabel finds the label: it is unique and lies on the side searched.  *)
LEMMA GotoFinds ==
  ASSUME NEW p \in Programs, NEW f \in DOMAIN p.func,
         NEW from \in Nat, from \notin Labels(p.func[f].code),
         NEW upper \in Nat, NEW label \in Nat,
         Window(p.func[f].code, from, upper),
         HasLabel(p.func[f].code, label)
  PROVE  \E q \in Labels(p.func[f].code) :
           /\ Candidates(p.func[f].code, from, upper, label) = {q}
           /\ Nearest(from, {q}) = q
           /\ Window(p.func[f].code, q + 1, label)
<1> DEFINE instrs == p.func[f].code
<1>1. PICK q \in Labels(instrs) : instrs[q].label = label
  BY DEF HasLabel
<1>2. \A r \in Labels(instrs) : r \in Nat /\ instrs[r].label \in Nat
  <2> SUFFICES ASSUME NEW r \in Labels(p.func[f].code)
               PROVE  r \in Nat /\ p.func[f].code[r].label \in Nat
    OBVIOUS
  <2>1. r \in 1 .. Len(p.func[f].code) /\ Len(p.func[f].code) \in Nat
    BY LabelFacts
  <2>2. p.func[f].code[r].label \in Nat \ {0}
    BY LabelFacts
  <2> QED  BY <2>1, <2>2
<1>3. \A r, s \in Labels(instrs) : r < s => instrs[r].label < instrs[s].label
  BY FunctionFacts DEF WellLabelled
<1>4. \A r \in Labels(instrs) : instrs[r].label = label => r = q
  BY <1>1, <1>2, <1>3
<1> HIDE DEF instrs
<1>5. Candidates(instrs, from, upper, label) = {q}
  <2>1. CASE label > upper
    <3>1. q > from
      BY <1>1, <1>2, <2>1 DEF Window, instrs
    <3> QED  BY <1>1, <1>4, <2>1, <3>1 DEF Candidates, LabelsAfter
  <2>2. CASE ~ (label > upper)
    <3>1. q < from
      BY <1>1, <1>2, <2>2 DEF Window, instrs
    <3> QED  BY <1>1, <1>4, <2>2, <3>1 DEF Candidates, LabelsBefore
  <2> QED  BY <2>1, <2>2
<1>6. Nearest(from, {q}) = q
  BY <1>2 DEF Nearest
<1>7. Window(instrs, q + 1, label)
  BY <1>1, <1>2, <1>3 DEF Window
<1> QED
  BY <1>5, <1>6, <1>7 DEF instrs

-----------------------------------------------------------------------------
(* Moves of the cursor.                                                    *)

(* The interpreter goes on in function f, with its window of labels.       *)
MovedIn(f) ==
  /\ status' = "running"
  /\ ircode' = f
  /\ cursor' \in 1 .. Len(Code(f)) + 1
  /\ upperLabelID' \in Nat
  /\ cursor' <= Len(Code(f)) => Window(Code(f), cursor', upperLabelID')

LEMMA GotoMoves ==
  ASSUME prog \in Programs, NEW f \in DOMAIN prog.func, status = "running",
         NEW from \in Nat, from \notin Labels(Code(f)),
         NEW upper \in Nat, NEW label \in Nat,
         Window(Code(f), from, upper), HasLabel(Code(f), label),
         GotoLabelIn(f, from, upper, label)
  PROVE  MovedIn(f)
<1>1. PICK q \in Labels(Code(f)) :
           /\ Candidates(Code(f), from, upper, label) = {q}
           /\ Nearest(from, {q}) = q
           /\ Window(Code(f), q + 1, label)
  BY GotoFinds DEF Code
<1>2. q \in 1 .. Len(Code(f)) /\ Len(Code(f)) \in Nat
  BY LabelFacts DEF Code
<1>3. /\ cursor' = q + 1
      /\ upperLabelID' = label
      /\ ircode' = f
      /\ status' = status
  BY <1>1 DEF GotoLabelIn, Code
<1> QED
  BY <1>1, <1>2, <1>3 DEF MovedIn

(* The instruction under way.                                              *)
LEMMA InstructionFacts ==
  ASSUME Control, status = "running", cursor <= Len(code)
  PROVE  /\ opr \in [op : Op, lvid : 0 .. prog.func[ircode].framesize - 1, arg : Nat,
                     func : DOMAIN prog.func \cup {NoFunc}, label : Nat, atomid : Nat]
         /\ prog.func[ircode].framesize \in Nat \ {0, 1}
         /\ cursor \in 1 .. Len(code) /\ Len(code) \in Nat
         /\ cursor \in Labels(code) <=> opr.op = "label"
         /\ opr.op = "call" => opr.func \in DOMAIN prog.func
         /\ opr.op \in {"store", "fieldset", "fieldget", "jz", "jnz"}
              => opr.arg \in 0 .. prog.func[ircode].framesize - 1
         /\ opr.op = "constant" => opr.arg \in Bit
         /\ opr.op \in JumpOps /\ ~ (opr.op = "raise" /\ opr.label = 0)
              => HasLabel(code, opr.label)
         /\ opr.op = "unref" => prog.dtor[opr.atomid] \in DOMAIN prog.func
<1>1. /\ prog \in Programs
      /\ ircode \in DOMAIN prog.func
      /\ cursor \in 1 .. Len(code) + 1
  BY DEF Control
<1>2. IsFunction(prog.func[ircode], DOMAIN prog.func) /\ WellLabelled(prog.func[ircode])
  BY <1>1, FunctionFacts
<1>3. code \in Seq([op : Op, lvid : 0 .. prog.func[ircode].framesize - 1, arg : Nat,
                    func : DOMAIN prog.func \cup {NoFunc}, label : Nat, atomid : Nat])
  BY <1>2 DEF IsFunction, code
<1>4. Len(code) \in Nat /\ DOMAIN code = 1 .. Len(code)
  BY <1>3, LenProperties
<1>5. cursor \in 1 .. Len(code)
  BY <1>1, <1>4
<1>6. opr \in [op : Op, lvid : 0 .. prog.func[ircode].framesize - 1, arg : Nat,
               func : DOMAIN prog.func \cup {NoFunc}, label : Nat, atomid : Nat]
  BY <1>3, <1>5, ElementOfSeq DEF opr
<1>7. cursor \in Labels(code) <=> opr.op = "label"
  BY <1>4, <1>5 DEF Labels, opr
<1>8. /\ opr.op = "call" => opr.func # NoFunc
      /\ opr.op \in {"store", "fieldset", "fieldget", "jz", "jnz"}
              => opr.arg \in 0 .. prog.func[ircode].framesize - 1
      /\ opr.op = "constant" => opr.arg \in Bit
  BY <1>2, <1>4, <1>5 DEF IsFunction, opr, code
<1>9. opr.op \in JumpOps /\ ~ (opr.op = "raise" /\ opr.label = 0)
              => HasLabel(code, opr.label)
  BY <1>2, <1>4, <1>5 DEF WellLabelled, HasLabel, opr, code
<1>10. opr.op = "unref" => prog.dtor[opr.atomid] \in DOMAIN prog.func
  <2>1. IsProgram(prog)
    BY <1>1, ExecutorAssumption
  <2> QED
    BY <2>1, <1>1, <1>4, <1>5 DEF IsProgram, opr, code
<1>11. prog.func[ircode].framesize \in Nat \ {0, 1}
  BY <1>2 DEF IsFunction
<1> QED
  BY <1>4, <1>5, <1>6, <1>7, <1>8, <1>9, <1>10, <1>11

-----------------------------------------------------------------------------
(* The control part of a step.                                             *)

LEMMA StayMoves ==
  ASSUME Control, status = "running", cursor <= Len(code), opr.op # "label", NextOpcode
  PROVE  MovedIn(ircode)
<1>1. /\ cursor \in 1 .. Len(code) /\ Len(code) \in Nat
      /\ cursor \notin Labels(code)
  BY InstructionFacts
<1>2. Window(code, cursor, upperLabelID) /\ upperLabelID \in Nat
  BY DEF Control
<1>3. \A q \in Labels(code) : q \in Nat
  <2> SUFFICES ASSUME NEW q \in Labels(code) PROVE q \in Nat
    OBVIOUS
  <2>1. q \in 1 .. Len(code)
    BY LabelFacts DEF Control, code
  <2> QED  BY <2>1, <1>1
<1>4. Window(code, cursor + 1, upperLabelID)
  BY <1>1, <1>2, <1>3 DEF Window
<1> QED
  BY <1>1, <1>2, <1>4 DEF NextOpcode, MovedIn, Code, code

LEMMA JumpMoves ==
  ASSUME Control, status = "running", cursor <= Len(code), opr.op \in JumpOps,
         ~ (opr.op = "raise" /\ opr.label = 0), gotoLabel(opr.label)
  PROVE  MovedIn(ircode)
<1>1. /\ cursor \in 1 .. Len(code) /\ Len(code) \in Nat
      /\ opr \in [op : Op, lvid : 0 .. prog.func[ircode].framesize - 1, arg : Nat,
                  func : DOMAIN prog.func \cup {NoFunc}, label : Nat, atomid : Nat]
      /\ cursor \in Labels(code) <=> opr.op = "label"
      /\ HasLabel(code, opr.label)
  BY InstructionFacts
<1>2. opr.label \in Nat /\ cursor \notin Labels(code) /\ cursor \in Nat
  BY <1>1 DEF JumpOps
<1>3. /\ Window(code, cursor, upperLabelID) /\ upperLabelID \in Nat
      /\ prog \in Programs /\ ircode \in DOMAIN prog.func
  BY DEF Control
<1> QED
  BY <1>1, <1>2, <1>3, GotoMoves DEF gotoLabel, Code, code

LEMMA LabelMoves ==
  ASSUME Control, Label
  PROVE  MovedIn(ircode)
<1>1. status = "running" /\ cursor <= Len(code) /\ opr.op = "label"
  BY DEF Label, Executing
<1>2. /\ cursor \in 1 .. Len(code) /\ Len(code) \in Nat
      /\ cursor \in Labels(code)
      /\ opr \in [op : Op, lvid : 0 .. prog.func[ircode].framesize - 1, arg : Nat,
                  func : DOMAIN prog.func \cup {NoFunc}, label : Nat, atomid : Nat]
  BY <1>1, InstructionFacts
<1>3. /\ Window(code, cursor, upperLabelID) /\ upperLabelID \in Nat
      /\ prog \in Programs /\ ircode \in DOMAIN prog.func
  BY <1>1 DEF Control
<1>4. \A q \in Labels(code) : q \in 1 .. Len(code) /\ code[q].label \in Nat
  <2> SUFFICES ASSUME NEW q \in Labels(code)
               PROVE  q \in 1 .. Len(code) /\ code[q].label \in Nat
    OBVIOUS
  <2>1. q \in 1 .. Len(code)
    BY <1>3, LabelFacts DEF code
  <2>2. code[q].label \in Nat \ {0}
    BY <1>3, LabelFacts DEF code
  <2> QED  BY <2>1, <2>2
<1>5. \A q \in Labels(code) : q > cursor => code[q].label > opr.label
  BY <1>2, <1>3, FunctionFacts DEF WellLabelled, code, opr
<1>6. opr.label > upperLabelID /\ opr.label \in Nat
  BY <1>2, <1>3, <1>4 DEF Window, opr
<1>7. upperLabelID' = opr.label /\ cursor' = cursor + 1 /\ ircode' = ircode /\ status' = status
  BY <1>6 DEF Label
<1>8. \A q \in Labels(code) : q < cursor => code[q].label <= opr.label
  BY <1>2, <1>3, <1>4, <1>6 DEF Window
<1>9. Window(code, cursor + 1, opr.label)
  <2>1. \A q \in Labels(code) : q < cursor + 1 => code[q].label <= opr.label
    <3> SUFFICES ASSUME NEW q \in Labels(code), q < cursor + 1
                 PROVE  code[q].label <= opr.label
      OBVIOUS
    <3>1. q \in 1 .. Len(code)
      BY <1>4
    <3>2. CASE q = cursor
      BY <3>2, <1>6 DEF opr
    <3>3. CASE q < cursor
      BY <3>3, <1>8
    <3> QED  BY <3>1, <3>2, <3>3, <1>2
  <2>2. \A q \in Labels(code) : q >= cursor + 1 => code[q].label > opr.label
    BY <1>2, <1>4, <1>5
  <2> QED  BY <2>1, <2>2 DEF Window
<1> QED
  BY <1>1, <1>2, <1>6, <1>7, <1>9 DEF MovedIn, Code, code

(* The control state is well after a move, a return or a throw.            *)
LEMMA SuspendedKept ==
  ASSUME prog' = prog
  PROVE  Suspended' = Suspended
BY DEF Suspended, Activation, Continuation, Code

LEMMA ControlAfterMove ==
  ASSUME Control, prog' = prog, NEW f \in DOMAIN prog.func, MovedIn(f),
         saved' \in Seq(Suspended), Bottom', OnlyEntry', saved' # << >>
  PROVE  Control'
<1>1. Suspended' = Suspended
  BY SuspendedKept
<1>2. prog' \in Programs
  BY DEF Control
<1>3. code' = Code(f)
  BY DEF MovedIn, code, Code
<1> QED
  BY <1>1, <1>2, <1>3 DEF Control, MovedIn

LEMMA ControlAfterThrow ==
  ASSUME Control, prog' = prog, saved' \in Seq(Suspended), Bottom', OnlyEntry',
         status' \in {"done"} \cup (Exceptions \ {"InvalidLabel"}),
         ircode' \in DOMAIN prog.func, cursor' \in 1 .. Len(Code(ircode')) + 1,
         upperLabelID' \in Nat
  PROVE  Control'
<1>1. Suspended' = Suspended
  BY SuspendedKept
<1>2. status' # "running"
  BY DEF Exceptions
<1>3. code' = Code(ircode')
  BY DEF code, Code
<1>4. prog' \in Programs
  BY DEF Control
<1> QED
  BY <1>1, <1>2, <1>3, <1>4 DEF Control

LEMMA ControlThrown ==
  ASSUME Control, prog' = prog, saved' = saved, NEW e \in Exceptions \ {"InvalidLabel"},
         Throw(e)
  PROVE  Control'
<1>1. saved' \in Seq(Suspended) /\ Bottom' /\ OnlyEntry'
  BY DEF Control, Bottom, OnlyEntry
<1>2. /\ ircode' \in DOMAIN prog.func /\ cursor' \in 1 .. Len(Code(ircode')) + 1
      /\ upperLabelID' \in Nat
  BY DEF Control, Throw, code, Code
<1> QED
  BY <1>1, <1>2, ControlAfterThrow DEF Throw

(* The functions that return stop searching labels.                        *)
LEMMA LeaveMoves ==
  ASSUME Control, status = "running", cursor <= Len(code), LeaveFunction
  PROVE  MovedIn(ircode)
<1>1. Len(code) \in Nat /\ upperLabelID \in Nat
  BY InstructionFacts DEF Control
<1> QED
  BY <1>1 DEF LeaveFunction, MovedIn, Code, code

-----------------------------------------------------------------------------
(* Calls and returns.                                                      *)

SavedNow(retlvid, then) ==
  [ircode |-> ircode, cursor |-> cursor, upperLabelID |-> upperLabelID,
   retlvid |-> retlvid, then |-> then]

LEMMA EnterControl ==
  ASSUME Control, status = "running", cursor <= Len(code), opr.op # "label",
         NEW f \in DOMAIN prog.func, NEW retlvid \in Nat, NEW params,
         NEW then \in Continuation, then.kind # "entry",
         then.kind = "handle" => HasLabel(code, then.label),
         Enter(f, retlvid, params, then)
  PROVE  Control'
<1>1. /\ cursor \in 1 .. Len(code) /\ Len(code) \in Nat
      /\ cursor \notin Labels(code)
  BY InstructionFacts
<1>2. /\ Window(code, cursor, upperLabelID) /\ upperLabelID \in Nat
      /\ prog \in Programs /\ ircode \in DOMAIN prog.func /\ saved \in Seq(Suspended)
      /\ saved # << >> /\ Bottom /\ OnlyEntry
  BY DEF Control
<1>3. SavedNow(retlvid, then) \in Suspended
  BY <1>1, <1>2 DEF SavedNow, Suspended, Activation, Code, code
<1>4. saved' = Append(saved, SavedNow(retlvid, then))
  BY DEF Enter, SavedNow
<1>5. /\ saved' \in Seq(Suspended) /\ saved' # << >>
      /\ Len(saved') = Len(saved) + 1
      /\ \A i \in 1 .. Len(saved) : saved'[i] = saved[i]
      /\ saved'[Len(saved) + 1] = SavedNow(retlvid, then)
  BY <1>2, <1>3, <1>4, AppendProperties
<1>10. Bottom' /\ OnlyEntry'
  <2>1. Len(saved) \in Nat \ {0}
    BY <1>2, EmptySeq
  <2>2. Bottom'
    BY <1>2, <1>5, <2>1 DEF Bottom
  <2>3. SavedNow(retlvid, then).then.kind # "entry"
    BY DEF SavedNow
  <2>4. ASSUME NEW i \in 2 .. Len(saved) + 1 PROVE saved'[i].then.kind # "entry"
    <3>1. CASE i = Len(saved) + 1
      BY <1>5, <2>3, <3>1
    <3>2. CASE i # Len(saved) + 1
      <4>1. i \in 2 .. Len(saved) /\ i \in 1 .. Len(saved)
        BY <2>1, <3>2
      <4> QED  BY <1>2, <1>5, <4>1 DEF OnlyEntry
    <3> QED  BY <3>1, <3>2
  <2> QED  BY <1>5, <2>2, <2>4 DEF OnlyEntry
<1>6. \A q \in Labels(Code(f)) : q \in Nat \ {0} /\ Code(f)[q].label \in Nat \ {0}
  <2> SUFFICES ASSUME NEW q \in Labels(Code(f))
               PROVE  q \in Nat \ {0} /\ Code(f)[q].label \in Nat \ {0}
    OBVIOUS
  <2>1. q \in 1 .. Len(Code(f)) /\ Len(Code(f)) \in Nat
    BY <1>2, LabelFacts DEF Code
  <2>2. Code(f)[q].label \in Nat \ {0}
    BY <1>2, LabelFacts DEF Code
  <2> QED  BY <2>1, <2>2
<1>7. Window(Code(f), 1, 0)
  BY <1>6 DEF Window
<1>8. Len(Code(f)) \in Nat
  BY <1>2, FunctionFacts, LenProperties DEF IsFunction, Code
<1>9. MovedIn(f)
  BY <1>7, <1>8 DEF Enter, MovedIn
<1> QED
  BY <1>5, <1>9, <1>10, ControlAfterMove DEF Enter

(* The activation a return takes up.                                       *)
LEMMA CallerFacts ==
  ASSUME Control, status = "running"
  PROVE  /\ Len(saved) \in Nat \ {0}
         /\ Caller \in Suspended
         /\ SubSeq(saved, 1, Len(saved) - 1) \in Seq(Suspended)
         /\ Len(SubSeq(saved, 1, Len(saved) - 1)) = Len(saved) - 1
         /\ \A i \in 1 .. Len(saved) - 1 : SubSeq(saved, 1, Len(saved) - 1)[i] = saved[i]
<1>1. saved \in Seq(Suspended) /\ saved # << >>
  BY DEF Control
<1>2. Len(saved) \in Nat \ {0}
  BY <1>1, EmptySeq
<1>3. \A i \in 1 .. Len(saved) - 1 : saved[i] \in Suspended
  BY <1>1, <1>2, ElementOfSeq
<1>4. Caller \in Suspended
  BY <1>1, <1>2, ElementOfSeq DEF Caller
<1>5. /\ SubSeq(saved, 1, Len(saved) - 1) \in Seq(Suspended)
      /\ Len(SubSeq(saved, 1, Len(saved) - 1)) =
           IF 1 <= Len(saved) - 1 THEN Len(saved) - 1 - 1 + 1 ELSE 0
      /\ \A i \in 1 .. Len(saved) - 1 - 1 + 1 :
           SubSeq(saved, 1, Len(saved) - 1)[i] = saved[1 + i - 1]
  BY <1>2, <1>3, SubSeqProperties
<1>6. /\ Len(SubSeq(saved, 1, Len(saved) - 1)) = Len(saved) - 1
      /\ \A i \in 1 .. Len(saved) - 1 : SubSeq(saved, 1, Len(saved) - 1)[i] = saved[i]
  <2> DEFINE n == Len(saved)
             t == SubSeq(saved, 1, Len(saved) - 1)
  <2>1. /\ n \in Nat \ {0}
        /\ Len(t) = IF 1 <= n - 1 THEN n - 1 - 1 + 1 ELSE 0
        /\ \A i \in 1 .. n - 1 - 1 + 1 : t[i] = saved[1 + i - 1]
    BY <1>2, <1>5
  <2> HIDE DEF n, t
  <2>2. Len(t) = n - 1
    BY <2>1
  <2>3. \A i \in 1 .. n - 1 : t[i] = saved[i]
    <3> SUFFICES ASSUME NEW i \in 1 .. n - 1 PROVE t[i] = saved[i]
      OBVIOUS
    <3>1. i \in 1 .. n - 1 - 1 + 1 /\ 1 + i - 1 = i
      BY <2>1
    <3> QED  BY <2>1, <3>1
  <2> QED  BY <2>2, <2>3 DEF n, t
<1> QED
  BY <1>2, <1>4, <1>5, <1>6

LEMMA SuspendedFacts ==
  ASSUME prog \in Programs, NEW a \in Suspended
  PROVE  /\ a \in Activation
         /\ a.ircode \in DOMAIN prog.func
         /\ Len(Code(a.ircode)) \in Nat
         /\ a.upperLabelID \in Nat /\ a.cursor \in Nat
         /\ a.cursor \notin Labels(Code(a.ircode))
         /\ Window(Code(a.ircode), a.cursor, a.upperLabelID)
         /\ a.then \in Continuation
         /\ a.then.kind # "entry" => a.cursor \in 1 .. Len(Code(a.ircode))
         /\ a.then.kind = "handle" => HasLabel(Code(a.ircode), a.then.label)
<1>1. a.ircode \in DOMAIN prog.func
  BY DEF Suspended, Activation
<1>2. Len(Code(a.ircode)) \in Nat
  BY <1>1, FunctionFacts, LenProperties DEF IsFunction, Code
<1> QED
  BY <1>1, <1>2 DEF Suspended, Activation

LEMMA ResumeMoves ==
  ASSUME Control, status = "running", ResumeCaller, UNCHANGED status,
         Caller.then.kind # "entry"
  PROVE  MovedIn(Caller.ircode)
<1>1. Caller \in Suspended /\ prog \in Programs
  BY CallerFacts DEF Control
<1> DEFINE a == Caller
<1> HIDE DEF a
<1>2. /\ Len(Code(a.ircode)) \in Nat
      /\ a.upperLabelID \in Nat
      /\ a.cursor \notin Labels(Code(a.ircode))
      /\ Window(Code(a.ircode), a.cursor, a.upperLabelID)
      /\ a.cursor \in 1 .. Len(Code(a.ircode))
      /\ a.ircode \in DOMAIN prog.func
  BY <1>1, SuspendedFacts DEF a
<1>3. \A q \in Labels(Code(a.ircode)) : q \in Nat
  <2> SUFFICES ASSUME NEW q \in Labels(Code(a.ircode)) PROVE q \in Nat
    OBVIOUS
  <2>1. q \in 1 .. Len(Code(a.ircode))
    BY <1>1, <1>2, LabelFacts DEF Code
  <2> QED  BY <2>1, <1>2
<1>4. Window(Code(a.ircode), a.cursor + 1, a.upperLabelID)
  BY <1>2, <1>3 DEF Window
<1>5. ircode' = a.ircode /\ cursor' = a.cursor + 1 /\ upperLabelID' = a.upperLabelID
  BY DEF ResumeCaller, a
<1>6. MovedIn(a.ircode)
  BY <1>2, <1>4, <1>5 DEF MovedIn
<1> QED  BY <1>6 DEF a

(* The call below a return that is not the first one's is still there.     *)
LEMMA ReturnBottom ==
  ASSUME Control, status = "running", Caller.then.kind # "entry",
         saved' = SubSeq(saved, 1, Len(saved) - 1)
  PROVE  saved' # << >> /\ Bottom' /\ OnlyEntry'
<1>1. /\ Len(saved) \in Nat \ {0}
      /\ saved' \in Seq(Suspended)
      /\ Len(saved') = Len(saved) - 1
      /\ \A i \in 1 .. Len(saved) - 1 : saved'[i] = saved[i]
  BY CallerFacts
<1>2. Bottom /\ OnlyEntry /\ saved # << >>
  BY DEF Control
<1>3. Len(saved) # 1
  BY <1>2 DEF Bottom, Caller
<1>4. saved' # << >>
  <2>1. Len(saved') # 0
    BY <1>1, <1>3
  <2> QED  BY <2>1, EmptySeq
<1>5. saved'[1] = saved[1]
  BY <1>1, <1>3
<1>6. ASSUME NEW i \in 2 .. Len(saved') PROVE saved'[i].then.kind # "entry"
  <2>1. i \in 2 .. Len(saved) /\ i \in 1 .. Len(saved) - 1
    BY <1>1
  <2> QED  BY <1>1, <1>2, <2>1 DEF OnlyEntry
<1> QED
  BY <1>2, <1>4, <1>5, <1>6 DEF Bottom, OnlyEntry

LEMMA ReturnControl ==
  ASSUME Control, NEW kinds, Returning(kinds), "entry" \notin kinds,
         \/ MovedIn(Caller.ircode)
         \/ /\ status' = "PointerMismatch"
            /\ ircode' = Caller.ircode
            /\ cursor' = Caller.cursor
            /\ upperLabelID' = Caller.upperLabelID
  PROVE  Control'
<1>1. status = "running" /\ prog' = prog /\ saved' = SubSeq(saved, 1, Len(saved) - 1)
      /\ Caller.then.kind # "entry"
  BY DEF Returning
<1>2. Caller \in Suspended /\ saved' \in Seq(Suspended) /\ prog \in Programs
  BY <1>1, CallerFacts DEF Control
<1>3. /\ Caller.ircode \in DOMAIN prog.func
      /\ Caller.cursor \in 1 .. Len(Code(Caller.ircode)) /\ Len(Code(Caller.ircode)) \in Nat
      /\ Caller.upperLabelID \in Nat
  BY <1>1, <1>2, SuspendedFacts
<1>6. saved' # << >> /\ Bottom' /\ OnlyEntry'
  BY <1>1, ReturnBottom
<1>4. CASE MovedIn(Caller.ircode)
  BY <1>1, <1>2, <1>3, <1>4, <1>6, ControlAfterMove
<1>5. CASE /\ status' = "PointerMismatch"
           /\ ircode' = Caller.ircode
           /\ cursor' = Caller.cursor
           /\ upperLabelID' = Caller.upperLabelID
  <2>1. /\ status' \in {"done"} \cup (Exceptions \ {"InvalidLabel"})
        /\ ircode' \in DOMAIN prog.func
        /\ cursor' \in 1 .. Len(Code(ircode')) + 1
        /\ upperLabelID' \in Nat
    BY <1>3, <1>5 DEF Exceptions
  <2> QED
    BY <1>1, <1>2, <1>6, <2>1, ControlAfterThrow
<1> QED
  BY <1>4, <1>5

-----------------------------------------------------------------------------
(* The frames.                                                             *)

LEMMA FrameFacts ==
  ASSUME Control, Frames, status = "running"
  PROVE  /\ Len(pile) \in Nat /\ Len(pile) > 1
         /\ registers = pile[Len(pile)]
         /\ registers \in Frame(ircode)
         /\ DOMAIN registers = 0 .. prog.func[ircode].framesize - 1
         /\ \A r \in 0 .. prog.func[ircode].framesize - 1 : registers[r] \in Val
<1>1. /\ saved \in Seq(Suspended) /\ saved # << >>
  BY DEF Control
<1>2. Len(saved) \in Nat \ {0}
  BY <1>1, EmptySeq
<1>3. Len(pile) \in Nat /\ Len(pile) > 1
  BY <1>2 DEF Frames
<1>4. registers \in Frame(ircode)
  BY <1>3 DEF Frames, registers, FunctionOf
<1> QED
  BY <1>3, <1>4 DEF registers, Frame

(* One value is written in the running function's frame.                   *)
LEMMA FramesAfterSet ==
  ASSUME Control, Frames, status = "running", NEW r, NEW v \in Val,
         pile' = SetRegister(r, v), UNCHANGED << prog, ircode, saved >>
  PROVE  Frames'
<1>1. /\ Len(pile) \in Nat /\ Len(pile) > 1
      /\ registers = pile[Len(pile)]
      /\ registers \in Frame(ircode)
      /\ DOMAIN registers = 0 .. prog.func[ircode].framesize - 1
  BY FrameFacts
<1>2. AnyFrame' = AnyFrame
  BY DEF AnyFrame, Frame
<1>3. ircode \in DOMAIN prog.func
  BY DEF Control
<1>4. CASE r \notin DOMAIN registers
  <2>1. pile' = pile
    BY <1>4 DEF SetRegister
  <2> QED  BY <2>1, <1>2 DEF Frames, FunctionOf, Frame
<1>5. CASE r \in DOMAIN registers
  <2> DEFINE frame == [registers EXCEPT ![r] = v]
  <2>1. frame \in Frame(ircode)
    BY <1>1, <1>5 DEF Frame
  <2>2. frame \in AnyFrame
    BY <2>1, <1>3 DEF AnyFrame
  <2>3. pile' = [pile EXCEPT ![Len(pile)] = frame]
    BY <1>1, <1>5 DEF SetRegister
  <2> HIDE DEF frame
  <2>4. pile \in Seq(AnyFrame)
    BY DEF Frames
  <2>5. /\ pile' \in Seq(AnyFrame)
        /\ Len(pile') = Len(pile)
        /\ \A j \in 1 .. Len(pile) : pile'[j] = IF j = Len(pile) THEN frame ELSE pile[j]
    BY <1>1, <2>2, <2>3, <2>4, ExceptSeq
  <2>6. \A i \in 2 .. Len(pile') : pile'[i] \in Frame(FunctionOf(i))
    BY <1>1, <2>1, <2>5 DEF Frames, FunctionOf
  <2>7. pile'[1] \in [0 .. 1 -> Val]
    BY <1>1, <2>5 DEF Frames
  <2>8. \A i \in 2 .. Len(pile') : Frame(FunctionOf(i))' = Frame(FunctionOf(i))
    BY <2>5 DEF Frame, FunctionOf
  <2> QED
    BY <1>2, <2>5, <2>6, <2>7, <2>8 DEF Frames
<1> QED
  BY <1>4, <1>5

LEMMA FramesKept ==
  ASSUME Control, Frames, UNCHANGED << prog, ircode, saved, pile >>
  PROVE  Frames'
BY DEF Frames, AnyFrame, Frame, FunctionOf

(* A new frame, for the function called.                                   *)
LEMMA FreshFrameType ==
  ASSUME Control, NEW f \in DOMAIN prog.func, NEW params \in Seq(Val)
  PROVE  FreshFrame(f, params) \in Frame(f)
<1>1. DOMAIN params = 1 .. Len(params) /\ \A i \in DOMAIN params : params[i] \in Val
  BY LenProperties, ElementOfSeq
<1>2. null \in Val /\ Undef \in Val
  BY DEF null, Val, Bit
<1>3. \A r \in 0 .. prog.func[f].framesize - 1 :
        (IF r = 0 THEN null
         ELSE IF r - 1 \in DOMAIN params THEN params[r - 1] ELSE Undef) \in Val
  BY <1>1, <1>2
<1> QED
  BY <1>3 DEF FreshFrame, Frame

LEMMA FramesAfterEnter ==
  ASSUME Control, Frames, status = "running", NEW f \in DOMAIN prog.func,
         NEW retlvid, NEW params \in Seq(Val), NEW then, Enter(f, retlvid, params, then)
  PROVE  Frames'
<1>1. /\ Len(pile) \in Nat /\ Len(pile) > 1
  BY FrameFacts
<1>2. AnyFrame' = AnyFrame /\ prog' = prog
  BY DEF AnyFrame, Frame, Enter
<1> DEFINE frame == FreshFrame(f, params)
<1>3. frame \in Frame(f) /\ frame \in AnyFrame
  BY FreshFrameType DEF AnyFrame
<1>4. pile' = Append(pile, frame) /\ ircode' = f
  BY DEF Enter
<1> HIDE DEF frame
<1>5. pile \in Seq(AnyFrame) /\ Len(pile) = Len(saved) + 1
  BY DEF Frames
<1>6. /\ pile' \in Seq(AnyFrame)
      /\ Len(pile') = Len(pile) + 1
      /\ \A i \in 1 .. Len(pile) : pile'[i] = pile[i]
      /\ pile'[Len(pile) + 1] = frame
  BY <1>3, <1>4, <1>5, AppendProperties
<1> DEFINE a == SavedNow(retlvid, then)
<1>7. saved' = Append(saved, a)
  BY DEF Enter, SavedNow
<1>8. a.ircode = ircode
  BY DEF SavedNow
<1> HIDE DEF a
<1>9. saved \in Seq(Suspended \cup {a}) /\ a \in Suspended \cup {a}
  <2>1. saved \in Seq(Suspended)
    BY DEF Control
  <2> QED  BY <2>1, SeqMonotonic
<1>10. /\ Len(saved') = Len(saved) + 1
       /\ \A i \in 1 .. Len(saved) : saved'[i] = saved[i]
       /\ saved'[Len(saved) + 1] = a
  BY <1>7, <1>9, AppendProperties
<1>11. ASSUME NEW i \in 2 .. Len(pile')
       PROVE  pile'[i] \in Frame(FunctionOf(i))'
  <2>1. CASE i = Len(pile')
    BY <1>1, <1>2, <1>3, <1>4, <1>6, <2>1 DEF FunctionOf, Frame
  <2>2. CASE i = Len(pile)
    <3>1. FunctionOf(i)' = ircode
      BY <1>1, <1>5, <1>6, <1>8, <1>10, <2>2 DEF FunctionOf
    <3>2. pile[i] \in Frame(ircode)
      BY <1>1, <2>2 DEF Frames, FunctionOf
    <3> QED  BY <1>1, <1>2, <1>6, <2>2, <3>1, <3>2 DEF Frame
  <2>3. CASE i # Len(pile') /\ i # Len(pile)
    <3>1. i \in 2 .. Len(pile) - 1
      BY <1>1, <1>6, <2>3
    <3>2. FunctionOf(i)' = saved[i].ircode
      BY <1>1, <1>5, <1>6, <1>10, <3>1 DEF FunctionOf
    <3>3. pile[i] \in Frame(saved[i].ircode)
      BY <1>1, <3>1 DEF Frames, FunctionOf
    <3> QED  BY <1>1, <1>2, <1>6, <3>1, <3>2, <3>3 DEF Frame
  <2> QED  BY <2>1, <2>2, <2>3
<1>12. pile'[1] \in [0 .. 1 -> Val]
  BY <1>1, <1>6 DEF Frames
<1> QED
  BY <1>2, <1>5, <1>6, <1>10, <1>11, <1>12 DEF Frames

(* The callee's frame is gone and the caller has the result.               *)
LEMMA FramesAfterReturn ==
  ASSUME Control, Frames, retval \in Val, NEW kinds, Returning(kinds),
         ircode' = Caller.ircode \/ Len(saved) = 1
  PROVE  Frames'
<1> DEFINE n == Len(pile) - 1
           below == SubSeq(pile, 1, n)
<1>1. status = "running" /\ prog' = prog
  BY DEF Returning
<1>2. Len(pile) \in Nat /\ n \in Nat \ {0} /\ n = Len(saved)
  BY <1>1, FrameFacts DEF Frames
<1>3. AnyFrame' = AnyFrame
  BY <1>1 DEF AnyFrame, Frame
<1>4. pile \in Seq(AnyFrame) /\ \A i \in 1 .. n : pile[i] \in AnyFrame
  BY <1>2, ElementOfSeq DEF Frames
<1>5. /\ below \in Seq(AnyFrame)
      /\ Len(below) = n
      /\ \A i \in 1 .. n : below[i] = pile[i]
  <2>1. /\ below \in Seq(AnyFrame)
        /\ Len(below) = IF 1 <= n THEN n - 1 + 1 ELSE 0
        /\ \A i \in 1 .. n - 1 + 1 : below[i] = pile[1 + i - 1]
    BY <1>2, <1>4, SubSeqProperties
  <2> HIDE DEF below, n
  <2>2. ASSUME NEW i \in 1 .. n PROVE below[i] = pile[i]
    <3>1. i \in 1 .. n - 1 + 1 /\ 1 + i - 1 = i
      BY <1>2
    <3> QED  BY <2>1, <3>1
  <2> QED  BY <1>2, <2>1, <2>2
<1> DEFINE top == [pile[n] EXCEPT ![Caller.retlvid] = retval]
<1>6. pile' = [below EXCEPT ![n] = top]
  <2>1. pile' = [below EXCEPT ![Len(below)] = [below[Len(below)] EXCEPT
                                                 ![Caller.retlvid] = retval]]
    BY DEF Returning
  <2>2. Len(below) = n /\ below[n] = pile[n]
    BY <1>2, <1>5
  <2> HIDE DEF below, n
  <2> QED  BY <2>1, <2>2
<1>7. \A S : pile[n] \in [S -> Val] => top \in [S -> Val]
  OBVIOUS
<1> HIDE DEF below, top
<1>8. /\ n > 1 => pile[n] \in Frame(Caller.ircode)
      /\ n = 1 => pile[n] \in [0 .. 1 -> Val]
  BY <1>2 DEF Frames, FunctionOf, Caller
<1> HIDE DEF n
<1>9. top \in AnyFrame /\ (n = 1 => top \in [0 .. 1 -> Val])
                      /\ (n > 1 => top \in Frame(Caller.ircode))
  <2>1. CASE n = 1
    <3>1. top \in [0 .. 1 -> Val]
      BY <1>7, <1>8, <2>1
    <3> QED  BY <2>1, <3>1 DEF AnyFrame
  <2>2. CASE n > 1
    <3>1. Caller \in Suspended /\ prog \in Programs
      BY <1>1, CallerFacts DEF Control
    <3>2. Caller.ircode \in DOMAIN prog.func
      BY <3>1, SuspendedFacts
    <3>3. top \in Frame(Caller.ircode)
      BY <1>7, <1>8, <2>2 DEF Frame
    <3> QED  BY <2>2, <3>2, <3>3 DEF AnyFrame
  <2> QED  BY <1>2, <2>1, <2>2
<1>10. /\ pile' \in Seq(AnyFrame)
       /\ Len(pile') = n
       /\ \A j \in 1 .. n : pile'[j] = IF j = n THEN top ELSE below[j]
  BY <1>2, <1>5, <1>6, <1>9, ExceptSeq
<1>11. /\ Len(saved') = n - 1
       /\ \A i \in 1 .. n - 1 : saved'[i] = saved[i]
  BY <1>1, <1>2, CallerFacts DEF Returning
<1>12. pile'[1] \in [0 .. 1 -> Val]
  <2>1. CASE n = 1
    BY <1>9, <1>10, <2>1
  <2>2. CASE n > 1
    BY <1>2, <1>5, <1>10, <2>2 DEF Frames
  <2> QED  BY <1>2, <2>1, <2>2
<1>13. ASSUME NEW i \in 2 .. Len(pile')
       PROVE  pile'[i] \in Frame(FunctionOf(i))'
  <2>0. i \in 2 .. n /\ n > 1
    BY <1>2, <1>10
  <2>1. CASE i = n
    <3>1. FunctionOf(i)' = Caller.ircode
      BY <1>2, <1>10, <2>0, <2>1 DEF FunctionOf
    <3> QED  BY <1>1, <1>2, <1>9, <1>10, <2>0, <2>1, <3>1 DEF Frame
  <2>2. CASE i < n
    <3>1. FunctionOf(i)' = saved[i].ircode
      BY <1>2, <1>10, <1>11, <2>0, <2>2 DEF FunctionOf
    <3>2. pile[i] \in Frame(saved[i].ircode)
      BY <1>2, <2>0, <2>2 DEF Frames, FunctionOf, n
    <3>3. pile'[i] = pile[i]
      BY <1>2, <1>5, <1>10, <2>0, <2>2
    <3> QED  BY <1>1, <3>1, <3>2, <3>3 DEF Frame
  <2> QED  BY <1>2, <2>0, <2>1, <2>2
<1> QED
  BY <1>2, <1>3, <1>10, <1>11, <1>12, <1>13 DEF Frames

-----------------------------------------------------------------------------
(* Values.                                                                 *)

LEMMA ConstantFacts ==
  /\ 0 \in Val /\ 1 \in Val /\ null \in Val /\ Undef \in Val
  /\ Bit \subseteq Val /\ Obj \subseteq Val
  /\ RefModulus \in Nat \ {0}
  /\ \A o \in Obj : o \notin Bit
BY ExecutorAssumption DEF Val, Bit, null

LEMMA ModRange ==
  ASSUME NEW n \in Nat
  PROVE  n % RefModulus \in 0 .. RefModulus - 1
BY ConstantFacts

(* An object of the heap changes, comes or goes.                           *)
LEMMA HeapFacts ==
  ASSUME Data, NEW o \in DOMAIN heap
  PROVE  /\ heap[o] \in Object
         /\ heap[o].refs \in 0 .. RefModulus - 1 /\ heap[o].class \in Nat
         /\ heap[o].field \in Val
         /\ o \in Val
BY ConstantFacts DEF Data, Object

LEMMA HeapAfterForget ==
  ASSUME Data, NEW o, Forget(o)
  PROVE  heap' \in [DOMAIN heap' -> Object] /\ DOMAIN heap' \subseteq Obj
<1>1. heap' = [x \in DOMAIN heap \ {o} |-> heap[x]]
  BY DEF Forget
<1>2. \A x \in DOMAIN heap \ {o} : heap[x] \in Object
  BY HeapFacts
<1>3. DOMAIN heap' = DOMAIN heap \ {o} /\ heap' \in [DOMAIN heap \ {o} -> Object]
  BY <1>1, <1>2
<1> QED
  BY <1>3 DEF Data

LEMMA HeapAfterSet ==
  ASSUME Data, NEW o \in DOMAIN heap, NEW v \in Object, heap' = [heap EXCEPT ![o] = v]
  PROVE  heap' \in [DOMAIN heap' -> Object] /\ DOMAIN heap' \subseteq Obj
BY DEF Data

LEMMA RefsAfter ==
  ASSUME Data, NEW o \in DOMAIN heap, NEW n \in Nat,
         heap' = [heap EXCEPT ![o].refs = n % RefModulus]
  PROVE  heap' \in [DOMAIN heap' -> Object] /\ DOMAIN heap' \subseteq Obj
<1> DEFINE v == [heap[o] EXCEPT !.refs = n % RefModulus]
<1>1. v \in Object
  BY HeapFacts, ModRange DEF Object
<1>2. heap' = [heap EXCEPT ![o] = v]
  OBVIOUS
<1> HIDE DEF v
<1> QED
  BY <1>1, <1>2, HeapAfterSet

-----------------------------------------------------------------------------
(* The actions.                                                            *)

LEMMA MoveControl ==
  ASSUME Control, status = "running", MovedIn(ircode), UNCHANGED << prog, saved >>
  PROVE  Control' /\ ircode' = ircode
<1>1. /\ ircode \in DOMAIN prog.func
      /\ saved' \in Seq(Suspended) /\ Bottom' /\ OnlyEntry' /\ saved' # << >>
  BY DEF Control, Bottom, OnlyEntry
<1>2. Control'
  BY <1>1, ControlAfterMove
<1> QED
  BY <1>2 DEF MovedIn

LEMMA StayControl ==
  ASSUME Control, status = "running", cursor <= Len(code), opr.op # "label",
         NextOpcode, UNCHANGED << prog, saved >>
  PROVE  Control' /\ ircode' = ircode
BY StayMoves, MoveControl

LEMMA LabelIInv == ASSUME IInv, Label PROVE IInv'
<1>1. status = "running" /\ MovedIn(ircode)
  BY LabelMoves DEF IInv, Label, Executing
<1>2. Control' /\ ircode' = ircode
  BY <1>1, MoveControl DEF IInv, Label
<1>3. Frames'
  BY <1>2, FramesKept DEF IInv, Label
<1>4. Data'
  BY DEF IInv, Label, Data, errors
<1> QED  BY <1>2, <1>3, <1>4 DEF IInv

LEMMA JmpIInv == ASSUME IInv, Jmp PROVE IInv'
<1>1. status = "running" /\ cursor <= Len(code) /\ opr.op = "jmp"
  BY DEF Jmp, Executing
<1>2. MovedIn(ircode)
  BY <1>1, JumpMoves DEF IInv, Jmp, JumpOps
<1>3. Control' /\ ircode' = ircode
  BY <1>1, <1>2, MoveControl DEF IInv, Jmp
<1>4. Frames'
  BY <1>3, FramesKept DEF IInv, Jmp
<1>5. Data'
  BY DEF IInv, Jmp, Data, errors
<1> QED  BY <1>3, <1>4, <1>5 DEF IInv

LEMMA JumpIfIInv ==
  ASSUME IInv, NEW op \in {"jz", "jnz"}, NEW taken, NEW v \in Val, JumpIf(op, taken, v)
  PROVE  IInv'
<1>1. status = "running" /\ cursor <= Len(code) /\ opr.op = op
  BY DEF JumpIf, Executing
<1>2. Control /\ Frames /\ Data /\ UNCHANGED << prog, saved >>
  BY DEF IInv, JumpIf
<1>3. Data'
  BY DEF IInv, JumpIf, Data, errors
<1>4. CASE taken
  <2>1. MovedIn(ircode)
    BY <1>1, <1>2, <1>4, JumpMoves DEF JumpIf, JumpOps
  <2>2. Control' /\ ircode' = ircode
    BY <1>1, <1>2, <2>1, MoveControl
  <2>3. Frames'
    BY <1>1, <1>2, <1>4, <2>2, FramesAfterSet DEF JumpIf
  <2> QED  BY <1>3, <2>2, <2>3 DEF IInv
<1>5. CASE ~ taken
  <2>1. NextOpcode /\ pile' = pile
    BY <1>5 DEF JumpIf
  <2>2. Control' /\ ircode' = ircode
    BY <1>1, <1>2, <2>1, StayControl
  <2>3. Frames'
    BY <1>2, <2>1, <2>2, FramesKept
  <2> QED  BY <1>3, <2>2, <2>3 DEF IInv
<1> QED  BY <1>4, <1>5

(* A register of the frame is set and the next instruction follows.        *)
LEMMA AssignIInv ==
  ASSUME IInv, NEW op, op # "label", NEW values \in SUBSET Val, Assign(op, values),
         parameters' \in Seq(Val)
  PROVE  IInv'
<1>1. status = "running" /\ cursor <= Len(code) /\ opr.op # "label"
  BY DEF Assign, Executing
<1>2. Control /\ Frames /\ Data /\ UNCHANGED << prog, saved >> /\ NextOpcode
  BY DEF IInv, Assign
<1>3. Control' /\ ircode' = ircode
  BY <1>1, <1>2, StayControl
<1>4. PICK v \in values : pile' = SetRegister(opr.lvid, v)
  BY DEF Assign
<1>5. Frames'
  BY <1>1, <1>2, <1>3, <1>4, FramesAfterSet
<1>6. Data'
  BY DEF IInv, Assign, Data, errors
<1> QED  BY <1>3, <1>5, <1>6 DEF IInv

(* What a register of the running function holds.                          *)
LEMMA OperandFacts ==
  ASSUME IInv, status = "running", cursor <= Len(code)
  PROVE  /\ registers[opr.lvid] \in Val
         /\ opr.op \in {"store", "fieldset", "fieldget", "jz", "jnz"}
              => registers[opr.arg] \in Val
<1>1. Control /\ Frames
  BY DEF IInv
<1>2. \A r \in 0 .. prog.func[ircode].framesize - 1 : registers[r] \in Val
  BY <1>1, FrameFacts
<1>3. /\ opr \in [op : Op, lvid : 0 .. prog.func[ircode].framesize - 1, arg : Nat,
                  func : DOMAIN prog.func \cup {NoFunc}, label : Nat, atomid : Nat]
      /\ opr.op \in {"store", "fieldset", "fieldget", "jz", "jnz"}
              => opr.arg \in 0 .. prog.func[ircode].framesize - 1
  BY <1>1, InstructionFacts
<1> QED  BY <1>2, <1>3

LEMMA StoreIInv == ASSUME IInv, Store PROVE IInv'
<1>1. status = "running" /\ cursor <= Len(code) /\ opr.op = "store"
  BY DEF Store, Assign, Executing
<1>2. registers[opr.arg] \in Val
  BY <1>1, OperandFacts
<1>3. Assign("store", {registers[opr.arg]}) /\ parameters' \in Seq(Val)
  BY DEF Store, IInv, Data
<1> QED  BY <1>2, <1>3, AssignIInv

LEMMA ConstantIInv == ASSUME IInv, Constant PROVE IInv'
<1>1. status = "running" /\ cursor <= Len(code) /\ opr.op = "constant"
  BY DEF Constant, Assign, Executing
<1>2. opr.arg \in Bit
  BY <1>1, InstructionFacts DEF IInv
<1>3. {opr.arg} \in SUBSET Val
  BY <1>2, ConstantFacts
<1>4. Assign("constant", {opr.arg}) /\ parameters' \in Seq(Val)
  BY DEF Constant, IInv, Data
<1> QED  BY <1>3, <1>4, AssignIInv

LEMMA ComputeIInv == ASSUME IInv, Compute PROVE IInv'
<1>1. Assign("compute", Bit) /\ parameters' \in Seq(Val)
  BY DEF Compute, IInv, Data
<1> QED  BY <1>1, AssignIInv, ConstantFacts

LEMMA IntrinsicIInv == ASSUME IInv, Intrinsic PROVE IInv'
<1>1. Assign("intrinsic", Bit) /\ parameters' \in Seq(Val)
  BY EmptySeq DEF Intrinsic
<1> QED  BY <1>1, AssignIInv, ConstantFacts

LEMMA OpAssertIInv == ASSUME IInv, OpAssert PROVE IInv'
<1>1. status = "running" /\ cursor <= Len(code) /\ opr.op = "opassert"
  BY DEF OpAssert, Executing
<1>2. Control /\ Frames /\ UNCHANGED << prog, saved, pile >>
  BY DEF IInv, OpAssert
<1>3. Control' /\ ircode' = ircode
  <2>1. CASE registers[opr.lvid] = 0
    <3>1. Throw("Assert") /\ "Assert" \in Exceptions \ {"InvalidLabel"}
      BY <2>1 DEF OpAssert, Exceptions
    <3> QED  BY <1>2, <3>1, ControlThrown DEF Throw
  <2>2. CASE registers[opr.lvid] # 0
    BY <1>1, <1>2, <2>2, StayControl DEF OpAssert
  <2> QED  BY <2>1, <2>2
<1>4. Frames'
  BY <1>2, <1>3, FramesKept
<1>5. Data'
  BY DEF IInv, OpAssert, Data, errors
<1> QED  BY <1>3, <1>4, <1>5 DEF IInv

LEMMA PushIInv == ASSUME IInv, Push PROVE IInv'
<1>1. status = "running" /\ cursor <= Len(code) /\ opr.op = "push"
  BY DEF Push, Executing
<1>2. Control /\ Frames /\ UNCHANGED << prog, saved, pile >> /\ NextOpcode
  BY DEF IInv, Push
<1>3. Control' /\ ircode' = ircode
  BY <1>1, <1>2, StayControl
<1>4. Frames'
  BY <1>2, <1>3, FramesKept
<1>5. parameters' \in Seq(Val)
  BY <1>1, OperandFacts, AppendProperties DEF Push, IInv, Data
<1>6. Data'
  BY <1>5 DEF IInv, Push, Data, errors
<1> QED  BY <1>3, <1>4, <1>6 DEF IInv

LEMMA ClassFacts ==
  ASSUME Control, status = "running", cursor <= Len(code), opr.op = "raise"
  PROVE  opr.atomid \in DOMAIN prog.dtor /\ opr.atomid \in Nat
<1>1. prog \in Programs /\ ircode \in DOMAIN prog.func
  BY DEF Control
<1>2. /\ cursor \in 1 .. Len(code)
      /\ opr \in [op : Op, lvid : 0 .. prog.func[ircode].framesize - 1, arg : Nat,
                  func : DOMAIN prog.func \cup {NoFunc}, label : Nat, atomid : Nat]
  BY InstructionFacts
<1>3. code \in Seq([op : Op, lvid : 0 .. prog.func[ircode].framesize - 1, arg : Nat,
                    func : DOMAIN prog.func \cup {NoFunc}, label : Nat, atomid : Nat])
  BY <1>1, FunctionFacts DEF IsFunction, code
<1>4. cursor \in DOMAIN code
  BY <1>2, <1>3, LenProperties
<1>5. IsProgram(prog)
  BY <1>1, ExecutorAssumption
<1>6. opr.atomid \in DOMAIN prog.dtor
  BY <1>1, <1>4, <1>5 DEF IsProgram, opr, code
<1> QED  BY <1>2, <1>6

LEMMA DtorFacts ==
  ASSUME Control, NEW c \in DOMAIN prog.dtor, prog.dtor[c] # NoFunc
  PROVE  prog.dtor[c] \in DOMAIN prog.func
BY ExecutorAssumption DEF Control, IsProgram

LEMMA ThenType ==
  ASSUME NEW kind \in {"entry", "resume", "destroy", "handle"}, NEW object \in Val,
         NEW class \in Nat, NEW label \in Nat
  PROVE  Then(kind, object, class, label) \in Continuation
BY DEF Then, Continuation

LEMMA CallIInv == ASSUME IInv, Call PROVE IInv'
<1> DEFINE then == Then("resume", null, 0, 0)
<1>1. /\ status = "running" /\ cursor <= Len(code) /\ opr.op = "call"
      /\ Enter(opr.func, opr.lvid, parameters, then)
  BY DEF Call, Executing
<1>2. Control /\ Frames /\ Data
  BY DEF IInv
<1>3. opr.func \in DOMAIN prog.func /\ opr.lvid \in Nat
  BY <1>1, <1>2, InstructionFacts
<1>4. then \in Continuation /\ then.kind # "handle" /\ then.kind # "entry"
  BY ThenType, ConstantFacts DEF Then
<1> HIDE DEF then
<1>5. Control'
  BY <1>1, <1>2, <1>3, <1>4, EnterControl
<1>6. parameters \in Seq(Val)
  BY <1>2 DEF Data
<1>7. Frames'
  BY <1>1, <1>2, <1>3, <1>6, FramesAfterEnter
<1>8. Data'
  BY <1>1, <1>2, ConstantFacts, EmptySeq DEF Call, Enter, Data, errors
<1> QED  BY <1>5, <1>7, <1>8 DEF IInv

LEMMA RetIInv == ASSUME IInv, Ret PROVE IInv'
<1>1. status = "running" /\ cursor <= Len(code) /\ LeaveFunction
  BY DEF Ret, Executing
<1>2. Control /\ Frames /\ Data /\ UNCHANGED << prog, saved, pile >>
  BY DEF IInv, Ret
<1>3. Control' /\ ircode' = ircode
  BY <1>1, <1>2, LeaveMoves, MoveControl
<1>4. Frames'
  BY <1>2, <1>3, FramesKept
<1>5. Data'
  BY <1>1, OperandFacts DEF Ret, IInv, Data, errors
<1> QED  BY <1>3, <1>4, <1>5 DEF IInv

LEMMA ReturnIInv == ASSUME IInv, Return PROVE IInv'
<1>1. /\ Returning({"resume"}) /\ ResumeCaller /\ UNCHANGED status
      /\ status = "running" /\ Caller.then.kind # "entry"
  BY DEF Return, Returning
<1>2. Control /\ Frames /\ Data
  BY DEF IInv
<1>3. MovedIn(Caller.ircode)
  BY <1>1, <1>2, ResumeMoves
<1>4. Control'
  BY <1>1, <1>2, <1>3, ReturnControl
<1>5. Frames'
  BY <1>1, <1>2, <1>3, FramesAfterReturn DEF Data, MovedIn
<1>6. Data'
  BY <1>2 DEF Return, Returning, Data
<1> QED  BY <1>4, <1>5, <1>6 DEF IInv

(* Only the first call is entrypoint's.                                    *)
LEMMA EntryFacts ==
  ASSUME Control, status = "running", Caller.then.kind = "entry", OnlyEntry
  PROVE  Len(saved) = 1
<1>1. Len(saved) \in Nat \ {0}
  BY CallerFacts
<1>2. ASSUME Len(saved) # 1 PROVE FALSE
  <2> DEFINE n == Len(saved)
  <2>1. n \in Nat \ {0} /\ n # 1
    BY <1>1, <1>2
  <2>2. \A i \in 2 .. n : saved[i].then.kind # "entry"
    BY DEF OnlyEntry
  <2>3. saved[n].then.kind = "entry"
    BY DEF Caller
  <2> HIDE DEF n
  <2>4. n \in 2 .. n
    BY <2>1
  <2> QED  BY <2>2, <2>3, <2>4
<1> QED  BY <1>2

LEMMA ReturnFromEntryIInv == ASSUME IInv, ReturnFromEntry PROVE IInv'
<1>1. /\ Returning({"entry"}) /\ status = "running" /\ Caller.then.kind = "entry"
      /\ status' = "done" /\ UNCHANGED << prog, ircode, cursor, upperLabelID >>
      /\ saved' = SubSeq(saved, 1, Len(saved) - 1)
  BY DEF ReturnFromEntry, Returning
<1>2. Control /\ Frames /\ Data
  BY DEF IInv
<1>3. Len(saved) = 1
  BY <1>1, <1>2, EntryFacts DEF Control
<1>4. saved' \in Seq(Suspended) /\ saved' = << >>
  BY <1>1, <1>2, <1>3, CallerFacts, SubSeqEmpty
<1>5. Bottom' /\ OnlyEntry'
  BY <1>4, EmptySeq DEF Bottom, OnlyEntry
<1>6. /\ ircode' \in DOMAIN prog.func /\ cursor' \in 1 .. Len(Code(ircode')) + 1
      /\ upperLabelID' \in Nat
  BY <1>1, <1>2 DEF Control, code, Code
<1>7. Control'
  BY <1>1, <1>2, <1>4, <1>5, <1>6, ControlAfterThrow
<1>8. Frames'
  BY <1>1, <1>2, <1>3, FramesAfterReturn DEF Data
<1>9. Data'
  BY <1>2 DEF ReturnFromEntry, Returning, Data
<1> QED  BY <1>7, <1>8, <1>9 DEF IInv

LEMMA ReturnFromDtorIInv == ASSUME IInv, ReturnFromDtor PROVE IInv'
<1> DEFINE kinds == {"destroy", "handle"}
<1>1. /\ Returning(kinds) /\ "entry" \notin kinds
      /\ status = "running" /\ Caller.then.kind # "entry" /\ Caller.then.kind \in kinds
      /\ Forget(Caller.then.object)
  BY DEF ReturnFromDtor, Returning
<1> HIDE DEF kinds
<1>2. Control /\ Frames /\ Data
  BY DEF IInv
<1>3. heap' \in [DOMAIN heap' -> Object] /\ DOMAIN heap' \subseteq Obj
  BY <1>1, <1>2, HeapAfterForget
<1>4. UNCHANGED << prog, retval, parameters, raisedErrorAtomid >>
  BY <1>1 DEF Returning
<1>5. CASE Caller.then.kind = "destroy"
  <2>1. ResumeCaller /\ UNCHANGED << status, raisedError, unwindRaisedError >>
    BY <1>5 DEF ReturnFromDtor
  <2>2. MovedIn(Caller.ircode)
    BY <1>1, <1>2, <2>1, ResumeMoves
  <2>3. Control' /\ Frames'
    BY <1>1, <1>2, <2>2, ReturnControl, FramesAfterReturn DEF Data, MovedIn
  <2>4. Data'
    BY <1>2, <1>3, <1>4, <2>1 DEF Data
  <2> QED  BY <2>3, <2>4 DEF IInv
<1>6. CASE Caller.then.kind = "handle"
  <2> DEFINE a == Caller
  <2>1. /\ raisedError' = null /\ unwindRaisedError' = FALSE
        /\ GotoLabelIn(a.ircode, a.cursor, a.upperLabelID, a.then.label)
    BY <1>6 DEF ReturnFromDtor
  <2>2. a \in Suspended /\ prog \in Programs
    BY <1>1, <1>2, CallerFacts DEF Control
  <2> HIDE DEF a
  <2>3. /\ a.ircode \in DOMAIN prog.func /\ a.cursor \in Nat /\ a.upperLabelID \in Nat
        /\ a.cursor \notin Labels(Code(a.ircode))
        /\ Window(Code(a.ircode), a.cursor, a.upperLabelID)
        /\ a.then.label \in Nat
        /\ HasLabel(Code(a.ircode), a.then.label)
    BY <1>6, <2>2, SuspendedFacts DEF Continuation, a
  <2>4. MovedIn(a.ircode)
    BY <1>1, <2>1, <2>2, <2>3, GotoMoves
  <2>5. Control' /\ Frames'
    BY <1>1, <1>2, <2>4, ReturnControl, FramesAfterReturn DEF Data, MovedIn, a
  <2>6. Data'
    BY <1>2, <1>3, <1>4, <2>1, ConstantFacts DEF Data
  <2> QED  BY <2>5, <2>6 DEF IInv
<1> QED
  BY <1>1, <1>5, <1>6 DEF kinds

LEMMA ReturnFromDtorMismatchIInv == ASSUME IInv, ReturnFromDtorMismatch PROVE IInv'
<1>1. /\ Returning({"destroy", "handle"})
      /\ status' = "PointerMismatch"
      /\ ircode' = Caller.ircode
      /\ cursor' = Caller.cursor
      /\ upperLabelID' = Caller.upperLabelID
  BY DEF ReturnFromDtorMismatch
<1>2. Control /\ Frames /\ Data
  BY DEF IInv
<1>3. Control'
  BY <1>1, <1>2, ReturnControl
<1>4. Frames'
  BY <1>1, <1>2, FramesAfterReturn DEF Data
<1>5. Data'
  BY <1>2 DEF ReturnFromDtorMismatch, Returning, Data
<1> QED  BY <1>3, <1>4, <1>5 DEF IInv

LEMMA MemAllocIInv == ASSUME IInv, MemAlloc PROVE IInv'
<1>1. /\ status = "running" /\ cursor <= Len(code) /\ opr.op = "memalloc"
      /\ UNCHANGED << prog, saved, retval, parameters, errors >>
  BY DEF MemAlloc, Executing
<1>2. Control /\ Frames /\ Data
  BY DEF IInv
<1>3. CASE Throw("bad_alloc") /\ UNCHANGED << heap, pile >>
  <2>1. "bad_alloc" \in Exceptions \ {"InvalidLabel"}
    BY DEF Exceptions
  <2>2. Control' /\ ircode' = ircode
    BY <1>1, <1>2, <1>3, <2>1, ControlThrown DEF Throw
  <2>3. Frames'
    BY <1>1, <1>2, <1>3, <2>2, FramesKept
  <2>4. Data'
    BY <1>1, <1>2, <1>3 DEF Data, errors
  <2> QED  BY <2>2, <2>3, <2>4 DEF IInv
<1>4. ASSUME NEW o \in Obj \ DOMAIN heap,
             heap' = [x \in DOMAIN heap \cup {o} |->
                        IF x = o THEN [refs |-> 0, class |-> opr.atomid, field |-> Undef]
                                 ELSE heap[x]],
             pile' = SetRegister(opr.lvid, o),
             NextOpcode
      PROVE  IInv'
  <2>1. Control' /\ ircode' = ircode
    BY <1>1, <1>2, <1>4, StayControl
  <2>2. o \in Val
    BY ConstantFacts
  <2>3. Frames'
    BY <1>1, <1>2, <1>4, <2>1, <2>2, FramesAfterSet
  <2>4. opr.atomid \in Nat
    BY <1>1, <1>2, InstructionFacts
  <2>5. [refs |-> 0, class |-> opr.atomid, field |-> Undef] \in Object
    BY <2>4, ConstantFacts DEF Object
  <2>6. \A x \in DOMAIN heap : heap[x] \in Object
    BY <1>2, HeapFacts
  <2>7. heap' \in [DOMAIN heap \cup {o} -> Object] /\ DOMAIN heap' = DOMAIN heap \cup {o}
    BY <1>4, <2>5, <2>6
  <2>8. Data'
    BY <1>1, <1>2, <2>7 DEF Data, errors
  <2> QED  BY <2>1, <2>3, <2>8 DEF IInv
<1> QED
  BY <1>3, <1>4 DEF MemAlloc

LEMMA InvalidPointerIInv == ASSUME IInv, InvalidPointer PROVE IInv'
<1>1. /\ Throw("UnknownPointer") /\ "UnknownPointer" \in Exceptions \ {"InvalidLabel"}
      /\ UNCHANGED << prog, pile, saved, retval, parameters, heap, errors >>
  BY DEF InvalidPointer, Exceptions
<1>2. Control' /\ ircode' = ircode
  BY <1>1, ControlThrown DEF IInv, Throw
<1>3. Frames'
  BY <1>1, <1>2, FramesKept DEF IInv
<1>4. Data'
  BY <1>1 DEF IInv, Data, errors
<1> QED  BY <1>2, <1>3, <1>4 DEF IInv

LEMMA FieldSetIInv == ASSUME IInv, FieldSet PROVE IInv'
<1>1. /\ status = "running" /\ cursor <= Len(code) /\ opr.op = "fieldset"
      /\ UNCHANGED << prog, pile, saved, retval, parameters, errors >> /\ NextOpcode
      /\ Pointer(opr.arg) \in DOMAIN heap
  BY DEF FieldSet, Executing, Valid
<1>2. Control /\ Frames /\ Data
  BY DEF IInv
<1>3. Control' /\ ircode' = ircode
  BY <1>1, <1>2, StayControl
<1>4. Frames'
  BY <1>1, <1>2, <1>3, FramesKept
<1> DEFINE o == Pointer(opr.arg)
           v == [heap[o] EXCEPT !.field = registers[opr.lvid]]
<1>5. v \in Object
  BY <1>1, <1>2, HeapFacts, OperandFacts DEF Object
<1>6. heap' = [heap EXCEPT ![o] = v]
  BY DEF FieldSet
<1> HIDE DEF v
<1>7. heap' \in [DOMAIN heap' -> Object] /\ DOMAIN heap' \subseteq Obj
  BY <1>1, <1>2, <1>5, <1>6, HeapAfterSet
<1>8. Data'
  BY <1>1, <1>2, <1>7 DEF Data, errors
<1> QED  BY <1>3, <1>4, <1>8 DEF IInv

LEMMA FieldGetIInv == ASSUME IInv, FieldGet PROVE IInv'
<1>1. /\ status = "running" /\ cursor <= Len(code) /\ opr.op = "fieldget"
      /\ UNCHANGED << prog, saved, retval, parameters, heap, errors >> /\ NextOpcode
      /\ Pointer(opr.arg) \in DOMAIN heap
      /\ pile' = SetRegister(opr.lvid, heap[Pointer(opr.arg)].field)
  BY DEF FieldGet, Executing, Valid
<1>2. Control /\ Frames /\ Data
  BY DEF IInv
<1>3. Control' /\ ircode' = ircode
  BY <1>1, <1>2, StayControl
<1>4. heap[Pointer(opr.arg)].field \in Val
  BY <1>1, <1>2, HeapFacts
<1>5. Frames'
  BY <1>1, <1>2, <1>3, <1>4, FramesAfterSet
<1>6. Data'
  BY <1>1, <1>2 DEF Data, errors
<1> QED  BY <1>3, <1>5, <1>6 DEF IInv

LEMMA RefIInv == ASSUME IInv, Ref PROVE IInv'
<1>1. /\ status = "running" /\ cursor <= Len(code) /\ opr.op = "ref"
      /\ UNCHANGED << prog, pile, saved, retval, parameters, errors >> /\ NextOpcode
      /\ Pointer(opr.lvid) \in DOMAIN heap
  BY DEF Ref, Executing, Valid
<1>2. Control /\ Frames /\ Data
  BY DEF IInv
<1>3. Control' /\ ircode' = ircode
  BY <1>1, <1>2, StayControl
<1>4. Frames'
  BY <1>1, <1>2, <1>3, FramesKept
<1> DEFINE o == Pointer(opr.lvid)
           n == heap[o].refs + 1
<1>5. n \in Nat
  BY <1>1, <1>2, HeapFacts, ConstantFacts
<1>6. heap' = [heap EXCEPT ![o].refs = n % RefModulus]
  BY DEF Ref
<1> HIDE DEF n
<1>7. heap' \in [DOMAIN heap' -> Object] /\ DOMAIN heap' \subseteq Obj
  BY <1>1, <1>2, <1>5, <1>6, RefsAfter
<1>8. Data'
  BY <1>1, <1>2, <1>7 DEF Data, errors
<1> QED  BY <1>3, <1>4, <1>8 DEF IInv
LEMMA UnrefIInv == ASSUME IInv, Unref PROVE IInv'
<1> DEFINE o == Pointer(opr.lvid)
           n == heap[o].refs + RefModulus - 1
           then == Then("destroy", o, opr.atomid, 0)
           f == prog.dtor[opr.atomid]
<1>1. /\ status = "running" /\ cursor <= Len(code) /\ opr.op = "unref"
      /\ UNCHANGED errors /\ o \in DOMAIN heap
      /\ heap' = [heap EXCEPT ![o].refs = n % RefModulus]
  BY DEF Unref, Executing, Valid, RefsLeft
<1>2. Control /\ Frames /\ Data
  BY DEF IInv
<1>3. n \in Nat
  <2>1. heap[o].refs \in 0 .. RefModulus - 1
    BY <1>1, <1>2, HeapFacts
  <2> QED  BY <2>1, ConstantFacts
<1>4. \/ /\ RefsLeft = 0 /\ Enter(f, 0, << o >>, then)
      \/ NextOpcode /\ UNCHANGED << prog, pile, saved, retval, parameters >>
  BY DEF Unref
<1>5. f \in DOMAIN prog.func /\ opr.atomid \in Nat /\ o \in Val
  <2>1. f \in DOMAIN prog.func /\ opr.atomid \in Nat
    BY <1>1, <1>2, InstructionFacts
  <2>2. o \in Val
    BY <1>1, <1>2, HeapFacts
  <2> QED  BY <2>1, <2>2
<1>6. then \in Continuation /\ then.kind = "destroy"
  BY <1>5, ThenType DEF Then
<1> HIDE DEF o, n, then, f
<1>7. heap' \in [DOMAIN heap' -> Object] /\ DOMAIN heap' \subseteq Obj
  BY <1>1, <1>2, <1>3, RefsAfter
<1>8. CASE Enter(f, 0, << o >>, then)
  <2>1. Control'
    BY <1>1, <1>2, <1>5, <1>6, <1>8, EnterControl
  <2>2. << o >> \in Seq(Val)
    BY <1>5
  <2>3. Frames'
    BY <1>1, <1>2, <1>5, <1>8, <2>2, FramesAfterEnter
  <2>4. retval' = 0 /\ parameters' = << >> /\ prog' = prog
    BY <1>8 DEF Enter
  <2>5. Data'
    BY <1>1, <1>2, <1>7, <2>4, ConstantFacts, EmptySeq DEF Data, errors
  <2> QED  BY <2>1, <2>3, <2>5 DEF IInv
<1>9. CASE NextOpcode /\ UNCHANGED << prog, pile, saved, retval, parameters >>
  <2>1. Control' /\ ircode' = ircode
    BY <1>1, <1>2, <1>9, StayControl
  <2>2. Frames'
    BY <1>2, <1>9, <2>1, FramesKept
  <2>3. Data'
    BY <1>1, <1>2, <1>7, <1>9 DEF Data, errors
  <2> QED  BY <2>1, <2>2, <2>3 DEF IInv
<1> QED
  BY <1>4, <1>8, <1>9

LEMMA RaiseIInv == ASSUME IInv, Raise PROVE IInv'
<1>1. /\ status = "running" /\ cursor <= Len(code) /\ opr.op = "raise"
      /\ UNCHANGED << prog, saved, parameters, heap >>
      /\ raisedError' = registers[opr.lvid] /\ raisedErrorAtomid' = opr.atomid
  BY DEF Raise, Executing
<1>2. Control /\ Frames /\ Data
  BY DEF IInv
<1>3. registers[opr.lvid] \in Val
  BY <1>1, OperandFacts
<1>4. opr.atomid \in DOMAIN prog.dtor /\ opr.atomid \in Nat
  BY <1>1, <1>2, ClassFacts
<1>5. CASE opr.label = 0
  <2>1. /\ unwindRaisedError' = TRUE /\ retval' = 0
        /\ LeaveFunction /\ pile' = pile
    BY <1>5 DEF Raise
  <2>2. Control' /\ ircode' = ircode
    BY <1>1, <1>2, <2>1, LeaveMoves, MoveControl
  <2>3. Frames'
    BY <1>1, <1>2, <2>1, <2>2, FramesKept
  <2>4. Data'
    BY <1>1, <1>2, <1>3, <1>4, <2>1, ConstantFacts DEF Data
  <2> QED  BY <2>2, <2>3, <2>4 DEF IInv
<1>6. CASE opr.label # 0
  <2>1. /\ unwindRaisedError' = FALSE /\ retval' = retval
        /\ pile' = SetRegister(opr.label + 1, registers[opr.lvid])
        /\ gotoLabel(opr.label)
    BY <1>6 DEF Raise
  <2>2. opr.op \in JumpOps
    BY <1>1 DEF JumpOps
  <2>3. MovedIn(ircode)
    BY <1>1, <1>2, <1>6, <2>1, <2>2, JumpMoves
  <2>4. Control' /\ ircode' = ircode
    BY <1>1, <1>2, <2>3, MoveControl
  <2>5. Frames'
    BY <1>1, <1>2, <1>3, <2>1, <2>4, FramesAfterSet
  <2>6. Data'
    BY <1>1, <1>2, <1>3, <1>4, <2>1 DEF Data
  <2> QED  BY <2>4, <2>5, <2>6 DEF IInv
<1> QED  BY <1>5, <1>6

LEMMA JzRaiseIInv == ASSUME IInv, JzRaise PROVE IInv'
<1>1. /\ status = "running" /\ cursor <= Len(code) /\ opr.op = "jzraise"
      /\ UNCHANGED << prog, pile, saved, retval, parameters, heap, errors >>
      /\ NextOpcode \/ gotoLabel(opr.label)
  BY DEF JzRaise, Executing
<1>2. Control /\ Frames /\ Data
  BY DEF IInv
<1>3. opr.op \in JumpOps
  BY <1>1 DEF JumpOps
<1>4. MovedIn(ircode)
  BY <1>1, <1>2, <1>3, JumpMoves, StayMoves
<1>5. Control' /\ ircode' = ircode
  BY <1>1, <1>2, <1>4, MoveControl
<1>6. Frames'
  BY <1>1, <1>2, <1>5, FramesKept
<1>7. Data'
  BY <1>1, <1>2 DEF Data, errors
<1> QED  BY <1>5, <1>6, <1>7 DEF IInv

LEMMA SkipHandlerIInv == ASSUME IInv, SkipHandler PROVE IInv'
<1>1. /\ status = "running" /\ cursor <= Len(code) /\ opr.op # "label"
      /\ UNCHANGED << prog, pile, saved, retval, parameters, heap, errors >>
      /\ NextOpcode
  BY DEF SkipHandler, Executing
<1>2. Control /\ Frames /\ Data
  BY DEF IInv
<1>3. Control' /\ ircode' = ircode
  BY <1>1, <1>2, StayControl
<1>4. Frames'
  BY <1>1, <1>2, <1>3, FramesKept
<1>5. Data'
  BY <1>1, <1>2 DEF Data, errors
<1> QED  BY <1>3, <1>4, <1>5 DEF IInv

LEMMA NothingToHandleIInv == ASSUME IInv, NothingToHandle PROVE IInv'
<1>1. /\ Throw("assert(raisedError)")
      /\ "assert(raisedError)" \in Exceptions \ {"InvalidLabel"}
      /\ UNCHANGED << prog, pile, saved, retval, parameters, heap, errors >>
  BY DEF NothingToHandle, Exceptions
<1>2. Control' /\ ircode' = ircode
  BY <1>1, ControlThrown DEF IInv, Throw
<1>3. Frames'
  BY <1>1, <1>2, FramesKept DEF IInv
<1>4. Data'
  BY <1>1 DEF IInv, Data, errors
<1> QED  BY <1>2, <1>3, <1>4 DEF IInv

LEMMA JumpToTypedHandlerIInv == ASSUME IInv, JumpToTypedHandler PROVE IInv'
<1>1. /\ status = "running" /\ cursor <= Len(code) /\ opr.op = "jmperrhandler"
      /\ pile' = SetRegister(opr.label + 1, raisedError)
      /\ raisedError' = null /\ unwindRaisedError' = FALSE
      /\ gotoLabel(opr.label)
      /\ UNCHANGED << prog, saved, retval, parameters, heap, raisedErrorAtomid >>
  BY DEF JumpToTypedHandler, Executing
<1>2. Control /\ Frames /\ Data
  BY DEF IInv
<1>3. opr.op \in JumpOps
  BY <1>1 DEF JumpOps
<1>4. MovedIn(ircode)
  BY <1>1, <1>2, <1>3, JumpMoves
<1>5. Control' /\ ircode' = ircode
  BY <1>1, <1>2, <1>4, MoveControl
<1>6. raisedError \in Val
  BY <1>2 DEF Data
<1>7. Frames'
  BY <1>1, <1>2, <1>5, <1>6, FramesAfterSet
<1>8. Data'
  BY <1>1, <1>2, ConstantFacts DEF Data
<1> QED  BY <1>5, <1>7, <1>8 DEF IInv

LEMMA JumpToAnyHandlerIInv == ASSUME IInv, JumpToAnyHandler PROVE IInv'
<1> DEFINE class == raisedErrorAtomid
           f == prog.dtor[class]
           then == Then("handle", raisedError, class, opr.label)
<1>1. /\ status = "running" /\ cursor <= Len(code) /\ opr.op = "jmperrhandler"
      /\ raisedError # null /\ UNCHANGED << heap, errors >>
  BY DEF JumpToAnyHandler, Executing
<1>2. Control /\ Frames /\ Data
  BY DEF IInv
<1>3. class \in DOMAIN prog.dtor /\ class \in Nat /\ raisedError \in Val
  BY <1>1, <1>2 DEF Data
<1>4. opr.label \in Nat /\ HasLabel(code, opr.label)
  <2>1. opr.op \in JumpOps
    BY <1>1 DEF JumpOps
  <2> QED  BY <1>1, <1>2, <2>1, InstructionFacts
<1>5. then \in Continuation /\ then.kind = "handle" /\ then.label = opr.label
  BY <1>3, <1>4, ThenType DEF Then
<1>6. CASE f = NoFunc
  <2>1. /\ Throw("InvalidDtor") /\ "InvalidDtor" \in Exceptions \ {"InvalidLabel"}
        /\ UNCHANGED << prog, pile, saved, retval, parameters >>
    BY <1>6 DEF JumpToAnyHandler, Exceptions
  <2>2. Control' /\ ircode' = ircode
    BY <1>2, <2>1, ControlThrown DEF Throw
  <2>3. Frames'
    BY <1>2, <2>1, <2>2, FramesKept
  <2>4. Data'
    BY <1>1, <1>2, <2>1 DEF Data, errors
  <2> QED  BY <2>2, <2>3, <2>4 DEF IInv
<1>7. CASE f # NoFunc
  <2>1. Enter(f, 0, << raisedError >>, then)
    BY <1>7 DEF JumpToAnyHandler
  <2>2. f \in DOMAIN prog.func
    BY <1>2, <1>3, <1>7, DtorFacts
  <2> HIDE DEF then, f
  <2>3. Control'
    BY <1>1, <1>2, <1>4, <1>5, <2>1, <2>2, EnterControl
  <2>4. << raisedError >> \in Seq(Val)
    BY <1>3
  <2>5. Frames'
    BY <1>1, <1>2, <2>1, <2>2, <2>4, FramesAfterEnter
  <2>6. retval' = 0 /\ parameters' = << >> /\ prog' = prog
    BY <2>1 DEF Enter
  <2>7. Data'
    BY <1>1, <1>2, <2>6, ConstantFacts, EmptySeq DEF Data, errors
  <2> QED  BY <2>3, <2>5, <2>7 DEF IInv
<1> QED  BY <1>6, <1>7

LEMMA StutterIInv == ASSUME IInv, UNCHANGED vars PROVE IInv'
<1>1. Control'
  BY DEF IInv, Control, vars, control, Suspended, Activation, Continuation, Code,
         Bottom, OnlyEntry, code, Window, Labels
<1>2. Frames'
  BY FramesKept DEF IInv, vars, control
<1>3. Data'
  BY DEF IInv, Data, vars, errors
<1> QED  BY <1>1, <1>2, <1>3 DEF IInv

LEMMA StepIInv == ASSUME IInv, [Next]_vars PROVE IInv'
<1>1. Jz => IInv'
  BY JumpIfIInv, ConstantFacts DEF Jz
<1>2. Jnz => IInv'
  BY JumpIfIInv, ConstantFacts DEF Jnz
<1> QED
  BY <1>1, <1>2, LabelIInv, JmpIInv, StoreIInv, ConstantIInv, ComputeIInv, IntrinsicIInv,
     OpAssertIInv, PushIInv, CallIInv, RetIInv, ReturnIInv, ReturnFromEntryIInv,
     ReturnFromDtorIInv, ReturnFromDtorMismatchIInv, MemAllocIInv, InvalidPointerIInv,
     FieldSetIInv, FieldGetIInv, RefIInv, UnrefIInv, RaiseIInv, JzRaiseIInv,
     SkipHandlerIInv, NothingToHandleIInv, JumpToTypedHandlerIInv, JumpToAnyHandlerIInv,
     StutterIInv
  DEF Next

-----------------------------------------------------------------------------
(* The first state.                                                        *)

LEMMA InitIInv == ASSUME Init PROVE IInv
<1> DEFINE first == [ircode |-> prog.entry, cursor |-> 0, upperLabelID |-> 0,
                     retlvid |-> 1, then |-> Then("entry", null, 0, 0)]
           low == [r \in 0 .. 1 |-> Undef]
           frame == FreshFrame(prog.entry, << >>)
<1>1. /\ prog \in Programs /\ status = "running" /\ ircode = prog.entry /\ cursor = 1
      /\ upperLabelID = 0 /\ pile = << low, frame >> /\ saved = << first >>
  BY DEF Init
<1>2. ircode \in DOMAIN prog.func
  BY <1>1, ExecutorAssumption DEF IsProgram
<1>3. \A q \in Labels(code) : q \in Nat \ {0} /\ code[q].label \in Nat \ {0}
  <2> SUFFICES ASSUME NEW q \in Labels(code)
               PROVE  q \in Nat \ {0} /\ code[q].label \in Nat \ {0}
    OBVIOUS
  <2>1. q \in 1 .. Len(code) /\ Len(code) \in Nat
    BY <1>1, <1>2, LabelFacts DEF code
  <2>2. code[q].label \in Nat \ {0}
    BY <1>1, <1>2, LabelFacts DEF code
  <2> QED  BY <2>1, <2>2
<1>4. Window(code, 1, 0) /\ Window(code, 0, 0)
  BY <1>3 DEF Window
<1>5. Len(code) \in Nat
  BY <1>1, <1>2, FunctionFacts, LenProperties DEF IsFunction, code
<1>6. first \in Suspended /\ first.then.kind = "entry"
  <2>1. Then("entry", null, 0, 0) \in Continuation /\ Then("entry", null, 0, 0).kind = "entry"
    BY ThenType, ConstantFacts DEF Then
  <2>2. first \in Activation
    BY <1>1, <1>2, <2>1 DEF Activation
  <2>3. 0 \notin Labels(code)
    BY <1>3
  <2> QED  BY <1>1, <1>4, <2>1, <2>2, <2>3 DEF Suspended, Code, code
<1> HIDE DEF first
<1>7. /\ saved \in Seq(Suspended) /\ saved # << >> /\ Len(saved) = 1 /\ saved[1] = first
  BY <1>1, <1>6
<1>8. Control
  BY <1>1, <1>2, <1>4, <1>5, <1>6, <1>7 DEF Control, Bottom, OnlyEntry
<1>9. low \in [0 .. 1 -> Val] /\ frame \in Frame(ircode)
  <2>1. << >> \in Seq(Val)
    BY EmptySeq
  <2>2. frame \in Frame(ircode)
    BY <1>1, <1>2, <1>8, <2>1, FreshFrameType
  <2> QED  BY <2>2, ConstantFacts
<1> HIDE DEF low, frame
<1>10. pile \in Seq(AnyFrame) /\ Len(pile) = 2 /\ pile[1] = low /\ pile[2] = frame
  BY <1>1, <1>2, <1>9 DEF AnyFrame
<1>11. Frames
  BY <1>7, <1>9, <1>10 DEF Frames, FunctionOf
<1>12. Data
  BY ConstantFacts, EmptySeq DEF Init, Data
<1> QED  BY <1>8, <1>11, <1>12 DEF IInv

-----------------------------------------------------------------------------
(* What the invariant says.                                                *)

LEMMA IInvTypes == ASSUME IInv PROVE TypeOK
<1>1. Control /\ Frames /\ Data
  BY DEF IInv
<1>2. saved \in Seq(Activation)
  <2>1. Suspended \subseteq Activation
    BY DEF Suspended
  <2> QED  BY <1>1, <2>1, SeqMonotonic DEF Control
<1>3. pile \in Seq({pile[i] : i \in DOMAIN pile})
  <2>1. pile \in Seq(AnyFrame)
    BY <1>1 DEF Frames
  <2>2. Len(pile) \in Nat /\ DOMAIN pile = 1 .. Len(pile)
        /\ pile \in [1 .. Len(pile) -> {pile[i] : i \in DOMAIN pile}]
    BY <2>1, LenProperties
  <2> QED  BY <2>2, SeqDef
<1>4. status \in {"running", "done"} \cup Exceptions
  BY <1>1 DEF Control
<1>5. heap \in [DOMAIN heap -> [refs : 0 .. RefModulus - 1, class : Nat, field : Val]]
  BY <1>1 DEF Data, Object
<1> QED
  BY <1>1, <1>2, <1>3, <1>4, <1>5 DEF Control, Frames, Data, TypeOK

LEMMA IInvLabels == ASSUME IInv PROVE LabelWindow /\ JumpsLand
<1>1. Control
  BY DEF IInv
<1>2. ASSUME NEW i \in 1 .. Len(saved)
      PROVE  Window(prog.func[saved[i].ircode].code, saved[i].cursor, saved[i].upperLabelID)
  <2>1. saved[i] \in Suspended
    BY <1>1, ElementOfSeq DEF Control
  <2> QED  BY <1>1, <2>1, SuspendedFacts DEF Control, Code
<1>3. status # "InvalidLabel"
  BY <1>1 DEF Control
<1> QED
  BY <1>1, <1>2, <1>3 DEF Control, LabelWindow, JumpsLand

LEMMA Invariance == Spec => []IInv
<1>1. Init => IInv
  BY InitIInv
<1>2. IInv /\ [Next]_vars => IInv'
  BY StepIInv
<1> QED
  BY <1>1, <1>2, PTL DEF Spec

(* Whatever the program, the interpreter's state keeps its type: every     *)
(* activation has a frame of the size of its own function, through calls,  *)
(* destructors run in the middle of an opcode, and errors that unwind.     *)
THEOREM ExecutorTypes == Spec => []TypeOK
<1>1. IInv => TypeOK
  BY IInvTypes
<1> QED
  BY <1>1, Invariance, PTL

(* When the labels of every function are strictly ordered, gotoLabel's     *)
(* rule on upperLabelID is right in every function under way, whatever     *)
(* jumps, calls and destructors came before...                             *)
THEOREM LabelSafety == Spec => []LabelWindow
<1>1. IInv => LabelWindow
  BY IInvLabels
<1> QED
  BY <1>1, Invariance, PTL

(* ... and no jump throws InvalidLabel (thread.cpp, gotoLabel).            *)
THEOREM NoInvalidLabel == Spec => []JumpsLand
<1>1. IInv => JumpsLand
  BY IInvLabels
<1> QED
  BY <1>1, Invariance, PTL
=============================================================================
