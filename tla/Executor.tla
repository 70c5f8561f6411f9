------------------------------ MODULE Executor ------------------------------
(***************************************************************************)
(* The interpreter of a VM thread (struct Executor and Thread::execute of  *)
(* details/vm/thread.cpp) running a compiled program.  One action is one   *)
(* opcode, or the return of a call.  A destructor is run by a nested call  *)
(* of the interpreter in the middle of an opcode (unref, jmperrhandler):   *)
(* what remains to be done when it returns is kept in `saved'.             *)
(*                                                                         *)
(* The debug build is modelled: fresh registers hold a filling that is no  *)
(* pointer and the asserts are active.  Arithmetic, comparisons, loads and *)
(* intrinsics give an unknown boolean (`compute', `intrinsic').            *)
(***************************************************************************)
EXTENDS Integers, Sequences

CONSTANTS
  Programs,     \* the compiled programs, see IsProgram
  Obj,          \* the addresses malloc can return
  Undef,        \* the content of a register or a member nobody has written
  NoFunc,       \* no such function
  RefModulus,   \* the reference counter wraps here (2^64)
  MaxCalls      \* bound: the number of nested calls

Bit == {0, 1}

Val == Obj \cup Bit \cup {Undef}

null == 0

-----------------------------------------------------------------------------
(* Programs.  An instruction carries the operands its opcode uses; classes *)
(* are positive atom ids, 0 stands for the type any.                       *)

Op == { "label", "jmp", "jz", "jnz", "ref", "unref", "memalloc", "fieldset",
        "fieldget", "store", "constant", "compute", "intrinsic", "opassert",
        "push", "call", "ret", "jzraise", "jmperrhandler", "raise" }

Instruction(op, lvid, arg, func, label, atomid) ==
  [op |-> op, lvid |-> lvid, arg |-> arg, func |-> func, label |-> label,
   atomid |-> atomid]

Labels(code) == {p \in DOMAIN code : code[p].op = "label"}

JumpOps == {"jmp", "jz", "jnz", "jzraise", "jmperrhandler", "raise"}

(* A function is its code after the leading stacksize opcode, and the      *)
(* number of registers that one asks for.                                  *)
IsFunction(fn, funcs) ==
  /\ fn.framesize \in Nat \ {0, 1}
  /\ fn.code \in Seq([op : Op, lvid : 0 .. fn.framesize - 1, arg : Nat,
                      func : funcs \cup {NoFunc}, label : Nat, atomid : Nat])
  /\ \A p \in DOMAIN fn.code :
       /\ fn.code[p].op = "call" => fn.code[p].func # NoFunc
       /\ fn.code[p].op \in {"store", "fieldset", "fieldget", "jz", "jnz"}
            => fn.code[p].arg \in 0 .. fn.framesize - 1
       /\ fn.code[p].op = "constant" => fn.code[p].arg \in Bit

(* What thread.cpp relies on in gotoLabel ("the labels are strictly        *)
(* ordered"), and that every label a jump names is in the function.        *)
WellLabelled(fn) ==
  /\ \A p, q \in Labels(fn.code) : p < q => fn.code[p].label < fn.code[q].label
  /\ \A p \in Labels(fn.code) : fn.code[p].label > 0
  /\ \A p \in DOMAIN fn.code :
       fn.code[p].op \in JumpOps /\ ~ (fn.code[p].op = "raise" /\ fn.code[p].label = 0)
         => \E q \in Labels(fn.code) : fn.code[q].label = fn.code[p].label

IsProgram(p) ==
  /\ p.entry \in DOMAIN p.func
  /\ \A f \in DOMAIN p.func : IsFunction(p.func[f], DOMAIN p.func)
  /\ DOMAIN p.dtor \subseteq Nat \ {0}
  /\ \A c \in DOMAIN p.dtor : p.dtor[c] \in DOMAIN p.func \cup {NoFunc}
  /\ NoFunc \notin DOMAIN p.func
  /\ \A f \in DOMAIN p.func : \A i \in DOMAIN p.func[f].code :
       /\ p.func[f].code[i].op \in {"unref", "memalloc", "raise"}
            => p.func[f].code[i].atomid \in DOMAIN p.dtor
       /\ p.func[f].code[i].op = "unref"
            => p.dtor[p.func[f].code[i].atomid] # NoFunc

ASSUME ExecutorAssumption ==
  /\ \A p \in Programs : IsProgram(p)
  /\ \A p \in Programs : \A f \in DOMAIN p.func : WellLabelled(p.func[f])
  /\ Obj \cap (Bit \cup {Undef}) = {} /\ Undef \notin Bit
  /\ RefModulus \in Nat \ {0, 1}
  /\ MaxCalls \in Nat

-----------------------------------------------------------------------------
VARIABLES
  prog,               \* the program (the machine's atom map)
  status,             \* "running", "done", or what was thrown
  ircode,             \* the function whose sequence is executed
  cursor,             \* the next instruction of that sequence
  upperLabelID,
  pile,               \* the frames of registers, `registers' being the last
  saved,              \* the locals of the nested calls of Executor::call
  retval,
  parameters,         \* the first paramCount pushed parameters
  heap,               \* the objects the tracker owns
  raisedError, raisedErrorAtomid, unwindRaisedError

control == << status, ircode, cursor, upperLabelID >>
errors  == << raisedError, raisedErrorAtomid, unwindRaisedError >>
vars    == << prog, control, pile, saved, retval, parameters, heap, errors >>

registers == pile[Len(pile)]
code      == prog.func[ircode].code
opr       == code[cursor]

SetRegister(r, v) ==
  IF r \in DOMAIN registers THEN [pile EXCEPT ![Len(pile)][r] = v] ELSE pile

Executing(op) == status = "running" /\ cursor <= Len(code) /\ opr.op = op

(* An exception ends the interpreter: Thread::execute reports it.          *)
Throw(exception) ==
  /\ status' = exception
  /\ UNCHANGED << ircode, cursor, upperLabelID >>

NextOpcode ==
  /\ cursor' = cursor + 1
  /\ UNCHANGED << status, ircode, upperLabelID >>

-----------------------------------------------------------------------------
(* Labels.                                                                 *)

(* jumpToLabelForward and jumpToLabelBackward from position `from'.        *)
LabelsAfter(instrs, from, label) ==
  {p \in Labels(instrs) : p > from /\ instrs[p].label = label}

LabelsBefore(instrs, from, label) ==
  {p \in Labels(instrs) : p < from /\ instrs[p].label = label}

(* gotoLabel: the highest label seen so far tells on which side to search. *)
Candidates(instrs, from, upper, label) ==
  IF label > upper THEN LabelsAfter(instrs, from, label)
                   ELSE LabelsBefore(instrs, from, label)

Nearest(from, found) ==
  CHOOSE p \in found : \A q \in found :
    IF p > from THEN p <= q ELSE q <= p

(* A slip a mutant run makes: the jump leaves upperLabelID as it was.      *)
GotoKeepingUpper(f, from, upper, label) ==
  LET found == Candidates(prog.func[f].code, from, upper, label)
  IN IF found = {}
     THEN /\ status' = "InvalidLabel"
          /\ ircode' = f /\ cursor' = from /\ upperLabelID' = upper
     ELSE /\ cursor' = Nearest(from, found) + 1
          /\ upperLabelID' = upper
          /\ ircode' = f
          /\ UNCHANGED status

(* gotoLabel in function f, whose state is (from, upper).  The instruction *)
(* after the label is next: Sequence::each steps over the label itself.    *)
GotoLabelIn(f, from, upper, label) ==
  LET found == Candidates(prog.func[f].code, from, upper, label)
  IN IF found = {}
     THEN /\ status' = "InvalidLabel"
          /\ ircode' = f /\ cursor' = from /\ upperLabelID' = upper
     ELSE /\ cursor' = Nearest(from, found) + 1
          /\ upperLabelID' = label
          /\ ircode' = f
          /\ UNCHANGED status

gotoLabel(label) == GotoLabelIn(ircode, cursor, upperLabelID, label)

Label ==
  /\ Executing("label")
  /\ upperLabelID' = IF opr.label > upperLabelID THEN opr.label ELSE upperLabelID
  /\ cursor' = cursor + 1
  /\ UNCHANGED << prog, status, ircode, pile, saved, retval, parameters, heap, errors >>

Jmp ==
  /\ Executing("jmp")
  /\ gotoLabel(opr.label)
  /\ UNCHANGED << prog, pile, saved, retval, parameters, heap, errors >>

(* jz and jnz; a filling is not zero.                                      *)
JumpIf(op, taken, result) ==
  /\ Executing(op)
  /\ IF taken
     THEN pile' = SetRegister(opr.arg, result) /\ gotoLabel(opr.label)
     ELSE NextOpcode /\ UNCHANGED pile
  /\ UNCHANGED << prog, saved, retval, parameters, heap, errors >>

Jz == JumpIf("jz", registers[opr.lvid] = 0, 0)

Jnz == JumpIf("jnz", registers[opr.lvid] # 0, 1)

-----------------------------------------------------------------------------
(* Registers.                                                              *)

Assign(op, values) ==
  /\ Executing(op)
  /\ \E v \in values : pile' = SetRegister(opr.lvid, v)
  /\ NextOpcode
  /\ UNCHANGED << prog, saved, retval, heap, errors >>

Store == Assign("store", {registers[opr.arg]}) /\ UNCHANGED parameters

Constant == Assign("constant", {opr.arg}) /\ UNCHANGED parameters

Compute == Assign("compute", Bit) /\ UNCHANGED parameters

Intrinsic == Assign("intrinsic", Bit) /\ parameters' = << >>

OpAssert ==
  /\ Executing("opassert")
  /\ IF registers[opr.lvid] = 0 THEN Throw("Assert") ELSE NextOpcode
  /\ UNCHANGED << prog, pile, saved, retval, parameters, heap, errors >>

-----------------------------------------------------------------------------
(* Calls.                                                                  *)

Push ==
  /\ Executing("push")
  /\ parameters' = Append(parameters, registers[opr.lvid])
  /\ NextOpcode
  /\ UNCHANGED << prog, pile, saved, retval, heap, errors >>

FreshFrame(f, params) ==
  [r \in 0 .. prog.func[f].framesize - 1 |->
     IF r = 0 THEN null
     ELSE IF r - 1 \in DOMAIN params THEN params[r - 1] ELSE Undef]

(* The first half of Executor::call.  `then' is what the caller does once  *)
(* the call is over: nothing more, or what destroy and jmperrhandler do.   *)
Enter(f, retlvid, params, then) ==
  /\ Len(saved) < MaxCalls
  /\ saved' = Append(saved, [ircode |-> ircode, cursor |-> cursor,
                             upperLabelID |-> upperLabelID,
                             retlvid |-> retlvid, then |-> then])
  /\ pile' = Append(pile, FreshFrame(f, params))
  /\ retval' = 0
  /\ ircode' = f
  /\ cursor' = 1
  /\ upperLabelID' = 0
  /\ parameters' = << >>
  /\ UNCHANGED << prog, status >>

Then(kind, object, class, label) ==
  [kind |-> kind, object |-> object, class |-> class, label |-> label]

Call ==
  /\ Executing("call")
  /\ Enter(opr.func, opr.lvid, parameters, Then("resume", null, 0, 0))
  /\ UNCHANGED << heap, errors >>

(* ret and a raise with no handler leave the function at once.             *)
LeaveFunction ==
  /\ cursor' = Len(code) + 1
  /\ UNCHANGED << status, ircode, upperLabelID >>

Ret ==
  /\ Executing("ret")
  /\ retval' = registers[opr.lvid]
  /\ LeaveFunction
  /\ UNCHANGED << prog, pile, saved, parameters, heap, errors >>

(* The second half of Executor::call: the caller is restored.              *)
Caller == saved[Len(saved)]

(* A slip: the frame of the callee stays on the stack.                     *)
ReturningWithoutPop(kinds) ==
  /\ status = "running"
  /\ cursor > Len(code)
  /\ Caller.then.kind \in kinds
  /\ saved' = SubSeq(saved, 1, Len(saved) - 1)
  /\ UNCHANGED << prog, pile, retval, parameters, raisedErrorAtomid >>

Returning(kinds) ==
  /\ status = "running"
  /\ cursor > Len(code)
  /\ Caller.then.kind \in kinds
  /\ saved' = SubSeq(saved, 1, Len(saved) - 1)
  /\ LET below == SubSeq(pile, 1, Len(pile) - 1)
     IN pile' = [below EXCEPT ![Len(below)][Caller.retlvid] = retval]
  /\ UNCHANGED << prog, retval, parameters, raisedErrorAtomid >>

(* Slips: the caller's upperLabelID is not restored; it calls again.       *)
ResumeKeepingUpper ==
  /\ ircode' = Caller.ircode
  /\ cursor' = Caller.cursor + 1
  /\ UNCHANGED upperLabelID

ResumeAtCall ==
  /\ ircode' = Caller.ircode
  /\ cursor' = Caller.cursor
  /\ upperLabelID' = Caller.upperLabelID

ResumeCaller ==
  /\ ircode' = Caller.ircode
  /\ cursor' = Caller.cursor + 1
  /\ upperLabelID' = Caller.upperLabelID

Return ==
  /\ Returning({"resume"})
  /\ ResumeCaller
  /\ UNCHANGED << status, heap, raisedError, unwindRaisedError >>

(* Thread::execute reports success, raised error or not.                   *)
ReturnFromEntry ==
  /\ Returning({"entry"})
  /\ status' = "done"
  /\ UNCHANGED << ircode, cursor, upperLabelID, heap, raisedError, unwindRaisedError >>

(* Allocator::deallocate wants the size the object was allocated with.     *)
Owned(object, class) == object \in DOMAIN heap /\ heap[object].class = class

(* A slip: the object is never freed.                                      *)
KeepObject(object) == heap' = [o \in DOMAIN heap |-> heap[o]]

Forget(object) == heap' = [o \in DOMAIN heap \ {object} |-> heap[o]]

(* The end of Executor::destroy, back in the opcode that called it.        *)
ReturnFromDtor ==
  /\ Returning({"destroy", "handle"})
  /\ Owned(Caller.then.object, Caller.then.class)
  /\ Forget(Caller.then.object)
  /\ IF Caller.then.kind = "destroy"
     THEN ResumeCaller /\ UNCHANGED << status, raisedError, unwindRaisedError >>
     ELSE /\ raisedError' = null
          /\ unwindRaisedError' = FALSE
          /\ GotoLabelIn(Caller.ircode, Caller.cursor, Caller.upperLabelID, Caller.then.label)

ReturnFromDtorMismatch ==
  /\ Returning({"destroy", "handle"})
  /\ ~ Owned(Caller.then.object, Caller.then.class)
  /\ status' = "PointerMismatch"
  /\ ircode' = Caller.ircode
  /\ cursor' = Caller.cursor
  /\ upperLabelID' = Caller.upperLabelID
  /\ UNCHANGED << heap, raisedError, unwindRaisedError >>

-----------------------------------------------------------------------------
(* Objects.                                                                *)

MemAlloc ==
  /\ Executing("memalloc")
  /\ \/ \E o \in Obj \ DOMAIN heap :
          /\ heap' = [x \in DOMAIN heap \cup {o} |->
                        IF x = o THEN [refs |-> 0, class |-> opr.atomid, field |-> Undef]
                                 ELSE heap[x]]
          /\ pile' = SetRegister(opr.lvid, o)
          /\ NextOpcode
     \/ Throw("bad_alloc") /\ UNCHANGED << heap, pile >>
  /\ UNCHANGED << prog, saved, retval, parameters, errors >>

(* Every opcode on an object first asks the tracker for its address.       *)
Pointer(r) == registers[r]

Valid(r) == Pointer(r) \in DOMAIN heap

InvalidPointer ==
  /\ \/ Executing("ref") \/ Executing("unref")
     \/ Executing("fieldset") \/ Executing("fieldget")
  /\ ~ Valid(IF opr.op \in {"ref", "unref"} THEN opr.lvid ELSE opr.arg)
  /\ Throw("UnknownPointer")
  /\ UNCHANGED << prog, pile, saved, retval, parameters, heap, errors >>

FieldSet ==
  /\ Executing("fieldset")
  /\ Valid(opr.arg)
  /\ heap' = [heap EXCEPT ![Pointer(opr.arg)].field = registers[opr.lvid]]
  /\ NextOpcode
  /\ UNCHANGED << prog, pile, saved, retval, parameters, errors >>

FieldGet ==
  /\ Executing("fieldget")
  /\ Valid(opr.arg)
  /\ pile' = SetRegister(opr.lvid, heap[Pointer(opr.arg)].field)
  /\ NextOpcode
  /\ UNCHANGED << prog, saved, retval, parameters, heap, errors >>

Ref ==
  /\ Executing("ref")
  /\ Valid(opr.lvid)
  /\ heap' = [heap EXCEPT ![Pointer(opr.lvid)].refs = (@ + 1) % RefModulus]
  /\ NextOpcode
  /\ UNCHANGED << prog, pile, saved, retval, parameters, errors >>

RefsLeft == (heap[Pointer(opr.lvid)].refs + RefModulus - 1) % RefModulus

(* A slip: the object is freed before its destructor runs.                 *)
UnrefFreesFirst ==
  /\ Executing("unref")
  /\ Valid(opr.lvid)
  /\ IF RefsLeft = 0
     THEN /\ Enter(prog.dtor[opr.atomid], 0, << Pointer(opr.lvid) >>,
                   Then("destroy", Pointer(opr.lvid), opr.atomid, 0))
          /\ Forget(Pointer(opr.lvid))
     ELSE /\ heap' = [heap EXCEPT ![Pointer(opr.lvid)].refs = RefsLeft]
          /\ NextOpcode /\ UNCHANGED << prog, pile, saved, retval, parameters >>
  /\ UNCHANGED errors

Unref ==
  /\ Executing("unref")
  /\ Valid(opr.lvid)
  /\ heap' = [heap EXCEPT ![Pointer(opr.lvid)].refs = RefsLeft]
  /\ IF RefsLeft = 0
     THEN Enter(prog.dtor[opr.atomid], 0, << Pointer(opr.lvid) >>,
                Then("destroy", Pointer(opr.lvid), opr.atomid, 0))
     ELSE NextOpcode /\ UNCHANGED << prog, pile, saved, retval, parameters >>
  /\ UNCHANGED errors

-----------------------------------------------------------------------------
(* Raised errors.  The slot `label + 1' of a handler is a register of the  *)
(* function, but nothing reserves it when the handler takes any type.      *)

Raise ==
  /\ Executing("raise")
  /\ raisedError' = registers[opr.lvid]
  /\ raisedErrorAtomid' = opr.atomid
  /\ IF opr.label = 0
     THEN /\ unwindRaisedError' = TRUE
          /\ retval' = 0
          /\ LeaveFunction
          /\ UNCHANGED pile
     ELSE /\ unwindRaisedError' = FALSE
          /\ pile' = SetRegister(opr.label + 1, registers[opr.lvid])
          /\ gotoLabel(opr.label)
          /\ UNCHANGED retval
  /\ UNCHANGED << prog, saved, parameters, heap >>

(* After a call: go on at the label unless the callee raised.              *)
JzRaise ==
  /\ Executing("jzraise")
  /\ IF unwindRaisedError THEN NextOpcode ELSE gotoLabel(opr.label)
  /\ UNCHANGED << prog, pile, saved, retval, parameters, heap, errors >>

(* A slip: every handler matches.                                          *)
HandlesAll == TRUE

Handles == opr.atomid = raisedErrorAtomid \/ opr.atomid = 0

SkipHandler ==
  /\ Executing("jmperrhandler")
  /\ ~ Handles
  /\ NextOpcode
  /\ UNCHANGED << prog, pile, saved, retval, parameters, heap, errors >>

(* assert(raisedError != nullptr)                                          *)
NothingToHandle ==
  /\ Executing("jmperrhandler")
  /\ Handles
  /\ raisedError = null
  /\ Throw("assert(raisedError)")
  /\ UNCHANGED << prog, pile, saved, retval, parameters, heap, errors >>

(* A slip: the error is handed over, and still unwinds.                    *)
JumpStillUnwinding ==
  /\ Executing("jmperrhandler")
  /\ Handles
  /\ raisedError # null
  /\ opr.atomid # 0
  /\ pile' = SetRegister(opr.label + 1, raisedError)
  /\ raisedError' = null
  /\ gotoLabel(opr.label)
  /\ UNCHANGED << prog, saved, retval, parameters, heap, raisedErrorAtomid,
                  unwindRaisedError >>

(* A handler of one type receives the error in the register that follows   *)
(* its label.                                                              *)
JumpToTypedHandler ==
  /\ Executing("jmperrhandler")
  /\ Handles
  /\ raisedError # null
  /\ opr.atomid # 0
  /\ pile' = SetRegister(opr.label + 1, raisedError)
  /\ raisedError' = null
  /\ unwindRaisedError' = FALSE
  /\ gotoLabel(opr.label)
  /\ UNCHANGED << prog, saved, retval, parameters, heap, raisedErrorAtomid >>

(* A handler of any type does not: the error is destroyed, whoever else    *)
(* refers to it, before the jump.                                          *)
JumpToAnyHandler ==
  /\ Executing("jmperrhandler")
  /\ Handles
  /\ raisedError # null
  /\ opr.atomid = 0
  /\ LET class == raisedErrorAtomid
     IN IF prog.dtor[class] = NoFunc
        THEN Throw("InvalidDtor") /\ UNCHANGED << prog, pile, saved, retval, parameters >>
        ELSE Enter(prog.dtor[class], 0, << raisedError >>,
                   Then("handle", raisedError, class, opr.label))
  /\ UNCHANGED << heap, errors >>

-----------------------------------------------------------------------------
(* Thread::execute and entrypoint: two local registers and a first call.   *)
Init ==
  /\ prog \in Programs
  /\ status = "running"
  /\ ircode = prog.entry
  /\ cursor = 1
  /\ upperLabelID = 0
  /\ pile = << [r \in 0 .. 1 |-> Undef], FreshFrame(prog.entry, << >>) >>
  /\ saved = << [ircode |-> prog.entry, cursor |-> 0, upperLabelID |-> 0,
                 retlvid |-> 1, then |-> Then("entry", null, 0, 0)] >>
  /\ retval = 0
  /\ parameters = << >>
  /\ heap = [o \in {} |-> [refs |-> 0, class |-> 1, field |-> Undef]]
  /\ raisedError = null
  /\ raisedErrorAtomid = 0
  /\ unwindRaisedError = FALSE

Next ==
  \/ Label \/ Jmp \/ Jz \/ Jnz
  \/ Store \/ Constant \/ Compute \/ Intrinsic \/ OpAssert
  \/ Push \/ Call \/ Ret \/ Return \/ ReturnFromEntry
  \/ ReturnFromDtor \/ ReturnFromDtorMismatch
  \/ MemAlloc \/ InvalidPointer \/ FieldSet \/ FieldGet \/ Ref \/ Unref
  \/ Raise \/ JzRaise
  \/ SkipHandler \/ NothingToHandle \/ JumpToTypedHandler \/ JumpToAnyHandler

Spec == Init /\ [][Next]_vars

(* The interpreter's loop never waits.                                     *)
FairSpec == Spec /\ WF_vars(Next)

-----------------------------------------------------------------------------
(* Properties.                                                             *)

Exceptions == {"InvalidLabel", "Assert", "bad_alloc", "UnknownPointer",
               "PointerMismatch", "InvalidDtor", "assert(raisedError)"}

Continuation ==
  [kind : {"entry", "resume", "destroy", "handle"}, object : Val,
   class : Nat, label : Nat]

Activation ==
  [ircode : DOMAIN prog.func, cursor : Nat, upperLabelID : Nat, retlvid : Nat,
   then : Continuation]

Frame(f) == [0 .. prog.func[f].framesize - 1 -> Val]

(* The function of the i-th frame; the first frame is entrypoint's own.    *)
FunctionOf(i) == IF i = Len(pile) THEN ircode ELSE saved[i].ircode

TypeOK ==
  /\ status \in {"running", "done"} \cup Exceptions
  /\ ircode \in DOMAIN prog.func
  /\ cursor \in 1 .. Len(code) + 1
  /\ upperLabelID \in Nat
  /\ saved \in Seq(Activation)
  /\ pile \in Seq({pile[i] : i \in DOMAIN pile})
  /\ Len(pile) = Len(saved) + 1
  /\ pile[1] \in [0 .. 1 -> Val]
  /\ \A i \in 2 .. Len(pile) : pile[i] \in Frame(FunctionOf(i))
  /\ retval \in Val
  /\ parameters \in Seq(Val)
  /\ heap \in [DOMAIN heap -> [refs : 0 .. RefModulus - 1, class : Nat, field : Val]]
  /\ raisedError \in Val
  /\ raisedErrorAtomid \in Nat
  /\ unwindRaisedError \in BOOLEAN

(* `from' parts the labels of a function: those before it are at most      *)
(* `upper', the others are above.                                          *)
Window(instrs, from, upper) ==
  /\ \A p \in Labels(instrs) : p < from => instrs[p].label <= upper
  /\ \A p \in Labels(instrs) : p >= from => instrs[p].label > upper

(* What gotoLabel searches by: in every function under way, also those     *)
(* suspended by a call or by a destructor, upperLabelID is the last label  *)
(* before the instruction, whatever jumps were taken.  A function that has *)
(* returned is past its last instruction, and searches no more.            *)
LabelWindow ==
  /\ status = "running" /\ cursor <= Len(code) => Window(code, cursor, upperLabelID)
  /\ \A i \in 1 .. Len(saved) :
       Window(prog.func[saved[i].ircode].code, saved[i].cursor, saved[i].upperLabelID)

(* gotoLabel never throws InvalidLabel, in a function whose labels are     *)
(* strictly ordered.                                                       *)
JumpsLand == status # "InvalidLabel"

(* While an error unwinds the calls, the object raised is alive and        *)
(* somebody refers to it: jmperrhandler may hand it over or destroy it.    *)
ErrorAlive ==
  unwindRaisedError =>
    /\ raisedError \in DOMAIN heap
    /\ heap[raisedError].class = raisedErrorAtomid
    /\ heap[raisedError].refs > 0

(* jmperrhandler asserts that an error is raised when it matches.          *)
ErrorToHandle == status # "assert(raisedError)"

(* A destructor runs on an object the allocator still owns, and no two     *)
(* nested destructors run on the same one.                                 *)
DestroyedOnce ==
  \A i \in 1 .. Len(saved) : saved[i].then.kind \in {"destroy", "handle"} =>
    /\ Owned(saved[i].then.object, saved[i].then.class)
    /\ \A j \in 1 .. Len(saved) : saved[j].then.object = saved[i].then.object => i = j

(* A program that ends well has released every object it allocated, and    *)
(* the only other ends are a failed assert and a lack of memory.           *)
Released ==
  /\ status = "done" => DOMAIN heap = {} /\ ~ unwindRaisedError
  /\ status \in {"running", "done", "Assert", "bad_alloc"}

(* The handler of a typed error finds, in the register after its label, a  *)
(* live object of the class it asks for.                                   *)
HandlerGetsItsError ==
  [][ /\ Executing("jmperrhandler") /\ opr.atomid # 0
      /\ status' = "running" /\ cursor' # cursor + 1
      => LET slot == pile'[Len(pile)][opr.label + 1]
         IN slot \in DOMAIN heap /\ heap[slot].class = opr.atomid ]_vars

(* The program ends, when it has no loop: every call returns, with or      *)
(* without an error, and every jump leads on.                              *)
Termination == <>(status # "running")
=============================================================================
