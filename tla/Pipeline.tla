------------------------------ MODULE Pipeline ------------------------------
(***************************************************************************)
(* From the source to its execution: the entry point is instantiated, and  *)
(* with it every function it needs (details/semantic/atom-factory.cpp);    *)
(* then the code obtained is run (Executor).  Translation gives the        *)
(* opcodes of a function, Analyzer reads them one by one.  When an opcode  *)
(* needs a function that has no instance, the analysis waits, and that     *)
(* function is analysed first: `analyses' is the chain of the analyses     *)
(* under way, from the entry point.  A function that is called while it is *)
(* being analysed is found in that chain, with what is known of it so far. *)
(*                                                                         *)
(* Functions have one signature each.                                      *)
(***************************************************************************)
EXTENDS Executor, SequencesExt

(* A source has its functions, by name, its classes, with their members    *)
(* and the names of their own functions, and what its names mean.          *)
CONSTANT Sources

A == INSTANCE Analyzer
T == INSTANCE Translation

VARIABLES
  source,     \* one of Sources
  phase,      \* "compiling", then "running" or "refused"
  analyses,   \* the functions being analysed, each for the one before it
  instances,  \* for the functions met: whether the instance is valid, its code
  raises      \* the errors each function is known to raise

compiler == << source, phase, analyses, instances, raises >>

unit == analyses[Len(analyses)]

-----------------------------------------------------------------------------
(* What an analysis reads of the other functions.                          *)

Unknown == [valid |-> TRUE, done |-> FALSE, code |-> << >>, framesize |-> 2]

Instance(f) == IF f \in DOMAIN instances THEN instances[f] ELSE Unknown

(* getReturnTypeForRecursiveFunc: a builtin is taken for nothing.          *)
ReturnType(f) ==
  IF ~ Instance(f).done /\ source.func[f].ret = T!builtin THEN T!void ELSE source.func[f].ret

(* A slip: the errors of a function are those of its own `raise'.          *)
SignatureQuiet(f) ==
  [class |-> source.func[f].class, params |-> source.func[f].params, ret |-> ReturnType(f),
   raises |-> {}, valid |-> Instance(f).valid, alias |-> "", compareTo |-> FALSE]

Signature(f) ==
  [class |-> source.func[f].class, params |-> source.func[f].params, ret |-> ReturnType(f),
   raises |-> raises[f], valid |-> Instance(f).valid, alias |-> "", compareTo |-> FALSE]

Library ==
  [lookup |-> source.lookup, clone |-> source.clone, bool |-> source.bool,
   builtins |-> source.builtins,
   sig |-> [f \in DOMAIN source.natives \cup DOMAIN source.func |->
              IF f \in DOMAIN source.natives THEN source.natives[f] ELSE Signature(f)]]

Visited == A!Visit([unit.an EXCEPT !.lib = Library], unit.code[1])

(* The functions an opcode is the first to need, `an' being the analysis   *)
(* after it: the ones it calls, the destructors of the objects it releases.*)
Needed(an) ==
  LET emitted == ToSet(SubSeq(an.out, Len(unit.an.out) + 1, Len(an.out)))
      called  == {i.func : i \in {j \in emitted : j.op = "call"}}
      dtors   == {source.dtor[i.atomid] : i \in {j \in emitted : j.op = "unref"}}
  IN (called \cup dtors) \ DOMAIN instances

-----------------------------------------------------------------------------
(* translateAndInstanciateASTIRCode.                                       *)

Analysis(f, fn, ir) ==
  [func |-> f, code |-> ir.code,
   an |-> A!Start([params |-> fn.params, ret |-> [type |-> fn.ret, ref |-> FALSE],
                   stacksize |-> ir.stacksize, class |-> fn.class, special |-> fn.special,
                   members |-> IF fn.class = 0 THEN << >> ELSE source.members[fn.class],
                   userfunc |-> fn.userfunc, isdtor |-> fn.special = "user dispose"], << >>)]

AnalysisOf(f) == Analysis(f, source.func[f], T!VisitFunc(source.func[f]))

(* A slip: the instance is registered when it is complete.                 *)
BeginUnregistered(f) ==
  /\ analyses' = Append(analyses, AnalysisOf(f))
  /\ UNCHANGED instances

(* The instance is registered before its code is known: a recursive call   *)
(* finds it.                                                               *)
Begin(f) ==
  /\ analyses' = Append(analyses, AnalysisOf(f))
  /\ instances' = (f :> Unknown) @@ instances

(* The opcode is visited when all it needs is known; `an' is what comes of *)
(* it.  The errors are recorded with the function as soon as they are met. *)
Step(an) ==
  /\ Needed(an) = {}
  /\ analyses' = [analyses EXCEPT ![Len(analyses)] =
                    [func |-> unit.func, code |-> Tail(unit.code), an |-> [an EXCEPT !.lib = << >>]]]
  /\ raises' = [raises EXCEPT ![unit.func] = @ \cup an.raises]
  /\ UNCHANGED instances

Instanciate(an) == (\E f \in Needed(an) : Begin(f)) /\ UNCHANGED raises

VisitOpcode ==
  /\ phase = "compiling"
  /\ analyses # << >>
  /\ unit.code # << >>
  /\ \E an \in {Visited} : Instanciate(an) \/ Step(an)
  /\ UNCHANGED << source, phase, vars >>

Executable(instrs) == SelectSeq(instrs, LAMBDA i : i.op \in Op)

(* instance.update, or invalidate: its callers are invalid in turn.        *)
Finish ==
  /\ phase = "compiling"
  /\ analyses # << >>
  /\ unit.code = << >>
  /\ analyses' = Front(analyses)
  /\ instances' =
       (unit.func :> [valid |-> unit.an.ok, done |-> TRUE,
                      code |-> IF unit.an.ok THEN Executable(unit.an.out) ELSE << >>,
                      framesize |-> Len(unit.an.lv) + 1]) @@ instances
  /\ UNCHANGED << source, phase, raises, vars >>

-----------------------------------------------------------------------------
(* Program::execute.                                                       *)

Linked ==
  LET valid == {f \in DOMAIN instances : instances[f].valid}
  IN [entry |-> "main", func |-> [f \in valid |-> [code |-> instances[f].code,
                                                  framesize |-> instances[f].framesize]],
      dtor |-> [c \in DOMAIN source.dtor |->
                  IF source.dtor[c] \in valid THEN source.dtor[c] ELSE NoFunc]]

(* A slip: the errors that leave the entry point are not looked at.        *)
AcceptedWithLeaks == \A f \in DOMAIN instances : instances[f].valid

(* No error was reported, and the entry point lets no error out: noleaks.  *)
Accepted == (\A f \in DOMAIN instances : instances[f].valid) /\ raises["main"] = {}

Refuse ==
  /\ phase = "compiling"
  /\ analyses = << >>
  /\ ~ Accepted
  /\ phase' = "refused"
  /\ UNCHANGED << source, analyses, instances, raises, vars >>

Load ==
  /\ phase = "compiling"
  /\ analyses = << >>
  /\ Accepted
  /\ phase' = "running"
  /\ prog' = Linked
  /\ status' = "running"
  /\ ircode' = "main"
  /\ cursor' = 1
  /\ pile' = << [r \in 0 .. 1 |-> Undef],
                [r \in 0 .. instances["main"].framesize - 1 |-> IF r = 0 THEN null ELSE Undef] >>
  /\ saved' = << [ircode |-> "main", cursor |-> 0, upperLabelID |-> 0, retlvid |-> 1,
                  then |-> Then("entry", null, 0, 0)] >>
  /\ UNCHANGED << source, analyses, instances, raises, upperLabelID, retval, parameters,
                  heap, errors >>

Run == phase = "running" /\ Next /\ UNCHANGED compiler

-----------------------------------------------------------------------------
(* The thread has done all it had to until a program is loaded.            *)
PipelineInit ==
  /\ source \in Sources
  /\ phase = "compiling"
  /\ analyses = << AnalysisOf("main") >>
  /\ instances = ("main" :> Unknown)
  /\ raises = [f \in DOMAIN source.func |-> {}]
  /\ prog = [entry |-> "main", func |-> << >>, dtor |-> << >>]
  /\ status = "done" /\ ircode = "main" /\ cursor = 1 /\ upperLabelID = 0
  /\ pile = << >> /\ saved = << >> /\ retval = 0 /\ parameters = << >>
  /\ heap = << >>
  /\ raisedError = null /\ raisedErrorAtomid = 0 /\ unwindRaisedError = FALSE

PipelineNext == VisitOpcode \/ Finish \/ Refuse \/ Load \/ Run

PipelineSpec == PipelineInit /\ [][PipelineNext]_<< compiler, vars >>

-----------------------------------------------------------------------------
(* Properties.                                                             *)

(* The code that reaches the interpreter is the code it relies on: strictly*)
(* ordered labels, jumps to labels of the function, registers in the frame,*)
(* functions and destructors that exist.                                   *)
WellLinked ==
  phase = "running" /\ cursor = 1 /\ Len(saved) = 1 =>
    IsProgram(prog) /\ \A f \in DOMAIN prog.func : WellLabelled(prog.func[f])

(* An error goes through the calls; a destructor run on the way is none of *)
(* its business.                                                           *)
Unwinding ==
  /\ phase = "running" /\ status = "running" /\ unwindRaisedError
  /\ \A i \in DOMAIN saved : saved[i].then.kind \in {"entry", "resume"}

(* An error that leaves a function is one the analyzer said it raises.     *)
ErrorsForeseen == Unwinding /\ cursor > Len(code) => raisedErrorAtomid \in raises[ircode]

(* While an error unwinds, nothing but the way to a handler is executed:   *)
(* what is held is released, and no statement of the source runs.          *)
ErrorHeeded ==
  Unwinding /\ cursor <= Len(code) =>
    opr.op \in {"raise", "jzraise", "unref", "jmperrhandler", "ret"}

(* The program ends with no error left: the errors its entry point could   *)
(* let out are compile errors (checkForMissingErrorHandlers).              *)
NoErrorLeft == status = "done" => ~ unwindRaisedError

(* A function is analysed once, however it is reached, and its analysis    *)
(* ends before that of the function that needed it goes on: recursion ends.*)
AnalysedOnce ==
  \A i, j \in DOMAIN analyses : analyses[i].func = analyses[j].func => i = j

(* The registers an instruction reads.                                     *)
Read ==
  CASE opr.op \in {"ref", "unref", "push", "jz", "jnz", "raise", "opassert"} -> {opr.lvid}
    [] opr.op \in {"store", "fieldget"} -> {opr.arg}
    [] opr.op = "fieldset" -> {opr.lvid, opr.arg}
    [] opr.op = "ret" -> {opr.lvid} \ {0}
    [] OTHER -> {}

(* No register is read before it is written: frames are not cleared.       *)
WrittenFirst ==
  phase = "running" /\ status = "running" /\ cursor <= Len(code) =>
    \A r \in Read : registers[r] # Undef

(* The parameters pushed for a call are still there when it is made: an    *)
(* opcode in between may run a destructor, which pushes its own.           *)
ParametersKept ==
  phase = "running" /\ status = "running" /\ parameters # << >> =>
    cursor <= Len(code) /\ opr.op \in {"push", "call", "intrinsic"}

(* An object is released by the destructor of its class: the one the       *)
(* analyzer named, from the type it gave the register.                     *)
OwnDestructor ==
  Executing("unref") /\ Valid(opr.lvid) => heap[registers[opr.lvid]].class = opr.atomid

(* What is released is alive: a variable that was released on the way to a *)
(* handler is not released again where its block ends.                     *)
ReleasedOnce == Executing("unref") => Valid(opr.lvid)

(* The result of a call that is released was acquired by the function that *)
(* was called, however it was left.                                        *)
ReturnedValueAcquired == Executing("unref") => registers[opr.lvid] # null
=============================================================================
