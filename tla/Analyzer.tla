------------------------------ MODULE Analyzer ------------------------------
(***************************************************************************)
(* Semantic analysis of one function (struct Analyzer and the visitors of  *)
(* details/semantic/opcode-*.cpp): it reads the opcodes produced from the  *)
(* AST, types every register, decides which registers hold a reference to  *)
(* be released and where, and emits the opcodes the interpreter runs.      *)
(*                                                                         *)
(* The state of the analysis is one record, `an'; each visitor is an       *)
(* operator from a state to the next one.  What analysing a function needs *)
(* from the others is in the library `an.lib': the names, the signatures   *)
(* and the errors of the functions, the members and the destructors of the *)
(* classes (see instances for how they get there).                         *)
(*                                                                         *)
(* A type is 0 for void, -1 for a builtin, -2 when nothing is known yet,   *)
(* and the id of a class otherwise.                                        *)
(***************************************************************************)
EXTENDS Integers, FiniteSets, SequencesExt

CONSTANT NoFunc

void    == 0
builtin == -1
any     == -2

(* The opcodes of the output.                                              *)
O(op, lvid, arg, func, label, class) ==
  [op |-> op, lvid |-> lvid, arg |-> arg, func |-> func, label |-> label,
   atomid |-> class]

Ref(r)            == O("ref", r, 0, NoFunc, 0, 0)
Unref(r, class)   == O("unref", r, 0, NoFunc, 0, class)
Copy(r, from)     == O("store", r, from, NoFunc, 0, 0)
FieldSet(r, self) == O("fieldset", r, self, NoFunc, 0, 0)
FieldGet(r, self) == O("fieldget", r, self, NoFunc, 0, 0)
MemAlloc(r, class) == O("memalloc", r, 0, NoFunc, 0, class)
Push(r)           == O("push", r, 0, NoFunc, 0, 0)
CallTo(r, func)   == O("call", r, 0, func, 0, 0)
Return(r)         == O("ret", r, 0, NoFunc, 0, 0)
LabelOf(l)        == O("label", 0, 0, NoFunc, l, 0)
StackAlloc(r)     == O("stackalloc", r, 0, NoFunc, 0, 0)
Nop               == O("nop", 0, 0, NoFunc, 0, 0)

(* LVIDInfo and the Classdef of a register.                                *)
Register ==
  [scope |-> -1, name |-> "", synthetic |-> TRUE, autorelease |-> FALSE,
   alias |-> 0, referer |-> 0, assignment |-> FALSE, setterself |-> 0,
   memalloc |-> FALSE, returned |-> FALSE, member |-> 0, declared |-> 0,
   error |-> FALSE, type |-> any, ref |-> FALSE, func |-> NoFunc]

-----------------------------------------------------------------------------
(* Emission and errors.                                                    *)

canGenerateCode(an) == an.lock = 0

(* Some opcodes are emitted whether code is wanted or not.                 *)
EmitAnyway(an, instrs) == [an EXCEPT !.out = @ \o instrs]

Emit(an, instrs) == IF canGenerateCode(an) THEN EmitAnyway(an, instrs) ELSE an

Complain(an) == [an EXCEPT !.ok = FALSE]

Invalidate(an, r) == [Complain(an) EXCEPT !.lv[r].error = TRUE]

verify(an, r) == ~ an.lv[r].error

canBeAcquired(type) == type > 0

AcquireObject(an, r) ==
  [Emit(an, << Ref(r) >>) EXCEPT !.lv[r].autorelease = TRUE]

TryToAcquire(an, r) == IF canBeAcquired(an.lv[r].type) THEN AcquireObject(an, r) ELSE an

(* tryUnrefObject: `unref' names the destructor of the register's class.   *)
TryUnref(an, r) ==
  IF ~ verify(an, r) \/ ~ canBeAcquired(an.lv[r].type) THEN an
  ELSE IF an.lv[r].synthetic THEN Complain(an)
  ELSE Emit(an, << Unref(r, an.lv[r].type) >>)

(* The last declared first.                                                *)
Descending(registers) ==
  [i \in 1 .. Cardinality(registers) |->
     CHOOSE r \in registers : Cardinality({q \in registers : q > r}) = i - 1]

(* A slip: the variables of the scope itself are left out.                 *)
ReleaseInnerScopes(an, scope, forget) ==
  LET open == {r \in DOMAIN an.lv : an.lv[r].scope > scope}
      held == Descending({r \in open : an.lv[r].autorelease})
      done == IF canGenerateCode(an) THEN FoldLeft(TryUnref, an, held) ELSE an
  IN IF forget
     THEN [done EXCEPT !.lv = [r \in DOMAIN done.lv |->
             IF r \in open THEN [done.lv[r] EXCEPT !.name = "", !.scope = -1] ELSE done.lv[r]]]
     ELSE done

(* releaseScopedVariables: unref, in reverse order, what was declared in   *)
(* the scopes from `scope' in; forgotten variables are not released again. *)
ReleaseScopedVariables(an, scope, forget) ==
  LET open == {r \in DOMAIN an.lv : an.lv[r].scope >= scope}
      held == Descending({r \in open : an.lv[r].autorelease})
      done == IF canGenerateCode(an) THEN FoldLeft(TryUnref, an, held) ELSE an
  IN IF forget
     THEN [done EXCEPT !.lv = [r \in DOMAIN done.lv |->
             IF r \in open THEN [done.lv[r] EXCEPT !.name = "", !.scope = -1] ELSE done.lv[r]]]
     ELSE done

ReleaseAll(an) == ReleaseScopedVariables(an, 0, FALSE)

(* createLocalVariables; the first of them is FirstCreated(an).            *)
FirstCreated(an) == Len(an.lv) + 1

CreateLocalVariables(an, count) ==
  LET first == FirstCreated(an)
      fresh(i) == [Register EXCEPT !.scope = an.scope, !.synthetic = FALSE,
                                   !.declared = Len(an.out) + i]
  IN [Emit(an, [i \in 1 .. count |-> StackAlloc(first + i - 1)]) EXCEPT
        !.lv = @ \o [i \in 1 .. count |-> fresh(i)]]

findLocalVariable(an, name) ==
  LET found == {r \in DOMAIN an.lv : an.lv[r].name = name}
  IN IF found = {} THEN 0 ELSE CHOOSE r \in found : \A q \in found : q <= r

DeclareNamedVariable(an, name, r, autorelease) ==
  IF ~ verify(an, r) THEN an
  ELSE IF findLocalVariable(an, name) # 0 THEN Invalidate(an, r)
  ELSE [an EXCEPT !.lv[r].name = name, !.lv[r].scope = an.scope,
          !.lv[r].autorelease = autorelease /\ canBeAcquired(an.lv[r].type)]

-----------------------------------------------------------------------------
(* Assignments.                                                            *)

(* TypeCheck::isSimilarTo, strict, but for the members of two classes.     *)
StrictEqual(from, to) == from = to

(* The old value is released after the new one was acquired (a = a); a     *)
(* member holds a reference of its own.                                    *)
DisposeOld(an, lhs, dispose) ==
  LET once == TryUnref(an, lhs)
  IN IF ~ dispose THEN an
     ELSE IF an.lv[lhs].member # 0 THEN TryUnref(once, lhs) ELSE once

StoreMember(an, lhs) ==
  IF an.lv[lhs].member # 0
  THEN Emit(an, << Ref(lhs), FieldSet(lhs, an.lv[lhs].member) >>) ELSE an

(* AssignStrategy::rawregister, ref and deepcopy.                          *)
AssignRaw(an, lhs, rhs) ==
  LET done == Emit(an, << Copy(lhs, rhs) >>)
  IN IF an.lv[lhs].member # 0 THEN Emit(done, << FieldSet(lhs, an.lv[lhs].member) >>)
     ELSE done

(* A slip: the copy is not counted.                                       *)
AssignRefUncounted(an, lhs, rhs, dispose) ==
  LET kept == [an EXCEPT !.lv[lhs].memalloc = an.lv[rhs].memalloc,
                         !.lv[lhs].returned = an.lv[rhs].returned]
      old  == DisposeOld(kept, lhs, dispose)
  IN StoreMember(Emit(old, << Copy(lhs, rhs) >>), lhs)

AssignRef(an, lhs, rhs, dispose) ==
  LET kept == [an EXCEPT !.lv[lhs].memalloc = an.lv[rhs].memalloc,
                         !.lv[lhs].returned = an.lv[rhs].returned]
      old  == DisposeOld(Emit(kept, << Ref(rhs) >>), lhs, dispose)
  IN StoreMember(Emit(old, << Copy(lhs, rhs) >>), lhs)

(* A slip: the copied object is released before the copy.                  *)
AssignDeepCopyEarly(an, lhs, rhs, dispose) ==
  LET class   == an.lv[rhs].type
      old     == DisposeOld(Emit(an, << Ref(rhs) >>), lhs, dispose)
      retcall == FirstCreated(an) + 1
      created == CreateLocalVariables(old, 2)
      given   == Emit(created, << MemAlloc(lhs, class), Ref(lhs), Push(lhs), Push(rhs) >>)
      copied  == [Emit(TryUnref(given, rhs), << CallTo(retcall, an.lib.clone[class]) >>) EXCEPT
                    !.lv[retcall - 1].type = builtin, !.lv[retcall].type = void,
                    !.lv[lhs].memalloc = TRUE]
  IN StoreMember(copied, lhs)

AssignDeepCopy(an, lhs, rhs, dispose) ==
  LET class   == an.lv[rhs].type
      old     == DisposeOld(Emit(an, << Ref(rhs) >>), lhs, dispose)
      retcall == FirstCreated(an) + 1
      created == CreateLocalVariables(old, 2)
      copied  == [Emit(created, << MemAlloc(lhs, class), Ref(lhs), Push(lhs), Push(rhs),
                                   CallTo(retcall, an.lib.clone[class]) >>) EXCEPT
                    !.lv[retcall - 1].type = builtin, !.lv[retcall].type = void,
                    !.lv[lhs].memalloc = TRUE]
  IN StoreMember(TryUnref(copied, rhs), lhs)

(* instanciateAssignment.                                                  *)
InstanciateAssignment(an, lhs, rhs, dispose, checktype, forceDeepcopy) ==
  LET L     == an.lv[lhs]
      R     == an.lv[rhs]
      typed == [an EXCEPT !.lv[lhs].type = R.type,
                  !.lv[lhs].autorelease = @ \/ canBeAcquired(R.type)]
  IN IF lhs = rhs \/ L.error \/ R.error \/ (checktype /\ (L.synthetic \/ R.synthetic))
     THEN Invalidate(an, lhs)
     ELSE IF L.type = builtin /\ R.type = an.lib.bool
     THEN Emit(an, << FieldGet(lhs, rhs) >>)
     ELSE IF checktype /\ ~ StrictEqual(L.type, R.type)
     THEN Invalidate(an, lhs)
     ELSE IF R.type = void
     THEN [an EXCEPT !.lv[lhs].type = void, !.lv[lhs].autorelease = FALSE]
     ELSE IF ~ canBeAcquired(R.type)
     THEN AssignRaw(typed, lhs, rhs)
     ELSE IF ~ forceDeepcopy /\ (L.ref \/ R.memalloc \/ R.returned)
     THEN AssignRef(typed, lhs, rhs, dispose)
     ELSE IF canGenerateCode(an) THEN AssignDeepCopy(typed, lhs, rhs, dispose)
     ELSE typed

(* a = b is a call of a."=": the variable is the referer of the referer,   *)
(* or the local variable that one was read from.                           *)
AssignmentCall(an, r, functor) ==
  LET read == an.lv[an.lv[functor].referer].referer
      lhs  == IF an.lv[read].alias # 0 THEN an.lv[read].alias ELSE read
      done == InstanciateAssignment(an, lhs, an.pushed[1], TRUE, TRUE, FALSE)
      held == [done EXCEPT !.lv[r].type = done.lv[lhs].type, !.lv[r].autorelease = TRUE]
  IN IF done.lv[lhs].error THEN Invalidate(done, r)
     ELSE IF canBeAcquired(done.lv[lhs].type)
     THEN Emit(held, << Copy(r, lhs), Ref(r) >>)
     ELSE [done EXCEPT !.lv[r].type = done.lv[lhs].type]

-----------------------------------------------------------------------------
(* Names.                                                                  *)

IdentifyLocal(an, r, var) ==
  LET read == [an EXCEPT !.lv[r].alias = var, !.lv[r].synthetic = FALSE]
      copy == [Emit(read, << Copy(r, var) >>) EXCEPT !.lv[r].type = an.lv[var].type]
  IN IF ~ verify(an, var) THEN Invalidate(read, r)
     ELSE IF canBeAcquired(an.lv[var].type)
     THEN AcquireObject([copy EXCEPT !.lv[r].memalloc = FALSE, !.lv[r].returned = FALSE], r)
     ELSE copy

(* A member of `self', or of the class the function belongs to.            *)
IdentifyMember(an, r, type, self) ==
  LET owner == IF self = 0 THEN 2 ELSE self
      read  == [an EXCEPT !.lv[r].type = type, !.lv[r].synthetic = FALSE,
                          !.lv[r].member = owner]
  IN TryToAcquire(Emit(read, << FieldGet(r, owner) >>), r)

(* doInstanciateAtomFunc: the result of a call is released automatically,  *)
(* the function has acquired it.                                           *)
InstanciateFunc(an, r, func) ==
  LET ret == an.lib.sig[func].ret
  IN IF ~ an.lib.sig[func].valid THEN Invalidate(an, r)
     ELSE IF ret = void THEN [an EXCEPT !.lv[r].type = void, !.lv[r].returned = TRUE]
     ELSE [an EXCEPT !.lv[r].type = ret, !.lv[r].returned = TRUE,
             !.lv[r].synthetic = FALSE,
             !.lv[r].autorelease = @ \/ canBeAcquired(ret)]

PushAll(params) == [i \in DOMAIN params |-> Push(params[i])]

(* emitIdentifyForProperty: a getter is called where its name is read.     *)
IdentifyProperty(an, r, func, self) ==
  LET owner == IF self = 0 THEN 2 ELSE self
  IN Emit(InstanciateFunc(an, r, func), PushAll(<< owner >>) \o << CallTo(r, func) >>)

(* Analyzer::identify, for one result.  lookup[class, name] is what the    *)
(* name means in a class, class 0 standing for the scopes around; a method *)
(* looks in its own class first.                                           *)
VisitIdentify(an, opc) ==
  LET r     == opc.lvid
      named == [an EXCEPT !.lv[r].referer = opc.self]
      var   == findLocalVariable(an, opc.name)
      class == IF opc.self # 0 THEN an.lv[opc.self].type
               ELSE IF << an.class, opc.name >> \in DOMAIN an.lib.lookup THEN an.class ELSE 0
      found == << class, opc.name >> \in DOMAIN an.lib.lookup
      what  == an.lib.lookup[class, opc.name]
  IN IF opc.name = "="
     THEN [named EXCEPT !.lv[r].assignment = TRUE,
                        !.lv[r].setterself = an.lv[opc.self].setterself,
                        !.lv[r].func = an.lv[opc.self].func]
     ELSE IF opc.self # 0 /\ ~ verify(an, opc.self) THEN Invalidate(named, r)
     ELSE IF opc.self # 0 /\ opc.name = "^()"
     THEN [named EXCEPT !.lv[r].assignment = an.lv[opc.self].assignment,
                        !.lv[r].setterself = an.lv[opc.self].setterself,
                        !.lv[r].func = an.lv[opc.self].func]
     ELSE IF opc.self = 0 /\ var # 0 THEN IdentifyLocal(named, r, var)
     ELSE IF ~ found THEN Invalidate(named, r)
     ELSE CASE what.kind = "func"   -> [named EXCEPT !.lv[r].func = what.of]
            [] what.kind = "class"  -> [named EXCEPT !.lv[r].type = what.of]
            [] what.kind = "member" -> IdentifyMember(named, r, what.of, opc.self)
            [] what.kind = "property" /\ ~ opc.set ->
                 IdentifyProperty(named, r, what.get, opc.self)
            [] what.kind = "property" /\ opc.set ->
                 [named EXCEPT !.lv[r].func = what.set, !.lv[r].synthetic = TRUE,
                               !.lv[r].setterself = IF opc.self = 0 THEN 2 ELSE opc.self]

-----------------------------------------------------------------------------
(* Errors and their handlers.                                              *)

TypedHandlers(an) == DOMAIN an.handlers

hasHandler(an) == an.handlers # << >> \/ an.anyHandler.label # 0

NoHandler == [class |-> 0, lvid |-> 0, label |-> 0, scope |-> 0]

(* OnScopeFailHandlers::find: the first of that class, else the one of     *)
(* any class.                                                              *)
FindHandler(an, class) ==
  LET same == {i \in TypedHandlers(an) : an.handlers[i].class = class}
  IN IF same = {} THEN an.anyHandler
     ELSE an.handlers[CHOOSE i \in same : \A j \in same : i <= j]

(* OnScopeFailHandlers::scope.                                             *)
HandlerScope(an) ==
  IF an.anyHandler.label # 0 THEN an.anyHandler.scope ELSE an.handlers[1].scope

(* raisedErrorsFromFuncCall: an error a local handler takes is not the     *)
(* function's any more, one that no handler takes is reported.             *)
RaisedFromCall(an, raises) ==
  IF raises = {} THEN an
  ELSE IF an.isdtor THEN Complain(an)
  ELSE IF ~ hasHandler(an) THEN [an EXCEPT !.raises = @ \cup raises]
  ELSE IF \E class \in raises : FindHandler(an, class).label = 0 THEN Complain(an)
  ELSE an

VisitJzRaise(an, opc) ==
  LET tested == EmitAnyway(an, << O("jzraise", 0, 0, NoFunc, opc.label, 0) >>)
      released == ReleaseScopedVariables(tested, IF hasHandler(an) THEN HandlerScope(an) ELSE 0, FALSE)
      jumps == [i \in TypedHandlers(an) |->
                  O("jmperrhandler", 0, 0, NoFunc, an.handlers[i].label, an.handlers[i].class)]
      anyway == IF an.anyHandler.label = 0 THEN << >>
                ELSE << O("jmperrhandler", 0, 0, NoFunc, an.anyHandler.label, 0) >>
      left == IF hasHandler(an) THEN jumps \o anyway ELSE << Return(0) >>
  IN EmitAnyway(released, left \o << LabelOf(opc.label) >>)

(* A slip: the first handler, whatever its class.                         *)
VisitRaiseToFirst(an, opc) ==
  LET class   == an.lv[opc.lvid].type
      handler == IF an.handlers = << >> THEN an.anyHandler ELSE an.handlers[1]
      held    == EmitAnyway(an, << Ref(opc.lvid) >>)
      raise(state, label) ==
        EmitAnyway(state, << O("raise", opc.lvid, 0, NoFunc, label, class) >>)
  IN IF ~ canBeAcquired(class) \/ an.isdtor THEN Complain(an)
     ELSE IF ~ hasHandler(an)
     THEN raise(ReleaseAll([held EXCEPT !.raises = @ \cup {class}]), 0)
     ELSE IF handler.label = 0 THEN Complain(an)
     ELSE raise(ReleaseScopedVariables(
                  IF handler.lvid # an.anyHandler.lvid THEN held ELSE an, handler.scope, FALSE),
                handler.label)

VisitRaise(an, opc) ==
  LET class   == an.lv[opc.lvid].type
      handler == FindHandler(an, class)
      held    == EmitAnyway(an, << Ref(opc.lvid) >>)
      raise(state, label) ==
        EmitAnyway(state, << O("raise", opc.lvid, 0, NoFunc, label, class) >>)
  IN IF ~ canBeAcquired(class) \/ an.isdtor THEN Complain(an)
     ELSE IF ~ hasHandler(an)
     THEN raise(ReleaseAll([held EXCEPT !.raises = @ \cup {class}]), 0)
     ELSE IF handler.label = 0 THEN Complain(an)
     ELSE raise(ReleaseScopedVariables(
                  IF handler.lvid # an.anyHandler.lvid THEN held ELSE an, handler.scope, FALSE),
                handler.label)

(* onscopefail comes after the code of the handler, and once more, with no *)
(* label, at the end of the block the handler protects.                    *)
VisitOnScopeFail(an, opc) ==
  LET class   == IF opc.lvid = 0 THEN 0 ELSE an.lv[opc.lvid].type
      handler == [class |-> class, lvid |-> opc.lvid, label |-> opc.label, scope |-> an.scope]
  IN IF opc.lvid # 0 /\ ~ canBeAcquired(class) THEN Complain(an)
     ELSE IF opc.label # 0 /\ opc.lvid # 0
     THEN LET known == IF hasHandler(an) /\ FindHandler(an, class).label # 0
                       THEN Complain(an) ELSE an
          IN [known EXCEPT !.handlers = Append(@, handler),
                !.lv[opc.lvid].synthetic = FALSE, !.lv[opc.lvid].autorelease = FALSE,
                !.lv[opc.lvid].name = "", !.lv[opc.lvid].scope = -1]
     ELSE IF opc.label # 0
     THEN IF an.anyHandler.label # 0 THEN Complain(an)
          ELSE [an EXCEPT !.anyHandler = handler]
     ELSE IF opc.lvid # 0
     THEN [an EXCEPT !.handlers = SubSeq(@, 1, Len(@) - 1)]
     ELSE [an EXCEPT !.anyHandler.label = 0]

-----------------------------------------------------------------------------
(* Intrinsics of the language.  The kinds of builtins are not told apart;  *)
(* lib.builtins are the classes that stand for one (bool, i32...).         *)

Operators == { "and", "or", "xor", "mod", "modi", "add", "sub", "mul", "div", "imul",
               "idiv", "fadd", "fmul", "fdiv" }

(* `fsub' is one: it emits igte.                                           *)
Comparisons == { "eq", "neq", "lt", "lte", "gt", "gte", "ilt", "ilte", "igt", "igte",
                 "flt", "flte", "fgt", "fgte", "fsub" }

Loads    == {"load.ptr", "load.u8", "load.u32", "load.u64", "strlen32", "strlen64"}
Stores   == {"store.ptr", "store.u8", "store.u32", "store.u64"}
Platform == { "os.is.aix", "os.is.bsd", "os.is.cygwin", "os.is.linux", "os.is.macos",
              "os.is.posix", "os.is.unix", "os.is.windows" }

(* builtinDispatch: the number of parameters an intrinsic is given.        *)
ParamCount(name) ==
  CASE name \in Platform -> 0
    [] name \in Loads \cup {"memory.allocate", "pointer", "ref", "unref", "sizeof", "not",
                            "assert"} -> 1
    [] name \in Operators \cup Comparisons \cup Stores
              \cup {"memory.dispose", "as", "^fieldset"} -> 2
    [] name \in {"memory.cmp", "memory.copy", "memory.fill", "memory.move",
                 "memory.realloc"} -> 3

ComputeTo(r) == O("compute", r, 0, NoFunc, 0, 0)

(* An operand that is an object: the builtin in it is read, in a register  *)
(* of its own.                                                             *)
IsPod(an, r) == an.lv[r].type \in an.lib.builtins

ReadPod(an, r) ==
  IF IsPod(an, r) /\ canGenerateCode(an)
  THEN Emit(CreateLocalVariables(an, 1), << FieldGet(FirstCreated(an), r) >>)
  ELSE an

(* The result is an object made for it.                                    *)
PodResult(an, r, class) ==
  LET result == FirstCreated(an)
      typed  == [an EXCEPT !.lv[r].type = class, !.lv[r].ref = TRUE]
      made   == CreateLocalVariables(typed, 2)
  IN IF ~ canGenerateCode(an) THEN typed
     ELSE [Emit(made, << ComputeTo(result), ComputeTo(result + 1), MemAlloc(r, class), Ref(r),
                         FieldSet(result, r) >>)
             EXCEPT !.lv[r].autorelease = TRUE, !.lv[result].type = builtin,
                    !.lv[result + 1].type = builtin]

BuiltinResult(an, r) == Emit([an EXCEPT !.lv[r].type = builtin], << ComputeTo(r) >>)

(* emitBuiltinOperator.  An `and' the result of which is tested to skip    *)
(* the second operand stays a builtin.                                     *)
BuiltinOperator(an, r, name) ==
  LET lhs   == an.pushed[1]
      rhs   == an.pushed[2]
      read  == ReadPod(ReadPod(an, lhs), rhs)
      class == IF name \in Comparisons THEN an.lib.bool
               ELSE an.lv[IF IsPod(an, rhs) THEN rhs ELSE lhs].type
  IN IF \E q \in {lhs, rhs} : an.lv[q].type # builtin /\ ~ IsPod(an, q) THEN Invalidate(an, r)
     ELSE IF (IsPod(an, lhs) \/ IsPod(an, rhs)) /\ an.shortcircuit.label = 0
     THEN PodResult(read, r, class)
     ELSE BuiltinResult(read, r)

BuiltinNot(an, r) ==
  LET operand == an.pushed[1]
  IN IF an.lv[operand].type \notin {builtin, an.lib.bool} THEN Invalidate(an, r)
     ELSE IF IsPod(an, operand) THEN PodResult(ReadPod(an, operand), r, an.lib.bool)
     ELSE BuiltinResult(an, r)

BuiltinAssert(an, r) ==
  LET operand == an.pushed[1]
      checked == IF IsPod(an, operand) THEN FirstCreated(an) ELSE operand
      nothing == [an EXCEPT !.lv[r].type = void]
  IN IF an.lv[operand].type \notin {builtin, an.lib.bool} THEN Invalidate(nothing, r)
     ELSE Emit(ReadPod(nothing, operand), << O("opassert", checked, 0, NoFunc, 0, 0) >>)

(* A member is given its default value, or a builtin read from an object.  *)
BuiltinFieldset(an, r) ==
  LET value   == an.pushed[1]
      member  == an.members[1].type
      nothing == [an EXCEPT !.lv[r].type = void]
      local   == FirstCreated(an)
  IN IF member = builtin /\ IsPod(an, value)
     THEN Emit(ReadPod(nothing, value), << FieldSet(local, 2) >>)
     ELSE IF an.lv[value].type # member THEN Invalidate(nothing, r)
     ELSE Emit(IF canGenerateCode(an) THEN TryToAcquire(nothing, value) ELSE nothing,
               << FieldSet(value, 2) >>)

(* The address of an object, or null.                                      *)
BuiltinPointer(an, r) ==
  LET value == an.pushed[1]
  IN Emit([an EXCEPT !.lv[r].type = builtin],
          << IF canBeAcquired(an.lv[value].type) THEN Copy(r, value)
             ELSE O("constant", r, 0, NoFunc, 0, 0) >>)

(* Raw memory: the operands must be builtins; the blocks are not followed. *)
BuiltinMemory(an, r, name) ==
  LET gives == name \in Loads \cup {"memory.allocate", "memory.realloc", "memory.cmp", "as"}
  IN IF \E i \in DOMAIN an.pushed : an.lv[an.pushed[i]].type # builtin THEN Invalidate(an, r)
     ELSE IF gives THEN BuiltinResult(an, r)
     ELSE Emit([an EXCEPT !.lv[r].type = void], << O("memory", r, 0, NoFunc, 0, 0) >>)

LangIntrinsic(an, r, name) ==
  CASE name \in Operators \cup Comparisons -> BuiltinOperator(an, r, name)
    [] name = "not"       -> BuiltinNot(an, r)
    [] name = "assert"    -> BuiltinAssert(an, r)
    [] name = "^fieldset" -> BuiltinFieldset(an, r)
    [] name = "pointer"   -> BuiltinPointer(an, r)
    [] name = "ref"       -> LET done == TryToAcquire(an, an.pushed[1])
                             IN [IF canGenerateCode(an) THEN done ELSE an EXCEPT !.lv[r].type = void]
    [] name = "unref"     -> [TryUnref(an, an.pushed[1]) EXCEPT !.lv[r].type = void]
    [] name \in Platform \cup {"sizeof"} -> BuiltinResult(an, r)
    [] OTHER              -> BuiltinMemory(an, r, name)

(* An intrinsic of the program that embeds the compiler: builtins only.    *)
UserIntrinsic(an, r) ==
  LET wrong == \E i \in DOMAIN an.pushed : an.lv[an.pushed[i]].type # builtin
      made  == [an EXCEPT !.lv[r].type = builtin, !.lv[r].synthetic = FALSE]
  IN IF wrong THEN Invalidate(made, r)
     ELSE Emit(made, PushAll(an.pushed) \o << O("intrinsic", r, 0, NoFunc, 0, 0) >>)

VisitIntrinsic(an, opc) ==
  LET real == [an EXCEPT !.lv[opc.lvid].synthetic = FALSE]
      done == IF opc.name = "user" THEN UserIntrinsic(an, opc.lvid)
              ELSE IF Len(an.pushed) # ParamCount(opc.name) THEN Invalidate(an, opc.lvid)
              ELSE LangIntrinsic(real, opc.lvid, opc.name)
  IN [done EXCEPT !.pushed = << >>]

(* The end of an expression: a type must be known, and be one.             *)
VisitEnsureResolved(an, opc) ==
  LET R     == an.lv[opc.lvid]
      wrong == R.error \/ (R.type = any /\ (R.func = NoFunc \/ R.setterself = 0))
  IN [IF wrong THEN Invalidate(an, opc.lvid) ELSE an EXCEPT !.pushed = << >>]

-----------------------------------------------------------------------------
(* Calls.                                                                  *)

(* emitFuncCall: the referer of the referer is `self'; a method calls one  *)
(* of its own class without a referer.  A function with a builtinalias is  *)
(* an intrinsic: no frame, no error.                                       *)
FuncCall(an, r, functor) ==
  LET func == an.lv[functor].func
      sig  == an.lib.sig[func]
      of   == an.lv[an.lv[functor].referer].referer
      self == IF of = 0 /\ an.class # 0 /\ sig.class = an.class THEN 2 ELSE of
      params == (IF self # 0 THEN << self >> ELSE << >>) \o an.pushed
      made == InstanciateFunc(an, r, func)
      call == Emit(made, PushAll(params) \o << CallTo(r, func) >>)
  IN IF ~ verify(an, functor) \/ ~ verify(an, r) \/ func = NoFunc
        \/ Len(params) # Len(sig.params) \/ ~ sig.valid
        \/ \E i \in DOMAIN params : sig.params[i].type \notin {any, an.lv[params[i]].type}
     THEN Invalidate(an, r)
     ELSE IF sig.alias # ""
     THEN LangIntrinsic([an EXCEPT !.shortcircuit.compareTo = sig.compareTo], r, sig.alias)
     ELSE IF canGenerateCode(an) THEN RaisedFromCall(call, sig.raises) ELSE call

(* emitPropsetCall.                                                        *)
PropsetCall(an, r, functor) ==
  LET func == an.lv[functor].func
      made == InstanciateFunc(an, r, func)
      call == Emit(made, PushAll(<< an.lv[functor].setterself, an.pushed[1] >>)
                           \o << CallTo(r, func) >>)
  IN RaisedFromCall(call, an.lib.sig[func].raises)

(* generateShortCircuitInstrs: two nops were left after the stackalloc of  *)
(* the register label + 1, between the operands.                           *)
ShortCircuitInstrs(an, r) ==
  LET label == an.shortcircuit.label
      at    == an.lv[label + 1].declared
      first == an.pushed[1]
      jump(value) ==
        O(IF an.shortcircuit.compareTo THEN "jnz" ELSE "jz", value, r, NoFunc, label, 0)
  IN IF an.lv[first].type = builtin
     THEN [an EXCEPT !.out[at + 1] = jump(first)]
     ELSE IF an.lv[first].type # an.lib.bool THEN Complain(an)
     ELSE [an EXCEPT !.out[at + 1] = FieldGet(label + 1, first),
                     !.out[at + 2] = jump(label + 1)]

VisitCall(an, opc) ==
  LET real == [an EXCEPT !.lv[opc.lvid].synthetic = FALSE]
      done == IF an.lv[opc.functor].setterself # 0 THEN PropsetCall(real, opc.lvid, opc.functor)
              ELSE IF an.lv[opc.functor].assignment THEN AssignmentCall(real, opc.lvid, opc.functor)
              ELSE FuncCall([real EXCEPT !.lv[opc.lvid].returned = TRUE], opc.lvid, opc.functor)
      jumps == /\ an.shortcircuit.label # 0 /\ done.ok /\ canGenerateCode(an)
               /\ an.lv[opc.functor].setterself = 0
      short == IF jumps THEN ShortCircuitInstrs(done, opc.lvid) ELSE done
  IN [short EXCEPT !.pushed = << >>, !.shortcircuit.label = IF jumps THEN 0 ELSE @]

-----------------------------------------------------------------------------
(* Scopes, registers and jumps.                                            *)

VisitScope(an, opc) == [an EXCEPT !.scope = @ + 1]

(* The end of a function closes nothing but its frame.                     *)
VisitEnd(an, opc) ==
  LET released == ReleaseScopedVariables(an, an.scope, TRUE)
  IN IF an.scope > 0 THEN [released EXCEPT !.scope = @ - 1] ELSE released

VisitStackAlloc(an, opc) ==
  LET placed == [an EXCEPT !.lv[opc.lvid].scope = an.scope, !.lv[opc.lvid].type = opc.type,
                           !.lv[opc.lvid].synthetic = @ /\ opc.type # builtin]
  IN IF ~ verify(an, opc.lvid) THEN an
     ELSE IF ~ canGenerateCode(an) THEN placed
     ELSE EmitAnyway([placed EXCEPT !.lv[opc.lvid].declared = Len(an.out) + 1],
                     << StackAlloc(opc.lvid) >>)

VisitNameAlias(an, opc) ==
  LET named == DeclareNamedVariable(an, opc.name, opc.lvid, TRUE)
  IN IF opc.real THEN [named EXCEPT !.lv[opc.lvid].synthetic = FALSE] ELSE named

VisitRef(an, opc) ==
  IF ~ verify(an, opc.lvid) THEN an
  ELSE IF an.lv[opc.lvid].synthetic THEN Complain(an)
  ELSE IF canBeAcquired(an.lv[opc.lvid].type) THEN Emit(an, << Ref(opc.lvid) >>)
  ELSE an

VisitUnref(an, opc) == TryUnref(an, opc.lvid)

VisitAssign(an, opc) ==
  LET real == [an EXCEPT !.lv[opc.lhs].synthetic = FALSE,
                 !.lv[opc.lhs].type = IF @ = any THEN an.lv[opc.rhs].type ELSE @]
  IN IF ~ verify(an, opc.rhs) THEN Invalidate(an, opc.lhs)
     ELSE InstanciateAssignment(real, opc.lhs, opc.rhs, opc.dispose, TRUE, FALSE)

VisitStore(an, opc) ==
  LET real == [an EXCEPT !.lv[opc.lvid].synthetic = FALSE,
                 !.lv[opc.lvid].type = IF @ = any THEN an.lv[opc.source].type ELSE @]
  IN IF ~ verify(an, opc.source) THEN Invalidate(an, opc.lvid)
     ELSE Emit(real, << Copy(opc.lvid, opc.source) >>)

VisitStoreConstant(an, opc) ==
  Emit([an EXCEPT !.lv[opc.lvid].synthetic = FALSE],
       << O("constant", opc.lvid, opc.value, NoFunc, 0, 0) >>)

VisitStoreText(an, opc) ==
  Emit([an EXCEPT !.lv[opc.lvid].synthetic = FALSE, !.lv[opc.lvid].type = builtin],
       << O("constant", opc.lvid, 1, NoFunc, 0, 0) >>)

VisitFollow(an, opc) ==
  IF opc.symlink THEN an
  ELSE [an EXCEPT !.lv[opc.follower].type = an.lv[opc.lvid].type,
                  !.lv[opc.follower].ref = @ \/ an.lv[opc.lvid].ref]

VisitQualifierRef(an, opc) == [an EXCEPT !.lv[opc.lvid].ref = opc.on]

(* `self' is the first parameter, of the class the function belongs to.    *)
VisitSelf(an, opc) == [an EXCEPT !.lv[opc.self].ref = TRUE, !.lv[opc.self].type = an.class]

VisitPush(an, opc) ==
  LET pushed == [an EXCEPT !.pushed = Append(@, opc.lvid)]
  IN IF verify(an, opc.lvid) /\ an.lv[opc.lvid].synthetic THEN Complain(pushed) ELSE pushed

(* The register before that of the object was kept for its size.           *)
VisitAllocate(an, opc) ==
  LET class == an.lv[opc.class].type
      given == [an EXCEPT !.lv[opc.lvid].ref = TRUE, !.lv[opc.lvid].type = class,
                           !.lv[opc.lvid].memalloc = TRUE, !.lv[opc.lvid].synthetic = FALSE]
  IN IF ~ verify(an, opc.class) THEN [an EXCEPT !.lv[opc.lvid].error = TRUE]
     ELSE IF ~ canBeAcquired(class) THEN Complain(an)
     ELSE IF canGenerateCode(an)
     THEN AcquireObject(EmitAnyway(given, << MemAlloc(opc.lvid, class) >>), opc.lvid)
     ELSE given

VisitLabel(an, opc) == Emit(an, << LabelOf(opc.label) >>)

VisitJump(an, opc) ==
  Emit(an, << O(opc.op, opc.lvid, opc.result, NoFunc, opc.label, 0) >>)

VisitNop(an, opc) == Emit(an, << Nop >>)

(* A returned object is copied when needed to a register of its own, then  *)
(* acquired for the caller, before the variables are released.             *)
VisitRet(an, opc) ==
  LET none   == opc.lvid = 0 \/ an.lv[1].type = void
      tmp    == [an EXCEPT !.lv[opc.tmp].type = an.lv[opc.lvid].type,
                           !.lv[opc.tmp].ref = an.lv[1].ref,
                           !.lv[opc.tmp].synthetic = FALSE]
      copied == InstanciateAssignment(tmp, opc.tmp, opc.lvid, FALSE, TRUE, FALSE)
      give(state, r) == EmitAnyway(ReleaseAll(TryToAcquire(state, r)), << Return(r) >>)
      wrong == IF none THEN opc.lvid # 0 \/ an.lv[1].type # void
                       ELSE ~ StrictEqual(an.lv[opc.lvid].type, an.lv[1].type)
  IN IF wrong
     THEN Complain(an)
     ELSE IF ~ canGenerateCode(an) THEN an
     ELSE IF none THEN EmitAnyway(ReleaseAll(an), << Return(0) >>)
     ELSE IF an.lv[1].ref \/ an.lv[opc.lvid].type = builtin THEN give(an, opc.lvid)
     ELSE IF copied.lv[opc.tmp].error THEN copied
     ELSE give(copied, opc.tmp)

-----------------------------------------------------------------------------
(* Pragmas.                                                                *)

VisitCodegen(an, opc) ==
  [an EXCEPT !.lock = IF ~ opc.on THEN @ + 1 ELSE IF @ > 0 THEN @ - 1 ELSE 0]

VisitSynthetic(an, opc) == [an EXCEPT !.lv[opc.lvid].synthetic = opc.on]

VisitShortCircuit(an, opc) == [an EXCEPT !.shortcircuit.label = opc.label]

(* The __bool of `and' and `or' is given an object of class bool.          *)
VisitMutateToBool(an, opc) ==
  EmitAnyway([an EXCEPT !.lv[opc.lvid].synthetic = FALSE, !.lv[opc.lvid].type = an.lib.bool,
                        !.lv[opc.lvid].ref = TRUE, !.lv[opc.lvid].autorelease = TRUE],
             << MemAlloc(opc.lvid, an.lib.bool), Ref(opc.lvid), FieldSet(opc.source, opc.lvid) >>)

(* bodyStart: the parameters that are not references are cloned, into the  *)
(* registers that follow them, and swapped.                                *)
CloneParameter(an, r) ==
  LET clone  == r + Len(an.params)
      real   == [an EXCEPT !.lv[r].synthetic = FALSE, !.lv[clone].synthetic = FALSE]
      copied == InstanciateAssignment(real, clone, r, FALSE, FALSE, TRUE)
      object == canBeAcquired(an.lv[r].type)
      owned  == [copied EXCEPT !.lv[r].autorelease = @ \/ object,
                               !.lv[clone].autorelease = @ /\ ~ object]
  IN IF an.lv[r].ref THEN [an EXCEPT !.lv[r].synthetic = FALSE]
     ELSE Emit(owned, << Copy(r, clone) >>)

(* A slip: the first member is left as it was allocated.                   *)
MembersInitButFirst(an) ==
  LET first == FirstCreated(an)
      init(state, i) == EmitAnyway(state, << Push(2), CallTo(first + i - 1, an.members[i].init) >>)
  IN FoldLeft(init, CreateLocalVariables(an, Len(an.members)),
              SubSeq([i \in DOMAIN an.members |-> i], 2, Len(an.members)))

(* What a constructor, a destructor and a copy do first and the source     *)
(* does not say, for the members of the class.                             *)
MembersInit(an) ==
  LET first == FirstCreated(an)
      init(state, i) == EmitAnyway(state, << Push(2), CallTo(first + i - 1, an.members[i].init) >>)
  IN FoldLeft(init, CreateLocalVariables(an, Len(an.members)), [i \in DOMAIN an.members |-> i])

Objects(an, count) ==
  Cardinality({i \in 1 .. count : canBeAcquired(an.members[i].type)})

(* The user's destructor, then the members that are objects.               *)
MembersDispose(an) ==
  LET more  == IF an.userfunc = NoFunc THEN 0 ELSE 1
      first == FirstCreated(an)
      made  == CreateLocalVariables(an, Len(an.members) + more)
      user  == IF more = 0 THEN made
               ELSE [EmitAnyway(made, << Push(2), CallTo(first, an.userfunc) >>) EXCEPT
                       !.lv[first].type = void]
      dispose(state, i) ==
        LET r == first + more + Objects(an, i - 1)
        IN IF ~ canBeAcquired(an.members[i].type) THEN state
           ELSE EmitAnyway([state EXCEPT !.lv[r].type = an.members[i].type, !.lv[r].member = 2],
                           << FieldGet(r, 2), Unref(r, an.members[i].type) >>)
  IN FoldLeft(dispose, user, [i \in DOMAIN an.members |-> i])

(* The members are copied one by one, then the user's copy is called.      *)
MembersClone(an) ==
  LET more  == IF an.userfunc = NoFunc THEN 0 ELSE 1
      first == FirstCreated(an)
      made  == CreateLocalVariables(an, 2 * Len(an.members) + more)
      clone(state, i) ==
        LET rhs    == first + i - 1 + Objects(an, i - 1)
            lhs    == rhs + 1
            type   == an.members[i].type
            given == [state EXCEPT !.lv[lhs].type = type, !.lv[rhs].type = type,
                                    !.lv[rhs].member = 2,
                                    !.lv[lhs].ref = an.members[i].ref,
                                    !.lv[rhs].ref = an.members[i].ref]
            copied == InstanciateAssignment(EmitAnyway(given, << FieldGet(rhs, 3) >>),
                                            lhs, rhs, FALSE, TRUE, FALSE)
        IN IF canBeAcquired(type)
           THEN [EmitAnyway(copied, << FieldSet(lhs, 2) >>) EXCEPT !.lv[lhs].autorelease = FALSE]
           ELSE EmitAnyway(state, << FieldGet(rhs, 3), FieldSet(rhs, 2) >>)
      cloned == FoldLeft(clone, made, [i \in DOMAIN an.members |-> i])
  IN IF more = 0 THEN cloned
     ELSE EmitAnyway(cloned, << Push(2), Push(3), CallTo(first + Len(an.members) + Objects(an, Len(an.members)), an.userfunc) >>)

VisitBodyStart(an, opc) ==
  LET params == [i \in DOMAIN an.params |-> i + 1]
      ready  == FoldLeft(CloneParameter, an, params)
  IN CASE an.special = "init"    -> MembersInit(ready)
       [] an.special = "release" -> MembersDispose(ready)
       [] an.special = "clone"   -> MembersClone(ready)
       [] OTHER                  -> ready

-----------------------------------------------------------------------------
(* The whole function.                                                     *)

Visit(an, opc) ==
  CASE opc.op = "scope"         -> VisitScope(an, opc)
    [] opc.op = "end"           -> VisitEnd(an, opc)
    [] opc.op = "stackalloc"    -> VisitStackAlloc(an, opc)
    [] opc.op = "namealias"     -> VisitNameAlias(an, opc)
    [] opc.op = "identify"      -> VisitIdentify(an, opc)
    [] opc.op = "push"          -> VisitPush(an, opc)
    [] opc.op = "call"          -> VisitCall(an, opc)
    [] opc.op = "jzraise"       -> VisitJzRaise(an, opc)
    [] opc.op = "raise"         -> VisitRaise(an, opc)
    [] opc.op = "onscopefail"   -> VisitOnScopeFail(an, opc)
    [] opc.op = "ref"           -> VisitRef(an, opc)
    [] opc.op = "unref"         -> VisitUnref(an, opc)
    [] opc.op = "assign"        -> VisitAssign(an, opc)
    [] opc.op = "store"         -> VisitStore(an, opc)
    [] opc.op = "constant"      -> VisitStoreConstant(an, opc)
    [] opc.op = "text"          -> VisitStoreText(an, opc)
    [] opc.op = "intrinsic"     -> VisitIntrinsic(an, opc)
    [] opc.op = "ensureresolved" -> VisitEnsureResolved(an, opc)
    [] opc.op = "follow"        -> VisitFollow(an, opc)
    [] opc.op = "ref qualifier" -> VisitQualifierRef(an, opc)
    [] opc.op = "self"          -> VisitSelf(an, opc)
    [] opc.op = "allocate"      -> VisitAllocate(an, opc)
    [] opc.op = "label"         -> VisitLabel(an, opc)
    [] opc.op \in {"jmp", "jz", "jnz"} -> VisitJump(an, opc)
    [] opc.op = "nop"           -> VisitNop(an, opc)
    [] opc.op = "ret"           -> VisitRet(an, opc)
    [] opc.op = "codegen"       -> VisitCodegen(an, opc)
    [] opc.op = "synthetic"     -> VisitSynthetic(an, opc)
    [] opc.op = "shortcircuit"  -> VisitShortCircuit(an, opc)
    [] opc.op = "mutate to bool" -> VisitMutateToBool(an, opc)
    [] opc.op = "bodystart"     -> VisitBodyStart(an, opc)

(* The frame of a function: register 1 is its result, the next ones are    *)
(* its parameters, which the caller releases.                              *)
Start(fn, lib) ==
  LET given(i) ==
        IF i = 1 THEN [Register EXCEPT !.type = fn.ret.type, !.ref = fn.ret.ref]
        ELSE IF i - 1 \in DOMAIN fn.params
        THEN [Register EXCEPT !.type = fn.params[i - 1].type, !.ref = fn.params[i - 1].ref,
                              !.name = fn.params[i - 1].name, !.scope = 0,
                              !.synthetic = FALSE]
        ELSE Register
  IN [lib |-> lib, lv |-> [i \in 1 .. fn.stacksize - 1 |-> given(i)],
      params |-> fn.params, class |-> fn.class, members |-> fn.members,
      special |-> fn.special, userfunc |-> fn.userfunc, isdtor |-> fn.isdtor,
      scope |-> 0, lock |-> 0, handlers |-> << >>, anyHandler |-> NoHandler,
      pushed |-> << >>, shortcircuit |-> [label |-> 0, compareTo |-> FALSE],
      raises |-> {}, out |-> << >>, ok |-> TRUE]

(* translateOpcodes.                                                       *)
Analyze(fn, lib) == FoldLeft(Visit, Start(fn, lib), fn.body)
=============================================================================
