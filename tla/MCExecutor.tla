----------------------------- MODULE MCExecutor -----------------------------
(***************************************************************************)
(* Programs for the interpreter.  ControlPrograms are all the functions of *)
(* a few instructions with strictly ordered labels, whether the compiler   *)
(* would emit them or not, with some odd ones for the error paths.         *)
(* ErrorPrograms are written the way the compiler emits raise, calls,      *)
(* handlers and scopes (pass/c-ast2ir, semantic/opcode-*.cpp).             *)
(***************************************************************************)
EXTENDS Executor, SequencesExt, TLC

(* Instructions by what they do.                                           *)
I(op, r, arg, l, c) == Instruction(op, r, arg, NoFunc, l, c)
Mark(l)         == I("label", 0, 0, l, 0)
Goto(l)         == I("jmp", 0, 0, l, 0)
IfZero(r, l)    == I("jz", r, r, l, 0)
IfNot0(r, l)    == I("jnz", r, r, l, 0)
Hold(r)         == I("ref", r, 0, 0, 0)
Release(r, c)   == I("unref", r, 0, 0, c)
Create(r, c)    == << I("memalloc", r, 0, 0, c), Hold(r) >>
Put(r, self)    == I("fieldset", r, self, 0, 0)
Fetch(r, self)  == I("fieldget", r, self, 0, 0)
Copy(r, from)   == I("store", r, from, 0, 0)
Load(r, v)      == I("constant", r, v, 0, 0)
Unknown(r)      == I("compute", r, 0, 0, 0)
Native(r)       == I("intrinsic", r, 0, 0, 0)
Check(r)        == I("opassert", r, 0, 0, 0)
Pass(r)         == I("push", r, 0, 0, 0)
CallTo(r, f)    == Instruction("call", r, 0, f, 0, 0)
Give(r)         == I("ret", r, 0, 0, 0)
UnlessRaised(l) == I("jzraise", 0, 0, l, 0)
OnError(c, l)   == I("jmperrhandler", 0, 0, l, c)
Throws(r, c, l) == I("raise", r, 0, l, c)

Fn(size, instrs) == [framesize |-> size, code |-> instrs]

(* Classes: two of errors, one of plain objects, one whose member is an    *)
(* object, and, for the odd programs, one without a destructor.            *)
E1 == 1
E2 == 2
X  == 3
Y  == 4
Z  == 5

Dtors == (E1 :> "dispose") @@ (E2 :> "dispose") @@ (X :> "dispose")
           @@ (Y :> "disposeMember") @@ (Z :> NoFunc)

(* `operator dispose' of a class, and of one with a member of class X.     *)
Dispose == ("dispose" :> Fn(3, << >>))
  @@ ("disposeMember" :> Fn(5, << Fetch(3, 2), Release(3, X), Give(0) >>))

Program(main, others) ==
  [entry |-> "main", func |-> ("main" :> main) @@ others @@ Dispose, dtor |-> Dtors]

-----------------------------------------------------------------------------
(* Error handling as it is compiled.                                       *)

(* func f { raise new E }                                                  *)
Raises(c) == Fn(4, Create(3, c) \o << Hold(3), Release(3, c), Throws(3, c, 0) >>)

(* func f { if ... then raise new E }                                      *)
MayRaise(c) ==
  Fn(6, << Unknown(3), IfZero(3, 4) >> \o Create(5, c)
          \o << Hold(5), Release(5, c), Throws(5, c, 0), Mark(4), Give(0) >>)

(* func f { if ... then raise new E1; raise new E2 }                       *)
RaisesOneOf ==
  Fn(7, << Unknown(3), IfZero(3, 4) >> \o Create(5, E1)
          \o << Hold(5), Release(5, E1), Throws(5, E1, 0), Mark(4) >>
          \o Create(6, E2) \o << Hold(6), Release(6, E2), Throws(6, E2, 0) >>)

(* func g { var y = new Y; f() }                                           *)
PassesOn(f) ==
  Fn(7, Create(3, Y) \o Create(6, X)
          \o << Put(6, 3), CallTo(4, f), UnlessRaised(5),
                Release(3, Y), Give(0), Mark(5), Release(3, Y), Give(0) >>)

(* on scope fail (e: E) { }  { var x = new X; f() }                        *)
Catches(c, f) ==
  Fn(9, << Goto(5), Mark(3), Release(4, c), Goto(8), Mark(5) >> \o Create(6, X)
          \o << CallTo(0, f), UnlessRaised(7), Release(6, X), OnError(c, 3),
                Mark(7), Release(6, X), Mark(8), Give(0) >>)

(* on scope fail { }  { var x = new X; f() }                               *)
CatchesAny(f) ==
  Fn(9, << Goto(5), Mark(3), Goto(8), Mark(5) >> \o Create(6, X)
          \o << CallTo(0, f), UnlessRaised(7), Release(6, X), OnError(0, 3),
                Mark(7), Release(6, X), Mark(8), Give(0) >>)

(* on scope fail (e: E1) { }  on scope fail (e: E2) { }  f()               *)
CatchesBoth(f) ==
  Fn(11, << Goto(5), Mark(3), Release(4, E1), Goto(10), Mark(5),
            Goto(8), Mark(6), Release(7, E2), Goto(10), Mark(8),
            CallTo(0, f), UnlessRaised(9), OnError(E1, 3), OnError(E2, 6),
            Mark(9), Mark(10), Give(0) >>)

(* on scope fail (e: E) { }  { raise new E }                               *)
RaisesLocally(c) ==
  Fn(8, << Goto(5), Mark(3), Release(4, c), Goto(7), Mark(5) >> \o Create(6, c)
          \o << Hold(6), Release(6, c), Throws(6, c, 3), Mark(7), Give(0) >>)

(* on scope fail { }  { raise new E }: no reference is taken.              *)
RaisesLocallyToAny(c) ==
  Fn(8, << Goto(5), Mark(3), Goto(7), Mark(5) >> \o Create(6, c)
          \o << Release(6, c), Throws(6, c, 3), Mark(7), Give(0) >>)

(* func f: X { return new X }   func main { var x = f(); g(x); assert(..) }*)
Returns == Fn(4, Create(3, X) \o << Hold(3), Release(3, X), Give(3) >>)
Uses    == Fn(4, << Hold(2), Native(3), Release(2, X), Give(0) >>)

ErrorPrograms ==
  { Program(Catches(E1, "f"), "f" :> Raises(E1)),
    Program(Catches(E1, "f"), "f" :> MayRaise(E1)),
    Program(Catches(E1, "g"), ("g" :> PassesOn("f")) @@ ("f" :> MayRaise(E1))),
    Program(CatchesAny("g"), ("g" :> PassesOn("f")) @@ ("f" :> RaisesOneOf)),
    Program(CatchesBoth("g"), ("g" :> PassesOn("f")) @@ ("f" :> RaisesOneOf)),
    Program(CatchesBoth("f"), "f" :> RaisesLocally(E1)),
    Program(Catches(E2, "g"),
            ("g" :> PassesOn("h")) @@ ("h" :> PassesOn("f")) @@ ("f" :> MayRaise(E2))),
    Program(RaisesLocally(E1), << >>),
    Program(RaisesLocallyToAny(E1), << >>),
    Program(Fn(8, << CallTo(3, "f"), UnlessRaised(4), Give(0), Mark(4), Pass(3),
                     CallTo(5, "g"), UnlessRaised(6), Release(3, X), Give(0), Mark(6),
                     Unknown(7), Check(7), Release(3, X), Give(0) >>),
            ("f" :> Returns) @@ ("g" :> Uses)) }

(* class X { operator dispose { h() } }, where h catches whatever k may    *)
(* raise: it runs while another error goes through main.                   *)
DtorWithHandler ==
  [entry |-> "main",
   func  |-> ("main" :> Catches(E1, "f")) @@ ("f" :> Raises(E1))
          @@ ("disposeX" :> Fn(5, << Pass(2), CallTo(3, "user"), Give(0) >>))
          @@ ("user" :> Fn(5, << CallTo(3, "h"), UnlessRaised(4), Give(0), Mark(4),
                                 Give(0) >>))
          @@ ("h" :> Fn(8, << Goto(5), Mark(3), Goto(7), Mark(5), CallTo(0, "k"),
                              UnlessRaised(6), OnError(0, 3), Mark(6), Mark(7),
                              Give(0) >>))
          @@ ("k" :> MayRaise(E2)) @@ Dispose,
   dtor  |-> (X :> "disposeX") @@ Dtors]

DtorPrograms == {DtorWithHandler}

Addresses == Permutations(Obj)

-----------------------------------------------------------------------------
(* Any control flow.  A shape is a function whose labels are not numbered  *)
(* yet: its k-th label gets the id 2k, and `to' names the k-th label.      *)
CONSTANT Length      \* the number of instructions of a shape

Step(op, to) == [op |-> op, to |-> to]

Steps == {Step(op, 0) : op \in {"label", "call", "unref", "ret", "raise"}}
  \cup {Step(op, to) : op \in {"jmp", "jz", "jzraise"}, to \in 1 .. 2}
  \cup {Step(op, 1) : op \in {"jnz", "jmperrhandler", "raise"}}

Shapes ==
  {shape \in [1 .. Length -> Steps] :
     \A p \in 1 .. Length :
       shape[p].to <= Cardinality({q \in 1 .. Length : shape[q].op = "label"})}

Numbered(shape) ==
  [p \in 1 .. Length |->
     CASE shape[p].op = "label" ->
            Mark(2 * Cardinality({q \in 1 .. p : shape[q].op = "label"}))
       [] shape[p].op = "call"          -> CallTo(3, "callee")
       [] shape[p].op = "unref"         -> Release(2, E1)
       [] shape[p].op = "ret"           -> Give(2)
       [] shape[p].op = "raise"         -> Throws(2, E1, 2 * shape[p].to)
       [] shape[p].op = "jmperrhandler" -> OnError(0, 2 * shape[p].to)
       [] OTHER -> I(shape[p].op, 2, 2, 2 * shape[p].to, 0)]

(* What they call, and their destructor, have labels of their own.         *)
WithLabels ==
  Fn(6, << Unknown(3), IfZero(3, 4), Mark(3), Goto(5), Mark(4), IfNot0(3, 3), Mark(5) >>)

ControlProgram(shape) ==
  [entry |-> "main",
   func  |-> ("main" :> Fn(6, Create(2, E1) \o Numbered(shape)))
          @@ ("callee" :> WithLabels) @@ ("dispose" :> WithLabels),
   dtor  |-> E1 :> "dispose"]

(* Ends of the interpreter the compiler keeps its programs from.           *)
OddPrograms ==
  { Program(Fn(6, Create(3, Z) \o << Throws(3, Z, 2), Mark(2), OnError(0, 2) >>), << >>),
    Program(Fn(6, << Fetch(3, 2) >>), << >>),
    Program(Fn(6, Create(2, Z) \o << Copy(3, 2), Load(4, 1), Put(3, 4), Check(4),
                                     Load(4, 0), Release(2, X) >>), << >>) }

ControlPrograms ==
  {ControlProgram(shape) : shape \in Shapes} \cup OddPrograms
    \cup ErrorPrograms \cup DtorPrograms
=============================================================================
